-------------------------- MODULE DataStreamsProofs --------------------------
(***************************************************************************)
(* A data stream from end to end, for any number of threads that write and *)
(* close it, any texts and any size of chunks: what is on the wire, and    *)
(* that the reader at the other end gets it.                               *)
(***************************************************************************)
EXTENDS RoomDataStreams, FiniteSetTheorems, WellFoundedInduction, TLAPS

-----------------------------------------------------------------------------
(* Counting chunks *)

LEMMA ChunksInFacts ==
  ASSUME NEW w, NEW k \in Nat
  PROVE  IsFiniteSet({p \in 1 .. k : IsChunk(w[p])}) /\ ChunksIn(w, k) \in Nat
<1>1. IsFiniteSet(1 .. k)
  BY FS_Interval
<1>2. IsFiniteSet({p \in 1 .. k : IsChunk(w[p])})
  BY <1>1, FS_Subset
<1> QED
  BY <1>2, FS_CardinalityType DEF ChunksIn

LEMMA NoChunksAtFirst ==
  ASSUME NEW w
  PROVE  ChunksIn(w, 0) = 0
<1>1. {p \in 1 .. 0 : IsChunk(w[p])} = {}
  OBVIOUS
<1> QED
  BY <1>1, FS_EmptySet DEF ChunksIn

\* A message adds one to the count if it is a chunk.
LEMMA ChunksInStep ==
  ASSUME NEW w, NEW k \in Nat
  PROVE  ChunksIn(w, k + 1) = IF IsChunk(w[k + 1]) THEN ChunksIn(w, k) + 1 ELSE ChunksIn(w, k)
<1> DEFINE S == {p \in 1 .. k : IsChunk(w[p])}
<1>1. CASE IsChunk(w[k + 1])
  <2>1. {p \in 1 .. k + 1 : IsChunk(w[p])} = S \cup {k + 1}
    BY <1>1
  <2>2. k + 1 \notin S
    OBVIOUS
  <2>3. IsFiniteSet(S)
    BY ChunksInFacts
  <2>4. Cardinality(S \cup {k + 1}) = Cardinality(S) + 1
    BY <2>2, <2>3, FS_AddElement
  <2> QED
    BY <1>1, <2>1, <2>4 DEF ChunksIn
<1>2. CASE ~IsChunk(w[k + 1])
  <2>1. {p \in 1 .. k + 1 : IsChunk(w[p])} = S
    BY <1>2
  <2> QED
    BY <1>2, <2>1 DEF ChunksIn
<1> QED
  BY <1>1, <1>2

LEMMA ChunksInMonotone ==
  ASSUME NEW w, NEW j \in Nat, NEW k \in Nat, j <= k
  PROVE  ChunksIn(w, j) <= ChunksIn(w, k)
<1>1. {p \in 1 .. j : IsChunk(w[p])} \subseteq {p \in 1 .. k : IsChunk(w[p])}
  OBVIOUS
<1>2. IsFiniteSet({p \in 1 .. k : IsChunk(w[p])})
  BY ChunksInFacts
<1> QED
  BY <1>1, <1>2, FS_Subset DEF ChunksIn

\* A chunk is itself among those that are counted.
LEMMA ChunkIsCounted ==
  ASSUME NEW w, NEW k \in Nat, NEW p \in 1 .. k, IsChunk(w[p])
  PROVE  ChunksIn(w, p) \in 1 .. ChunksIn(w, k)
<1>1. p - 1 \in Nat /\ (p - 1) + 1 = p
  OBVIOUS
<1>2. ChunksIn(w, p) = ChunksIn(w, p - 1) + 1
  <2>1. ChunksIn(w, (p - 1) + 1) = ChunksIn(w, p - 1) + 1
    BY <1>1, ChunksInStep
  <2> QED
    BY <1>1, <2>1
<1>3. ChunksIn(w, p) <= ChunksIn(w, k)
  BY ChunksInMonotone
<1>4. ChunksIn(w, p - 1) \in Nat /\ ChunksIn(w, k) \in Nat
  BY <1>1, ChunksInFacts
<1> QED
  BY <1>2, <1>3, <1>4

\* What comes later on the wire does not matter.
LEMMA ChunksInLonger ==
  ASSUME NEW w, NEW v, NEW k \in Nat, \A p \in 1 .. k : v[p] = w[p]
  PROVE  ChunksIn(v, k) = ChunksIn(w, k)
<1>1. {p \in 1 .. k : IsChunk(v[p])} = {p \in 1 .. k : IsChunk(w[p])}
  OBVIOUS
<1> QED
  BY <1>1 DEF ChunksIn

LEMMA HasChunksLonger ==
  ASSUME NEW w, NEW v, NEW k \in Nat, \A p \in 1 .. k : v[p] = w[p],
         NEW s, HasChunks(s, w, k)
  PROVE  HasChunks(s, v, k)
<1>1. ChunksIn(v, k) = ChunksIn(w, k)
  BY ChunksInLonger
<1>2. \A p \in 1 .. k : ChunksIn(v, p) = ChunksIn(w, p)
  <2> TAKE p \in 1 .. k
  <2> QED
    BY ChunksInLonger
<1> QED
  BY <1>1, <1>2 DEF HasChunks

LEMMA HasNoChunks ==
  ASSUME NEW w
  PROVE  HasChunks(<< >>, w, 0)
  BY NoChunksAtFirst DEF HasChunks

\* The next message is no chunk.
LEMMA HasChunksSkip ==
  ASSUME NEW w, NEW k \in Nat, NEW s, HasChunks(s, w, k), ~IsChunk(w[k + 1])
  PROVE  HasChunks(s, w, k + 1)
<1>1. ChunksIn(w, k + 1) = ChunksIn(w, k)
  BY ChunksInStep
<1> QED
  BY <1>1 DEF HasChunks

\* The next message is a chunk, and put at the end.
LEMMA HasChunksAppend ==
  ASSUME NEW M, NEW w, NEW k \in Nat, NEW s \in Seq(M), HasChunks(s, w, k), IsChunk(w[k + 1]), w[k + 1] \in M
  PROVE  HasChunks(Append(s, w[k + 1]), w, k + 1)
<1>1. ChunksIn(w, k + 1) = ChunksIn(w, k) + 1 /\ ChunksIn(w, k) = Len(s)
  BY ChunksInStep DEF HasChunks
<1>2. ASSUME NEW p \in 1 .. k + 1, IsChunk(w[p])
      PROVE  Append(s, w[k + 1])[ChunksIn(w, p)] = w[p]
  <2>1. CASE p = k + 1
    BY <1>1, <2>1
  <2>2. CASE p \in 1 .. k
    <3>1. ChunksIn(w, p) \in 1 .. Len(s)
      BY <1>1, <1>2, <2>2, ChunkIsCounted
    <3>2. s[ChunksIn(w, p)] = w[p]
      BY <1>2, <2>2 DEF HasChunks
    <3> QED
      BY <3>1, <3>2
  <2>3. p = k + 1 \/ p \in 1 .. k
    OBVIOUS
  <2> QED
    BY <2>1, <2>2, <2>3
<1>3. Len(Append(s, w[k + 1])) = ChunksIn(w, k + 1)
  BY <1>1
<1> QED
  BY <1>2, <1>3 DEF HasChunks

-----------------------------------------------------------------------------
(* Cutting *)

\* A set of numbers up to n that is not empty has a greatest.
LEMMA GreatestElement ==
  ASSUME NEW n \in Nat, NEW S \in SUBSET (0 .. n), S # {}
  PROVE  Max(S) \in S /\ \A e \in S : e <= Max(S)
<1> DEFINE R == {ss \in Nat \X Nat : ss[1] < ss[2]}
           T == {n - e : e \in S}
<1>1. IsWellFoundedOn(R, Nat)
  BY NatLessThanWellFounded DEF OpToRel
<1>2. T \subseteq Nat /\ T # {}
  <2>1. \A e \in S : e \in Nat /\ e <= n /\ n - e \in Nat
    OBVIOUS
  <2>2. T # {}
    <3>1. PICK e \in S : TRUE
      OBVIOUS
    <3>2. n - e \in T
      OBVIOUS
    <3> QED
      BY <3>2, Zenon
  <2>3. T \subseteq Nat
    BY <2>1
  <2> QED
    BY <2>2, <2>3
<1>3. \A x, y \in Nat : <<y, x>> \in R <=> y < x
  OBVIOUS
<1> HIDE DEF R
<1>4. PICK x \in T : \A y \in T : ~(<<y, x>> \in R)
  BY <1>1, <1>2, WFMin
<1>5. PICK e \in S : x = n - e
  OBVIOUS
<1>6. \A f \in S : e >= f
  <2> TAKE f \in S
  <2>1. n - f \in T /\ n - f \in Nat /\ x \in Nat
    BY <1>2
  <2>2. ~(n - f < x)
    BY <1>3, <1>4, <2>1
  <2>3. e \in 0 .. n /\ f \in 0 .. n
    OBVIOUS
  <2> QED
    BY <1>5, <2>2, <2>3
<1>7. Max(S) \in S /\ \A y \in S : Max(S) >= y
  BY <1>6 DEF Max
<1> QED
  BY <1>7

\* A piece is not empty and not longer than a chunk, and it breaks no code point unless it comes
\* to the end of a text whose last code point has several bytes.  In the middle of the text it is the assumption
\* that a code point fits into a chunk that lets the cut move back without coming back to where it began.
LEMMA CutFacts ==
  ASSUME NEW t \in Texts, NEW i \in Nat, i < Len(t)
  PROVE  /\ Cut(t, i) \in Nat /\ i < Cut(t, i) /\ Cut(t, i) <= Len(t) /\ Cut(t, i) <= i + kStreamChunkSize
         /\ i + kStreamChunkSize < Len(t) \/ t[Len(t)] = "lead" => BreaksNone(t, Cut(t, i))
<1> DEFINE end == Least(i + kStreamChunkSize, Len(t))
           S == {e \in i .. end : e = i \/ t[e + 1] = "lead"}
<1>1. t \in Seq({"lead", "cont"}) /\ kStreamChunkSize \in Nat \ {0} /\ Len(t) \in Nat
  BY WriterAssumption
<1>2. end \in Nat /\ i < end /\ end <= Len(t) /\ end <= i + kStreamChunkSize
  BY <1>1 DEF Least
<1>3. CASE end < Len(t)
  <2>1. end = i + kStreamChunkSize
    BY <1>1, <1>3 DEF Least
  <2>2. end + 1 \in DOMAIN t
    BY <1>1, <1>2, <1>3
  <2>3. PICK j \in CodePointStarts(t) : j <= end + 1 /\ end + 1 < j + kStreamChunkSize
    BY <2>2, WriterAssumption
  <2>4. j \in Nat /\ t[j] = "lead"
    BY <1>1 DEF CodePointStarts
  <2>5. j - 1 \in i .. end /\ j - 1 > i /\ (j - 1) + 1 = j
    BY <1>1, <1>2, <2>1, <2>3, <2>4
  <2>6. j - 1 \in S
    BY <2>4, <2>5
  <2>7. S \in SUBSET (0 .. end) /\ S # {}
    BY <1>2, <2>6
  <2> HIDE DEF S
  <2>8. Max(S) \in S /\ \A e \in S : e <= Max(S)
    BY <1>2, <2>7, GreatestElement
  <2> USE DEF S
  <2>9. Max(S) \in Nat /\ i < Max(S) /\ Max(S) <= end /\ t[Max(S) + 1] = "lead"
    BY <1>2, <2>5, <2>6, <2>8
  <2>10. Cut(t, i) = Max(S)
    BY <1>3, <2>9 DEF Cut
  <2> QED
    BY <1>1, <1>2, <2>9, <2>10 DEF BreaksNone
<1>4. CASE ~(end < Len(t))
  <2>1. end = Len(t)
    BY <1>2, <1>4, <1>1
  <2>2. Cut(t, i) = end \/ (Cut(t, i) = end - 1 /\ Cut(t, i) # i /\ t[end] = "cont")
    BY <1>2, <1>4 DEF Cut
  <2>3. ~(i + kStreamChunkSize < Len(t))
    BY <1>1, <2>1 DEF Least
  <2> QED
    BY <1>1, <1>2, <2>1, <2>2, <2>3 DEF BreaksNone
<1> QED
  BY <1>3, <1>4

-----------------------------------------------------------------------------
(* The writer *)

Writing == {"piece", "header", "chunk"}
Places == {"idle", "closing", "close_header", "trailer"} \cup Writing

ChunkMessage == [type : {"chunk"}, index : Nat, write : Nat, from : Nat, to : Nat]
Message == {Header, Trailer} \cup ChunkMessage

WriterTypeOK ==
  /\ closed \in BOOLEAN /\ header_sent \in BOOLEAN /\ failed \in BOOLEAN /\ overlapped \in BOOLEAN
  /\ next_chunk_index \in Nat
  /\ write_mutex \in SUBSET Callers
  /\ step \in [Callers -> Places] /\ offset \in [Callers -> Nat]
  /\ writes \in Seq(Texts) /\ wire \in Seq(Message)

\* One call at a time writes, and it is about the last text.
MutexInv ==
  /\ \A c \in Callers : c \in write_mutex <=> step[c] \in Writing
  /\ \A c, d \in write_mutex : c = d
  /\ \A c \in Callers : step[c] \in Writing => writes # << >>
  /\ \A c \in Callers : step[c] \in Writing => offset[c] <= Len(Text)
  /\ \A c \in Callers : step[c] \in {"header", "chunk"} => offset[c] < Len(Text)
  /\ \A c \in Callers : step[c] \notin Writing => offset[c] = 0

\* Nothing is sent before the header.
HeaderInv ==
  /\ \A c \in Callers : step[c] \in {"chunk", "trailer"} => header_sent
  /\ header_sent <=> wire # << >>
  /\ wire # << >> => wire[1] = Header
  /\ wire # << >> => Callers # {}

\* The index of a chunk that is being sent is still free.
IndicesUsed ==
  /\ \A k \in DOMAIN wire : IsChunk(wire[k]) => wire[k].index < next_chunk_index
  /\ \A c \in Callers : step[c] = "chunk" => 0 < next_chunk_index
  /\ \A c \in Callers : step[c] = "chunk" =>
       \A k \in DOMAIN wire : IsChunk(wire[k]) => wire[k].index + 1 < next_chunk_index

WritesKnown == \A k \in DOMAIN wire : IsChunk(wire[k]) => wire[k].write \in 1 .. Len(writes)

LastChunk(k) == IsChunk(wire[k]) /\ \A m \in k + 1 .. Len(wire) : ~IsChunk(wire[m])

\* The last chunk is the one before that at which the current write is, if it has sent one.
LastPiece ==
  /\ \A c \in Callers : step[c] \in Writing /\ offset[c] = 0 =>
       \A k \in DOMAIN wire : IsChunk(wire[k]) => wire[k].write < Len(writes)
  /\ \A c \in Callers : step[c] \in Writing /\ offset[c] > 0 =>
       \E k \in DOMAIN wire : LastChunk(k) /\ wire[k].write = Len(writes) /\ wire[k].to = offset[c]

\* The last piece of the w-th text has been sent.
Sent(w) == \E k \in DOMAIN wire : IsChunk(wire[k]) /\ wire[k].write = w /\ wire[k].to = Len(writes[w])

\* If nothing failed, the texts have been sent, except the one that is being written.
WritesKept ==
  ~failed => \A w \in DOMAIN writes : writes[w] # << >> => Sent(w) \/ (w = Len(writes) /\ write_mutex # {})

\* Without an overlap, a call of close() is alone, and the trailer was its last act.
CloseInv ==
  /\ \A c \in Callers : step[c] \in {"close_header", "trailer"} => closed
  /\ ~overlapped => \A c, d \in Callers : Closing(c) /\ c # d => Idle(d)
  /\ ~overlapped => \A c \in Callers : step[c] \in {"header", "close_header"} => ~header_sent
  /\ ~overlapped => \A k \in DOMAIN wire : wire[k] = Header => k = 1
  /\ ~overlapped => \A k \in DOMAIN wire : wire[k] = Trailer => k = Len(wire) /\ closed /\ \A c \in Callers : Idle(c)

WriterInv ==
  /\ WriterTypeOK /\ MutexInv /\ HeaderInv /\ IndicesUsed /\ WritesKnown /\ LastPiece /\ WritesKept /\ CloseInv
  /\ WritesInOrder /\ PiecesWellCut

-----------------------------------------------------------------------------
(* The receiver *)

\* How many messages have been handled.
Handled == IF at = "idle" THEN delivered ELSE delivered - 1

Got == read[1] \o queue[1]

ReceiverTypeOK ==
  /\ at \in {"idle", "check", "handle", "callback"} /\ room_state \in {"connected", "released"}
  /\ delivered \in 0 .. Len(wire) /\ created \in 0 .. 1
  /\ stream_readers \in 0 .. created /\ target \in 0 .. created
  /\ queue \in [Readers -> Seq(Message)] /\ read \in [Readers -> Seq(Message)]
  /\ reader_closed \in [Readers -> BOOLEAN] /\ ended \in SUBSET Readers

\* Messages are handled one after the other, and the header creates the only reader.
EventInv ==
  /\ at # "idle" => 0 < delivered
  /\ at # "idle" => event.what = delivered
  /\ at # "idle" => event.kind = wire[delivered].type
  /\ at = "callback" => target = 1
  /\ created = 1 => 0 < delivered /\ 1 \in Readers
  /\ created = 1 /\ delivered = 1 => at \in {"idle", "callback"}
  /\ at = "check" /\ room_state # "connected" => stream_readers = None

\* The reader has the chunks handled so far, as long as it is in the map, and all when it is closed.
ReaderInv ==
  /\ created = 0 /\ 1 \in Readers => read[1] = << >> /\ queue[1] = << >> /\ ~reader_closed[1] /\ 1 \notin ended
  /\ created = 1 => \E k \in 0 .. Handled : HasChunks(Got, wire, k)
  /\ created = 1 /\ (stream_readers = 1 \/ at = "callback" \/ reader_closed[1]) => HasChunks(Got, wire, Handled)
  /\ created = 1 /\ reader_closed[1] => at = "idle" /\ delivered = Len(wire) /\ wire[delivered] = Trailer
  /\ created = 1 /\ 1 \in ended => reader_closed[1] /\ queue[1] = << >>

ReceiverInv == ~overlapped => ReceiverTypeOK /\ EventInv /\ ReaderInv
StreamsInv == WriterInv /\ ReceiverInv

LEMMA ChunkTypes ==
  ASSUME WriterInv
  PROVE  \A k \in DOMAIN wire : IsChunk(wire[k]) =>
           wire[k].index \in Nat /\ wire[k].write \in Nat /\ wire[k].from \in Nat /\ wire[k].to \in Nat
<1>1. \A k \in DOMAIN wire : wire[k] \in Message
  BY DEF WriterInv, WriterTypeOK
<1>2. Header.type # "chunk" /\ Trailer.type # "chunk"
  BY DEF Header, Trailer
<1>3. \A k \in DOMAIN wire : IsChunk(wire[k]) => wire[k] \in ChunkMessage
  BY <1>1, <1>2 DEF Message, IsChunk
<1> QED
  BY <1>3 DEF ChunkMessage

\* The steps of the writer keep the invariant.

LEMMA WriteLockKeeps ==
  ASSUME WriterInv, NEW c \in Callers, NEW t \in Texts, WriteLock(c, t)
  PROVE  WriterInv'
<1> USE DEF WriterInv
<1>1. /\ step'[c] = "piece" /\ step' \in [Callers -> Places]
      /\ \A d \in Callers : d # c => step'[d] = step[d]
  BY DEF WriteLock, Goes, WriterTypeOK, Places, Writing
<1>2. step[c] = "idle" /\ ~closed /\ write_mutex = {} /\ write_mutex' = {c} /\ writes' = Append(writes, t)
  BY DEF WriteLock, Idle
<1>3. /\ closed' = closed /\ header_sent' = header_sent /\ next_chunk_index' = next_chunk_index /\ offset' = offset
      /\ wire' = wire /\ failed' = failed
  BY DEF WriteLock
<1>4. overlapped' = (overlapped \/ \E d \in Callers : Closing(d))
  BY DEF WriteLock
<1>5. /\ Len(writes) \in Nat /\ Len(writes') = Len(writes) + 1 /\ writes' \in Seq(Texts) /\ writes'[Len(writes')] = t
      /\ \A w \in DOMAIN writes : writes'[w] = writes[w] /\ w \in 1 .. Len(writes)
      /\ DOMAIN writes' = 1 .. Len(writes) + 1 /\ DOMAIN writes = 1 .. Len(writes) /\ Len(t) \in Nat
  BY <1>2, WriterAssumption DEF WriterTypeOK
<1>6. \A d \in Callers : step[d] \notin Writing
  BY <1>2 DEF MutexInv
<1>7. offset[c] = 0
  BY <1>6 DEF MutexInv
<1>8. \A k \in DOMAIN wire : IsChunk(wire[k]) => wire[k].write \in DOMAIN writes /\ wire[k].write < Len(writes')
  BY <1>5 DEF WritesKnown
<1>9. WriterTypeOK'
  BY <1>1, <1>2, <1>3, <1>4, <1>5, <1>6, <1>7, <1>8 DEF WriterTypeOK
<1>10. MutexInv'
  BY <1>1, <1>2, <1>3, <1>4, <1>5, <1>6, <1>7, <1>8 DEF MutexInv, Writing, Text
<1>11. HeaderInv'
  BY <1>1, <1>2, <1>3, <1>4, <1>5, <1>6, <1>7, <1>8 DEF HeaderInv
<1>12. IndicesUsed'
  BY <1>1, <1>2, <1>3, <1>4, <1>5, <1>6, <1>7, <1>8 DEF IndicesUsed
<1>13. WritesKnown'
  BY <1>1, <1>2, <1>3, <1>4, <1>5, <1>6, <1>7, <1>8 DEF WritesKnown
<1>14. LastPiece'
  BY <1>1, <1>3, <1>6, <1>7, <1>8 DEF LastPiece
<1>15. WritesKept'
  BY <1>1, <1>2, <1>3, <1>4, <1>5, <1>6, <1>7, <1>8 DEF WritesKept, Sent
<1>16. CloseInv'
  BY <1>1, <1>2, <1>3, <1>4, <1>5, <1>6, <1>7, <1>8 DEF CloseInv, Closing, Idle
<1>17. WritesInOrder'
  BY <1>1, <1>2, <1>3, <1>4, <1>5, <1>6, <1>7, <1>8 DEF WritesInOrder, Follows
<1>18. PiecesWellCut'
  <2> SUFFICES ASSUME NEW k \in DOMAIN wire, IsChunk(wire[k])
               PROVE  LET p == wire[k]  s == writes'[p.write] IN
                      /\ p.from < p.to /\ p.to <= p.from + kStreamChunkSize
                      /\ p.from + kStreamChunkSize < Len(s) \/ s[Len(s)] = "lead" => BreaksNone(s, p.to)
    BY <1>3 DEF PiecesWellCut
  <2>1. writes'[wire[k].write] = writes[wire[k].write]
    BY <1>5, <1>8
  <2> QED
    BY <2>1 DEF PiecesWellCut
<1> QED
  BY <1>9, <1>10, <1>11, <1>12, <1>13, <1>14, <1>15, <1>16, <1>17, <1>18

LEMMA WriteReturnsKeeps ==
  ASSUME WriterInv, NEW c \in Callers, WriteReturns(c)
  PROVE  WriterInv'
<1> USE DEF WriterInv
<1>1. /\ step'[c] = "idle" /\ step' \in [Callers -> Places]
      /\ \A d \in Callers : d # c => step'[d] = step[d]
  BY DEF WriteReturns, Unlock, Goes, WriterTypeOK, Places, Writing
<1>2. step[c] = "piece" /\ write_mutex' = {} /\ failed' = failed
  BY DEF WriteReturns, Unlock, WriterTypeOK
<1>3. /\ offset' \in [Callers -> Nat] /\ offset'[c] = 0
      /\ \A d \in Callers : d # c => offset'[d] = offset[d]
  BY DEF WriteReturns, Unlock, WriterTypeOK
<1>4. /\ closed' = closed /\ header_sent' = header_sent /\ next_chunk_index' = next_chunk_index /\ writes' = writes
      /\ wire' = wire /\ overlapped' = overlapped
  BY DEF WriteReturns
<1>5. \A d \in Callers : d # c => step[d] \notin Writing
  BY <1>2 DEF MutexInv, Writing
<1>6. offset[c] = Len(Text) /\ writes # << >>
  BY <1>2 DEF WriteReturns, MutexInv, Writing
<1>7. WriterTypeOK'
  BY <1>1, <1>2, <1>3, <1>4, <1>5, <1>6 DEF WriterTypeOK
<1>8. MutexInv'
  BY <1>1, <1>2, <1>3, <1>4, <1>5, <1>6 DEF MutexInv, Writing, Text
<1>9. HeaderInv'
  BY <1>1, <1>2, <1>3, <1>4, <1>5, <1>6 DEF HeaderInv
<1>10. IndicesUsed'
  BY <1>1, <1>2, <1>3, <1>4, <1>5, <1>6 DEF IndicesUsed
<1>11. WritesKnown'
  BY <1>1, <1>2, <1>3, <1>4, <1>5, <1>6 DEF WritesKnown
<1>12. LastPiece'
  BY <1>1, <1>2, <1>3, <1>4, <1>5, <1>6 DEF LastPiece, LastChunk, Writing
<1>13. WritesKept'
  <2>1. SUFFICES ASSUME ~failed, NEW w \in DOMAIN writes, writes[w] # << >>
               PROVE  Sent(w)
    BY <1>1, <1>2, <1>3, <1>4, <1>5, <1>6 DEF WritesKept, Sent
  <2>2. CASE w = Len(writes)
    <3>1. offset[c] = Len(writes[w]) /\ offset[c] > 0
      BY <1>6, <2>1, <2>2, WriterAssumption DEF Text, WriterTypeOK
    <3> QED
      BY <1>2, <2>2, <3>1 DEF LastPiece, LastChunk, Sent, Writing
  <2>3. CASE w # Len(writes)
    BY <2>1, <2>3 DEF WritesKept
  <2> QED
    BY <2>2, <2>3
<1>14. CloseInv'
  BY <1>1, <1>2, <1>3, <1>4, <1>5, <1>6 DEF CloseInv, Closing, Idle
<1>15. WritesInOrder'
  BY <1>1, <1>2, <1>3, <1>4, <1>5, <1>6 DEF WritesInOrder, Follows
<1>16. PiecesWellCut'
  BY <1>1, <1>2, <1>3, <1>4, <1>5, <1>6 DEF PiecesWellCut
<1> QED
  BY <1>7, <1>8, <1>9, <1>10, <1>11, <1>12, <1>13, <1>14, <1>15, <1>16

LEMMA WriteThrowsKeeps ==
  ASSUME WriterInv, NEW c \in Callers, WriteThrows(c)
  PROVE  WriterInv'
<1> USE DEF WriterInv
<1>1. /\ step'[c] = "idle" /\ step' \in [Callers -> Places]
      /\ \A d \in Callers : d # c => step'[d] = step[d]
  BY DEF WriteThrows, Unlock, Goes, WriterTypeOK, Places, Writing
<1>2. step[c] = "piece" /\ write_mutex' = {} /\ failed' = TRUE
  BY DEF WriteThrows, Unlock, WriterTypeOK
<1>3. /\ offset' \in [Callers -> Nat] /\ offset'[c] = 0
      /\ \A d \in Callers : d # c => offset'[d] = offset[d]
  BY DEF WriteThrows, Unlock, WriterTypeOK
<1>4. /\ closed' = closed /\ header_sent' = header_sent /\ next_chunk_index' = next_chunk_index /\ writes' = writes
      /\ wire' = wire /\ overlapped' = overlapped
  BY DEF WriteThrows
<1>5. \A d \in Callers : d # c => step[d] \notin Writing
  BY <1>2 DEF MutexInv, Writing
<1>6. WriterTypeOK'
  BY <1>1, <1>2, <1>3, <1>4, <1>5 DEF WriterTypeOK
<1>7. MutexInv'
  BY <1>1, <1>2, <1>3, <1>4, <1>5 DEF MutexInv, Writing, Text
<1>8. HeaderInv'
  BY <1>1, <1>2, <1>3, <1>4, <1>5 DEF HeaderInv
<1>9. IndicesUsed'
  BY <1>1, <1>2, <1>3, <1>4, <1>5 DEF IndicesUsed
<1>10. WritesKnown'
  BY <1>1, <1>2, <1>3, <1>4, <1>5 DEF WritesKnown
<1>11. LastPiece'
  BY <1>1, <1>2, <1>3, <1>4, <1>5 DEF LastPiece, LastChunk, Writing
<1>12. WritesKept'
  BY <1>1, <1>2, <1>3, <1>4, <1>5 DEF WritesKept, Sent
<1>13. CloseInv'
  BY <1>1, <1>2, <1>3, <1>4, <1>5 DEF CloseInv, Closing, Idle
<1>14. WritesInOrder'
  BY <1>1, <1>2, <1>3, <1>4, <1>5 DEF WritesInOrder, Follows
<1>15. PiecesWellCut'
  BY <1>1, <1>2, <1>3, <1>4, <1>5 DEF PiecesWellCut
<1> QED
  BY <1>6, <1>7, <1>8, <1>9, <1>10, <1>11, <1>12, <1>13, <1>14, <1>15

LEMMA SendChunkKeeps ==
  ASSUME WriterInv, NEW c \in Callers, SendChunk(c)
  PROVE  WriterInv'
<1> USE DEF WriterInv
<1>1. step[c] = "piece" /\ offset[c] < Len(Text)
  BY DEF SendChunk
<1>2. /\ closed' = closed /\ header_sent' = header_sent /\ write_mutex' = write_mutex /\ offset' = offset
      /\ writes' = writes /\ wire' = wire /\ failed' = failed /\ overlapped' = overlapped
  BY DEF SendChunk
<1>3. \/ ~header_sent /\ step'[c] = "header" /\ next_chunk_index' = next_chunk_index
      \/ header_sent /\ step'[c] = "chunk" /\ next_chunk_index' = next_chunk_index + 1
  BY DEF SendChunk, Goes, WriterTypeOK
<1>4. step' \in [Callers -> Places] /\ \A d \in Callers : d # c => step'[d] = step[d]
  BY DEF SendChunk, Goes, WriterTypeOK, Places, Writing
<1>5. \A d \in Callers : d # c => step[d] \notin Writing
  BY <1>1 DEF MutexInv, Writing
<1>6. \A k \in DOMAIN wire : IsChunk(wire[k]) => wire[k].index \in Nat
  BY ChunkTypes
<1>7. WriterTypeOK'
  BY <1>1, <1>2, <1>3, <1>4, <1>5, <1>6 DEF WriterTypeOK
<1>8. MutexInv'
  BY <1>1, <1>2, <1>3, <1>4, <1>5, <1>6 DEF MutexInv, Writing, Text
<1>9. HeaderInv'
  BY <1>1, <1>2, <1>3, <1>4, <1>5, <1>6 DEF HeaderInv
<1>10. IndicesUsed'
  <2>1. next_chunk_index \in Nat /\ next_chunk_index' \in Nat /\ next_chunk_index <= next_chunk_index'
    BY <1>3 DEF WriterTypeOK
  <2>2. \A d \in Callers : step'[d] = "chunk" => next_chunk_index' = next_chunk_index + 1
    BY <1>3, <1>4, <1>5 DEF Writing
  <2> QED
    BY <1>2, <1>6, <2>1, <2>2 DEF IndicesUsed
<1>11. WritesKnown'
  BY <1>1, <1>2, <1>3, <1>4, <1>5, <1>6 DEF WritesKnown
<1>12. LastPiece'
  BY <1>1, <1>2, <1>3, <1>4, <1>5, <1>6 DEF LastPiece, LastChunk, Writing
<1>13. WritesKept'
  BY <1>1, <1>2, <1>3, <1>4, <1>5, <1>6 DEF WritesKept, Sent
<1>14. CloseInv'
  BY <1>1, <1>2, <1>3, <1>4, <1>5, <1>6 DEF CloseInv, Closing, Idle
<1>15. WritesInOrder'
  BY <1>1, <1>2, <1>3, <1>4, <1>5, <1>6 DEF WritesInOrder, Follows
<1>16. PiecesWellCut'
  BY <1>1, <1>2, <1>3, <1>4, <1>5, <1>6 DEF PiecesWellCut
<1> QED
  BY <1>7, <1>8, <1>9, <1>10, <1>11, <1>12, <1>13, <1>14, <1>15, <1>16

LEMMA SendFailsKeeps ==
  ASSUME WriterInv, NEW c \in Callers, SendFails(c)
  PROVE  WriterInv'
<1> USE DEF WriterInv
<1>1. /\ step'[c] = "idle" /\ step' \in [Callers -> Places]
      /\ \A d \in Callers : d # c => step'[d] = step[d]
  BY DEF SendFails, Unlock, Goes, WriterTypeOK, Places, Writing
<1>2. step[c] \in {"header", "chunk", "close_header", "trailer"} /\ failed' = TRUE
  BY DEF SendFails, Unlock
<1>3. /\ step[c] \in {"header", "chunk"} => write_mutex' = {}
      /\ step[c] \in {"close_header", "trailer"} => write_mutex' = write_mutex
  BY <1>2 DEF SendFails, Unlock, Closing
<1>4. /\ offset' \in [Callers -> Nat] /\ offset'[c] = 0
      /\ \A d \in Callers : d # c => offset'[d] = offset[d]
  <2>1. CASE Closing(c)
    BY <2>1 DEF SendFails, Closing, WriterTypeOK, MutexInv, Writing
  <2>2. CASE ~Closing(c)
    BY <2>2 DEF SendFails, Unlock, WriterTypeOK
  <2> QED
    BY <2>1, <2>2
<1>5. /\ closed' = closed /\ header_sent' = header_sent /\ next_chunk_index' = next_chunk_index /\ writes' = writes
      /\ wire' = wire /\ overlapped' = overlapped
  BY DEF SendFails
<1>6. \A d \in Callers : step[c] \in {"header", "chunk"} /\ d # c => step[d] \notin Writing
  BY <1>2 DEF MutexInv, Writing
<1>7. WriterTypeOK'
  BY <1>1, <1>2, <1>3, <1>4, <1>5, <1>6 DEF WriterTypeOK
<1>8. MutexInv'
  BY <1>1, <1>2, <1>3, <1>4, <1>5, <1>6 DEF MutexInv, Writing, Text
<1>9. HeaderInv'
  BY <1>1, <1>2, <1>3, <1>4, <1>5, <1>6 DEF HeaderInv
<1>10. IndicesUsed'
  BY <1>1, <1>2, <1>3, <1>4, <1>5, <1>6 DEF IndicesUsed
<1>11. WritesKnown'
  BY <1>1, <1>2, <1>3, <1>4, <1>5, <1>6 DEF WritesKnown
<1>12. LastPiece'
  BY <1>1, <1>2, <1>3, <1>4, <1>5, <1>6 DEF LastPiece, LastChunk, Writing
<1>13. WritesKept'
  BY <1>1, <1>2, <1>3, <1>4, <1>5, <1>6 DEF WritesKept, Sent
<1>14. CloseInv'
  BY <1>1, <1>2, <1>3, <1>4, <1>5, <1>6 DEF CloseInv, Closing, Idle
<1>15. WritesInOrder'
  BY <1>1, <1>2, <1>3, <1>4, <1>5, <1>6 DEF WritesInOrder, Follows
<1>16. PiecesWellCut'
  BY <1>1, <1>2, <1>3, <1>4, <1>5, <1>6 DEF PiecesWellCut
<1> QED
  BY <1>7, <1>8, <1>9, <1>10, <1>11, <1>12, <1>13, <1>14, <1>15, <1>16

LEMMA CloseCheckKeeps ==
  ASSUME WriterInv, NEW c \in Callers, CloseCheck(c)
  PROVE  WriterInv'
<1> USE DEF WriterInv
<1>1. /\ step'[c] = "closing" /\ step' \in [Callers -> Places]
      /\ \A d \in Callers : d # c => step'[d] = step[d]
  BY DEF CloseCheck, Goes, WriterTypeOK, Places, Writing
<1>2. step[c] = "idle" /\ ~closed
  BY DEF CloseCheck, Idle
<1>3. /\ closed' = closed /\ header_sent' = header_sent /\ next_chunk_index' = next_chunk_index
      /\ write_mutex' = write_mutex /\ offset' = offset /\ writes' = writes /\ wire' = wire /\ failed' = failed
  BY DEF CloseCheck
<1>4. overlapped' = (overlapped \/ \E d \in Callers : ~Idle(d))
  BY DEF CloseCheck
<1>5. WriterTypeOK'
  BY <1>1, <1>2, <1>3, <1>4 DEF WriterTypeOK
<1>6. MutexInv'
  BY <1>1, <1>2, <1>3, <1>4 DEF MutexInv, Writing, Text
<1>7. HeaderInv'
  BY <1>1, <1>2, <1>3, <1>4 DEF HeaderInv
<1>8. IndicesUsed'
  BY <1>1, <1>2, <1>3, <1>4 DEF IndicesUsed
<1>9. WritesKnown'
  BY <1>1, <1>2, <1>3, <1>4 DEF WritesKnown
<1>10. LastPiece'
  BY <1>1, <1>2, <1>3, <1>4 DEF LastPiece, LastChunk, Writing
<1>11. WritesKept'
  BY <1>1, <1>2, <1>3, <1>4 DEF WritesKept, Sent
<1>12. CloseInv'
  BY <1>1, <1>2, <1>3, <1>4 DEF CloseInv, Closing, Idle
<1>13. WritesInOrder'
  BY <1>1, <1>2, <1>3, <1>4 DEF WritesInOrder, Follows
<1>14. PiecesWellCut'
  BY <1>1, <1>2, <1>3, <1>4 DEF PiecesWellCut
<1> QED
  BY <1>5, <1>6, <1>7, <1>8, <1>9, <1>10, <1>11, <1>12, <1>13, <1>14

LEMMA CloseMarkKeeps ==
  ASSUME WriterInv, NEW c \in Callers, CloseMark(c)
  PROVE  WriterInv'
<1> USE DEF WriterInv
<1>1. step[c] = "closing" /\ closed' = TRUE
  BY DEF CloseMark
<1>2. /\ header_sent' = header_sent /\ next_chunk_index' = next_chunk_index /\ write_mutex' = write_mutex
      /\ offset' = offset /\ writes' = writes /\ wire' = wire /\ failed' = failed /\ overlapped' = overlapped
  BY DEF CloseMark
<1>3. step'[c] = (IF header_sent THEN "trailer" ELSE "close_header") /\ step' \in [Callers -> Places]
  BY DEF CloseMark, Goes, WriterTypeOK, Places, Writing
<1>4. \A d \in Callers : d # c => step'[d] = step[d]
  BY DEF CloseMark, Goes, WriterTypeOK
<1>5. WriterTypeOK'
  BY <1>1, <1>2, <1>3, <1>4 DEF WriterTypeOK
<1>6. MutexInv'
  BY <1>1, <1>2, <1>3, <1>4 DEF MutexInv, Writing, Text
<1>7. HeaderInv'
  BY <1>1, <1>2, <1>3, <1>4 DEF HeaderInv
<1>8. IndicesUsed'
  BY <1>1, <1>2, <1>3, <1>4 DEF IndicesUsed
<1>9. WritesKnown'
  BY <1>1, <1>2, <1>3, <1>4 DEF WritesKnown
<1>10. LastPiece'
  BY <1>1, <1>2, <1>3, <1>4 DEF LastPiece, LastChunk, Writing
<1>11. WritesKept'
  BY <1>1, <1>2, <1>3, <1>4 DEF WritesKept, Sent
<1>12. CloseInv'
  BY <1>1, <1>2, <1>3, <1>4 DEF CloseInv, Closing, Idle
<1>13. WritesInOrder'
  BY <1>1, <1>2, <1>3, <1>4 DEF WritesInOrder, Follows
<1>14. PiecesWellCut'
  BY <1>1, <1>2, <1>3, <1>4 DEF PiecesWellCut
<1> QED
  BY <1>5, <1>6, <1>7, <1>8, <1>9, <1>10, <1>11, <1>12, <1>13, <1>14

\* What a message at the end of the wire changes.
LEMMA WireAppend ==
  ASSUME wire \in Seq(Message), NEW m \in Message, wire' = Append(wire, m)
  PROVE  /\ wire' \in Seq(Message) /\ wire' # << >>
         /\ Len(wire) \in Nat /\ Len(wire') = Len(wire) + 1 /\ DOMAIN wire = 1 .. Len(wire) /\ DOMAIN wire' = 1 .. Len(wire) + 1
         /\ \A k \in DOMAIN wire : wire'[k] = wire[k]
         /\ wire'[Len(wire) + 1] = m
         /\ wire # << >> => 1 \in DOMAIN wire
  OBVIOUS

LEMMA MessageFacts ==
  /\ Header \in Message /\ Trailer \in Message /\ Header # Trailer
  /\ Header.type = "header" /\ Trailer.type = "trailer" /\ ~IsChunk(Header) /\ ~IsChunk(Trailer)
  /\ \A m \in ChunkMessage : IsChunk(m) /\ m \in Message /\ m # Header /\ m # Trailer
  /\ \A m \in Message : m = Header \/ m = Trailer \/ IsChunk(m)
  /\ \A m \in Message : m.type \in {"header", "trailer", "chunk"}
  /\ \A m \in Message : m.type = "header" => m = Header
  /\ \A m \in Message : m.type = "trailer" => m = Trailer
  /\ \A m \in Message : IsChunk(m) => m \in ChunkMessage
<1>1. Header.type = "header" /\ Trailer.type = "trailer"
  BY DEF Header, Trailer
<1>2. \A m \in ChunkMessage : m.type = "chunk"
  BY DEF ChunkMessage
<1> QED
  BY <1>1, <1>2 DEF Message, IsChunk

\* A message that is no chunk leaves what is known of the chunks.
LEMMA OtherMessage ==
  ASSUME WriterInv, NEW m \in {Header, Trailer}, wire' = Append(wire, m), writes' = writes
  PROVE  WritesInOrder' /\ PiecesWellCut' /\ WritesKnown' /\ (\A w \in DOMAIN writes : Sent(w) => Sent(w)')
         /\ (\A k \in DOMAIN wire' : IsChunk(wire'[k]) => k \in DOMAIN wire /\ wire'[k] = wire[k] /\ IsChunk(wire[k]))
         /\ (\A k \in DOMAIN wire : LastChunk(k) => LastChunk(k)' /\ k \in DOMAIN wire' /\ wire'[k] = wire[k])
<1>1. m \in Message /\ ~IsChunk(m) /\ wire \in Seq(Message)
  BY MessageFacts DEF WriterInv, WriterTypeOK
<1>2. /\ Len(wire) \in Nat /\ Len(wire') = Len(wire) + 1 /\ DOMAIN wire = 1 .. Len(wire) /\ DOMAIN wire' = 1 .. Len(wire) + 1
      /\ \A k \in DOMAIN wire : wire'[k] = wire[k]
      /\ wire'[Len(wire) + 1] = m
  BY <1>1, WireAppend
<1>3. \A k \in DOMAIN wire' : IsChunk(wire'[k]) => k \in DOMAIN wire /\ wire'[k] = wire[k] /\ IsChunk(wire[k])
  BY <1>1, <1>2
<1>4. WritesInOrder'
  <2> SUFFICES ASSUME NEW j \in DOMAIN wire', NEW k \in DOMAIN wire', Follows(j, k)'
               PROVE  /\ \/ wire'[k].write = wire'[j].write /\ wire'[k].from = wire'[j].to
                         \/ wire'[k].write > wire'[j].write /\ wire'[k].from = 0
                      /\ wire'[k].index > wire'[j].index
    BY DEF WritesInOrder
  <2>1. j \in DOMAIN wire /\ k \in DOMAIN wire /\ wire'[j] = wire[j] /\ wire'[k] = wire[k]
    BY <1>3 DEF Follows
  <2>2. Follows(j, k)
    BY <1>2, <2>1 DEF Follows
  <2> QED
    BY <2>1, <2>2 DEF WriterInv, WritesInOrder
<1>5. PiecesWellCut'
  BY <1>3 DEF WriterInv, PiecesWellCut
<1>6. WritesKnown'
  BY <1>3 DEF WriterInv, WritesKnown
<1>7. \A w \in DOMAIN writes : Sent(w) => Sent(w)'
  BY <1>2 DEF Sent
<1>8. \A k \in DOMAIN wire : LastChunk(k) => LastChunk(k)' /\ k \in DOMAIN wire' /\ wire'[k] = wire[k]
  BY <1>1, <1>2 DEF LastChunk
<1> QED
  BY <1>3, <1>4, <1>5, <1>6, <1>7, <1>8

LEMMA TrailerSentKeeps ==
  ASSUME WriterInv, NEW c \in Callers, TrailerSent(c)
  PROVE  WriterInv'
<1> USE DEF WriterInv
<1>1. /\ step'[c] = "idle" /\ step' \in [Callers -> Places]
      /\ \A d \in Callers : d # c => step'[d] = step[d]
  BY DEF TrailerSent, Goes, WriterTypeOK, Places, Writing
<1>2. step[c] = "trailer" /\ wire' = Append(wire, Trailer)
  BY DEF TrailerSent
<1>3. /\ closed' = closed /\ header_sent' = header_sent /\ next_chunk_index' = next_chunk_index
      /\ write_mutex' = write_mutex /\ offset' = offset /\ writes' = writes /\ failed' = failed
      /\ overlapped' = overlapped
  BY DEF TrailerSent
<1>4. /\ wire' \in Seq(Message) /\ wire' # << >>
      /\ Len(wire) \in Nat /\ Len(wire') = Len(wire) + 1 /\ DOMAIN wire = 1 .. Len(wire) /\ DOMAIN wire' = 1 .. Len(wire) + 1
      /\ \A k \in DOMAIN wire : wire'[k] = wire[k]
      /\ wire'[Len(wire) + 1] = Trailer
      /\ wire # << >> => 1 \in DOMAIN wire
  BY <1>2, WireAppend, MessageFacts DEF WriterTypeOK
<1>5. /\ WritesInOrder' /\ PiecesWellCut' /\ WritesKnown' /\ (\A w \in DOMAIN writes : Sent(w) => Sent(w)')
      /\ \A k \in DOMAIN wire' : IsChunk(wire'[k]) => k \in DOMAIN wire /\ wire'[k] = wire[k] /\ IsChunk(wire[k])
      /\ \A k \in DOMAIN wire : LastChunk(k) => LastChunk(k)' /\ k \in DOMAIN wire' /\ wire'[k] = wire[k]
  BY <1>2, <1>3, OtherMessage
<1>6. Trailer # Header
  BY MessageFacts
<1>7. WriterTypeOK'
  BY <1>1, <1>2, <1>3, <1>4, <1>5, <1>6 DEF WriterTypeOK
<1>8. MutexInv'
  BY <1>1, <1>2, <1>3, <1>4, <1>5, <1>6 DEF MutexInv, Writing, Text
<1>9. HeaderInv'
  BY <1>1, <1>2, <1>3, <1>4, <1>5, <1>6 DEF HeaderInv
<1>10. IndicesUsed'
  BY <1>1, <1>2, <1>3, <1>4, <1>5, <1>6 DEF IndicesUsed, WriterTypeOK
<1>11. WritesKnown'
  BY <1>5
<1>12. LastPiece'
  BY <1>1, <1>2, <1>3, <1>4, <1>5, <1>6 DEF LastPiece, Writing
<1>13. WritesKept'
  BY <1>1, <1>2, <1>3, <1>4, <1>5, <1>6 DEF WritesKept
<1>14. CloseInv'
  BY <1>1, <1>2, <1>3, <1>4, <1>5, <1>6 DEF CloseInv, Closing, Idle
<1>15. WritesInOrder'
  BY <1>5
<1>16. PiecesWellCut'
  BY <1>5
<1> QED
  BY <1>7, <1>8, <1>9, <1>10, <1>11, <1>12, <1>13, <1>14, <1>15, <1>16

LEMMA HeaderSentKeeps ==
  ASSUME WriterInv, NEW c \in Callers, HeaderSent(c)
  PROVE  WriterInv'
<1> USE DEF WriterInv
<1>1. step[c] \in {"header", "close_header"} /\ wire' = Append(wire, Header) /\ header_sent' = TRUE
  BY DEF HeaderSent
<1>2. \/ step[c] = "header" /\ step'[c] = "chunk" /\ next_chunk_index' = next_chunk_index + 1
      \/ step[c] = "close_header" /\ step'[c] = "trailer" /\ next_chunk_index' = next_chunk_index
  BY DEF HeaderSent, Goes, WriterTypeOK
<1>3. step' \in [Callers -> Places] /\ \A d \in Callers : d # c => step'[d] = step[d]
  BY DEF HeaderSent, Goes, WriterTypeOK, Places, Writing
<1>4. /\ closed' = closed /\ write_mutex' = write_mutex /\ offset' = offset /\ writes' = writes /\ failed' = failed
      /\ overlapped' = overlapped
  BY DEF HeaderSent
<1>5. /\ wire' \in Seq(Message) /\ wire' # << >>
      /\ Len(wire) \in Nat /\ Len(wire') = Len(wire) + 1 /\ DOMAIN wire = 1 .. Len(wire) /\ DOMAIN wire' = 1 .. Len(wire) + 1
      /\ \A k \in DOMAIN wire : wire'[k] = wire[k]
      /\ wire'[Len(wire) + 1] = Header
      /\ wire # << >> => 1 \in DOMAIN wire
  BY <1>1, WireAppend, MessageFacts DEF WriterTypeOK
<1>6. /\ WritesInOrder' /\ PiecesWellCut' /\ WritesKnown' /\ (\A w \in DOMAIN writes : Sent(w) => Sent(w)')
      /\ \A k \in DOMAIN wire' : IsChunk(wire'[k]) => k \in DOMAIN wire /\ wire'[k] = wire[k] /\ IsChunk(wire[k])
      /\ \A k \in DOMAIN wire : LastChunk(k) => LastChunk(k)' /\ k \in DOMAIN wire' /\ wire'[k] = wire[k]
  BY <1>1, <1>4, OtherMessage
<1>7. Trailer # Header
  BY MessageFacts
<1>8. \A d \in Callers : step[c] = "header" /\ d # c => step[d] \notin Writing
  BY DEF MutexInv, Writing
<1>9. WriterTypeOK'
  BY <1>1, <1>2, <1>3, <1>4, <1>5, <1>6, <1>7, <1>8 DEF WriterTypeOK
<1>10. MutexInv'
  BY <1>1, <1>2, <1>3, <1>4, <1>5, <1>6, <1>7, <1>8 DEF MutexInv, Writing, Text
<1>11. HeaderInv'
  BY <1>1, <1>2, <1>3, <1>4, <1>5, <1>6, <1>7, <1>8 DEF HeaderInv
<1>12. IndicesUsed'
  <2>1. next_chunk_index \in Nat /\ next_chunk_index' \in Nat /\ next_chunk_index <= next_chunk_index'
    BY <1>2 DEF WriterTypeOK
  <2>2. \A d \in Callers : step'[d] = "chunk" =>
          next_chunk_index' = next_chunk_index + 1 \/ (step[d] = "chunk" /\ next_chunk_index' = next_chunk_index)
    <3>1. CASE step[c] = "header"
      BY <1>2, <3>1
    <3>2. CASE step[c] = "close_header"
      BY <1>2, <1>3, <3>2
    <3> QED
      BY <1>1, <3>1, <3>2
  <2>3. \A k \in DOMAIN wire : IsChunk(wire[k]) => wire[k].index \in Nat
    BY ChunkTypes
  <2>4. \A k \in DOMAIN wire' : IsChunk(wire'[k]) => wire'[k].index < next_chunk_index'
    BY <1>6, <2>1, <2>3 DEF IndicesUsed
  <2>5. \A d \in Callers : step'[d] = "chunk" => 0 < next_chunk_index'
    BY <2>1, <2>2 DEF IndicesUsed
  <2>6. ASSUME NEW d \in Callers, step'[d] = "chunk", NEW k \in DOMAIN wire', IsChunk(wire'[k])
        PROVE  wire'[k].index + 1 < next_chunk_index'
    BY <1>6, <2>1, <2>2, <2>3, <2>6 DEF IndicesUsed
  <2> QED
    BY <2>4, <2>5, <2>6 DEF IndicesUsed
<1>13. WritesKnown'
  BY <1>6
<1>14. LastPiece'
  BY <1>1, <1>2, <1>3, <1>4, <1>5, <1>6, <1>7, <1>8 DEF LastPiece, Writing
<1>15. WritesKept'
  BY <1>1, <1>2, <1>3, <1>4, <1>5, <1>6, <1>7, <1>8 DEF WritesKept
<1>16. CloseInv'
  <2>1. \A d \in Callers : step'[d] \in {"close_header", "trailer"} => closed
    BY <1>1, <1>2, <1>3 DEF CloseInv
  <2> SUFFICES ASSUME ~overlapped PROVE CloseInv'
    BY <1>4, <2>1 DEF CloseInv
  <2>2. \A d, e \in Callers : Closing(d)' /\ d # e => Idle(e)'
    BY <1>1, <1>2, <1>3 DEF CloseInv, Closing, Idle
  <2>3. \A d \in Callers : step'[d] \notin {"header", "close_header"}
    BY <1>1, <1>2, <1>3, <1>8 DEF CloseInv, Closing, Idle, Writing
  <2>4. Len(wire) = 0
    BY <1>1, <1>5 DEF CloseInv, HeaderInv, WriterTypeOK
  <2> QED
    BY <1>4, <1>5, <1>7, <2>1, <2>2, <2>3, <2>4 DEF CloseInv
<1>17. WritesInOrder'
  BY <1>6
<1>18. PiecesWellCut'
  BY <1>6
<1> QED
  BY <1>9, <1>10, <1>11, <1>12, <1>13, <1>14, <1>15, <1>16, <1>17, <1>18

LEMMA ChunkSentKeeps ==
  ASSUME WriterInv, NEW c \in Callers, ChunkSent(c)
  PROVE  WriterInv'
<1> USE DEF WriterInv
<1> DEFINE to == Cut(Text, offset[c])
           m == Chunk(next_chunk_index - 1, Len(writes), offset[c], to)
<1>0. PICK n : n = Len(wire) + 1
  OBVIOUS
<1>1. step[c] = "chunk" /\ wire' = Append(wire, m) /\ offset' = [offset EXCEPT ![c] = to]
  BY DEF ChunkSent
<1>2. /\ step'[c] = "piece" /\ step' \in [Callers -> Places]
      /\ \A d \in Callers : d # c => step'[d] = step[d]
  BY DEF ChunkSent, Goes, WriterTypeOK, Places, Writing
<1>3. /\ closed' = closed /\ header_sent' = header_sent /\ next_chunk_index' = next_chunk_index
      /\ write_mutex' = write_mutex /\ writes' = writes /\ failed' = failed /\ overlapped' = overlapped
  BY DEF ChunkSent
<1>4. /\ Text \in Texts /\ offset[c] \in Nat /\ offset[c] < Len(Text) /\ Len(writes) \in Nat /\ Len(writes) > 0
      /\ Text = writes[Len(writes)]
  BY <1>1 DEF MutexInv, WriterTypeOK, Writing, Text
<1>5. /\ to \in Nat /\ offset[c] < to /\ to <= Len(Text) /\ to <= offset[c] + kStreamChunkSize
      /\ offset[c] + kStreamChunkSize < Len(Text) \/ Text[Len(Text)] = "lead" => BreaksNone(Text, to)
  BY <1>4, CutFacts
<1>6. next_chunk_index \in Nat /\ 0 < next_chunk_index
  BY <1>1 DEF WriterTypeOK, IndicesUsed
<1>7. /\ m \in ChunkMessage /\ m.index = next_chunk_index - 1 /\ m.write = Len(writes) /\ m.from = offset[c] /\ m.to = to
  BY <1>4, <1>5, <1>6 DEF ChunkMessage, Chunk
<1>8. m \in Message /\ IsChunk(m) /\ m # Header /\ m # Trailer
  BY <1>7, MessageFacts
<1> HIDE DEF m, to
<1>9. /\ wire' \in Seq(Message) /\ wire' # << >>
      /\ Len(wire) \in Nat /\ Len(wire') = n /\ DOMAIN wire = 1 .. Len(wire) /\ DOMAIN wire' = 1 .. n
      /\ \A k \in DOMAIN wire : wire'[k] = wire[k]
      /\ wire'[n] = m
      /\ wire # << >> => 1 \in DOMAIN wire
  BY <1>0, <1>1, <1>8, WireAppend DEF WriterTypeOK
<1>10. /\ offset' \in [Callers -> Nat] /\ offset'[c] = to
       /\ \A d \in Callers : d # c => offset'[d] = offset[d]
  BY <1>1, <1>5 DEF WriterTypeOK
<1>11. \A d \in Callers : d # c => step[d] \notin Writing
  BY <1>1 DEF MutexInv, Writing
<1>12. \A k \in DOMAIN wire : IsChunk(wire[k]) =>
         wire[k].index \in Nat /\ wire[k].write \in Nat /\ wire[k].from \in Nat /\ wire[k].to \in Nat
  BY ChunkTypes
<1>13. \A k \in DOMAIN wire' : k = n \/ k \in DOMAIN wire
  BY <1>0, <1>9
<1>14. WriterTypeOK'
  BY <1>2, <1>3, <1>9, <1>10 DEF WriterTypeOK
<1>15. MutexInv'
  <2>1. Text' = Text
    BY <1>3 DEF Text
  <2> QED
    BY <1>1, <1>2, <1>3, <1>4, <1>5, <1>10, <1>11, <2>1 DEF MutexInv, Writing
<1>16. HeaderInv'
  BY <1>1, <1>2, <1>3, <1>9 DEF HeaderInv
<1>17. IndicesUsed'
  <2>1. \A k \in DOMAIN wire' : IsChunk(wire'[k]) => wire'[k].index < next_chunk_index
    BY <1>6, <1>7, <1>9, <1>13 DEF IndicesUsed
  <2>2. \A d \in Callers : step'[d] # "chunk"
    BY <1>2, <1>11 DEF Writing
  <2> QED
    BY <1>3, <2>1, <2>2 DEF IndicesUsed
<1>18. WritesKnown'
  BY <1>3, <1>4, <1>7, <1>9, <1>13 DEF WritesKnown
<1>19. LastPiece'
  <2>1. LastChunk(n)' /\ n \in DOMAIN wire' /\ wire'[n].write = Len(writes) /\ wire'[n].to = to
    BY <1>7, <1>8, <1>9 DEF LastChunk
  <2>2. to > 0
    BY <1>4, <1>5
  <2>3. \A d \in Callers : d # c => step'[d] \notin Writing
    BY <1>2, <1>11
  <2> QED
    BY <1>3, <1>10, <2>1, <2>2, <2>3 DEF LastPiece
<1>20. WritesKept'
  <2>1. \A w \in DOMAIN writes : Sent(w) => Sent(w)'
    BY <1>0, <1>3, <1>9 DEF Sent
  <2> QED
    BY <1>3, <2>1 DEF WritesKept
<1>21. CloseInv'
  <2>1. \A d \in Callers : step'[d] \in {"close_header", "trailer"} => closed
    BY <1>2 DEF CloseInv
  <2> SUFFICES ASSUME ~overlapped PROVE CloseInv'
    BY <1>3, <2>1 DEF CloseInv
  <2>2. \A d, e \in Callers : Closing(d)' /\ d # e => Idle(e)'
    BY <1>1, <1>2 DEF CloseInv, Closing, Idle
  <2>3. \A d \in Callers : step'[d] \in {"header", "close_header"} => ~header_sent
    BY <1>2 DEF CloseInv
  <2>4. \A k \in DOMAIN wire : wire[k] # Trailer
    BY <1>1 DEF CloseInv, Idle
  <2>5. \A k \in DOMAIN wire' : wire'[k] = Header => k = 1
    BY <1>8, <1>9, <1>13 DEF CloseInv
  <2>6. \A k \in DOMAIN wire' : wire'[k] # Trailer
    BY <1>8, <1>9, <1>13, <2>4
  <2> QED
    BY <1>3, <2>1, <2>2, <2>3, <2>5, <2>6 DEF CloseInv
<1>22. WritesInOrder'
  <2> SUFFICES ASSUME NEW j \in DOMAIN wire', NEW k \in DOMAIN wire', Follows(j, k)'
               PROVE  /\ \/ wire'[k].write = wire'[j].write /\ wire'[k].from = wire'[j].to
                         \/ wire'[k].write > wire'[j].write /\ wire'[k].from = 0
                      /\ wire'[k].index > wire'[j].index
    BY DEF WritesInOrder
  <2>1. j < k /\ IsChunk(wire'[j]) /\ IsChunk(wire'[k]) /\ \A x \in j + 1 .. k - 1 : ~IsChunk(wire'[x])
    BY DEF Follows
  <2>2. j \in DOMAIN wire /\ wire'[j] = wire[j]
    BY <1>9, <1>13, <2>1
  <2>3. CASE k \in DOMAIN wire
    <3>1. wire'[k] = wire[k]
      BY <1>9, <2>3
    <3>2. Follows(j, k)
      BY <1>9, <2>1, <2>2, <2>3, <3>1 DEF Follows
    <3> QED
      BY <2>2, <2>3, <3>1, <3>2 DEF WritesInOrder
  <2>4. CASE k = n
    <3>1. wire'[k] = m
      BY <1>9, <2>4
    <3>2. wire[j].index + 1 < next_chunk_index
      BY <1>1, <2>1, <2>2 DEF IndicesUsed
    <3>3. CASE offset[c] = 0
      <4>1. wire[j].write < Len(writes)
        BY <1>1, <2>1, <2>2, <3>3 DEF LastPiece, Writing
      <4> QED
        BY <1>6, <1>7, <1>12, <2>1, <2>2, <3>1, <3>2, <3>3, <4>1
    <3>4. CASE offset[c] > 0
      <4>1. PICK q \in DOMAIN wire : LastChunk(q) /\ wire[q].write = Len(writes) /\ wire[q].to = offset[c]
        BY <1>1, <3>4 DEF LastPiece, Writing
      <4>2. IsChunk(wire[q]) /\ \A x \in q + 1 .. Len(wire) : ~IsChunk(wire[x])
        BY <4>1 DEF LastChunk
      <4>3. ~(q < j)
        BY <1>0, <1>9, <2>1, <2>2, <4>2
      <4>4. ~(j < q)
        BY <1>0, <1>9, <2>1, <2>2, <2>4, <4>1, <4>2
      <4>5. q = j
        BY <1>9, <2>2, <4>3, <4>4
      <4> QED
        BY <1>6, <1>7, <1>12, <2>1, <2>2, <3>1, <3>2, <4>1, <4>5
    <3> QED
      BY <1>4, <3>3, <3>4
  <2> QED
    BY <1>13, <2>3, <2>4
<1>23. PiecesWellCut'
  <2> SUFFICES ASSUME NEW k \in DOMAIN wire', IsChunk(wire'[k])
               PROVE  LET p == wire'[k]  s == writes[p.write] IN
                      /\ p.from < p.to /\ p.to <= p.from + kStreamChunkSize
                      /\ p.from + kStreamChunkSize < Len(s) \/ s[Len(s)] = "lead" => BreaksNone(s, p.to)
    BY <1>3 DEF PiecesWellCut
  <2>1. CASE k \in DOMAIN wire
    BY <1>9, <2>1 DEF PiecesWellCut
  <2>2. CASE k = n
    BY <1>4, <1>5, <1>7, <1>9, <2>2
  <2> QED
    BY <1>13, <2>1, <2>2
<1> QED
  BY <1>14, <1>15, <1>16, <1>17, <1>18, <1>19, <1>20, <1>21, <1>22, <1>23

LEMMA WriterInitInv == WriterInit => WriterInv
<1> SUFFICES ASSUME WriterInit PROVE WriterInv
  OBVIOUS
<1>1. WriterTypeOK
  <2>1. writes \in Seq(Texts) /\ wire \in Seq(Message)
    BY DEF WriterInit
  <2>2. step \in [Callers -> Places] /\ offset \in [Callers -> Nat]
    BY DEF WriterInit, Places
  <2> QED
    BY <2>1, <2>2 DEF WriterInit, WriterTypeOK
<1>2. wire = << >> /\ DOMAIN wire = {} /\ DOMAIN writes = {} /\ \A c \in Callers : step[c] = "idle"
  BY DEF WriterInit
<1>3. MutexInv /\ HeaderInv
  BY <1>2 DEF WriterInit, MutexInv, HeaderInv, Writing
<1>4. IndicesUsed /\ WritesKnown /\ LastPiece /\ WritesKept
  BY <1>2 DEF IndicesUsed, WritesKnown, LastPiece, WritesKept, Writing
<1>5. CloseInv /\ WritesInOrder /\ PiecesWellCut
  BY <1>2 DEF CloseInv, Closing, WritesInOrder, PiecesWellCut
<1> QED
  BY <1>1, <1>3, <1>4, <1>5 DEF WriterInv

LEMMA WriterStep ==
  ASSUME WriterInv, [WriterNext]_writerVars
  PROVE  WriterInv'
<1>1. CASE WriterNext
  <2>1. PICK c \in Callers : \/ \E t \in Texts : WriteLock(c, t)
                             \/ WriteReturns(c) \/ WriteThrows(c) \/ SendChunk(c)
                             \/ HeaderSent(c) \/ ChunkSent(c) \/ SendFails(c)
                             \/ CloseCheck(c) \/ CloseMark(c) \/ TrailerSent(c)
    BY <1>1 DEF WriterNext
  <2> QED
    BY <2>1, WriteLockKeeps, WriteReturnsKeeps, WriteThrowsKeeps, SendChunkKeeps, HeaderSentKeeps, ChunkSentKeeps,
       SendFailsKeeps, CloseCheckKeeps, CloseMarkKeeps, TrailerSentKeeps
<1>2. CASE UNCHANGED writerVars
  BY <1>2 DEF writerVars, WriterInv, WriterTypeOK, MutexInv, HeaderInv, IndicesUsed, WritesKnown, LastPiece, WritesKept,
       CloseInv,
     WritesInOrder, PiecesWellCut, Text, LastChunk, Sent, Closing, Idle, Follows
<1> QED
  BY <1>1, <1>2

\* What write() and close() put on the wire is a well-formed stream, for any number of threads that call
\* them and whichever sends fail: writes arrive in one piece and in order after the
\* header, and the trailer is last unless close() overlapped with another call.
THEOREM WireWellFormed == WriterSpec => []StreamWellFormed
<1>1. WriterInv => StreamWellFormed
  BY DEF WriterInv, HeaderInv, CloseInv, StreamWellFormed
<1> QED
  BY <1>1, WriterInitInv, WriterStep, PTL DEF WriterSpec

\* splitUtf8() and the loop of ByteStreamWriter::write() cut every text into pieces that are not
\* empty and fit into a chunk; a cut that is not in the last chunk of a text that ends with a code
\* point of several bytes breaks no code point.
THEOREM TextsWellCut == WriterSpec => []PiecesWellCut
<1>1. WriterInv => PiecesWellCut
  BY DEF WriterInv
<1> QED
  BY <1>1, WriterInitInv, WriterStep, PTL DEF WriterSpec

-----------------------------------------------------------------------------
LEMMA ReadMoves ==
  ASSUME NEW M, NEW r \in Seq(M), NEW q \in Seq(M), q # << >>
  PROVE  Append(r, Head(q)) \o Tail(q) = r \o q
  OBVIOUS

LEMMA PushMoves ==
  ASSUME NEW M, NEW r \in Seq(M), NEW q \in Seq(M), NEW m \in M
  PROVE  r \o Append(q, m) = Append(r \o q, m)
  OBVIOUS

\* As many readers as threads that write are enough, and there is one who writes.
LEMMA FirstReader ==
  ASSUME Callers # {}
  PROVE  1 \in Readers
<1>1. Cardinality(Callers) \in Nat /\ Cardinality(Callers) # 0
  BY WriterAssumption, FS_CardinalityType, FS_EmptySet
<1> QED
  BY <1>1, HeadersAssumption DEF Readers

\* What the writer does to the wire: it adds messages, and none after the trailer.
LEMMA WriterWire ==
  ASSUME WriterInv, WriterNext
  PROVE  /\ overlapped => overlapped'
         /\ wire' = wire \/ \E m \in Message : wire' = Append(wire, m)
         /\ ~overlapped /\ wire # << >> /\ wire[Len(wire)] = Trailer => wire' = wire
<1>1. PICK c \in Callers : \/ \E t \in Texts : WriteLock(c, t)
                           \/ WriteReturns(c) \/ WriteThrows(c) \/ SendChunk(c)
                           \/ HeaderSent(c) \/ ChunkSent(c) \/ SendFails(c)
                           \/ CloseCheck(c) \/ CloseMark(c) \/ TrailerSent(c)
  BY DEF WriterNext
<1>2. overlapped => overlapped'
  BY <1>1 DEF WriteLock, WriteReturns, WriteThrows, SendChunk, HeaderSent, ChunkSent, SendFails, CloseCheck, CloseMark,
       TrailerSent
<1>3. wire' = wire \/ (wire' \in Seq(Message) /\ step[c] # "idle")
  <2>1. wire' \in Seq(Message)
    BY WriterStep DEF WriterInv, WriterTypeOK
  <2> QED
    BY <1>1, <2>1 DEF WriteLock, WriteReturns, WriteThrows, SendChunk, HeaderSent, ChunkSent, SendFails, CloseCheck,
         CloseMark, TrailerSent
<1>4. wire' = wire \/ \E m \in Message : wire' = Append(wire, m)
  <2>1. wire' = wire \/ \E m : wire' = Append(wire, m)
    BY <1>1 DEF WriteLock, WriteReturns, WriteThrows, SendChunk, HeaderSent, ChunkSent, SendFails, CloseCheck,
         CloseMark, TrailerSent
  <2>2. ASSUME NEW m, wire' = Append(wire, m), wire' \in Seq(Message), wire \in Seq(Message) PROVE m \in Message
    <3>1. m = wire'[Len(wire) + 1] /\ Len(wire) + 1 \in DOMAIN wire'
      BY <2>2
    <3> QED
      BY <2>2, <3>1
  <2> QED
    BY <1>3, <2>1, <2>2 DEF WriterInv, WriterTypeOK
<1>5. ~overlapped /\ wire # << >> /\ wire[Len(wire)] = Trailer => step[c] = "idle"
  <2>1. wire # << >> => Len(wire) \in DOMAIN wire
    BY DEF WriterInv, WriterTypeOK
  <2> QED
    BY <2>1 DEF WriterInv, CloseInv, Idle
<1> QED
  BY <1>2, <1>3, <1>4, <1>5

\* A step that does not concern the reader.
LEMMA QuietKeeps ==
  ASSUME ReceiverInv, wire' = wire, overlapped' = overlapped, at' = at, event' = event, delivered' = delivered,
         created' = created, stream_readers' = stream_readers, target' = target, queue' = queue, read' = read,
         reader_closed' = reader_closed, ended' = ended, room_state' = room_state
  PROVE  ReceiverInv'
  BY DEF ReceiverInv, ReceiverTypeOK, EventInv, ReaderInv, Handled, Got

\* The writer adds to the wire what the reader has not come to.
LEMMA WriterReceives ==
  ASSUME StreamsInv, room_state = "connected", WriterNext, UNCHANGED <<loopVars, receiverVars>>
  PROVE  ReceiverInv'
<1> SUFFICES ASSUME ~overlapped' PROVE (ReceiverTypeOK /\ EventInv /\ ReaderInv)'
  BY DEF ReceiverInv
<1>1. /\ at' = at /\ event' = event /\ room_state' = room_state /\ delivered' = delivered /\ created' = created
      /\ stream_readers' = stream_readers /\ target' = target /\ queue' = queue /\ read' = read
      /\ reader_closed' = reader_closed /\ ended' = ended
  BY DEF loopVars, receiverVars, readerVars
<1>2. /\ ~overlapped
      /\ wire' = wire \/ \E m \in Message : wire' = Append(wire, m)
      /\ wire # << >> /\ wire[Len(wire)] = Trailer => wire' = wire
  BY WriterWire DEF StreamsInv
<1>3. WriterInv /\ ReceiverTypeOK /\ EventInv /\ ReaderInv /\ wire \in Seq(Message)
  BY <1>2 DEF StreamsInv, ReceiverInv, WriterInv, WriterTypeOK
<1>4. CASE wire' = wire
  BY <1>1, <1>3, <1>4 DEF ReceiverTypeOK, EventInv, ReaderInv, Handled, Got
<1>5. CASE wire' # wire
  <2>1. PICK m \in Message : wire' = Append(wire, m)
    BY <1>2, <1>5
  <2>2. /\ wire' \in Seq(Message) /\ Len(wire) \in Nat /\ Len(wire') = Len(wire) + 1
        /\ \A k \in 1 .. Len(wire) : wire'[k] = wire[k]
    BY <1>3, <2>1, WireAppend
  <2>3. ReceiverTypeOK'
    BY <1>1, <1>3, <2>2 DEF ReceiverTypeOK
  <2>4. EventInv'
    <3>1. 0 < delivered => wire'[delivered] = wire[delivered]
      BY <1>3, <2>2 DEF ReceiverTypeOK
    <3> QED
      BY <1>1, <1>3, <3>1 DEF EventInv
  <2>5. Handled' = Handled /\ Got' = Got
    BY <1>1 DEF Handled, Got
  <2>6. created = 1 => Handled \in 0 .. Len(wire)
    BY <1>3 DEF ReceiverTypeOK, EventInv, Handled
  <2>7. \A s : \A k \in 0 .. Len(wire) : HasChunks(s, wire, k) => HasChunks(s, wire', k)
    <3> SUFFICES ASSUME NEW s, NEW k \in 0 .. Len(wire), HasChunks(s, wire, k) PROVE HasChunks(s, wire', k)
      OBVIOUS
    <3>1. \A p \in 1 .. k : wire'[p] = wire[p]
      BY <2>2
    <3> QED
      BY <2>2, <3>1, HasChunksLonger
  <2>8. ~(created = 1 /\ reader_closed[1])
    <3>1. SUFFICES ASSUME created = 1, reader_closed[1] PROVE FALSE
      OBVIOUS
    <3>2. delivered = Len(wire) /\ wire[delivered] = Trailer /\ 0 < delivered
      BY <1>3, <3>1 DEF ReaderInv, EventInv
    <3> QED
      BY <1>2, <1>3, <1>5, <3>2
  <2>9. created = 1 => \E k \in 0 .. Handled : HasChunks(Got, wire', k)
    BY <1>3, <2>2, <2>6, <2>7 DEF ReaderInv
  <2>10. created = 1 /\ (stream_readers = 1 \/ at = "callback" \/ reader_closed[1]) => HasChunks(Got, wire', Handled)
    BY <1>3, <2>6, <2>7 DEF ReaderInv
  <2>11. ReaderInv'
    BY <1>1, <1>3, <2>5, <2>8, <2>9, <2>10 DEF ReaderInv
  <2> QED
    BY <2>3, <2>4, <2>11
<1> QED
  BY <1>4, <1>5

LEMMA DeliverKeeps ==
  ASSUME StreamsInv, RustDeliver
  PROVE  ReceiverInv'
<1> SUFFICES ASSUME ~overlapped' PROVE (ReceiverTypeOK /\ EventInv /\ ReaderInv)'
  BY DEF ReceiverInv
<1>1. /\ wire' = wire /\ overlapped' = overlapped /\ room_state' = room_state /\ created' = created
      /\ stream_readers' = stream_readers
      /\ target' = target /\ queue' = queue /\ read' = read /\ reader_closed' = reader_closed /\ ended' = ended
  BY DEF RustDeliver, Goto, Finish, Handles, Emit, writerVars, receiverVars, readerVars
<1>2. at = "idle" /\ at' = "check" /\ delivered < Len(wire) /\ delivered' = delivered + 1
  BY DEF RustDeliver, Goto, Finish, Handles, Emit, None
<1>3. ~overlapped /\ WriterInv /\ ReceiverTypeOK /\ EventInv /\ ReaderInv
  BY <1>1 DEF StreamsInv, ReceiverInv
<1>4. wire \in Seq(Message) /\ Len(wire) \in Nat /\ delivered \in 0 .. Len(wire)
  BY <1>3 DEF WriterInv, WriterTypeOK, ReceiverTypeOK
<1>5. event'.what = delivered + 1 /\ event'.kind = wire[delivered + 1].type
  BY DEF RustDeliver, Emit
<1>6. room_state = "connected"
  <2>1. wire[delivered + 1] \in Message
    BY <1>2, <1>4
  <2>2. wire[delivered + 1].type # "room_event"
    BY <2>1, MessageFacts
  <2> QED
    BY <2>2 DEF RustDeliver, Emit
<1>7. Handled' = Handled /\ Got' = Got
  BY <1>1, <1>2, <1>4 DEF Handled, Got
<1>8. ReceiverTypeOK'
  BY <1>1, <1>2, <1>3, <1>4, <1>5, <1>6, <1>7 DEF ReceiverTypeOK, None
<1>9. EventInv'
  BY <1>1, <1>2, <1>3, <1>4, <1>5, <1>6, <1>7 DEF EventInv, ReceiverTypeOK, None
<1>10. ReaderInv'
  BY <1>1, <1>2, <1>3, <1>4, <1>5, <1>6, <1>7 DEF ReaderInv, EventInv, ReceiverTypeOK, None
<1> QED
  BY <1>8, <1>9, <1>10

LEMMA CheckedKeeps ==
  ASSUME StreamsInv, OnEventChecked, UNCHANGED <<writerVars, receiverVars>>
  PROVE  ReceiverInv'
<1> SUFFICES ASSUME ~overlapped' PROVE (ReceiverTypeOK /\ EventInv /\ ReaderInv)'
  BY DEF ReceiverInv
<1>1. /\ wire' = wire /\ overlapped' = overlapped /\ event' = event /\ room_state' = room_state /\ created' = created
      /\ stream_readers' = stream_readers /\ target' = target /\ queue' = queue /\ read' = read
      /\ reader_closed' = reader_closed
      /\ ended' = ended /\ delivered' = delivered
  BY DEF OnEventChecked, Goto, Finish, Handles, Emit, writerVars, receiverVars, readerVars
<1>2. at = "check" /\ at' = "handle" /\ room_state = "connected"
  BY DEF OnEventChecked, Goto, Finish, Handles, Emit, None
<1>3. ~overlapped /\ WriterInv /\ ReceiverTypeOK /\ EventInv /\ ReaderInv
  BY <1>1 DEF StreamsInv, ReceiverInv
<1>4. Handled' = Handled /\ Got' = Got
  BY <1>1, <1>2 DEF Handled, Got
<1>5. ReceiverTypeOK'
  BY <1>1, <1>2, <1>3, <1>4 DEF ReceiverTypeOK, None
<1>6. EventInv'
  BY <1>1, <1>2, <1>3, <1>4 DEF EventInv, ReceiverTypeOK, None
<1>7. ReaderInv'
  BY <1>1, <1>2, <1>3, <1>4 DEF ReaderInv, EventInv, ReceiverTypeOK, None
<1> QED
  BY <1>5, <1>6, <1>7

LEMMA IgnoredKeeps ==
  ASSUME StreamsInv, OnEventIgnored, UNCHANGED <<writerVars, receiverVars>>
  PROVE  ReceiverInv'
<1> SUFFICES ASSUME ~overlapped' PROVE (ReceiverTypeOK /\ EventInv /\ ReaderInv)'
  BY DEF ReceiverInv
<1>1. /\ wire' = wire /\ overlapped' = overlapped /\ room_state' = room_state /\ created' = created
      /\ stream_readers' = stream_readers
      /\ target' = target /\ queue' = queue /\ read' = read /\ reader_closed' = reader_closed /\ ended' = ended
      /\ delivered' = delivered
  BY DEF OnEventIgnored, Goto, Finish, Handles, Emit, writerVars, receiverVars, readerVars
<1>2. at = "check" /\ at' = "idle" /\ room_state # "connected"
  BY DEF OnEventIgnored, Goto, Finish, Handles, Emit, None
<1>3. ~overlapped /\ WriterInv /\ ReceiverTypeOK /\ EventInv /\ ReaderInv
  BY <1>1 DEF StreamsInv, ReceiverInv
<1>4. wire \in Seq(Message) /\ Len(wire) \in Nat /\ delivered \in 0 .. Len(wire)
  BY <1>3 DEF WriterInv, WriterTypeOK, ReceiverTypeOK
<1>5. Handled' = delivered /\ Handled = delivered - 1 /\ Got' = Got /\ delivered \in Nat /\ 0 < delivered
  BY <1>1, <1>2, <1>3, <1>4 DEF Handled, Got, EventInv
<1>6. ReceiverTypeOK'
  BY <1>1, <1>2, <1>3, <1>4, <1>5 DEF ReceiverTypeOK, None
<1>7. EventInv'
  BY <1>1, <1>2, <1>3, <1>4, <1>5 DEF EventInv, ReceiverTypeOK, None
<1>8. ReaderInv'
  BY <1>1, <1>2, <1>3, <1>4, <1>5 DEF ReaderInv, EventInv, ReceiverTypeOK, None
<1> QED
  BY <1>6, <1>7, <1>8

\* The header is the first message, and nothing has been read.
LEMMA HeaderKeeps ==
  ASSUME StreamsInv, OnStreamHeader
  PROVE  ReceiverInv'
<1> SUFFICES ASSUME ~overlapped' PROVE (ReceiverTypeOK /\ EventInv /\ ReaderInv)'
  BY DEF ReceiverInv
<1>1. /\ wire' = wire /\ overlapped' = overlapped /\ event' = event /\ room_state' = room_state /\ queue' = queue
      /\ read' = read /\ reader_closed' = reader_closed /\ ended' = ended /\ delivered' = delivered
  BY DEF OnStreamHeader, Goto, Finish, Handles, Emit, writerVars, receiverVars, readerVars
<1>2. /\ at = "handle" /\ at' = "callback" /\ event.kind = "header"
      /\ created' = created + 1 /\ stream_readers' = created + 1 /\ target' = created + 1
  BY DEF OnStreamHeader, Goto, Finish, Handles, Emit, None
<1>3. ~overlapped /\ WriterInv /\ ReceiverTypeOK /\ EventInv /\ ReaderInv
  BY <1>1 DEF StreamsInv, ReceiverInv
<1>4. wire \in Seq(Message) /\ Len(wire) \in Nat /\ delivered \in 0 .. Len(wire)
  BY <1>3 DEF WriterInv, WriterTypeOK, ReceiverTypeOK
<1>5. wire[delivered] \in Message /\ event.kind = wire[delivered].type /\ 0 < delivered /\ delivered \in DOMAIN wire
  BY <1>2, <1>3, <1>4 DEF EventInv
<1>6. wire[delivered] = Header /\ delivered = 1
  BY <1>2, <1>3, <1>5, MessageFacts DEF WriterInv, CloseInv
<1>7. created = 0 /\ 1 \in Readers
  <2>1. created # 1
    BY <1>2, <1>3, <1>6 DEF EventInv
  <2>2. Callers # {}
    BY <1>3, <1>4, <1>5 DEF WriterInv, HeaderInv
  <2> QED
    BY <1>3, <2>1, <2>2, FirstReader DEF ReceiverTypeOK
<1>8. Got' = << >> /\ Handled' = 0
  BY <1>1, <1>2, <1>3, <1>6, <1>7 DEF Got, Handled, ReaderInv
<1>9. HasChunks(Got', wire, 0)
  BY <1>8, HasNoChunks
<1>10. ReceiverTypeOK'
  BY <1>1, <1>2, <1>3, <1>4, <1>5, <1>6, <1>7, <1>8, <1>9 DEF ReceiverTypeOK, None
<1>11. EventInv'
  BY <1>1, <1>2, <1>3, <1>4, <1>5, <1>6, <1>7, <1>8, <1>9 DEF EventInv, ReceiverTypeOK, None
<1>12. ReaderInv'
  BY <1>1, <1>2, <1>3, <1>4, <1>5, <1>6, <1>7, <1>8, <1>9 DEF ReaderInv, EventInv, ReceiverTypeOK, None
<1> QED
  BY <1>10, <1>11, <1>12

LEMMA UnwantedKeeps ==
  ASSUME StreamsInv, OnStreamIgnored
  PROVE  ReceiverInv'
<1> SUFFICES ASSUME ~overlapped' PROVE (ReceiverTypeOK /\ EventInv /\ ReaderInv)'
  BY DEF ReceiverInv
<1>1. /\ wire' = wire /\ overlapped' = overlapped /\ room_state' = room_state /\ created' = created
      /\ stream_readers' = stream_readers
      /\ target' = target /\ queue' = queue /\ read' = read /\ reader_closed' = reader_closed /\ ended' = ended
      /\ delivered' = delivered
  BY DEF OnStreamIgnored, Goto, Finish, Handles, Emit, writerVars, receiverVars, readerVars
<1>2. /\ at = "handle" /\ at' = "idle" /\ event.kind \in {"header", "chunk", "trailer"}
      /\ event.kind # "header" => stream_readers = 0
  BY DEF OnStreamIgnored, Goto, Finish, Handles, Emit, None
<1>3. ~overlapped /\ WriterInv /\ ReceiverTypeOK /\ EventInv /\ ReaderInv
  BY <1>1 DEF StreamsInv, ReceiverInv
<1>4. wire \in Seq(Message) /\ Len(wire) \in Nat /\ delivered \in 0 .. Len(wire)
  BY <1>3 DEF WriterInv, WriterTypeOK, ReceiverTypeOK
<1>5. wire[delivered] \in Message /\ event.kind = wire[delivered].type /\ 0 < delivered /\ delivered \in DOMAIN wire
  BY <1>2, <1>3, <1>4 DEF EventInv
<1>6. event.kind = "header" => created = 0
  <2>1. SUFFICES ASSUME event.kind = "header" PROVE created = 0
    OBVIOUS
  <2>2. delivered = 1
    BY <1>3, <1>5, <2>1, MessageFacts DEF WriterInv, CloseInv
  <2> QED
    BY <1>2, <1>3, <2>2 DEF EventInv, ReceiverTypeOK
<1>7. Handled' = delivered /\ Handled = delivered - 1 /\ Got' = Got /\ delivered \in Nat /\ 0 < delivered
  BY <1>1, <1>2, <1>4, <1>5 DEF Handled, Got
<1>8. ReceiverTypeOK'
  BY <1>1, <1>2, <1>3, <1>4, <1>5, <1>6, <1>7 DEF ReceiverTypeOK, None
<1>9. EventInv'
  BY <1>1, <1>2, <1>3, <1>4, <1>5, <1>6, <1>7 DEF EventInv, ReceiverTypeOK, None
<1>10. ReaderInv'
  BY <1>1, <1>2, <1>3, <1>4, <1>5, <1>6, <1>7 DEF ReaderInv, EventInv, ReceiverTypeOK, None
<1> QED
  BY <1>8, <1>9, <1>10

LEMMA ChunkKeeps ==
  ASSUME StreamsInv, OnStreamChunk
  PROVE  ReceiverInv'
<1> SUFFICES ASSUME ~overlapped' PROVE (ReceiverTypeOK /\ EventInv /\ ReaderInv)'
  BY DEF ReceiverInv
<1>1. /\ wire' = wire /\ overlapped' = overlapped /\ event' = event /\ room_state' = room_state /\ created' = created
      /\ stream_readers' = stream_readers /\ queue' = queue /\ read' = read /\ reader_closed' = reader_closed
      /\ ended' = ended
      /\ delivered' = delivered
  BY DEF OnStreamChunk, Goto, Finish, Handles, Emit, writerVars, receiverVars, readerVars
<1>2. /\ at = "handle" /\ at' = "callback" /\ event.kind = "chunk"
      /\ stream_readers # 0 /\ target' = stream_readers
  BY DEF OnStreamChunk, Goto, Finish, Handles, Emit, None
<1>3. ~overlapped /\ WriterInv /\ ReceiverTypeOK /\ EventInv /\ ReaderInv
  BY <1>1 DEF StreamsInv, ReceiverInv
<1>4. stream_readers = 1 /\ created = 1
  BY <1>2, <1>3 DEF ReceiverTypeOK
<1>5. Handled' = Handled /\ Got' = Got
  BY <1>1, <1>2 DEF Handled, Got
<1>6. ReceiverTypeOK'
  BY <1>1, <1>2, <1>3, <1>4, <1>5 DEF ReceiverTypeOK, None
<1>7. EventInv'
  BY <1>1, <1>2, <1>3, <1>4, <1>5 DEF EventInv, ReceiverTypeOK, None
<1>8. ReaderInv'
  BY <1>1, <1>2, <1>3, <1>4, <1>5 DEF ReaderInv, EventInv, ReceiverTypeOK, None
<1> QED
  BY <1>6, <1>7, <1>8

LEMMA TrailerKeeps ==
  ASSUME StreamsInv, OnStreamTrailer
  PROVE  ReceiverInv'
<1> SUFFICES ASSUME ~overlapped' PROVE (ReceiverTypeOK /\ EventInv /\ ReaderInv)'
  BY DEF ReceiverInv
<1>1. /\ wire' = wire /\ overlapped' = overlapped /\ event' = event /\ room_state' = room_state /\ created' = created
      /\ queue' = queue /\ read' = read /\ reader_closed' = reader_closed /\ ended' = ended /\ delivered' = delivered
  BY DEF OnStreamTrailer, Goto, Finish, Handles, Emit, writerVars, receiverVars, readerVars
<1>2. /\ at = "handle" /\ at' = "callback" /\ event.kind = "trailer"
      /\ stream_readers # 0 /\ target' = stream_readers /\ stream_readers' = 0
  BY DEF OnStreamTrailer, Goto, Finish, Handles, Emit, None
<1>3. ~overlapped /\ WriterInv /\ ReceiverTypeOK /\ EventInv /\ ReaderInv
  BY <1>1 DEF StreamsInv, ReceiverInv
<1>4. stream_readers = 1 /\ created = 1
  BY <1>2, <1>3 DEF ReceiverTypeOK
<1>5. Handled' = Handled /\ Got' = Got
  BY <1>1, <1>2 DEF Handled, Got
<1>6. ReceiverTypeOK'
  BY <1>1, <1>2, <1>3, <1>4, <1>5 DEF ReceiverTypeOK, None
<1>7. EventInv'
  BY <1>1, <1>2, <1>3, <1>4, <1>5 DEF EventInv, ReceiverTypeOK, None
<1>8. ReaderInv'
  BY <1>1, <1>2, <1>3, <1>4, <1>5 DEF ReaderInv, EventInv, ReceiverTypeOK, None
<1> QED
  BY <1>6, <1>7, <1>8

LEMMA CallHandlerKeeps ==
  ASSUME StreamsInv, CallHandler
  PROVE  ReceiverInv'
<1> SUFFICES ASSUME ~overlapped' PROVE (ReceiverTypeOK /\ EventInv /\ ReaderInv)'
  BY DEF ReceiverInv
<1>1. /\ wire' = wire /\ overlapped' = overlapped /\ room_state' = room_state /\ created' = created
      /\ stream_readers' = stream_readers
      /\ queue' = queue /\ read' = read /\ reader_closed' = reader_closed /\ ended' = ended /\ delivered' = delivered
  BY DEF CallHandler, Goto, Finish, Handles, Emit, writerVars, receiverVars, readerVars
<1>2. at = "callback" /\ at' = "idle" /\ event.kind = "header" /\ target' = 0
  BY DEF CallHandler, Goto, Finish, Handles, Emit, None
<1>3. ~overlapped /\ WriterInv /\ ReceiverTypeOK /\ EventInv /\ ReaderInv
  BY <1>1 DEF StreamsInv, ReceiverInv
<1>4. wire \in Seq(Message) /\ Len(wire) \in Nat /\ delivered \in 0 .. Len(wire)
  BY <1>3 DEF WriterInv, WriterTypeOK, ReceiverTypeOK
<1>5. wire[delivered] \in Message /\ event.kind = wire[delivered].type /\ 0 < delivered /\ delivered \in DOMAIN wire
  BY <1>2, <1>3, <1>4 DEF EventInv
<1>6. wire[delivered] = Header
  BY <1>2, <1>5, MessageFacts
<1>7. created = 1 /\ target = 1 /\ 1 \in Readers
  BY <1>2, <1>3 DEF EventInv, ReceiverTypeOK
<1>8. Handled' = delivered /\ Handled = delivered - 1 /\ Got' = Got /\ delivered \in Nat /\ 0 < delivered
  BY <1>1, <1>2, <1>4, <1>5 DEF Handled, Got
<1>9. HasChunks(Got, wire, Handled)
  BY <1>2, <1>3, <1>7 DEF ReaderInv
<1>10. HasChunks(Got', wire, Handled')
  <2>1. (delivered - 1) + 1 = delivered /\ delivered - 1 \in Nat
    BY <1>8
  <2>2. ~IsChunk(wire[(delivered - 1) + 1])
    BY <1>6, <2>1, MessageFacts
  <2>3. HasChunks(Got, wire, (delivered - 1) + 1)
    BY <1>8, <1>9, <2>1, <2>2, HasChunksSkip
  <2> QED
    BY <1>8, <2>1, <2>3
<1>11. ~reader_closed[1]
  BY <1>2, <1>3, <1>7 DEF ReaderInv
<1>12. ReceiverTypeOK'
  BY <1>1, <1>2, <1>3, <1>4, <1>5, <1>6, <1>7, <1>8, <1>9, <1>10, <1>11 DEF ReceiverTypeOK, None
<1>13. EventInv'
  BY <1>1, <1>2, <1>3, <1>4, <1>5, <1>6, <1>7, <1>8, <1>9, <1>10, <1>11 DEF EventInv, ReceiverTypeOK, None
<1>14. ReaderInv'
  BY <1>1, <1>2, <1>3, <1>4, <1>5, <1>6, <1>7, <1>8, <1>9, <1>10, <1>11 DEF ReaderInv, EventInv, ReceiverTypeOK, None
<1> QED
  BY <1>12, <1>13, <1>14

\* A chunk is put behind the chunks before it.
LEMMA ChunkUpdateKeeps ==
  ASSUME StreamsInv, OnChunkUpdate
  PROVE  ReceiverInv'
<1> SUFFICES ASSUME ~overlapped' PROVE (ReceiverTypeOK /\ EventInv /\ ReaderInv)'
  BY DEF ReceiverInv
<1>1. /\ wire' = wire /\ overlapped' = overlapped /\ room_state' = room_state /\ created' = created
      /\ stream_readers' = stream_readers
      /\ read' = read /\ reader_closed' = reader_closed /\ ended' = ended /\ delivered' = delivered
  BY DEF OnChunkUpdate, Goto, Finish, Handles, Emit, writerVars, receiverVars, readerVars
<1>2. at = "callback" /\ at' = "idle" /\ event.kind = "chunk" /\ target' = 0
  BY DEF OnChunkUpdate, Goto, Finish, Handles, Emit, None
<1>3. ~overlapped /\ WriterInv /\ ReceiverTypeOK /\ EventInv /\ ReaderInv
  BY <1>1 DEF StreamsInv, ReceiverInv
<1>4. wire \in Seq(Message) /\ Len(wire) \in Nat /\ delivered \in 0 .. Len(wire)
  BY <1>3 DEF WriterInv, WriterTypeOK, ReceiverTypeOK
<1>5. wire[delivered] \in Message /\ event.kind = wire[delivered].type /\ 0 < delivered /\ delivered \in DOMAIN wire
  BY <1>2, <1>3, <1>4 DEF EventInv
<1>6. IsChunk(wire[delivered])
  BY <1>2, <1>5 DEF IsChunk
<1>7. created = 1 /\ target = 1 /\ 1 \in Readers /\ event.what = delivered
  BY <1>2, <1>3 DEF EventInv, ReceiverTypeOK
<1>8. ~reader_closed[1]
  BY <1>2, <1>3, <1>7 DEF ReaderInv
<1>9. queue'[1] = Append(queue[1], wire[delivered]) /\ queue' \in [Readers -> Seq(Message)]
  BY <1>3, <1>5, <1>7, <1>8 DEF OnChunkUpdate, ReceiverTypeOK
<1>10. Got' = Append(Got, wire[delivered]) /\ Got \in Seq(Message)
  <2>1. read[1] \in Seq(Message) /\ queue[1] \in Seq(Message)
    BY <1>3, <1>7 DEF ReceiverTypeOK
  <2>2. \A x, y \in Seq(Message) : \A m \in Message : x \o Append(y, m) = Append(x \o y, m)
    BY PushMoves
  <2>3. Got' = read[1] \o Append(queue[1], wire[delivered])
    BY <1>1, <1>9 DEF Got
  <2>4. Got' = Append(read[1] \o queue[1], wire[delivered])
    BY <1>5, <2>1, <2>2, <2>3, Zenon
  <2> QED
    BY <2>1, <2>4 DEF Got
<1>11. Handled' = delivered /\ Handled = delivered - 1 /\ delivered \in Nat
  BY <1>1, <1>2, <1>4 DEF Handled
<1>12. HasChunks(Got, wire, Handled)
  BY <1>2, <1>3, <1>7 DEF ReaderInv
<1>13. HasChunks(Got', wire, Handled')
  <2>1. (delivered - 1) + 1 = delivered /\ delivered - 1 \in Nat
    BY <1>5, <1>11
  <2>2. HasChunks(Append(Got, wire[(delivered - 1) + 1]), wire, (delivered - 1) + 1)
    BY <1>5, <1>6, <1>10, <1>11, <1>12, <2>1, HasChunksAppend
  <2> QED
    BY <1>10, <1>11, <2>1, <2>2
<1>14. 1 \notin ended
  BY <1>3, <1>7, <1>8 DEF ReaderInv
<1>15. ReceiverTypeOK'
  BY <1>1, <1>2, <1>3, <1>4, <1>5, <1>6, <1>7, <1>8, <1>9, <1>10, <1>11, <1>12, <1>13, <1>14 DEF ReceiverTypeOK, None
<1>16. EventInv'
  BY <1>1, <1>2, <1>3, <1>4, <1>5, <1>6, <1>7, <1>8, <1>9, <1>10, <1>11, <1>12, <1>13, <1>14 DEF EventInv,
       ReceiverTypeOK, None
<1>17. ReaderInv'
  BY <1>1, <1>2, <1>3, <1>4, <1>5, <1>6, <1>7, <1>8, <1>9, <1>10, <1>11, <1>12, <1>13, <1>14 DEF ReaderInv, EventInv,
       ReceiverTypeOK, None
<1> QED
  BY <1>15, <1>16, <1>17

\* The trailer is the last message.
LEMMA StreamCloseKeeps ==
  ASSUME StreamsInv, OnStreamClose
  PROVE  ReceiverInv'
<1> SUFFICES ASSUME ~overlapped' PROVE (ReceiverTypeOK /\ EventInv /\ ReaderInv)'
  BY DEF ReceiverInv
<1>1. /\ wire' = wire /\ overlapped' = overlapped /\ room_state' = room_state /\ created' = created
      /\ stream_readers' = stream_readers
      /\ queue' = queue /\ read' = read /\ ended' = ended /\ delivered' = delivered
  BY DEF OnStreamClose, Goto, Finish, Handles, Emit, writerVars, receiverVars, readerVars
<1>2. at = "callback" /\ at' = "idle" /\ event.kind = "trailer" /\ target' = 0
  BY DEF OnStreamClose, Goto, Finish, Handles, Emit, None
<1>3. ~overlapped /\ WriterInv /\ ReceiverTypeOK /\ EventInv /\ ReaderInv
  BY <1>1 DEF StreamsInv, ReceiverInv
<1>4. wire \in Seq(Message) /\ Len(wire) \in Nat /\ delivered \in 0 .. Len(wire)
  BY <1>3 DEF WriterInv, WriterTypeOK, ReceiverTypeOK
<1>5. wire[delivered] \in Message /\ event.kind = wire[delivered].type /\ 0 < delivered /\ delivered \in DOMAIN wire
  BY <1>2, <1>3, <1>4 DEF EventInv
<1>6. wire[delivered] = Trailer
  BY <1>2, <1>5, MessageFacts
<1>7. created = 1 /\ target = 1 /\ 1 \in Readers
  BY <1>2, <1>3 DEF EventInv, ReceiverTypeOK
<1>8. Handled' = delivered /\ Handled = delivered - 1 /\ Got' = Got /\ delivered \in Nat /\ 0 < delivered
  BY <1>1, <1>2, <1>4, <1>5 DEF Handled, Got
<1>9. HasChunks(Got, wire, Handled)
  BY <1>2, <1>3, <1>7 DEF ReaderInv
<1>10. HasChunks(Got', wire, Handled')
  <2>1. (delivered - 1) + 1 = delivered /\ delivered - 1 \in Nat
    BY <1>8
  <2>2. ~IsChunk(wire[(delivered - 1) + 1])
    BY <1>6, <2>1, MessageFacts
  <2>3. HasChunks(Got, wire, (delivered - 1) + 1)
    BY <1>8, <1>9, <2>1, <2>2, HasChunksSkip
  <2> QED
    BY <1>8, <2>1, <2>3
<1>11. delivered = Len(wire)
  BY <1>3, <1>5, <1>6 DEF WriterInv, CloseInv
<1>12. reader_closed'[1] = TRUE /\ reader_closed' \in [Readers -> BOOLEAN]
  BY <1>3, <1>7 DEF OnStreamClose, ReceiverTypeOK
<1>13. 1 \notin ended
  BY <1>2, <1>3, <1>7 DEF ReaderInv
<1>14. ReceiverTypeOK'
  BY <1>1, <1>2, <1>3, <1>4, <1>5, <1>6, <1>7, <1>8, <1>9, <1>10, <1>11, <1>12, <1>13 DEF ReceiverTypeOK, None
<1>15. EventInv'
  BY <1>1, <1>2, <1>3, <1>4, <1>5, <1>6, <1>7, <1>8, <1>9, <1>10, <1>11, <1>12, <1>13 DEF EventInv, ReceiverTypeOK, None
<1>16. ReaderInv'
  BY <1>1, <1>2, <1>3, <1>4, <1>5, <1>6, <1>7, <1>8, <1>9, <1>10, <1>11, <1>12, <1>13 DEF ReaderInv, EventInv,
       ReceiverTypeOK, None
<1> QED
  BY <1>14, <1>15, <1>16

\* What readNext() takes from the queue it returns.
LEMMA ReadNextKeeps ==
  ASSUME StreamsInv, NEW r \in Readers, ReadNext(r)
  PROVE  ReceiverInv'
<1> SUFFICES ASSUME ~overlapped' PROVE (ReceiverTypeOK /\ EventInv /\ ReaderInv)'
  BY DEF ReceiverInv
<1>1. /\ wire' = wire /\ overlapped' = overlapped /\ at' = at /\ event' = event /\ room_state' = room_state
      /\ created' = created /\ stream_readers' = stream_readers /\ target' = target /\ reader_closed' = reader_closed
      /\ ended' = ended
      /\ delivered' = delivered
  BY DEF ReadNext, loopVars, writerVars, receiverVars, readerVars
<1>2. /\ queue[r] # << >>
      /\ read' = [read EXCEPT ![r] = Append(@, Head(queue[r]))] /\ queue' = [queue EXCEPT ![r] = Tail(@)]
  BY DEF ReadNext, loopVars, None
<1>3. ~overlapped /\ WriterInv /\ ReceiverTypeOK /\ EventInv /\ ReaderInv
  BY <1>1 DEF StreamsInv, ReceiverInv
<1>4. queue[r] \in Seq(Message) /\ read[r] \in Seq(Message)
  BY <1>3 DEF ReceiverTypeOK
<1>5. queue' \in [Readers -> Seq(Message)] /\ read' \in [Readers -> Seq(Message)]
  BY <1>2, <1>3, <1>4 DEF ReceiverTypeOK
<1>6. 1 \in Readers => Got' = Got
  <2>1. CASE r = 1
    <3>1. read'[1] = Append(read[1], Head(queue[1])) /\ queue'[1] = Tail(queue[1])
      BY <1>2, <1>3, <2>1 DEF ReceiverTypeOK
    <3> QED
      BY <1>2, <1>4, <2>1, <3>1, ReadMoves DEF Got
  <2>2. CASE r # 1
    BY <1>2, <1>3, <2>2 DEF Got, ReceiverTypeOK
  <2> QED
    BY <2>1, <2>2
<1>7. Handled' = Handled
  BY <1>1 DEF Handled
<1>8. 1 \in Readers /\ queue[1] = << >> => queue'[1] = << >> /\ read'[1] = read[1]
  BY <1>2, <1>3 DEF ReceiverTypeOK
<1>9. ReceiverTypeOK'
  BY <1>1, <1>2, <1>3, <1>4, <1>5, <1>6, <1>7, <1>8 DEF ReceiverTypeOK, None
<1>10. EventInv'
  BY <1>1, <1>2, <1>3, <1>4, <1>5, <1>6, <1>7, <1>8 DEF EventInv, ReceiverTypeOK, None
<1>11. ReaderInv'
  BY <1>1, <1>2, <1>3, <1>4, <1>5, <1>6, <1>7, <1>8 DEF ReaderInv, EventInv, ReceiverTypeOK, None
<1> QED
  BY <1>9, <1>10, <1>11

LEMMA ReadEndsKeeps ==
  ASSUME StreamsInv, NEW r \in Readers, ReadEnds(r)
  PROVE  ReceiverInv'
<1> SUFFICES ASSUME ~overlapped' PROVE (ReceiverTypeOK /\ EventInv /\ ReaderInv)'
  BY DEF ReceiverInv
<1>1. /\ wire' = wire /\ overlapped' = overlapped /\ at' = at /\ event' = event /\ room_state' = room_state
      /\ created' = created /\ stream_readers' = stream_readers /\ target' = target /\ queue' = queue /\ read' = read
      /\ reader_closed' = reader_closed /\ delivered' = delivered
  BY DEF ReadEnds, loopVars, writerVars, receiverVars, readerVars
<1>2. queue[r] = << >> /\ reader_closed[r] /\ ended' = ended \cup {r}
  BY DEF ReadEnds, loopVars, None
<1>3. ~overlapped /\ WriterInv /\ ReceiverTypeOK /\ EventInv /\ ReaderInv
  BY <1>1 DEF StreamsInv, ReceiverInv
<1>4. Handled' = Handled /\ Got' = Got
  BY <1>1 DEF Handled, Got
<1>5. ReceiverTypeOK'
  BY <1>1, <1>2, <1>3, <1>4 DEF ReceiverTypeOK, None
<1>6. EventInv'
  BY <1>1, <1>2, <1>3, <1>4 DEF EventInv, ReceiverTypeOK, None
<1>7. ReaderInv'
  BY <1>1, <1>2, <1>3, <1>4 DEF ReaderInv, EventInv, ReceiverTypeOK, None
<1> QED
  BY <1>5, <1>6, <1>7

LEMMA DropReadersKeeps ==
  ASSUME StreamsInv, ShutdownDropReaders
  PROVE  ReceiverInv'
<1> SUFFICES ASSUME ~overlapped' PROVE (ReceiverTypeOK /\ EventInv /\ ReaderInv)'
  BY DEF ReceiverInv
<1>1. /\ wire' = wire /\ overlapped' = overlapped /\ at' = at /\ event' = event /\ created' = created
      /\ target' = target /\ queue' = queue /\ read' = read /\ reader_closed' = reader_closed /\ ended' = ended
      /\ delivered' = delivered
  BY DEF ShutdownDropReaders, Claim, writerVars, receiverVars, readerVars
<1>2. stream_readers' = 0 /\ room_state' = "released"
  BY DEF ShutdownDropReaders, Claim, None
<1>3. ~overlapped /\ WriterInv /\ ReceiverTypeOK /\ EventInv /\ ReaderInv
  BY <1>1 DEF StreamsInv, ReceiverInv
<1>4. Handled' = Handled /\ Got' = Got
  BY <1>1 DEF Handled, Got
<1>5. ReceiverTypeOK'
  BY <1>1, <1>2, <1>3, <1>4 DEF ReceiverTypeOK, None
<1>6. EventInv'
  BY <1>1, <1>2, <1>3, <1>4 DEF EventInv, ReceiverTypeOK, None
<1>7. ReaderInv'
  BY <1>1, <1>2, <1>3, <1>4 DEF ReaderInv, EventInv, ReceiverTypeOK, None
<1> QED
  BY <1>5, <1>6, <1>7

LEMMA StreamsInitInv == StreamsInit => StreamsInv
<1> SUFFICES ASSUME StreamsInit PROVE StreamsInv
  OBVIOUS
<1>1. WriterInv
  BY WriterInitInv DEF StreamsInit
<1>2. /\ at = "idle" /\ room_state = "connected" /\ delivered = 0 /\ created = 0 /\ stream_readers = 0 /\ target = 0 /\ ended = {}
      /\ queue = [r \in Readers |-> << >>] /\ read = [r \in Readers |-> << >>] /\ reader_closed = [r \in Readers |-> FALSE]
  BY DEF StreamsInit, LoopInit, None
<1>3. << >> \in Seq(Message) /\ Len(wire) = 0
  BY DEF StreamsInit, WriterInit
<1>4. ReceiverTypeOK
  BY <1>2, <1>3 DEF ReceiverTypeOK
<1>5. EventInv /\ ReaderInv
  BY <1>2 DEF EventInv, ReaderInv
<1> QED
  BY <1>1, <1>4, <1>5 DEF StreamsInv, ReceiverInv

LEMMA StreamsStep == StreamsInv /\ [StreamsNext]_streamsVars => StreamsInv'
<1> SUFFICES ASSUME StreamsInv, [StreamsNext]_streamsVars PROVE StreamsInv'
  OBVIOUS
<1>1. [WriterNext]_writerVars
  BY DEF StreamsNext, streamsVars, RegisterStreamHandler, UnregisterStreamHandler, RustDeliver, HandleEvent,
       OnStreamHeader,
     OnStreamIgnored, OnStreamChunk, OnStreamTrailer, CallHandler, OnChunkUpdate, OnStreamClose, ReadNext, ReadEnds,
     ShutdownDropReaders, ShutdownRest
<1>2. WriterInv'
  BY <1>1, WriterStep DEF StreamsInv
<1>3. ReceiverInv'
  <2>1. CASE room_state = "connected" /\ WriterNext /\ UNCHANGED <<loopVars, receiverVars>>
    BY <2>1, WriterReceives
  <2>2. CASE RegisterStreamHandler \/ UnregisterStreamHandler
    BY <2>2, QuietKeeps DEF RegisterStreamHandler, UnregisterStreamHandler, loopVars, writerVars, readerVars, StreamsInv
  <2>3. CASE RustDeliver
    BY <2>3, DeliverKeeps
  <2>4. CASE HandleEvent
    BY <2>4, CheckedKeeps, IgnoredKeeps, HeaderKeeps, UnwantedKeeps, ChunkKeeps, TrailerKeeps, CallHandlerKeeps,
       ChunkUpdateKeeps, StreamCloseKeeps DEF HandleEvent
  <2>5. CASE \E r \in Readers : ReadNext(r) \/ ReadEnds(r)
    BY <2>5, ReadNextKeeps, ReadEndsKeeps
  <2>6. CASE ShutdownDropReaders
    BY <2>6, DropReadersKeeps
  <2>7. CASE ShutdownRest
    BY <2>7, QuietKeeps DEF ShutdownRest, StopAll, RemoveListener, Release, writerVars, receiverVars, readerVars,
         StreamsInv
  <2>8. CASE UNCHANGED streamsVars
    BY <2>8, QuietKeeps DEF streamsVars, loopVars, writerVars, receiverVars, readerVars, StreamsInv
  <2> QED
    BY <2>1, <2>2, <2>3, <2>4, <2>5, <2>6, <2>7, <2>8 DEF StreamsNext
<1> QED
  BY <1>2, <1>3 DEF StreamsInv

\* A stream that close() did not overlap with is read as it was written: the reader has the first
\* chunks of the wire in order, and when readNext() has returned false it has returned them all,
\* down to the last byte of every write if nothing failed.
THEOREM StreamsReadAsWritten == StreamsSpec => []StreamsComplete
<1>1. ASSUME StreamsInv PROVE StreamsComplete
  <2> SUFFICES ASSUME ~overlapped, created = 1
               PROVE  /\ \E k \in 0 .. Len(wire) : HasChunks(read[1] \o queue[1], wire, k)
                      /\ 1 \in ended =>
                           /\ HasChunks(read[1], wire, Len(wire))
                           /\ ~failed => \A w \in DOMAIN writes :
                                writes[w] # << >> =>
                                  \E k \in DOMAIN read[1] : read[1][k].write = w /\ read[1][k].to = Len(writes[w])
    BY <1>1 DEF StreamsComplete, StreamsInv, ReceiverInv, ReceiverTypeOK
  <2>1. WriterInv /\ ReceiverTypeOK /\ EventInv /\ ReaderInv /\ wire \in Seq(Message)
    BY <1>1 DEF StreamsInv, ReceiverInv, WriterInv, WriterTypeOK
  <2>2. Len(wire) \in Nat /\ delivered \in 0 .. Len(wire) /\ Handled \in Int /\ Handled <= Len(wire)
    BY <2>1 DEF ReceiverTypeOK, Handled
  <2>3. \E k \in 0 .. Len(wire) : HasChunks(read[1] \o queue[1], wire, k)
    BY <2>1, <2>2 DEF ReaderInv, Got
  <2>4. ASSUME 1 \in ended PROVE HasChunks(read[1], wire, Len(wire)) /\ wire[Len(wire)] = Trailer /\ Len(wire) > 0
    <3>1. reader_closed[1] /\ queue[1] = << >> /\ 1 \in Readers
      BY <2>1, <2>4 DEF ReaderInv, EventInv
    <3>2. at = "idle" /\ delivered = Len(wire) /\ wire[delivered] = Trailer /\ 0 < delivered
      BY <2>1, <3>1 DEF ReaderInv, EventInv
    <3>3. Handled = Len(wire)
      BY <3>2 DEF Handled
    <3>4. HasChunks(Got, wire, Len(wire))
      BY <2>1, <3>1, <3>3 DEF ReaderInv
    <3>5. Got = read[1]
      BY <2>1, <3>1 DEF Got, ReceiverTypeOK
    <3> QED
      BY <3>2, <3>4, <3>5
  <2>5. ASSUME 1 \in ended, ~failed, NEW w \in DOMAIN writes, writes[w] # << >>
        PROVE  \E k \in DOMAIN read[1] : read[1][k].write = w /\ read[1][k].to = Len(writes[w])
    <3>1. \A c \in Callers : Idle(c)
      BY <2>1, <2>2, <2>4, <2>5 DEF WriterInv, CloseInv
    <3>2. write_mutex = {}
      BY <2>1, <3>1 DEF WriterInv, MutexInv, WriterTypeOK, Idle, Writing
    <3>3. Sent(w)
      BY <2>1, <2>5, <3>2 DEF WriterInv, WritesKept
    <3>4. PICK p \in DOMAIN wire : IsChunk(wire[p]) /\ wire[p].write = w /\ wire[p].to = Len(writes[w])
      BY <3>3 DEF Sent
    <3>5. p \in 1 .. Len(wire)
      BY <2>1
    <3>6. read[1][ChunksIn(wire, p)] = wire[p] /\ Len(read[1]) = ChunksIn(wire, Len(wire))
      BY <2>4, <2>5, <3>4, <3>5 DEF HasChunks
    <3>7. ChunksIn(wire, p) \in 1 .. Len(read[1])
      BY <2>2, <3>4, <3>5, <3>6, ChunkIsCounted
    <3>8. DOMAIN read[1] = 1 .. Len(read[1])
      BY <2>1, <2>4, <2>5 DEF ReceiverTypeOK, EventInv
    <3> QED
      BY <3>4, <3>6, <3>7, <3>8
  <2> QED
    BY <2>3, <2>4, <2>5
<1> QED
  BY <1>1, StreamsInitInv, StreamsStep, PTL DEF StreamsSpec

=============================================================================
