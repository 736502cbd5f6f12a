-------------------------- MODULE DataStreamWriter --------------------------
(***************************************************************************)
(* TextStreamWriter and ByteStreamWriter (src/src/data_stream.cpp): write()*)
(* cuts its argument into pieces and sends each as a chunk, after a header *)
(* that goes out once, before the first message; close() sends the         *)
(* trailer.  Writes exclude each other with write_mutex_.  close() does    *)
(* not take it, and reads and sets closed_ and header_sent_ while a write  *)
(* may be going on.                                                        *)
(*                                                                         *)
(* A send is one of FfiClient's asynchronous operations followed by get(): *)
(* Rust has put the message on the wire, or get() throws and it has not.   *)
(* A text is a sequence of bytes of which only matters whether they begin  *)
(* or continue a code point.  The bytes of a ByteStreamWriter count as     *)
(* bytes that begin one: the two kinds of writer then cut in the same way. *)
(***************************************************************************)
EXTENDS Integers, Sequences, FiniteSets, FiniteSetsExt

CONSTANTS
  Callers,          \* the threads that use the writer
  Texts,            \* what they may write
  kStreamChunkSize,
  MaxWrites         \* bound on the write() calls that go past the test of closed_

CodePointStarts(t) == {k \in DOMAIN t : t[k] = "lead"}

ASSUME WriterAssumption ==
  /\ IsFiniteSet(Callers)
  /\ kStreamChunkSize \in Nat \ {0}
  /\ MaxWrites \in Nat
  /\ \A t \in Texts :
       /\ t \in Seq({"lead", "cont"})
       /\ t # << >> => t[1] = "lead"
       /\ \A k \in DOMAIN t : \E j \in CodePointStarts(t) : j <= k /\ k < j + kStreamChunkSize

VARIABLES
  closed,            \* closed_
  header_sent,       \* header_sent_
  next_chunk_index,  \* next_chunk_index_
  write_mutex,       \* the callers that hold write_mutex_
  step,              \* per caller, where it is
  offset,            \* per caller, the bytes of its text that have been sent
  writes,            \* history: the texts written, in the order in which the calls took the mutex
  wire,              \* history: the messages Rust has accepted
  failed,            \* history: some send has failed
  overlapped         \* history: close() has overlapped with another call

writerVars == <<closed, header_sent, next_chunk_index, write_mutex, step, offset, writes, wire,
                failed, overlapped>>

Header == [type |-> "header"]
Trailer == [type |-> "trailer"]
Chunk(index, write, from, to) == [type |-> "chunk", index |-> index, write |-> write, from |-> from, to |-> to]

WriterInit ==
  /\ closed = FALSE
  /\ header_sent = FALSE
  /\ next_chunk_index = 0
  /\ write_mutex = {}
  /\ step = [c \in Callers |-> "idle"]
  /\ offset = [c \in Callers |-> 0]
  /\ writes = << >>
  /\ wire = << >>
  /\ failed = FALSE
  /\ overlapped = FALSE

-----------------------------------------------------------------------------
(* Cutting *)

Least(a, b) == IF a <= b THEN a ELSE b

\* Mutant of Cut: no walk back to the byte that begins a code point.
CutBlind(t, i) == Least(i + kStreamChunkSize, Len(t))

\* splitUtf8() and the loop of ByteStreamWriter::write(): where the piece that begins after i bytes of t ends.  In the middle of the
\* text the end is moved back to the start of a code point; at the end of the text it is
\* moved back by one byte if that byte continues a code point.
Cut(t, i) ==
  LET end == Least(i + kStreamChunkSize, Len(t))
      back == IF end < Len(t) THEN Max({e \in i .. end : e = i \/ t[e + 1] = "lead"})
              ELSE IF t[end] = "cont" THEN end - 1 ELSE end
  IN IF back = i THEN end ELSE back

-----------------------------------------------------------------------------
(* write() *)

Idle(c) == step[c] = "idle"
Closing(c) == step[c] \in {"closing", "close_header", "trailer"}
Goes(c, to) == step' = [step EXCEPT ![c] = to]

Text == writes[Len(writes)]

\* Mutant of WriteLock: write() takes no mutex.
WriteUnlocked(c, t) ==
  /\ Idle(c) /\ ~closed
  /\ Len(writes) < MaxWrites
  /\ write_mutex' = {c}
  /\ writes' = Append(writes, t)
  /\ overlapped' = (overlapped \/ \E d \in Callers : Closing(d))
  /\ Goes(c, "piece")
  /\ UNCHANGED <<closed, header_sent, next_chunk_index, offset, wire, failed>>

\* The mutex is taken and the writer is not closed (otherwise write() throws).
WriteLock(c, t) ==
  /\ Idle(c) /\ ~closed
  /\ write_mutex = {}
  /\ Len(writes) < MaxWrites
  /\ write_mutex' = {c}
  /\ writes' = Append(writes, t)
  /\ overlapped' = (overlapped \/ \E d \in Callers : Closing(d))
  /\ Goes(c, "piece")
  /\ UNCHANGED <<closed, header_sent, next_chunk_index, offset, wire, failed>>

\* write() returns, or an exception leaves it; both release the mutex.
Unlock(c, thrown) ==
  /\ write_mutex' = {}
  /\ failed' = (failed \/ thrown)
  /\ offset' = [offset EXCEPT ![c] = 0]
  /\ Goes(c, "idle")

\* There is no piece left.
WriteReturns(c) ==
  /\ step[c] = "piece"
  /\ offset[c] = Len(Text)
  /\ Unlock(c, FALSE)
  /\ UNCHANGED <<closed, header_sent, next_chunk_index, writes, wire, overlapped>>

\* sendChunk() finds that the stream has been closed in the meantime.
WriteThrows(c) ==
  /\ step[c] = "piece"
  /\ offset[c] < Len(Text) /\ closed
  /\ Unlock(c, TRUE)
  /\ UNCHANGED <<closed, header_sent, next_chunk_index, writes, wire, overlapped>>

\* sendChunk() for the next piece: it goes on with the header, if ensureHeaderSent() has to
\* send it, or takes an index and goes on with the chunk.
SendChunk(c) ==
  /\ step[c] = "piece"
  /\ offset[c] < Len(Text) /\ ~closed
  /\ \/ ~header_sent /\ Goes(c, "header") /\ UNCHANGED next_chunk_index
     \/ header_sent /\ Goes(c, "chunk") /\ next_chunk_index' = next_chunk_index + 1
  /\ UNCHANGED <<closed, header_sent, write_mutex, offset, writes, wire, failed, overlapped>>

\* sendStreamHeaderAsync().get() returns, for a write or for close().
HeaderSent(c) ==
  /\ step[c] \in {"header", "close_header"}
  /\ wire' = Append(wire, Header)
  /\ header_sent' = TRUE
  /\ IF step[c] = "header" THEN Goes(c, "chunk") /\ next_chunk_index' = next_chunk_index + 1
     ELSE Goes(c, "trailer") /\ UNCHANGED next_chunk_index
  /\ UNCHANGED <<closed, write_mutex, offset, writes, failed, overlapped>>

\* sendStreamChunkAsync().get() returns; the loop goes on with the next piece.
ChunkSent(c) ==
  /\ step[c] = "chunk"
  /\ wire' = Append(wire, Chunk(next_chunk_index - 1, Len(writes), offset[c], Cut(Text, offset[c])))
  /\ offset' = [offset EXCEPT ![c] = Cut(Text, @)]
  /\ Goes(c, "piece")
  /\ UNCHANGED <<closed, header_sent, next_chunk_index, write_mutex, writes, failed, overlapped>>

\* get() throws.  The index of a chunk has been used up; a header will be sent again by the
\* next call; a close() cannot be repeated, since closed_ is set.
SendFails(c) ==
  /\ step[c] \in {"header", "chunk", "close_header", "trailer"}
  /\ \/ Closing(c) /\ Goes(c, "idle") /\ failed' = TRUE /\ UNCHANGED <<write_mutex, offset>>
     \/ ~Closing(c) /\ Unlock(c, TRUE)
  /\ UNCHANGED <<closed, header_sent, next_chunk_index, writes, wire, overlapped>>

-----------------------------------------------------------------------------
(* close() *)

\* The test of closed_ (if it is set close() throws).
CloseCheck(c) ==
  /\ Idle(c) /\ ~closed
  /\ overlapped' = (overlapped \/ \E d \in Callers : ~Idle(d))
  /\ Goes(c, "closing")
  /\ UNCHANGED <<closed, header_sent, next_chunk_index, write_mutex, offset, writes, wire, failed>>

\* closed_ is set; sendTrailer() makes sure that the header has been sent.
CloseMark(c) ==
  /\ step[c] = "closing"
  /\ closed' = TRUE
  /\ Goes(c, IF header_sent THEN "trailer" ELSE "close_header")
  /\ UNCHANGED <<header_sent, next_chunk_index, write_mutex, offset, writes, wire, failed, overlapped>>

TrailerSent(c) ==
  /\ step[c] = "trailer"
  /\ wire' = Append(wire, Trailer)
  /\ Goes(c, "idle")
  /\ UNCHANGED <<closed, header_sent, next_chunk_index, write_mutex, offset, writes, failed, overlapped>>

WriterNext ==
  \E c \in Callers :
    \/ \E t \in Texts : WriteLock(c, t)
    \/ WriteReturns(c) \/ WriteThrows(c) \/ SendChunk(c)
    \/ HeaderSent(c) \/ ChunkSent(c) \/ SendFails(c)
    \/ CloseCheck(c) \/ CloseMark(c) \/ TrailerSent(c)

WriterSpec == WriterInit /\ [][WriterNext]_writerVars

-----------------------------------------------------------------------------
(***************************************************************************)
(* Properties of the wire                                                  *)
(***************************************************************************)
IsChunk(m) == m.type = "chunk"

\* Messages j and k are chunks, and no chunk is between them.
Follows(j, k) ==
  /\ j < k /\ IsChunk(wire[j]) /\ IsChunk(wire[k])
  /\ \A m \in j + 1 .. k - 1 : ~IsChunk(wire[m])

\* Each write arrives in one piece: the chunks of a write follow each other without a gap and
\* without those of another write between them, writes come in the order in which they took
\* write_mutex_, their first chunk begins the text, and chunk indices only grow.
WritesInOrder ==
  \A j, k \in DOMAIN wire :
    Follows(j, k) =>
      /\ \/ wire[k].write = wire[j].write /\ wire[k].from = wire[j].to
         \/ wire[k].write > wire[j].write /\ wire[k].from = 0
      /\ wire[k].index > wire[j].index

\* A stream begins with its header, however many calls raced for the first send and failed;
\* and as long as close() does not overlap with a write or another close(), there is no
\* second header, and the trailer is the last message.  Each write arrives in one piece.
StreamWellFormed ==
  /\ WritesInOrder
  /\ wire # << >> => wire[1] = Header
  /\ ~overlapped =>
       /\ \A k \in DOMAIN wire : wire[k] = Header => k = 1
       /\ \A k \in DOMAIN wire : wire[k] = Trailer => k = Len(wire)

\* A piece of text t that ends after `to` bytes breaks no code point.
BreaksNone(t, to) == to = Len(t) \/ t[to + 1] = "lead"

\* The pieces of a text are not empty and not longer than a chunk.  A piece of a text that goes
\* on for more than a chunk breaks no code point, nor does any piece of a text that ends with a
\* code point of one byte.
PiecesWellCut ==
  \A k \in DOMAIN wire :
    LET c == wire[k]  t == writes[c.write] IN
    IsChunk(c) =>
      /\ c.from < c.to /\ c.to <= c.from + kStreamChunkSize
      /\ c.from + kStreamChunkSize < Len(t) \/ t[Len(t)] = "lead" => BreaksNone(t, c.to)

\* "Split UTF-8 string into chunks of at most max_bytes, not breaking codepoints": no piece of
\* any text breaks a code point.
CodePointsWhole ==
  \A k \in DOMAIN wire : IsChunk(wire[k]) => BreaksNone(writes[wire[k].write], wire[k].to)

\* The number of chunks among the first k messages of w.
ChunksIn(w, k) == Cardinality({p \in 1 .. k : IsChunk(w[p])})

\* s has the chunks among the first k messages of w, in their order.
HasChunks(s, w, k) ==
  /\ Len(s) = ChunksIn(w, k)
  /\ \A p \in 1 .. k : IsChunk(w[p]) => s[ChunksIn(w, p)] = w[p]
=============================================================================
