--------------------------- MODULE DispatcherProofs ---------------------------
(***************************************************************************)
(* The dispatcher, for any number of callers, keys, callbacks and tracks:  *)
(* no reader thread is owned twice and none is lost, except for the one a  *)
(* failed replacement destroys; the readers in the maps serve the          *)
(* callbacks and tracks of the moment, and after stopAll() none is left    *)
(* that nobody joins.                                                      *)
(*                                                                         *)
(* What a method does to the threads is the same for all of them: it takes *)
(* some out of the maps, for its caller to join, and starts new ones.      *)
(* TakeAndStart says once that this keeps the ownership; the rest is about *)
(* the maps of callbacks and tracks.                                       *)
(***************************************************************************)
EXTENDS SubscriptionThreadDispatcher, TLAPS

Places == {"unborn", "subscribe", "attach", "read", "callback", "exited"}

RegistryOK ==
  /\ data_key \in [DataIds -> Keys] /\ track_key \in [Sids -> Keys]
  /\ data_callbacks \in SUBSET DataIds /\ remote_data_tracks \in SUBSET Sids
  /\ limit_hit \in BOOLEAN /\ stopped \in BOOLEAN

ReadersOK ==
  /\ active_readers \in SUBSET (Keys \X (1 .. MaxStarts))
  /\ active_data_readers \in SUBSET (DataIds \X (1 .. MaxStarts))
  /\ starts \in [Slots -> 0 .. MaxStarts]
  /\ pc \in [Readers -> Places] /\ reads \in [Readers -> Sids \cup {"audio", "video"}]
  /\ joining \in [Callers -> SUBSET Readers]
  /\ unwound \in SUBSET Readers

\* A reader that runs, or that somebody has, has been started: the number of the next one is free.
Born ==
  \A r \in Readers :
    pc[r] # "unborn" \/ r \in Active \/ (\E t \in Callers : r \in joining[t]) => r[2] <= starts[r[1]]

\* A key has one published data track at most.
OneTrackPerKey == \A s, u \in remote_data_tracks : track_key[s] = track_key[u] => s = u

\* After stopAll(), until something is registered, there is nothing a reader could be started for.
Stopped ==
  stopped =>
    /\ active_readers = {} /\ active_data_readers = {} /\ unwound = {}
    /\ audio_callbacks = {} /\ video_callbacks = {} /\ data_callbacks = {}

OwnInv == RegistryOK /\ ReadersOK /\ Born /\ ReaderOwnedOnce
DispatcherInv == OwnInv /\ OneTrackPerKey /\ Stopped /\ ReadersServeCallbacks

-----------------------------------------------------------------------------
LEMMA DispatcherInit == Init => DispatcherInv
<1> SUFFICES ASSUME Init PROVE DispatcherInv
  OBVIOUS
<1>1. RegistryOK
  BY DEF Init, RegistryOK
<1>2. ReadersOK
  <2>1. 0 \in 0 .. MaxStarts
    BY LimitsAssumption
  <2>2. pc \in [Readers -> Places] /\ reads \in [Readers -> Sids \cup {"audio", "video"}]
    BY DEF Init, Places
  <2> QED
    BY <2>1, <2>2 DEF Init, ReadersOK
<1>3. Born /\ ReaderOwnedOnce
  BY DEF Init, Born, ReaderOwnedOnce, Active, Running
<1>4. OneTrackPerKey /\ Stopped /\ ReadersServeCallbacks
  BY DEF Init, OneTrackPerKey, Stopped, ReadersServeCallbacks
<1> QED
  BY <1>1, <1>2, <1>3, <1>4 DEF DispatcherInv, OwnInv

\* The active readers of both maps are readers, and no key is the id of a callback.
LEMMA ActiveFacts ==
  ASSUME ReadersOK
  PROVE  /\ Active \in SUBSET Readers
         /\ \A r \in active_readers : r[1] \in Keys
         /\ \A r \in active_data_readers : r[1] \in DataIds
         /\ \A r \in active_readers, q \in active_data_readers : r[1] # q[1]
<1>1. \A r \in active_readers : r \in Keys \X (1 .. MaxStarts)
  BY DEF ReadersOK
<1>2. \A r \in active_data_readers : r \in DataIds \X (1 .. MaxStarts)
  BY DEF ReadersOK
<1>3. Keys \X (1 .. MaxStarts) \subseteq Readers /\ DataIds \X (1 .. MaxStarts) \subseteq Readers
  BY DEF Readers, Slots
<1> QED
  BY <1>1, <1>2, <1>3, SlotsAssumption DEF Active

\* A method under lock_ takes the readers old out of the maps, leaves them to its caller, who is
\* joining none, and puts new ones there, the next of their slots.
LEMMA TakeAndStart ==
  ASSUME OwnInv, NEW t \in Callers, joining[t] = {}, unwound = {}, unwound' = {},
         NEW old \in SUBSET Active, NEW new \in SUBSET Readers,
         \A r \in new : r[2] = starts[r[1]] + 1,
         \A r, q \in new : r[1] = q[1] => r = q,
         \A r \in Active \ old, q \in new : r[1] # q[1],
         Active' = (Active \ old) \cup new,
         joining' = [joining EXCEPT ![t] = old],
         starts' \in [Slots -> 0 .. MaxStarts],
         \A s \in Slots : starts[s] <= starts'[s],
         \A r \in new : r[2] <= starts'[r[1]],
         \A r \in Readers \ new : pc'[r] = pc[r]
  PROVE  Born' /\ ReaderOwnedOnce'
<1>1. Active \in SUBSET Readers
  BY ActiveFacts DEF OwnInv
<1>2. joining \in [Callers -> SUBSET Readers] /\ starts \in [Slots -> 0 .. MaxStarts]
  BY DEF OwnInv, ReadersOK
<1>3. \A u \in Callers : joining'[u] = IF u = t THEN old ELSE joining[u]
  BY <1>2
<1>4. \A r \in Readers : r[1] \in Slots /\ r[2] \in Nat
  BY LimitsAssumption DEF Readers
<1>5. \A r \in new : /\ pc[r] = "unborn" /\ r \notin Active /\ \A u \in Callers : r \notin joining[u]
  <2> TAKE r \in new
  <2>1. r[2] = starts[r[1]] + 1 /\ starts[r[1]] \in Nat /\ r \in Readers
    BY <1>2, <1>4, LimitsAssumption
  <2>2. ~(r[2] <= starts[r[1]])
    BY <2>1
  <2> QED
    BY <2>1, <2>2 DEF OwnInv, Born
<1>6. Born'
  <2> SUFFICES ASSUME NEW r \in Readers, pc'[r] # "unborn" \/ r \in Active' \/ \E u \in Callers : r \in joining'[u]
               PROVE  r[2] <= starts'[r[1]]
    BY DEF Born
  <2>1. CASE r \in new
    BY <2>1
  <2>2. CASE r \notin new
    <3>1. pc[r] # "unborn" \/ r \in Active \/ \E u \in Callers : r \in joining[u]
      BY <1>3, <2>2
    <3>2. r[2] <= starts[r[1]] /\ starts[r[1]] <= starts'[r[1]]
      BY <1>4, <3>1 DEF OwnInv, Born
    <3>3. r[2] \in Nat /\ starts[r[1]] \in Nat /\ starts'[r[1]] \in Nat
      BY <1>2, <1>4, LimitsAssumption
    <3> QED
      BY <3>2, <3>3
  <2> QED
    BY <2>1, <2>2
<1>7. \A r \in Readers : Running(r)' => r \in Active' \/ \E u \in Callers : r \in joining'[u]
  <2> SUFFICES ASSUME NEW r \in Readers, Running(r)' PROVE r \in Active' \/ \E u \in Callers : r \in joining'[u]
    OBVIOUS
  <2>1. CASE r \in new
    BY <2>1
  <2>2. CASE r \notin new
    <3>1. Running(r)
      BY <2>2 DEF Running
    <3>2. r \in Active \/ \E u \in Callers : r \in joining[u]
      BY <3>1 DEF OwnInv, ReaderOwnedOnce
    <3>3. CASE r \in Active
      BY <1>3, <3>3
    <3>4. CASE \E u \in Callers : r \in joining[u]
      <4>1. PICK u \in Callers : r \in joining[u]
        BY <3>4
      <4>2. u # t
        BY <4>1
      <4> QED
        BY <1>3, <4>1, <4>2
    <3> QED
      BY <3>2, <3>3, <3>4
  <2> QED
    BY <2>1, <2>2
<1>8. \A r, q \in Active' : r[1] = q[1] => r = q
  BY DEF OwnInv, ReaderOwnedOnce
<1>9. \A u \in Callers : joining'[u] \cap Active' = {}
  <2> TAKE u \in Callers
  <2>1. CASE u = t
    BY <1>3, <1>5, <2>1
  <2>2. CASE u # t
    <3>1. joining'[u] = joining[u] /\ joining[u] \cap Active = {}
      BY <1>3, <2>2 DEF OwnInv, ReaderOwnedOnce
    <3> QED
      BY <1>5, <3>1
  <2> QED
    BY <2>1, <2>2
<1>10. \A u, v \in Callers : u # v => joining'[u] \cap joining'[v] = {}
  <2> SUFFICES ASSUME NEW u \in Callers, NEW v \in Callers, u # v PROVE joining'[u] \cap joining'[v] = {}
    OBVIOUS
  <2>1. \A x \in Callers : joining[x] \cap old = {}
    BY DEF OwnInv, ReaderOwnedOnce
  <2>2. joining[u] \cap joining[v] = {}
    BY DEF OwnInv, ReaderOwnedOnce
  <2> QED
    BY <1>3, <2>1, <2>2
<1> QED
  BY <1>6, <1>7, <1>8, <1>9, <1>10 DEF ReaderOwnedOnce

\* A method that only takes readers out of the maps.
LEMMA TakeStep ==
  ASSUME OwnInv, RegistryOK', NEW t \in Callers, MayCall(t), NEW old \in SUBSET Active, Extract(t, old), NoThreads,
         active_readers' = active_readers \ old, active_data_readers' = active_data_readers \ old,
         UNCHANGED unwound
  PROVE  OwnInv'
<1>1. joining[t] = {} /\ unwound = {} /\ joining' = [joining EXCEPT ![t] = old] /\ UNCHANGED <<starts, pc, reads>>
  BY DEF MayCall, std_terminate, Extract, NoThreads
<1>2. Active' = (Active \ old) \cup {}
  BY DEF Active
<1>3. starts \in [Slots -> 0 .. MaxStarts] /\ Active \in SUBSET Readers
  BY ActiveFacts DEF OwnInv, ReadersOK
<1>4. \A s \in Slots : starts[s] <= starts'[s]
  BY <1>1, <1>3, LimitsAssumption
<1>5. Born' /\ ReaderOwnedOnce'
  BY <1>1, <1>2, <1>3, <1>4, TakeAndStart
<1>6. ReadersOK'
  BY <1>1, <1>3 DEF OwnInv, ReadersOK
<1> QED
  BY <1>5, <1>6 DEF OwnInv

\* The threads that are created for some slots.
LEMMA CreatedFacts ==
  ASSUME ReadersOK, NEW slots \in SUBSET Slots, \A s \in slots : starts[s] < MaxStarts
  PROVE  /\ Created(slots) \in SUBSET (slots \X (1 .. MaxStarts)) /\ Created(slots) \in SUBSET Readers
         /\ \A r \in Created(slots) : r[1] \in slots /\ r[2] = starts[r[1]] + 1
         /\ \A r, q \in Created(slots) : r[1] = q[1] => r = q
         /\ \A s \in slots : <<s, starts[s] + 1>> \in Created(slots)
<1>1. \A s \in slots : starts[s] + 1 \in 1 .. MaxStarts
  BY LimitsAssumption DEF ReadersOK
<1>2. \A s \in slots : <<s, starts[s] + 1>> \in slots \X (1 .. MaxStarts)
  BY <1>1
<1>3. Created(slots) \in SUBSET (slots \X (1 .. MaxStarts))
  BY <1>2 DEF Created
<1>4. slots \X (1 .. MaxStarts) \subseteq Readers
  BY DEF Readers
<1>5. \A r \in Created(slots) : r[1] \in slots /\ r[2] = starts[r[1]] + 1 /\ r = <<r[1], starts[r[1]] + 1>>
  BY DEF Created
<1>6. \A s \in slots : <<s, starts[s] + 1>> \in Created(slots)
  BY DEF Created
<1>7. \A r, q \in Created(slots) : r[1] = q[1] => r = q
  BY <1>5
<1> QED
  BY <1>3, <1>4, <1>5, <1>6, <1>7

\* A method that takes readers out of the maps and starts others for some slots.
LEMMA StartStep ==
  ASSUME OwnInv, RegistryOK', NEW t \in Callers, MayCall(t), NEW old \in SUBSET Active, Extract(t, old),
         NEW slots \in SUBSET Slots, \A s \in slots : starts[s] < MaxStarts,
         \A r \in Active \ old : r[1] \notin slots,
         NEW first \in Places \ {"unborn"}, NEW what \in Sids \cup {"audio", "video"},
         StartThreads(Created(slots), first, what),
         active_readers' \in SUBSET (Keys \X (1 .. MaxStarts)),
         active_data_readers' \in SUBSET (DataIds \X (1 .. MaxStarts)),
         Active' = (Active \ old) \cup Created(slots),
         UNCHANGED unwound
  PROVE  /\ OwnInv'
         /\ \A r \in Readers : reads'[r] = IF r \in Created(slots) THEN what ELSE reads[r]
<1> DEFINE new == Created(slots)
<1>1. joining[t] = {} /\ unwound = {} /\ joining' = [joining EXCEPT ![t] = old]
  BY DEF MayCall, std_terminate, Extract
<1>2. /\ new \in SUBSET Readers
      /\ \A r \in new : r[1] \in slots /\ r[2] = starts[r[1]] + 1
      /\ \A r, q \in new : r[1] = q[1] => r = q
  BY CreatedFacts DEF OwnInv
<1> HIDE DEF new
<1>3. /\ starts' = [s \in Slots |-> IF \E r \in new : r[1] = s THEN starts[s] + 1 ELSE starts[s]]
      /\ pc' = [r \in Readers |-> IF r \in new THEN first ELSE pc[r]]
      /\ reads' = [r \in Readers |-> IF r \in new THEN what ELSE reads[r]]
  BY DEF StartThreads, new
<1>4. starts \in [Slots -> 0 .. MaxStarts] /\ Active \in SUBSET Readers
  BY ActiveFacts DEF OwnInv, ReadersOK
<1>5. \A s \in Slots : starts[s] \in Nat /\ starts'[s] \in 0 .. MaxStarts /\ starts[s] <= starts'[s]
  <2> TAKE s \in Slots
  <2>1. starts[s] \in 0 .. MaxStarts
    BY <1>4
  <2>2. CASE \E r \in new : r[1] = s
    <3>1. starts'[s] = starts[s] + 1 /\ starts[s] < MaxStarts
      BY <1>2, <1>3, <2>2
    <3> QED
      BY <2>1, <3>1, LimitsAssumption
  <2>3. CASE ~\E r \in new : r[1] = s
    <3>1. starts'[s] = starts[s]
      BY <1>3, <2>3
    <3> QED
      BY <2>1, <3>1, LimitsAssumption
  <2> QED
    BY <2>2, <2>3
<1>6. starts' \in [Slots -> 0 .. MaxStarts]
  BY <1>3, <1>5
<1>7. \A r \in new : r[2] <= starts'[r[1]]
  <2> TAKE r \in new
  <2>1. r[1] \in Slots /\ r[2] = starts[r[1]] + 1 /\ starts'[r[1]] = starts[r[1]] + 1
    BY <1>2, <1>3
  <2> QED
    BY <1>5, <2>1
<1>8. \A r \in Readers \ new : pc'[r] = pc[r]
  BY <1>3
<1>9. \A r \in Active \ old, q \in new : r[1] # q[1]
  BY <1>2
<1>10. Active' = (Active \ old) \cup new
  BY DEF new
<1>11. Born' /\ ReaderOwnedOnce'
  <2>1. /\ \A r \in new : r[2] = starts[r[1]] + 1
        /\ \A s \in Slots : starts[s] <= starts'[s]
    BY <1>2, <1>5
  <2> QED
    BY <1>1, <1>2, <1>6, <1>7, <1>8, <1>9, <1>10, <2>1, TakeAndStart
<1>12. ReadersOK'
  <2>1. pc' \in [Readers -> Places] /\ reads' \in [Readers -> Sids \cup {"audio", "video"}]
    BY <1>3 DEF OwnInv, ReadersOK
  <2>2. joining' \in [Callers -> SUBSET Readers] /\ unwound' \in SUBSET Readers
    BY <1>1, <1>4 DEF OwnInv, ReadersOK
  <2> QED
    BY <1>6, <2>1, <2>2 DEF ReadersOK
<1>13. \A r \in Readers : reads'[r] = IF r \in new THEN what ELSE reads[r]
  BY <1>3
<1> QED
  BY <1>11, <1>12, <1>13 DEF OwnInv, new

\* A step that leaves the threads alone.
LEMMA SameThreads ==
  ASSUME OwnInv, RegistryOK', UNCHANGED <<active_readers, active_data_readers, starts, pc, reads, joining, unwound>>
  PROVE  OwnInv'
  BY DEF OwnInv, ReadersOK, Born, ReaderOwnedOnce, Active, Running

-----------------------------------------------------------------------------
\* A callback is registered, and nothing can be started for it yet.
LEMMA RegisterStep ==
  ASSUME DispatcherInv, NEW t \in Callers,
         (\E k \in Keys : SetOnAudioFrameCallback(t, k) \/ SetOnVideoFrameCallback(t, k)) \/ AddOnDataFrameCallback(t)
  PROVE  DispatcherInv'
<1>1. /\ UNCHANGED <<active_readers, active_data_readers, starts, pc, reads, joining, unwound>>
      /\ UNCHANGED <<data_key, track_key, remote_data_tracks, limit_hit>> /\ stopped' = FALSE
      /\ audio_callbacks \subseteq audio_callbacks' /\ video_callbacks \subseteq video_callbacks'
  BY DEF SetOnAudioFrameCallback, SetOnVideoFrameCallback, AddOnDataFrameCallback, Register, readerVars
<1>2. \/ data_callbacks' = data_callbacks
      \/ /\ next_data_callback_id \in DataIds /\ data_callbacks' = data_callbacks \cup {next_data_callback_id}
         /\ \A sid \in remote_data_tracks : track_key[sid] # data_key[next_data_callback_id]
  BY DEF SetOnAudioFrameCallback, SetOnVideoFrameCallback, AddOnDataFrameCallback, Register
<1>3. RegistryOK'
  BY <1>1, <1>2 DEF DispatcherInv, OwnInv, RegistryOK
<1>4. OwnInv'
  BY <1>1, <1>3, SameThreads DEF DispatcherInv
<1>5. OneTrackPerKey' /\ Stopped'
  BY <1>1 DEF DispatcherInv, OneTrackPerKey, Stopped
<1>6. \A r \in active_readers' : HasCallback(r[1], reads[r])'
  BY <1>1 DEF DispatcherInv, ReadersServeCallbacks, HasCallback
<1>7. \A r \in active_data_readers' : r[1] \in data_callbacks' /\ reads'[r] \in remote_data_tracks'
                                      /\ track_key'[reads'[r]] = data_key'[r[1]]
  BY <1>1, <1>2 DEF DispatcherInv, ReadersServeCallbacks
<1>8. ~limit_hit' => \A i \in data_callbacks', sid \in remote_data_tracks' :
                       track_key'[sid] = data_key'[i] => \E r \in active_data_readers' : r[1] = i /\ reads'[r] = sid
  BY <1>1, <1>2 DEF DispatcherInv, ReadersServeCallbacks
<1> QED
  BY <1>4, <1>5, <1>6, <1>7, <1>8 DEF DispatcherInv, ReadersServeCallbacks

\* The reader of a key is stopped; only a callback of that key may go.
LEMMA StopReaderStep ==
  ASSUME DispatcherInv, NEW t \in Callers, NEW k \in Keys, StopReader(t, k),
         audio_callbacks' \in SUBSET audio_callbacks, audio_callbacks \ {k} \subseteq audio_callbacks',
         video_callbacks' \in SUBSET video_callbacks, video_callbacks \ {k} \subseteq video_callbacks'
  PROVE  DispatcherInv'
<1> DEFINE old == Of(active_readers, {k})
<1>1. /\ MayCall(t) /\ active_readers' = active_readers \ old /\ Extract(t, old) /\ NoThreads
      /\ UNCHANGED <<data_callbacks, data_key, remote_data_tracks, track_key, active_data_readers, unwound,
                     limit_hit, stopped, reads>>
  BY DEF StopReader, historyVars, NoThreads
<1>2. old \subseteq Active /\ (\A r \in old : r[1] = k) /\ \A r \in active_readers \ old : r[1] # k
  BY DEF Of, Active
<1>3. active_data_readers' = active_data_readers \ old
  <2>1. \A r \in active_data_readers : r[1] # k
    BY ActiveFacts, SlotsAssumption DEF DispatcherInv, OwnInv
  <2> QED
    BY <1>1, <1>2, <2>1
<1> HIDE DEF old
<1>4. RegistryOK'
  BY <1>1 DEF DispatcherInv, OwnInv, RegistryOK
<1>5. OwnInv'
  BY <1>1, <1>2, <1>3, <1>4, TakeStep DEF DispatcherInv
<1>6. OneTrackPerKey' /\ Stopped'
  BY <1>1 DEF DispatcherInv, OneTrackPerKey, Stopped
<1>7. \A r \in active_readers' : HasCallback(r[1], reads[r])'
  BY <1>1, <1>2 DEF DispatcherInv, ReadersServeCallbacks, HasCallback
<1>8. ReadersServeCallbacks'
  BY <1>1, <1>7 DEF DispatcherInv, ReadersServeCallbacks
<1> QED
  BY <1>5, <1>6, <1>8 DEF DispatcherInv

LEMMA ClearStep ==
  ASSUME DispatcherInv, NEW t \in Callers, NEW k \in Keys,
         ClearOnAudioFrameCallback(t, k) \/ ClearOnVideoFrameCallback(t, k) \/ HandleTrackUnsubscribed(t, k)
  PROVE  DispatcherInv'
<1>1. StopReader(t, k)
  BY DEF ClearOnAudioFrameCallback, ClearOnVideoFrameCallback, HandleTrackUnsubscribed
<1>2. /\ audio_callbacks' \in SUBSET audio_callbacks /\ audio_callbacks \ {k} \subseteq audio_callbacks'
      /\ video_callbacks' \in SUBSET video_callbacks /\ video_callbacks \ {k} \subseteq video_callbacks'
  BY DEF ClearOnAudioFrameCallback, ClearOnVideoFrameCallback, HandleTrackUnsubscribed
<1> QED
  BY <1>1, <1>2, StopReaderStep

\* The reader of a subscribed track replaces the earlier one of the key.
LEMMA SubscribedStartStep ==
  ASSUME DispatcherInv, NEW t \in Callers, NEW k \in Keys, NEW what \in Kinds, HandleTrackSubscribedStart(t, k, what)
  PROVE  DispatcherInv'
<1> DEFINE old == Of(active_readers, {k})
           new == Created({k})
<1>1. /\ MayCall(t) /\ HasCallback(k, what) /\ starts[k] < MaxStarts
      /\ active_readers' = (active_readers \ old) \cup new
      /\ Extract(t, old) /\ StartThreads(new, "read", what)
      /\ UNCHANGED <<audio_callbacks, video_callbacks, data_callbacks, data_key, remote_data_tracks, track_key,
                     active_data_readers, unwound, limit_hit, stopped>>
  BY DEF HandleTrackSubscribedStart, registryVars, historyVars
<1>2. old \subseteq Active /\ (\A r \in old : r[1] = k) /\ \A r \in active_readers \ old : r[1] # k
  BY DEF Of, Active
<1>3. \A r \in active_data_readers : r[1] # k /\ r \notin old
  BY <1>2, ActiveFacts, SlotsAssumption DEF DispatcherInv, OwnInv
<1> HIDE DEF old
<1>4. {k} \in SUBSET Slots /\ "read" \in Places \ {"unborn"} /\ what \in Sids \cup {"audio", "video"}
  BY SlotsAssumption DEF Slots, Places
<1>5. /\ new \in SUBSET ({k} \X (1 .. MaxStarts)) /\ new \in SUBSET Readers
      /\ \A r \in new : r[1] \in {k}
  BY <1>1, <1>4, CreatedFacts DEF DispatcherInv, OwnInv
<1>6. RegistryOK'
  BY <1>1 DEF DispatcherInv, OwnInv, RegistryOK
<1>7. /\ active_readers' \in SUBSET (Keys \X (1 .. MaxStarts))
      /\ active_data_readers' \in SUBSET (DataIds \X (1 .. MaxStarts))
  <2>1. {k} \X (1 .. MaxStarts) \subseteq Keys \X (1 .. MaxStarts)
    OBVIOUS
  <2> HIDE DEF new
  <2> QED
    BY <1>1, <1>5, <2>1 DEF DispatcherInv, OwnInv, ReadersOK
<1>8. /\ Active' = (Active \ old) \cup new
      /\ \A r \in Active \ old : r[1] \notin {k}
  <2> HIDE DEF new
  <2> QED
    BY <1>1, <1>2, <1>3 DEF Active
<1>9. OwnInv' /\ \A r \in Readers : reads'[r] = IF r \in new THEN what ELSE reads[r]
  <2>1. \A s \in {k} : starts[s] < MaxStarts
    BY <1>1
  <2> QED
    BY <1>1, <1>2, <1>4, <1>6, <1>7, <1>8, <2>1, StartStep DEF DispatcherInv
<1> HIDE DEF new
<1>10. OneTrackPerKey'
  BY <1>1 DEF DispatcherInv, OneTrackPerKey
<1>11. ~stopped /\ Stopped'
  BY <1>1 DEF DispatcherInv, Stopped, HasCallback
<1>12. active_readers \subseteq Readers /\ active_data_readers \subseteq Readers
  BY ActiveFacts DEF DispatcherInv, OwnInv, Active
<1>13. \A r \in active_readers' : HasCallback(r[1], reads[r])'
  <2> TAKE r \in active_readers'
  <2>1. CASE r \in new
    BY <1>1, <1>5, <1>9, <2>1 DEF HasCallback
  <2>2. CASE r \in active_readers \ new
    BY <1>1, <1>9, <1>12, <2>2 DEF DispatcherInv, ReadersServeCallbacks, HasCallback
  <2> QED
    BY <1>1, <2>1, <2>2
<1>14. \A r \in active_data_readers : reads'[r] = reads[r]
  <2>1. \A r \in active_data_readers : r \notin new
    BY <1>3, <1>5
  <2> QED
    BY <1>9, <1>12, <2>1
<1>15. ReadersServeCallbacks'
  BY <1>1, <1>13, <1>14 DEF DispatcherInv, ReadersServeCallbacks
<1> QED
  BY <1>9, <1>10, <1>11, <1>15 DEF DispatcherInv

\* The earlier reader of the key is only stopped.
LEMMA SubscribedRefusedStep ==
  ASSUME DispatcherInv, NEW t \in Callers, NEW k \in Keys, NEW what \in Kinds, HandleTrackSubscribedRefused(t, k, what)
  PROVE  DispatcherInv'
<1> DEFINE old == Of(active_readers, {k})
<1>1. /\ MayCall(t) /\ HasCallback(k, what) /\ limit_hit' = TRUE
      /\ active_readers' = active_readers \ old /\ Extract(t, old) /\ NoThreads
      /\ UNCHANGED <<audio_callbacks, video_callbacks, data_callbacks, data_key, remote_data_tracks, track_key,
                     active_data_readers, unwound, stopped, reads>>
  BY DEF HandleTrackSubscribedRefused, registryVars, NoThreads
<1>2. old \subseteq Active /\ \A r \in old : r[1] = k
  BY DEF Of, Active
<1>3. active_data_readers' = active_data_readers \ old
  <2>1. \A r \in active_data_readers : r[1] # k
    BY ActiveFacts, SlotsAssumption DEF DispatcherInv, OwnInv
  <2> QED
    BY <1>1, <1>2, <2>1
<1> HIDE DEF old
<1>4. RegistryOK'
  BY <1>1 DEF DispatcherInv, OwnInv, RegistryOK
<1>5. OwnInv'
  BY <1>1, <1>2, <1>3, <1>4, TakeStep DEF DispatcherInv
<1>6. OneTrackPerKey' /\ Stopped'
  BY <1>1 DEF DispatcherInv, OneTrackPerKey, Stopped
<1>7. ReadersServeCallbacks'
  BY <1>1 DEF DispatcherInv, ReadersServeCallbacks, HasCallback
<1> QED
  BY <1>5, <1>6, <1>7 DEF DispatcherInv

\* The exception destroys the earlier reader's thread object: the process ends.
LEMMA SubscribedThrowsStep ==
  ASSUME DispatcherInv, NEW t \in Callers, NEW k \in Keys, NEW what \in Kinds, HandleTrackSubscribedThrows(t, k, what)
  PROVE  DispatcherInv'
<1> DEFINE old == Of(active_readers, {k})
<1>1. /\ HasCallback(k, what) /\ unwound = {}
      /\ active_readers' = active_readers \ old /\ unwound' = old
      /\ UNCHANGED <<audio_callbacks, video_callbacks, data_callbacks, data_key, remote_data_tracks, track_key,
                     active_data_readers, starts, pc, reads, joining, limit_hit, stopped>>
  BY DEF HandleTrackSubscribedThrows, MayCall, std_terminate, registryVars, historyVars, NoThreads
<1>2. /\ old \subseteq active_readers /\ old \subseteq Active
      /\ \A r, q \in old : r[1] = q[1]
  BY DEF Of, Active
<1> HIDE DEF old
<1>3. Active' \subseteq Active
  BY <1>1 DEF Active
<1>4. RegistryOK' /\ ReadersOK'
  <2>1. Active \subseteq Readers
    BY ActiveFacts DEF DispatcherInv, OwnInv
  <2> QED
    BY <1>1, <1>2, <2>1 DEF DispatcherInv, OwnInv, RegistryOK, ReadersOK
<1>5. Born'
  BY <1>1, <1>3 DEF DispatcherInv, OwnInv, Born
<1>6. ReaderOwnedOnce'
  <2>1. Active' \cup old = Active /\ Active' \cap old = {}
    <3>1. \A r \in active_data_readers : r \notin active_readers
      BY ActiveFacts DEF DispatcherInv, OwnInv
    <3> QED
      BY <1>1, <1>2, <3>1 DEF Active
  <2>2. \A r \in Readers : Running(r)' => r \in Active' \/ r \in unwound' \/ \E u \in Callers : r \in joining'[u]
    BY <1>1, <2>1 DEF DispatcherInv, OwnInv, ReaderOwnedOnce, Running
  <2>3. /\ \A r, q \in Active' : r[1] = q[1] => r = q
        /\ \A u \in Callers : joining'[u] \cap Active' = {} /\ unwound' \cap joining'[u] = {}
    BY <1>1, <1>3, <1>2 DEF DispatcherInv, OwnInv, ReaderOwnedOnce
  <2>4. \A u, v \in Callers : u # v => joining'[u] \cap joining'[v] = {}
    BY <1>1 DEF DispatcherInv, OwnInv, ReaderOwnedOnce
  <2>5. unwound' \cap Active' = {} /\ \A r, q \in unwound' : r = q
    BY <1>1, <1>2, <2>1 DEF DispatcherInv, OwnInv, ReaderOwnedOnce
  <2> QED
    BY <2>2, <2>3, <2>4, <2>5 DEF ReaderOwnedOnce
<1>7. OneTrackPerKey' /\ Stopped'
  BY <1>1 DEF DispatcherInv, OneTrackPerKey, Stopped, HasCallback
<1>8. ReadersServeCallbacks'
  BY <1>1 DEF DispatcherInv, ReadersServeCallbacks, HasCallback
<1> QED
  BY <1>4, <1>5, <1>6, <1>7, <1>8 DEF DispatcherInv, OwnInv

-----------------------------------------------------------------------------
\* The data readers of the callbacks ids have been replaced by readers of the track sid, for the callbacks S of them.
Replaced(ids, sid, S) ==
  /\ active_readers' = active_readers /\ (~limit_hit' => ~limit_hit /\ S = ids)
  /\ \A r \in active_readers : reads'[r] = reads[r]
  /\ \A r \in active_data_readers' : \/ r[1] \in S /\ reads'[r] = sid
                                     \/ r \in active_data_readers /\ r[1] \notin ids /\ reads'[r] = reads[r]
  /\ \A r \in active_data_readers : r[1] \notin ids => r \in active_data_readers' /\ reads'[r] = reads[r]
  /\ \A i \in S : \E r \in active_data_readers' : r[1] = i /\ reads'[r] = sid

\* startDataReaderLocked() for these callbacks.
LEMMA StartDataFacts ==
  ASSUME OwnInv, RegistryOK', NEW t \in Callers, MayCall(t), NEW ids \in SUBSET DataIds, NEW sid \in Sids,
         NEW S \in SUBSET ids, StartDataReaders(t, ids, sid, S)
  PROVE  OwnInv' /\ Replaced(ids, sid, S)
<1> DEFINE old == Of(active_data_readers, ids)
           new == Created(S)
<1>1. /\ \A i \in S : starts[i] < MaxStarts
      /\ active_data_readers' = (active_data_readers \ old) \cup new
      /\ Extract(t, old) /\ StartThreads(new, "subscribe", sid)
      /\ limit_hit' = (limit_hit \/ S # ids)
      /\ UNCHANGED <<active_readers, attached, unwound>>
  BY DEF StartDataReaders
<1>2. old \subseteq Active /\ (\A r \in old : r[1] \in ids) /\ \A r \in active_data_readers \ old : r[1] \notin ids
  BY DEF Of, Active
<1>3. \A r \in active_readers : r[1] \notin ids /\ r \notin old
  BY <1>2, ActiveFacts, SlotsAssumption DEF OwnInv
<1> HIDE DEF old
<1>4. S \in SUBSET Slots /\ "subscribe" \in Places \ {"unborn"} /\ sid \in Sids \cup {"audio", "video"}
  BY DEF Slots, Places
<1>5. /\ new \in SUBSET (S \X (1 .. MaxStarts)) /\ new \in SUBSET Readers
      /\ \A r \in new : r[1] \in S
      /\ \A i \in S : <<i, starts[i] + 1>> \in new
  BY <1>1, <1>4, CreatedFacts DEF OwnInv
<1>6. /\ active_readers' \in SUBSET (Keys \X (1 .. MaxStarts))
      /\ active_data_readers' \in SUBSET (DataIds \X (1 .. MaxStarts))
  <2>1. S \X (1 .. MaxStarts) \subseteq DataIds \X (1 .. MaxStarts)
    OBVIOUS
  <2> HIDE DEF new
  <2> QED
    BY <1>1, <1>5, <2>1 DEF OwnInv, ReadersOK
<1>7. /\ Active' = (Active \ old) \cup new
      /\ \A r \in Active \ old : r[1] \notin S
  <2> HIDE DEF new
  <2> QED
    BY <1>1, <1>2, <1>3 DEF Active
<1>8. OwnInv' /\ \A r \in Readers : reads'[r] = IF r \in new THEN sid ELSE reads[r]
  BY <1>1, <1>2, <1>4, <1>6, <1>7, StartStep
<1> HIDE DEF new
<1>9. active_readers \subseteq Readers /\ active_data_readers \subseteq Readers
  BY ActiveFacts DEF OwnInv, Active
<1>10. \A r \in active_readers : reads'[r] = reads[r]
  BY <1>3, <1>5, <1>8, <1>9
<1>11. \A r \in active_data_readers : r[1] \notin ids => r \in active_data_readers' /\ reads'[r] = reads[r]
  BY <1>1, <1>2, <1>5, <1>8, <1>9
<1>12. \A r \in new : reads'[r] = sid /\ r \in active_data_readers'
  BY <1>1, <1>5, <1>8
<1>13. \A i \in S : \E r \in active_data_readers' : r[1] = i /\ reads'[r] = sid
  <2> TAKE i \in S
  <2>1. <<i, starts[i] + 1>> \in active_data_readers' /\ reads'[<<i, starts[i] + 1>>] = sid
    BY <1>5, <1>12
  <2>2. <<i, starts[i] + 1>>[1] = i
    OBVIOUS
  <2> QED
    BY <2>1, <2>2
<1>14. ASSUME NEW r \in active_data_readers'
       PROVE  \/ r[1] \in S /\ reads'[r] = sid
              \/ r \in active_data_readers /\ r[1] \notin ids /\ reads'[r] = reads[r]
  <2>1. CASE r \in new
    BY <1>5, <1>12, <2>1
  <2>2. CASE r \in active_data_readers \ old
    BY <1>2, <1>11, <2>2
  <2> QED
    BY <1>1, <2>1, <2>2
<1> QED
  BY <1>1, <1>8, <1>10, <1>11, <1>13, <1>14 DEF Replaced

\* The callbacks that are served are among those that were to be.
LEMMA ServedSubset == \A ids : \A S \in Served(ids) : S \in SUBSET ids
  BY DEF Served

\* A data callback is registered for a track that is published.
LEMMA AddStartStep ==
  ASSUME DispatcherInv, NEW t \in Callers, NEW sid \in Sids, AddOnDataFrameCallbackStart(t, sid)
  PROVE  DispatcherInv'
<1> DEFINE id == next_data_callback_id
<1>1. /\ MayCall(t) /\ id \in DataIds /\ data_callbacks' = data_callbacks \cup {id} /\ stopped' = FALSE
      /\ sid \in remote_data_tracks /\ track_key[sid] = data_key[id]
      /\ UNCHANGED <<audio_callbacks, video_callbacks, data_key, remote_data_tracks, track_key>>
  BY DEF AddOnDataFrameCallbackStart, Register
<1>2. PICK S \in Served({id}) : StartDataReaders(t, {id}, sid, S)
  BY DEF AddOnDataFrameCallbackStart
<1>3. S \in SUBSET {id} /\ {id} \in SUBSET DataIds
  BY <1>1, ServedSubset
<1>4. limit_hit' \in BOOLEAN
  BY <1>2 DEF StartDataReaders, DispatcherInv, OwnInv, RegistryOK
<1>5. RegistryOK'
  BY <1>1, <1>4 DEF DispatcherInv, OwnInv, RegistryOK
<1> HIDE DEF id
<1>6. /\ OwnInv' /\ active_readers' = active_readers /\ (~limit_hit' => ~limit_hit /\ S = {id})
      /\ \A r \in active_readers : reads'[r] = reads[r]
      /\ \A r \in active_data_readers' : \/ r[1] \in S /\ reads'[r] = sid
                                         \/ r \in active_data_readers /\ r[1] \notin {id} /\ reads'[r] = reads[r]
      /\ \A r \in active_data_readers : r[1] \notin {id} => r \in active_data_readers' /\ reads'[r] = reads[r]
      /\ \A i \in S : \E r \in active_data_readers' : r[1] = i /\ reads'[r] = sid
  <2>1. OwnInv /\ MayCall(t)
    BY <1>1 DEF DispatcherInv
  <2>2. OwnInv' /\ Replaced({id}, sid, S)
    BY <1>2, <1>3, <1>5, <2>1, StartDataFacts
  <2> QED
    BY <2>2 DEF Replaced
<1>7. OneTrackPerKey' /\ Stopped'
  BY <1>1 DEF DispatcherInv, OneTrackPerKey, Stopped
<1>8. \A r \in active_readers' : HasCallback(r[1], reads[r])'
  BY <1>1, <1>6 DEF DispatcherInv, ReadersServeCallbacks, HasCallback
<1>9. \A r \in active_data_readers' : r[1] \in data_callbacks' /\ reads'[r] \in remote_data_tracks'
                                      /\ track_key'[reads'[r]] = data_key'[r[1]]
  <2> TAKE r \in active_data_readers'
  <2>1. CASE r[1] \in S /\ reads'[r] = sid
    BY <1>1, <1>3, <2>1
  <2>2. CASE r \in active_data_readers /\ r[1] \notin {id} /\ reads'[r] = reads[r]
    BY <1>1, <2>2 DEF DispatcherInv, ReadersServeCallbacks
  <2> QED
    BY <1>6, <2>1, <2>2
<1>10. ASSUME ~limit_hit', NEW i \in data_callbacks', NEW s \in remote_data_tracks', track_key'[s] = data_key'[i]
       PROVE  \E r \in active_data_readers' : r[1] = i /\ reads'[r] = s
  <2>1. ~limit_hit /\ S = {id}
    BY <1>6, <1>10
  <2>2. CASE i = id
    <3>1. s = sid
      BY <1>1, <1>10, <2>2 DEF DispatcherInv, OneTrackPerKey
    <3> QED
      BY <1>6, <2>1, <2>2, <3>1
  <2>3. CASE i # id
    <3>1. PICK r \in active_data_readers : r[1] = i /\ reads[r] = s
      BY <1>1, <1>10, <2>1, <2>3 DEF DispatcherInv, ReadersServeCallbacks
    <3> QED
      BY <1>6, <2>3, <3>1
  <2> QED
    BY <2>2, <2>3
<1> QED
  BY <1>6, <1>7, <1>8, <1>9, <1>10 DEF DispatcherInv, ReadersServeCallbacks

\* A data callback is removed, and its reader stopped.
LEMMA RemoveStep ==
  ASSUME DispatcherInv, NEW t \in Callers, NEW id \in DataIds, RemoveOnDataFrameCallback(t, id)
  PROVE  DispatcherInv'
<1> DEFINE old == Of(active_data_readers, {id})
<1>1. /\ MayCall(t) /\ data_callbacks' = data_callbacks \ {id} /\ active_data_readers' = active_data_readers \ old
      /\ Extract(t, old) /\ NoThreads
      /\ UNCHANGED <<audio_callbacks, video_callbacks, data_key, remote_data_tracks, track_key, active_readers,
                     unwound, limit_hit, stopped, reads>>
  BY DEF RemoveOnDataFrameCallback, historyVars, NoThreads
<1>2. old \subseteq Active /\ (\A r \in old : r[1] = id) /\ \A r \in active_data_readers \ old : r[1] # id
  BY DEF Of, Active
<1>3. active_readers' = active_readers \ old
  <2>1. \A r \in active_readers : r[1] # id
    BY ActiveFacts, SlotsAssumption DEF DispatcherInv, OwnInv
  <2> QED
    BY <1>1, <1>2, <2>1
<1> HIDE DEF old
<1>4. RegistryOK'
  BY <1>1 DEF DispatcherInv, OwnInv, RegistryOK
<1>5. OwnInv'
  BY <1>1, <1>2, <1>3, <1>4, TakeStep DEF DispatcherInv
<1>6. OneTrackPerKey' /\ Stopped'
  BY <1>1 DEF DispatcherInv, OneTrackPerKey, Stopped
<1>7. \A r \in active_readers' : HasCallback(r[1], reads[r])'
  BY <1>1 DEF DispatcherInv, ReadersServeCallbacks, HasCallback
<1>8. \A r \in active_data_readers' : r[1] \in data_callbacks' /\ reads'[r] \in remote_data_tracks'
                                      /\ track_key'[reads'[r]] = data_key'[r[1]]
  BY <1>1, <1>2 DEF DispatcherInv, ReadersServeCallbacks
<1>9. ~limit_hit' => \A i \in data_callbacks', sid \in remote_data_tracks' :
                       track_key'[sid] = data_key'[i] => \E r \in active_data_readers' : r[1] = i /\ reads'[r] = sid
  BY <1>1, <1>2 DEF DispatcherInv, ReadersServeCallbacks
<1> QED
  BY <1>5, <1>6, <1>7, <1>8, <1>9 DEF DispatcherInv, ReadersServeCallbacks

\* A data track is published: it takes the place of an earlier one of its key, for every callback.
LEMMA PublishedStep ==
  ASSUME DispatcherInv, NEW t \in Callers, NEW sid \in Sids, HandleDataTrackPublished(t, sid)
  PROVE  DispatcherInv'
<1> DEFINE ids == {i \in data_callbacks : data_key[i] = track_key[sid]}
<1>1. /\ MayCall(t)
      /\ remote_data_tracks' = {s \in remote_data_tracks : track_key[s] # track_key[sid]} \cup {sid}
      /\ UNCHANGED <<audio_callbacks, video_callbacks, data_callbacks, data_key, track_key, stopped>>
  BY DEF HandleDataTrackPublished
<1>2. PICK S \in Served(ids) : StartDataReaders(t, ids, sid, S)
  BY DEF HandleDataTrackPublished
<1>3. ids \in SUBSET DataIds /\ \A i \in data_callbacks : i \in ids <=> data_key[i] = track_key[sid]
  BY DEF DispatcherInv, OwnInv, RegistryOK
<1>4. ids \subseteq data_callbacks /\ (stopped => ids = {})
  BY DEF DispatcherInv, Stopped
<1> HIDE DEF ids
<1>5. S \in SUBSET ids
  BY <1>2, ServedSubset
<1>6. limit_hit' \in BOOLEAN
  BY <1>2 DEF StartDataReaders, DispatcherInv, OwnInv, RegistryOK
<1>7. RegistryOK'
  BY <1>1, <1>6 DEF DispatcherInv, OwnInv, RegistryOK
<1>8. /\ OwnInv' /\ active_readers' = active_readers /\ (~limit_hit' => ~limit_hit /\ S = ids)
      /\ \A r \in active_readers : reads'[r] = reads[r]
      /\ \A r \in active_data_readers' : \/ r[1] \in S /\ reads'[r] = sid
                                         \/ r \in active_data_readers /\ r[1] \notin ids /\ reads'[r] = reads[r]
      /\ \A r \in active_data_readers : r[1] \notin ids => r \in active_data_readers' /\ reads'[r] = reads[r]
      /\ \A i \in S : \E r \in active_data_readers' : r[1] = i /\ reads'[r] = sid
  <2>1. OwnInv /\ MayCall(t) /\ ids \in SUBSET DataIds
    BY <1>1, <1>3 DEF DispatcherInv
  <2>2. OwnInv' /\ Replaced(ids, sid, S)
    BY <1>2, <1>5, <1>7, <2>1, StartDataFacts
  <2> QED
    BY <2>2 DEF Replaced
<1>9. OneTrackPerKey'
  BY <1>1 DEF DispatcherInv, OneTrackPerKey
<1>10. Stopped'
  <2>1. ASSUME stopped PROVE active_data_readers' = {}
    <3>1. active_data_readers = {} /\ S = {}
      BY <1>4, <1>5, <2>1 DEF DispatcherInv, Stopped
    <3> QED
      BY <1>8, <3>1
  <2>2. unwound' = unwound
    BY <1>2 DEF StartDataReaders
  <2> QED
    BY <1>1, <1>8, <2>1, <2>2 DEF DispatcherInv, Stopped
<1>11. \A r \in active_readers' : HasCallback(r[1], reads[r])'
  BY <1>1, <1>8 DEF DispatcherInv, ReadersServeCallbacks, HasCallback
<1>12. \A r \in active_data_readers' : r[1] \in data_callbacks' /\ reads'[r] \in remote_data_tracks'
                                       /\ track_key'[reads'[r]] = data_key'[r[1]]
  <2> TAKE r \in active_data_readers'
  <2>1. CASE r[1] \in S /\ reads'[r] = sid
    <3>1. r[1] \in data_callbacks /\ data_key[r[1]] = track_key[sid]
      BY <1>3, <1>4, <1>5, <2>1
    <3> QED
      BY <1>1, <2>1, <3>1
  <2>2. CASE r \in active_data_readers /\ r[1] \notin ids /\ reads'[r] = reads[r]
    <3>1. r[1] \in data_callbacks /\ reads[r] \in remote_data_tracks /\ track_key[reads[r]] = data_key[r[1]]
      BY <2>2 DEF DispatcherInv, ReadersServeCallbacks
    <3>2. track_key[reads[r]] # track_key[sid]
      BY <1>3, <2>2, <3>1
    <3> QED
      BY <1>1, <2>2, <3>1, <3>2
  <2> QED
    BY <1>8, <2>1, <2>2
<1>13. ASSUME ~limit_hit', NEW i \in data_callbacks', NEW s \in remote_data_tracks', track_key'[s] = data_key'[i]
       PROVE  \E r \in active_data_readers' : r[1] = i /\ reads'[r] = s
  <2>1. ~limit_hit /\ S = ids
    BY <1>8, <1>13
  <2>2. CASE s = sid
    <3>1. i \in ids
      BY <1>1, <1>3, <1>13, <2>2
    <3> QED
      BY <1>8, <2>1, <2>2, <3>1
  <2>3. CASE s # sid
    <3>1. s \in remote_data_tracks /\ track_key[s] # track_key[sid] /\ i \in data_callbacks /\ track_key[s] = data_key[i]
      BY <1>1, <1>13, <2>3
    <3>2. PICK r \in active_data_readers : r[1] = i /\ reads[r] = s
      BY <2>1, <3>1 DEF DispatcherInv, ReadersServeCallbacks
    <3>3. i \notin ids
      BY <1>3, <3>1
    <3> QED
      BY <1>8, <3>2, <3>3
  <2> QED
    BY <2>2, <2>3
<1> QED
  BY <1>8, <1>9, <1>10, <1>11, <1>12, <1>13 DEF DispatcherInv, ReadersServeCallbacks

\* A data track is unpublished, and its readers are stopped.
LEMMA UnpublishedStep ==
  ASSUME DispatcherInv, NEW t \in Callers, NEW sid \in Sids, HandleDataTrackUnpublished(t, sid)
  PROVE  DispatcherInv'
<1> DEFINE old == {r \in active_data_readers : reads[r] = sid}
<1>1. /\ MayCall(t) /\ active_data_readers' = active_data_readers \ old /\ Extract(t, old) /\ NoThreads
      /\ remote_data_tracks' = remote_data_tracks \ {sid}
      /\ UNCHANGED <<audio_callbacks, video_callbacks, data_callbacks, data_key, track_key, active_readers,
                     unwound, limit_hit, stopped, reads>>
  BY DEF HandleDataTrackUnpublished, historyVars, NoThreads
<1>2. old \subseteq Active /\ old \subseteq active_data_readers /\ \A r \in active_data_readers : r \in old <=> reads[r] = sid
  BY DEF Active
<1> HIDE DEF old
<1>3. active_readers' = active_readers \ old
  <2>1. \A r \in active_readers, q \in active_data_readers : r # q
    BY ActiveFacts DEF DispatcherInv, OwnInv
  <2> QED
    BY <1>1, <1>2, <2>1
<1>4. RegistryOK'
  BY <1>1 DEF DispatcherInv, OwnInv, RegistryOK
<1>5. OwnInv'
  BY <1>1, <1>2, <1>3, <1>4, TakeStep DEF DispatcherInv
<1>6. OneTrackPerKey' /\ Stopped'
  BY <1>1 DEF DispatcherInv, OneTrackPerKey, Stopped
<1>7. \A r \in active_readers' : HasCallback(r[1], reads[r])'
  BY <1>1 DEF DispatcherInv, ReadersServeCallbacks, HasCallback
<1>8. \A r \in active_data_readers' : r[1] \in data_callbacks' /\ reads'[r] \in remote_data_tracks'
                                      /\ track_key'[reads'[r]] = data_key'[r[1]]
  BY <1>1, <1>2 DEF DispatcherInv, ReadersServeCallbacks
<1>9. ~limit_hit' => \A i \in data_callbacks', s \in remote_data_tracks' :
                       track_key'[s] = data_key'[i] => \E r \in active_data_readers' : r[1] = i /\ reads'[r] = s
  BY <1>1, <1>2 DEF DispatcherInv, ReadersServeCallbacks
<1> QED
  BY <1>5, <1>6, <1>7, <1>8, <1>9 DEF DispatcherInv, ReadersServeCallbacks

\* stopAll() takes everything.
LEMMA StopAllStep ==
  ASSUME DispatcherInv, NEW t \in Callers, StopAll(t)
  PROVE  DispatcherInv'
<1>1. /\ MayCall(t) /\ Extract(t, Active) /\ NoThreads /\ active_readers' = {} /\ active_data_readers' = {}
      /\ audio_callbacks' = {} /\ video_callbacks' = {} /\ data_callbacks' = {} /\ remote_data_tracks' = {}
      /\ stopped' = TRUE /\ UNCHANGED <<data_key, track_key, unwound, limit_hit>>
  BY DEF StopAll, Active
<1>2. RegistryOK'
  BY <1>1 DEF DispatcherInv, OwnInv, RegistryOK
<1>3. active_readers' = active_readers \ Active /\ active_data_readers' = active_data_readers \ Active
  BY <1>1 DEF Active
<1>4. OwnInv'
  BY <1>1, <1>2, <1>3, TakeStep DEF DispatcherInv
<1>5. OneTrackPerKey' /\ Stopped' /\ ReadersServeCallbacks'
  BY <1>1 DEF MayCall, std_terminate, OneTrackPerKey, Stopped, ReadersServeCallbacks
<1> QED
  BY <1>4, <1>5 DEF DispatcherInv

\* A step that changes neither the maps nor what the readers read.
LEMMA SameMaps ==
  ASSUME DispatcherInv, OwnInv',
         UNCHANGED <<audio_callbacks, video_callbacks, data_callbacks, data_key, remote_data_tracks, track_key,
                     active_readers, active_data_readers, reads, unwound, limit_hit, stopped>>
  PROVE  DispatcherInv'
  BY DEF DispatcherInv, OneTrackPerKey, Stopped, ReadersServeCallbacks, HasCallback

\* A thread that has exited is joined.
LEMMA JoinReaderStep ==
  ASSUME DispatcherInv, NEW t \in Callers, NEW r \in Readers, Join(t, r)
  PROVE  DispatcherInv'
<1>1. /\ pc[r] = "exited" /\ joining' = [joining EXCEPT ![t] = @ \ {r}]
      /\ UNCHANGED <<audio_callbacks, video_callbacks, data_callbacks, data_key, remote_data_tracks, track_key,
                     active_readers, active_data_readers, starts, pc, reads, unwound, limit_hit, stopped>>
  BY DEF Join, registryVars, readerVars, historyVars
<1>2. joining \in [Callers -> SUBSET Readers]
  BY DEF DispatcherInv, OwnInv, ReadersOK
<1>3. \A u \in Callers : joining'[u] \subseteq joining[u] /\ joining[u] \ {r} \subseteq joining'[u]
  BY <1>1, <1>2
<1>4. RegistryOK' /\ ReadersOK'
  BY <1>1, <1>2 DEF DispatcherInv, OwnInv, RegistryOK, ReadersOK
<1>5. Active' = Active
  BY <1>1 DEF Active
<1>6. Born'
  BY <1>1, <1>3, <1>5 DEF DispatcherInv, OwnInv, Born
<1>7. \A q \in Readers : Running(q)' => q \in Active' \/ q \in unwound' \/ \E u \in Callers : q \in joining'[u]
  <2>1. \A q \in Readers : Running(q)' => Running(q) /\ q # r
    BY <1>1 DEF Running
  <2> QED
    BY <1>1, <1>3, <1>5, <2>1 DEF DispatcherInv, OwnInv, ReaderOwnedOnce
<1>8. ReaderOwnedOnce'
  <2>1. \A u \in Callers : joining'[u] \cap Active' = {}
    BY <1>3, <1>5 DEF DispatcherInv, OwnInv, ReaderOwnedOnce
  <2>2. \A u, v \in Callers : u # v => joining'[u] \cap joining'[v] = {}
    BY <1>3 DEF DispatcherInv, OwnInv, ReaderOwnedOnce
  <2>3. \A q, x \in Active' : q[1] = x[1] => q = x
    BY <1>5 DEF DispatcherInv, OwnInv, ReaderOwnedOnce
  <2>4. unwound' \cap Active' = {} /\ \A u \in Callers : unwound' \cap joining'[u] = {}
    BY <1>1, <1>3, <1>5 DEF DispatcherInv, OwnInv, ReaderOwnedOnce
  <2>5. \A q, x \in unwound' : q = x
    BY <1>1 DEF DispatcherInv, OwnInv, ReaderOwnedOnce
  <2> QED
    BY <1>7, <2>1, <2>2, <2>3, <2>4, <2>5 DEF ReaderOwnedOnce
<1> QED
  BY <1>1, <1>4, <1>6, <1>8, SameMaps DEF OwnInv

\* A reader thread takes a step: none is born by it.
LEMMA MoveStep ==
  ASSUME DispatcherInv, NEW r \in Readers, NEW from \in Places \ {"unborn", "exited"}, NEW to \in Places, Move(r, from, to)
  PROVE  DispatcherInv'
<1>1. /\ pc[r] = from /\ pc' = [pc EXCEPT ![r] = to]
      /\ UNCHANGED <<audio_callbacks, video_callbacks, data_callbacks, data_key, remote_data_tracks, track_key,
                     active_readers, active_data_readers, starts, reads, joining, unwound, limit_hit, stopped>>
  BY DEF Move, registryVars, historyVars
<1>2. pc \in [Readers -> Places]
  BY DEF DispatcherInv, OwnInv, ReadersOK
<1>3. \A q \in Readers : (pc'[q] # "unborn" => pc[q] # "unborn") /\ (Running(q)' => Running(q))
  BY <1>1, <1>2 DEF Running
<1>4. RegistryOK' /\ ReadersOK' /\ Active' = Active
  BY <1>1, <1>2 DEF DispatcherInv, OwnInv, RegistryOK, ReadersOK, Active
<1>5. Born' /\ ReaderOwnedOnce'
  BY <1>1, <1>3, <1>4 DEF DispatcherInv, OwnInv, Born, ReaderOwnedOnce
<1> QED
  BY <1>1, <1>4, <1>5, SameMaps DEF OwnInv

LEMMA ReaderSteps ==
  ASSUME DispatcherInv, NEW r \in Readers, ReaderStep(r) \/ ReadFrame(r) \/ ReadEos(r)
  PROVE  DispatcherInv'
<1>1. \E from \in Places \ {"unborn", "exited"}, to \in Places : Move(r, from, to)
  BY DEF ReaderStep, ReadFrame, ReadEos, Subscribe, SubscribeFails, Attach, ReadClosed, CallbackReturns, Places
<1> QED
  BY <1>1, MoveStep

-----------------------------------------------------------------------------
\* Every step keeps the invariant.
LEMMA DispatcherStep == DispatcherInv /\ [Next]_vars => DispatcherInv'
<1> SUFFICES ASSUME DispatcherInv, [Next]_vars PROVE DispatcherInv'
  OBVIOUS
<1>1. CASE UNCHANGED vars
  <2>1. RegistryOK'
    BY <1>1 DEF vars, registryVars, historyVars, DispatcherInv, OwnInv, RegistryOK
  <2>2. OwnInv'
    BY <1>1, <2>1, SameThreads DEF vars, readerVars, DispatcherInv
  <2> QED
    BY <1>1, <2>2, SameMaps DEF vars, registryVars, readerVars, historyVars
<1>2. ASSUME NEW t \in Callers, CallerStep(t) PROVE DispatcherInv'
  BY <1>2, RegisterStep, ClearStep, SubscribedStartStep, SubscribedRefusedStep, SubscribedThrowsStep, AddStartStep,
     PublishedStep, UnpublishedStep, RemoveStep, StopAllStep
     DEF CallerStep, MediaStep, DataStep
<1>3. ASSUME NEW t \in Callers, JoinStep(t) PROVE DispatcherInv'
  BY <1>3, JoinReaderStep DEF JoinStep
<1> QED
  BY <1>1, <1>2, <1>3, ReaderSteps DEF Next

\* No reader thread is owned twice: a running one is in a map, or being joined by one caller, or the one
\* reader that was being replaced when the creation of the new stream threw, which is in neither; and a
\* key or callback has one reader at most.
THEOREM ReadersOwned == Safe => []ReaderOwnedOnce
<1>1. DispatcherInv => ReaderOwnedOnce
  BY DEF DispatcherInv, OwnInv
<1> QED
  BY <1>1, DispatcherInit, DispatcherStep, PTL DEF Safe

\* The readers in the maps serve callbacks that are registered and tracks that are published, and every
\* data callback with a published track has its reader, in whichever order they came.
THEOREM ReadersServe == Safe => []ReadersServeCallbacks
<1>1. DispatcherInv => ReadersServeCallbacks
  BY DEF DispatcherInv
<1> QED
  BY <1>1, DispatcherInit, DispatcherStep, PTL DEF Safe

\* After stopAll(), until a callback is registered again, every thread that still runs is being joined.
THEOREM StoppedQuiescent == Safe => []StopAllQuiescent
<1>1. DispatcherInv => StopAllQuiescent
  BY DEF DispatcherInv, OwnInv, ReaderOwnedOnce, Active, Stopped, StopAllQuiescent
<1> QED
  BY <1>1, DispatcherInit, DispatcherStep, PTL DEF Safe
=============================================================================
