------------------- MODULE MCSubscriptionThreadDispatcher -------------------
(***************************************************************************)
(* Instances of the dispatcher for TLC.  A behaviour is about audio and    *)
(* video tracks, with all the callers, or about data tracks, with one: the *)
(* readers of the two are kept in different maps, and their methods meet   *)
(* in stopAll() and in the limit on readers, which each part reaches.      *)
(* One key has audio and video callbacks, the others audio callbacks only. *)
(***************************************************************************)
EXTENDS SubscriptionThreadDispatcher

CONSTANTS Parts,        \* the parts that are checked, of {"media", "data"}
          MaxCallbacks  \* the number of data callbacks ever registered

VARIABLE part           \* the part this behaviour is about

MCDataIds == 0 .. MaxCallbacks - 1

DataCaller == CHOOSE t \in Callers : TRUE

AnyKey == CHOOSE k \in Keys : TRUE

\* The keys of data callbacks and tracks matter to the data part only; as the keys are interchangeable
\* there, the first callback has any one of them.
MCInit ==
  /\ Init
  /\ part \in Parts
  /\ data_key[0] = AnyKey
  /\ part = "media" => (\A i \in DataIds : data_key[i] = AnyKey) /\ (\A s \in Sids : track_key[s] = AnyKey)

MCNext ==
  /\ UNCHANGED part
  /\ \/ /\ part = "media"
        /\ \E t \in Callers : MediaStep(t) \/ StopAll(t)
        /\ video_callbacks' \subseteq {AnyKey}
     \/ part = "data" /\ (DataStep(DataCaller) \/ StopAll(DataCaller))
     \/ \E t \in Callers : JoinStep(t)
     \/ \E r \in Readers : ReaderStep(r) \/ ReadFrame(r) \/ ReadEos(r)

MCSpec == MCInit /\ [][MCNext]_<<vars, part>> /\ Fairness
=============================================================================
