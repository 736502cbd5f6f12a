---------------------------- MODULE MCRoomEvents ----------------------------
(***************************************************************************)
(* The instance of RoomParticipants and RoomDataStreams for TLC.  The two  *)
(* kinds of events share the loop of RoomEvents and touch nothing of each  *)
(* other's state: a behaviour has events of one kind.                      *)
(***************************************************************************)
EXTENDS RoomParticipants, RoomDataStreams, TLC

VARIABLE part   \* the kind of the events: "participants" or "streams"

\* Texts that chunks of three bytes cut at the end, before the last byte of a code point of two,
\* and in the middle, where the cut moves back to the start of a code point.
MCTexts == {<<"lead", "cont">>, <<"lead", "lead", "lead", "cont", "lead">>}

MCInit ==
  /\ part \in {"participants", "streams"}
  /\ Init /\ StreamsInit
  /\ part = "participants" => ~handler
  /\ part = "streams" => rust_participants = {}

MCNext ==
  \/ part = "participants" /\ Next /\ UNCHANGED <<part, writerVars, receiverVars>>
  \/ part = "streams" /\ StreamsNext /\ UNCHANGED <<part, participantVars>>

MCSpec == MCInit /\ [][MCNext]_<<part, loopVars, participantVars, writerVars, receiverVars>> /\ StreamsFairness
=============================================================================
