----------------------------- MODULE RoomEvents -----------------------------
(***************************************************************************)
(* The frame in which Room::onEvent() (src/src/room.cpp) handles the       *)
(* events of a connected room while an application thread may disconnect   *)
(* it.  Rust delivers the events of one room one after the other.  Each is *)
(* handled in up to four steps, because lock_ is given up in between: the  *)
(* test of the room handle, the change of the Room's maps, the call of the *)
(* delegate or stream handler, and what follows that call.  The events     *)
(* that are not about the lifecycle (module Room) are handled in           *)
(* RoomParticipants and RoomDataStreams.                                   *)
(***************************************************************************)
EXTENDS Integers, FiniteSets

VARIABLES
  room_state,   \* "connected"; "released" once shutdown() has moved the state out
  listening,    \* FfiClient delivers events to the Room's listener
  at,           \* the next step of the event that is being handled
  event,        \* that event
  disconnect    \* the next step of disconnect()

loopVars == <<room_state, listening, at, event, disconnect>>

None == 0
NoEvent == [kind |-> "none", who |-> {}, what |-> None]

LoopInit ==
  /\ room_state = "connected"
  /\ listening = TRUE
  /\ at = "idle"
  /\ event = NoEvent
  /\ disconnect = "none"

\* Rust emits an event about the participants who and the track or stream what.  Once the
\* state has been moved out every event is ignored at the first test, whatever it is about:
\* room events then stand for all of them.
Emit(kind, who, what) ==
  /\ listening
  /\ room_state = "connected" \/ kind = "room_event"
  /\ at = "idle"
  /\ at' = "check"
  /\ event' = [kind |-> kind, who |-> who, what |-> what]
  /\ UNCHANGED <<room_state, listening, disconnect>>

\* Handling goes on with the given step, or is over.
Goto(step) == at' = step /\ UNCHANGED <<room_state, listening, event, disconnect>>
Finish == at' = "idle" /\ event' = NoEvent /\ UNCHANGED <<room_state, listening, disconnect>>

\* The step of the given kind of event that changes the maps of the Room.
Handles(kind) == at = "handle" /\ event.kind = kind

\* The Room has no handle any more, or has it at the time of this test.
OnEventIgnored == at = "check" /\ room_state # "connected" /\ Finish
OnEventChecked == at = "check" /\ room_state = "connected" /\ Goto("handle")

-----------------------------------------------------------------------------
(* shutdown(), as disconnect() calls it *)

\* All state is moved out of the Room under lock_; what the Room's maps become is said by the
\* modules that have them.
Claim ==
  /\ disconnect = "none"
  /\ room_state' = "released"
  /\ disconnect' = "stop"
  /\ UNCHANGED <<listening, at, event>>

\* The answer to disconnectAsync has come (or failed); stopAll().
StopAll ==
  /\ disconnect = "stop"
  /\ disconnect' = "remove"
  /\ UNCHANGED <<room_state, listening, at, event>>

RemoveListener ==
  /\ disconnect = "remove"
  /\ listening' = FALSE
  /\ disconnect' = "wait"
  /\ UNCHANGED <<room_state, at, event>>

\* Mutant of Release: removeListener() does not wait for the callback that is running.
ReleaseEarly ==
  /\ disconnect = "wait"
  /\ disconnect' = "done"
  /\ UNCHANGED <<room_state, listening, at, event>>

\* removeListener() has waited for the event in progress; what was moved out is destroyed.
Release ==
  /\ disconnect = "wait"
  /\ at = "idle"
  /\ disconnect' = "done"
  /\ UNCHANGED <<room_state, listening, at, event>>
=============================================================================
