-------------------------- MODULE RoomParticipants --------------------------
(***************************************************************************)
(* What Room::onEvent() (src/src/room.cpp) does with the events about      *)
(* participants and their tracks: the Room keeps a copy of Rust's view of  *)
(* the room in remote_participants_, hands plain pointers into it to the   *)
(* delegate after it has released lock_, and tells the dispatcher which    *)
(* tracks are subscribed.                                                  *)
(*                                                                         *)
(* A RemoteParticipant object is a number, new for each time a participant *)
(* joins; the LocalParticipant is one more.  A track is its sid.           *)
(***************************************************************************)
EXTENDS RoomEvents

CONSTANTS
  Identities,     \* the identities of remote participants
  Local,          \* the identity of the local participant
  Sids,           \* the sids of remote tracks
  LocalSid,       \* the sid of a track the local participant has published
  UnknownSource,  \* the remote tracks whose source is SOURCE_UNKNOWN
  MaxJoins        \* bound on the RemoteParticipants ever created

ASSUME ParticipantsAssumption ==
  /\ IsFiniteSet(Identities) /\ Local \notin Identities
  /\ Cardinality(Identities) <= MaxJoins   \* all may be there at the start
  /\ IsFiniteSet(Sids) /\ LocalSid \notin Sids
  /\ UnknownSource \subseteq Sids
  /\ MaxJoins \in Nat

LocalObject == MaxJoins + 1
Objects == 1 .. LocalObject
Everybody == Identities \cup {Local}
Tracks == Sids \cup {LocalSid}
RoomInfo == "room"   \* the metadata and the sid of the room

VARIABLES
  remote_participants,  \* per identity, the object in the map, or None
  joins,                \* the RemoteParticipants created so far
  publications,         \* pairs of an object and the sid of a publication it keeps
  subscribed,           \* those of them that are subscribed and have a track
  muted,                \* those of them that are muted
  moved_out,            \* the objects shutdown() has moved out and not yet destroyed
  kept,                 \* the objects a local shared_ptr of the handler keeps alive
  held,                 \* the objects the event given to the delegate points to
  handed,               \* the tracks the dispatcher was told about last as subscribed
  threw,                \* history: the tracks for which the delegate has thrown
  rust_participants,    \* Rust's view: who is there,
  rust_tracks,          \*   pairs of an identity and the sid of a track,
  rust_subscribed,      \*   the subscribed tracks,
  rust_muted,           \*   the muted tracks,
  rust_news,            \*   those, and RoomInfo, about which the Room has not been brought up to date,
  rust_used             \*   and the sids that have been used

roomVars == <<remote_participants, joins, publications, subscribed, muted, moved_out>>
handlerVars == <<kept, held, handed, threw>>
rustVars == <<rust_participants, rust_tracks, rust_subscribed, rust_muted, rust_news, rust_used>>

participantVars == <<roomVars, handlerVars, rustVars>>
vars == <<loopVars, participantVars>>

\* The answer to connectAsync, as connectImpl() has published it: some participants are
\* there already, with their tracks.
Init ==
  /\ LoopInit
  /\ rust_participants \in SUBSET Identities
  /\ rust_subscribed = {} /\ rust_muted = {}
  /\ rust_news = {}
  /\ joins = Cardinality(rust_participants)
  /\ remote_participants \in [Identities -> 0 .. joins]
  /\ \A i \in Identities : remote_participants[i] # None <=> i \in rust_participants
  /\ \A i, j \in rust_participants : remote_participants[i] = remote_participants[j] => i = j
  /\ \E tracks \in SUBSET (rust_participants \X Sids) :
       /\ \A x, y \in tracks : x[2] = y[2] => x = y
       /\ rust_tracks = tracks \cup {<<Local, LocalSid>>}
       /\ rust_used = {x[2] : x \in tracks}
       /\ publications = {<<remote_participants[x[1]], x[2]>> : x \in tracks} \cup {<<LocalObject, LocalSid>>}
  /\ subscribed = {} /\ muted = {}
  /\ moved_out = {}
  /\ kept = {} /\ held = {}
  /\ handed = {} /\ threw = {}

-----------------------------------------------------------------------------
(* Rust *)

RustParticipantConnected(i) ==
  /\ i \in Identities \ rust_participants
  /\ joins < MaxJoins
  /\ Emit("participant_connected", {i}, None)
  /\ rust_participants' = rust_participants \cup {i}
  /\ UNCHANGED <<roomVars, handlerVars, rust_tracks, rust_subscribed, rust_muted, rust_news, rust_used>>

\* A participant may leave without its tracks having been unpublished.
RustParticipantDisconnected(i) ==
  LET gone == {s \in Sids : <<i, s>> \in rust_tracks} IN
  /\ i \in rust_participants
  /\ Emit("participant_disconnected", {i}, None)
  /\ rust_participants' = rust_participants \ {i}
  /\ rust_tracks' = {x \in rust_tracks : x[1] # i}
  /\ rust_subscribed' = rust_subscribed \ gone
  /\ rust_muted' = rust_muted \ gone
  /\ rust_news' = rust_news \ {i}
  /\ UNCHANGED <<roomVars, handlerVars, rust_used>>

RustTrackPublished(i, s) ==
  /\ i \in rust_participants
  /\ s \in Sids \ rust_used
  /\ Emit("track_published", {i}, s)
  /\ rust_tracks' = rust_tracks \cup {<<i, s>>}
  /\ rust_used' = rust_used \cup {s}
  /\ UNCHANGED <<roomVars, handlerVars, rust_participants, rust_subscribed, rust_muted, rust_news>>

RustTrackUnpublished(i, s) ==
  /\ <<i, s>> \in rust_tracks /\ s \in Sids \ rust_subscribed
  /\ Emit("track_unpublished", {i}, s)
  /\ rust_tracks' = rust_tracks \ {<<i, s>>}
  /\ rust_muted' = rust_muted \ {s}
  /\ UNCHANGED <<roomVars, handlerVars, rust_participants, rust_subscribed, rust_news, rust_used>>

RustTrackSubscribed(i, s) ==
  /\ <<i, s>> \in rust_tracks /\ s \in Sids \ rust_subscribed
  /\ Emit("track_subscribed", {i}, s)
  /\ rust_subscribed' = rust_subscribed \cup {s}
  /\ UNCHANGED <<roomVars, handlerVars, rust_participants, rust_tracks, rust_muted, rust_news, rust_used>>

RustTrackUnsubscribed(i, s) ==
  /\ <<i, s>> \in rust_tracks /\ s \in rust_subscribed
  /\ Emit("track_unsubscribed", {i}, s)
  /\ rust_subscribed' = rust_subscribed \ {s}
  /\ UNCHANGED <<roomVars, handlerVars, rust_participants, rust_tracks, rust_muted, rust_news, rust_used>>

RustTrackMuted(i, s) ==
  /\ <<i, s>> \in rust_tracks /\ s \notin rust_muted
  /\ Emit("track_muted", {i}, s)
  /\ rust_muted' = rust_muted \cup {s}
  /\ UNCHANGED <<roomVars, handlerVars, rust_participants, rust_tracks, rust_subscribed, rust_news, rust_used>>

RustTrackUnmuted(i, s) ==
  /\ <<i, s>> \in rust_tracks /\ s \in rust_muted
  /\ Emit("track_unmuted", {i}, s)
  /\ rust_muted' = rust_muted \ {s}
  /\ UNCHANGED <<roomVars, handlerVars, rust_participants, rust_tracks, rust_subscribed, rust_news, rust_used>>

\* The metadata, name or attributes of one participant, or of several at once, have changed.
RustInfoChanged(who) ==
  /\ who # {} /\ who \subseteq rust_participants \cup {Local}
  /\ Emit(IF Cardinality(who) = 1 THEN "participant_changed" ELSE "participants_updated", who, None)
  /\ rust_news' = rust_news \cup who
  /\ UNCHANGED <<roomVars, handlerVars, rust_participants, rust_tracks, rust_subscribed, rust_muted, rust_used>>

\* The metadata or the sid of the room has changed.
RustRoomInfoChanged ==
  /\ Emit("room_info", {}, None)
  /\ rust_news' = rust_news \cup {RoomInfo}
  /\ UNCHANGED <<roomVars, handlerVars, rust_participants, rust_tracks, rust_subscribed, rust_muted, rust_used>>

\* An event that tells of participants and changes nothing about them: the encryption status
\* or the connection quality of one, its encryption state, a failed subscription; a data packet;
\* the active speakers; a publication of the local participant.
RustParticipantEvent(kind, who) ==
  /\ who \subseteq rust_participants \cup {Local}
  /\ CASE kind \in {"participant_event", "e2ee_state"} -> Cardinality(who) = 1
       [] kind \in {"data_packet", "subscription_failed"} -> Cardinality(who) = 1 /\ Local \notin who
       [] kind = "local_track" -> who = {Local}
       [] kind = "active_speakers" -> TRUE
  /\ Emit(kind, who, None)
  /\ UNCHANGED participantVars

\* An event that looks at no participant: the connection of the room, data
\* tracks (which the Room only hands to the dispatcher).
RustRoomEvent == Emit("room_event", {}, None) /\ UNCHANGED participantVars

-----------------------------------------------------------------------------
(* Helpers of the handlers, all under lock_ *)

\* The object an identity stands for, if the Room has it.
Find(i) ==
  IF i = Local THEN (IF room_state = "connected" THEN {LocalObject} ELSE {})
  ELSE {remote_participants[i]} \ {None}

FindAll(who) == UNION {Find(i) : i \in who}

\* The publications of the event's track that its participant has.
Found == {x \in publications : x[1] \in FindAll(event.who) /\ x[2] = event.what}

\* The delegate is called after the unlock with pointers to the given objects.
Notify(objects) == held' = objects /\ Goto("delegate")

\* "unknown participant" or "unknown publication": a warning, and no call.
Unknown == Finish /\ UNCHANGED participantVars

-----------------------------------------------------------------------------
(* The handlers *)

OnParticipantConnected ==
  /\ Handles("participant_connected")
  /\ joins' = joins + 1
  /\ remote_participants' =
       [i \in Identities |->
          IF i \in event.who /\ remote_participants[i] = None THEN joins + 1 ELSE remote_participants[i]]
  /\ kept' = {joins + 1}
  /\ Notify({joins + 1})
  /\ UNCHANGED <<publications, subscribed, muted, moved_out, handed, threw, rustVars>>

\* Mutant of OnParticipantDisconnected: the participant stays in the map.
ParticipantDisconnectedKept ==
  /\ Handles("participant_disconnected")
  /\ FindAll(event.who) # {}
  /\ kept' = FindAll(event.who)
  /\ Notify(FindAll(event.who))
  /\ UNCHANGED <<roomVars, handed, threw, rustVars>>

\* The object lives until the delegate has returned; nobody finds its publications any more.
OnParticipantDisconnected ==
  /\ Handles("participant_disconnected")
  /\ FindAll(event.who) # {}
  /\ kept' = FindAll(event.who)
  /\ remote_participants' = [i \in Identities |-> IF i \in event.who THEN None ELSE remote_participants[i]]
  /\ publications' = {x \in publications : x[1] \notin FindAll(event.who)}
  /\ subscribed' = {x \in subscribed : x[1] \notin FindAll(event.who)}
  /\ muted' = {x \in muted : x[1] \notin FindAll(event.who)}
  /\ Notify(FindAll(event.who))
  /\ UNCHANGED <<joins, moved_out, handed, threw, rustVars>>

OnTrackPublished ==
  /\ Handles("track_published")
  /\ FindAll(event.who) # {}
  /\ publications' = publications \cup (FindAll(event.who) \X {event.what})
  /\ Notify(FindAll(event.who))
  /\ UNCHANGED <<remote_participants, joins, subscribed, muted, moved_out, kept, handed, threw, rustVars>>

OnTrackUnpublished ==
  /\ Handles("track_unpublished")
  /\ Found # {}
  /\ publications' = publications \ Found
  /\ subscribed' = subscribed \ Found
  /\ muted' = muted \ Found
  /\ Notify(FindAll(event.who))
  /\ UNCHANGED <<remote_participants, joins, moved_out, kept, handed, threw, rustVars>>

\* (Rust subscribes to audio and video tracks only; another kind would only be logged.)
OnTrackSubscribed ==
  /\ Handles("track_subscribed")
  /\ Found # {}
  /\ subscribed' = subscribed \cup Found
  /\ Notify(FindAll(event.who))
  /\ UNCHANGED <<remote_participants, joins, publications, muted, moved_out, kept, handed, threw, rustVars>>

OnTrackUnsubscribed ==
  /\ Handles("track_unsubscribed")
  /\ Found # {}
  /\ subscribed' = subscribed \ Found
  /\ Notify(FindAll(event.who))
  /\ UNCHANGED <<remote_participants, joins, publications, muted, moved_out, kept, handed, threw, rustVars>>

OnTrackMuted ==
  /\ Handles("track_muted")
  /\ Found # {}
  /\ muted' = muted \cup Found
  /\ Notify(FindAll(event.who))
  /\ UNCHANGED <<remote_participants, joins, publications, subscribed, moved_out, kept, handed, threw, rustVars>>

OnTrackUnmuted ==
  /\ Handles("track_unmuted")
  /\ Found # {}
  /\ muted' = muted \ Found
  /\ Notify(FindAll(event.who))
  /\ UNCHANGED <<remote_participants, joins, publications, subscribed, moved_out, kept, handed, threw, rustVars>>

\* The event names something the Room does not have.
OnUnknown ==
  \/ /\ at = "handle"
     /\ event.kind \in {"participant_disconnected", "track_published", "participant_changed", "participant_event",
                        "e2ee_state", "subscription_failed", "local_track"}
     /\ FindAll(event.who) = {}
     /\ Unknown
  \/ /\ at = "handle"
     /\ event.kind \in {"track_unpublished", "track_subscribed", "track_unsubscribed", "track_muted", "track_unmuted"}
     /\ Found = {}
     /\ Unknown

\* The information the event carries is stored in the objects that are found.
StoreInfo ==
  /\ rust_news' = {i \in rust_news : i \notin event.who \/ Find(i) = {}}
  /\ UNCHANGED <<roomVars, kept, handed, threw, rust_participants, rust_tracks, rust_subscribed, rust_muted, rust_used>>

\* kParticipantMetadataChanged, kParticipantNameChanged, kParticipantAttributesChanged.
OnParticipantChanged ==
  /\ Handles("participant_changed")
  /\ FindAll(event.who) # {}
  /\ StoreInfo
  /\ Notify(FindAll(event.who))

\* kParticipantsUpdated: those that are not known are left out.
OnParticipantsUpdated ==
  /\ Handles("participants_updated")
  /\ StoreInfo
  /\ Notify(FindAll(event.who))

OnParticipantEvent ==
  /\ Handles("participant_event")
  /\ FindAll(event.who) # {}
  /\ Notify(FindAll(event.who))
  /\ UNCHANGED <<roomVars, kept, handed, threw, rustVars>>

OnTrackSubscriptionFailed ==
  /\ Handles("subscription_failed")
  /\ FindAll(event.who) # {}
  /\ Notify(FindAll(event.who))
  /\ UNCHANGED <<roomVars, kept, handed, threw, rustVars>>

OnE2eeStateChanged ==
  /\ Handles("e2ee_state")
  /\ FindAll(event.who) # {}
  /\ Notify(FindAll(event.who))
  /\ UNCHANGED <<roomVars, kept, handed, threw, rustVars>>

\* kRoomMetadataChanged, kRoomSidChanged.
OnRoomInfoChanged ==
  /\ Handles("room_info")
  /\ rust_news' = rust_news \ {RoomInfo}
  /\ Notify({})
  /\ UNCHANGED <<roomVars, kept, handed, threw, rust_participants, rust_tracks, rust_subscribed, rust_muted, rust_used>>

\* The active speakers that are known.
OnActiveSpeakersChanged ==
  /\ Handles("active_speakers")
  /\ Notify(FindAll(event.who))
  /\ UNCHANGED <<roomVars, kept, handed, threw, rustVars>>

\* A data packet is reported with a null pointer if its sender is not known.
OnDataPacketReceived ==
  /\ Handles("data_packet")
  /\ Notify(FindAll(event.who))
  /\ UNCHANGED <<roomVars, kept, handed, threw, rustVars>>

\* kLocalTrackPublished, kLocalTrackUnpublished, kLocalTrackSubscribed: the delegate gets shared
\* pointers to the publication and the track.
OnLocalTrackEvent ==
  /\ Handles("local_track")
  /\ FindAll(event.who) # {}
  /\ Notify({})
  /\ UNCHANGED <<roomVars, kept, handed, threw, rustVars>>

OnRoomEvent ==
  /\ Handles("room_event")
  /\ Notify({})
  /\ UNCHANGED <<roomVars, kept, handed, threw, rustVars>>

-----------------------------------------------------------------------------
(* After the unlock *)

ForDispatcher == event.kind \in {"track_subscribed", "track_unsubscribed"}

\* The delegate returns; two kinds of event then go to the dispatcher.
DelegateReturns ==
  /\ at = "delegate"
  /\ IF ForDispatcher THEN Goto("dispatch") /\ UNCHANGED <<kept, held>>
     ELSE Finish /\ kept' = {} /\ held' = {}
  /\ UNCHANGED <<roomVars, handed, threw, rustVars>>

\* The delegate throws: the exception leaves onEvent() (FfiClient::pushEvent catches it), and
\* the dispatcher does not hear of the event.
DelegateThrows ==
  /\ at = "delegate"
  /\ Finish
  /\ kept' = {} /\ held' = {}
  /\ threw' = threw \cup {s \in Sids : ForDispatcher /\ s = event.what}
  /\ UNCHANGED <<roomVars, handed, rustVars>>

\* Mutant of Dispatch: the dispatcher is not told that a track was unsubscribed.
DispatchSubscribedOnly ==
  /\ at = "dispatch"
  /\ handed' = IF event.kind = "track_subscribed" THEN handed \cup {event.what} ELSE handed
  /\ Finish
  /\ kept' = {} /\ held' = {}
  /\ UNCHANGED <<roomVars, threw, rustVars>>

Dispatch ==
  /\ at = "dispatch"
  /\ handed' = IF event.kind = "track_subscribed" THEN handed \cup {event.what}
               ELSE IF event.what \in UnknownSource THEN handed ELSE handed \ {event.what}
  /\ Finish
  /\ kept' = {} /\ held' = {}
  /\ UNCHANGED <<roomVars, threw, rustVars>>

-----------------------------------------------------------------------------
(* shutdown() *)

ShutdownClaim ==
  /\ Claim
  /\ moved_out' = {LocalObject} \cup ({remote_participants[i] : i \in Identities} \ {None})
  /\ remote_participants' = [i \in Identities |-> None]
  /\ UNCHANGED <<joins, publications, subscribed, muted, handlerVars, rustVars>>

ShutdownStopAll == StopAll /\ handed' = {} /\ UNCHANGED <<roomVars, kept, held, threw, rustVars>>

ShutdownRemove == RemoveListener /\ UNCHANGED participantVars

ShutdownRelease ==
  /\ Release
  /\ moved_out' = {}
  /\ UNCHANGED <<remote_participants, joins, publications, subscribed, muted, handlerVars, rustVars>>

-----------------------------------------------------------------------------
Rust ==
  \/ \E i \in Identities : RustParticipantConnected(i) \/ RustParticipantDisconnected(i)
  \/ \E i \in Identities, s \in Sids :
       \/ RustTrackPublished(i, s) \/ RustTrackUnpublished(i, s)
       \/ RustTrackSubscribed(i, s) \/ RustTrackUnsubscribed(i, s)
  \/ \E i \in Everybody, s \in Tracks : RustTrackMuted(i, s) \/ RustTrackUnmuted(i, s)
  \/ \E who \in {{i} : i \in Everybody} \cup {rust_participants \cup {Local}} :
       \/ RustInfoChanged(who)
       \/ \E kind \in {"participant_event", "e2ee_state", "subscription_failed", "data_packet", "active_speakers", "local_track"} :
            RustParticipantEvent(kind, who)
  \/ RustRoomInfoChanged \/ RustRoomEvent

Handle ==
  \/ (OnEventIgnored \/ OnEventChecked) /\ UNCHANGED participantVars
  \/ OnParticipantConnected \/ OnParticipantDisconnected
  \/ OnTrackPublished \/ OnTrackUnpublished \/ OnTrackSubscribed \/ OnTrackUnsubscribed
  \/ OnTrackMuted \/ OnTrackUnmuted \/ OnUnknown
  \/ OnParticipantChanged \/ OnParticipantsUpdated \/ OnParticipantEvent
  \/ OnTrackSubscriptionFailed \/ OnE2eeStateChanged \/ OnRoomInfoChanged
  \/ OnActiveSpeakersChanged \/ OnDataPacketReceived \/ OnLocalTrackEvent \/ OnRoomEvent
  \/ DelegateReturns \/ DelegateThrows \/ Dispatch

Next ==
  \/ Rust
  \/ Handle
  \/ ShutdownClaim \/ ShutdownStopAll \/ ShutdownRemove \/ ShutdownRelease

Spec == Init /\ [][Next]_vars

-----------------------------------------------------------------------------
(***************************************************************************)
(* Properties                                                              *)
(***************************************************************************)
\* The tracks Rust's view gives participant i, and those the Room's copy gives it.
RustTracksOf(i) == {s \in Tracks : <<i, s>> \in rust_tracks}
TracksOf(i, pairs) == {s \in Tracks : \E o \in Find(i) : <<o, s>> \in pairs}

\* Between two events a connected Room agrees with Rust about who is there, with which
\* tracks, which of them are subscribed or muted, and about what is known of everybody and the room,
\* through joins, departures with tracks still published and returns under the same identity.
\* After disconnect() no participant and no subscribed track is left, save one: the event that
\* was past the test of the room handle when disconnect() took the state out may still put a
\* participant into the emptied map, or start a reader after stopAll().
RoomMirrorsRust ==
  /\ at = "idle" /\ room_state = "connected" =>
       /\ \A i \in Identities : remote_participants[i] # None <=> i \in rust_participants
       /\ rust_news = {}
       /\ \A i \in rust_participants \cup {Local} :
            /\ TracksOf(i, publications) = RustTracksOf(i)
            /\ TracksOf(i, subscribed) = RustTracksOf(i) \cap rust_subscribed
            /\ TracksOf(i, muted) = RustTracksOf(i) \cap rust_muted
  /\ disconnect = "done" =>
       Cardinality({i \in Identities : remote_participants[i] # None}) + Cardinality(handed) <= 1

Alive == ({remote_participants[i] : i \in Identities} \ {None}) \cup moved_out \cup kept
           \cup (IF room_state = "connected" THEN {LocalObject} ELSE {})

\* The participants an event points to exist for as long as the delegate may look at them,
\* even though lock_ is not held and disconnect() may run at the same time.
PointersValid == held \subseteq Alive

\* Between two events the dispatcher believes that a track is subscribed exactly if it is,
\* except for the tracks whose participant has left without unsubscribing, those without a
\* source, and those for which the delegate has thrown.
DispatcherInformed ==
  at = "idle" /\ disconnect = "none" =>
    /\ rust_subscribed \subseteq handed \cup threw
    /\ \A s \in handed :
         \/ s \in rust_subscribed \cup UnknownSource \cup threw
         \/ \A i \in Identities : <<i, s>> \notin rust_tracks
=============================================================================
