----------------------------- MODULE LocalTracks -----------------------------
(***************************************************************************)
(* The tracks a livekit::LocalParticipant publishes (local_participant.cpp)*)
(* and the Room's events about them (room.cpp).  publishTrack() and        *)
(* unpublishTrack() wait for Rust's answer on an application thread and    *)
(* only then touch published_tracks_by_sid_; the event for the same        *)
(* publication is handled on a Rust thread and looks it up there.  The map *)
(* keeps weak references: the application may drop a track at any time.    *)
(*                                                                         *)
(* published_tracks_by_sid_ has no lock.  The model has one application    *)
(* thread, which makes one call at a time, and takes each access to the    *)
(* map as a step.  A publication is its sid, a number Rust hands out.      *)
(* Requests may fail.                                                      *)
(***************************************************************************)
EXTENDS Naturals, Sequences, FiniteSets

CONSTANTS
  LocalTrackSet,     \* the LocalAudioTracks and LocalVideoTracks the application has created, as numbers
  PublishAgain,      \* may a track that is published be given to publishTrack() again?
  MaxPublications,   \* bound on the successful calls of publishTrack()
  MaxMutes           \* bound on the changes of mute states

ASSUME LocalTracksAssumption ==
  /\ IsFiniteSet(LocalTrackSet) /\ LocalTrackSet \subseteq Nat \ {0}
  /\ PublishAgain \in BOOLEAN
  /\ MaxPublications \in Nat /\ MaxMutes \in Nat

Sids == 1 .. MaxPublications
NoSid == 0
NoTrack == 0

VARIABLES
  published_tracks_by_sid, \* per sid, the track its entry refers to
  local_publication,       \* per track, its publication()
  track_muted,             \* per track, muted()
  publication_muted,       \* per sid, the publication's muted()
  held,                    \* the tracks the application keeps
  task,                    \* the application's call of publishTrack() or unpublishTrack()
  rust_publications,       \* per sid, the track Rust publishes under it
  rust_sids,               \* how many sids Rust has handed out
  rust_muted,              \* per track, is it muted in Rust?
  mutes,                   \* how often a mute state has changed
  room_events,             \* the RoomEvents on their way to the Room, in order
  reported,                \* history: what the delegate has been told
  overtaken,               \* history: the events handled before publishTrack() had stored their sid
  server_muted             \* history: the tracks whose state the server changed last

trackMap == <<published_tracks_by_sid, local_publication>>
muteVars == <<track_muted, publication_muted, rust_muted, mutes, server_muted>>
rustTrackVars == <<rust_publications, rust_sids>>
trackVars == <<trackMap, muteVars, held, task, rustTrackVars, room_events, reported, overtaken>>

NoTask == [op |-> "none", track |-> NoTrack, sid |-> NoSid]

TracksInit ==
  /\ published_tracks_by_sid = [s \in Sids |-> NoTrack]
  /\ local_publication = [t \in LocalTrackSet |-> NoSid]
  /\ track_muted = [t \in LocalTrackSet |-> FALSE]
  /\ publication_muted = [s \in Sids |-> FALSE]
  /\ held = LocalTrackSet
  /\ task = NoTask
  /\ rust_publications = [s \in Sids |-> NoTrack]
  /\ rust_sids = 0
  /\ rust_muted = [t \in LocalTrackSet |-> FALSE]
  /\ mutes = 0
  /\ room_events = <<>>
  /\ reported = {} /\ overtaken = {} /\ server_muted = {}

\* Whether the weak reference of an entry can be locked: the application or its call has the track.
Alive(t) == t \in held \/ task.track = t

\* trackPublications(): the entries whose track is alive and has a publication ...
TrackPublications ==
  [s \in {r \in Sids : /\ published_tracks_by_sid[r] # NoTrack
                       /\ Alive(published_tracks_by_sid[r])
                       /\ local_publication[published_tracks_by_sid[r]] # NoSid}
     |-> local_publication[published_tracks_by_sid[s]]]

\* ... and the entries it leaves in the map, which are those of live tracks.
PruneExpired ==
  published_tracks_by_sid' =
    [s \in Sids |-> IF Alive(published_tracks_by_sid[s]) THEN published_tracks_by_sid[s] ELSE NoTrack]

\* TrackPublication::track(): publishTrack() does not call setTrack().
AttachedTrack(s) == NoTrack

Event(kind, s) == [kind |-> kind, sid |-> s]

-----------------------------------------------------------------------------
(* publishTrack(), publishAudioTrack() and publishVideoTrack() *)

PublishTrack(t) ==
  /\ task = NoTask /\ t \in held
  /\ task' = [op |-> "publish", track |-> t, sid |-> NoSid]
  /\ UNCHANGED <<trackMap, muteVars, held, rustTrackVars, room_events, reported, overtaken>>

\* Rust publishes the track; its answer resolves the future, and the event follows.
RustPublishes ==
  /\ task.op = "publish" /\ task.sid = NoSid
  /\ rust_sids < MaxPublications
  /\ rust_sids' = rust_sids + 1
  /\ rust_publications' = [rust_publications EXCEPT ![rust_sids + 1] = task.track]
  /\ task' = [task EXCEPT !.sid = rust_sids + 1]
  /\ publication_muted' = [publication_muted EXCEPT ![rust_sids + 1] = rust_muted[task.track]]
  /\ room_events' = Append(room_events, Event("published", rust_sids + 1))
  /\ UNCHANGED <<trackMap, track_muted, rust_muted, mutes, server_muted, held, reported, overtaken>>

\* fut.get() throws: nothing has been stored.
PublishFails ==
  /\ task.op = "publish" /\ task.sid = NoSid
  /\ task' = NoTask
  /\ UNCHANGED <<trackMap, muteVars, held, rustTrackVars, room_events, reported, overtaken>>

PublishStore ==
  /\ task.op = "publish" /\ task.sid # NoSid
  /\ published_tracks_by_sid' = [published_tracks_by_sid EXCEPT ![task.sid] = task.track]
  /\ task' = [task EXCEPT !.op = "attach"]
  /\ UNCHANGED <<local_publication, muteVars, held, rustTrackVars, room_events, reported, overtaken>>

SetPublication ==
  /\ task.op = "attach"
  /\ local_publication' = [local_publication EXCEPT ![task.track] = task.sid]
  /\ task' = NoTask
  /\ UNCHANGED <<published_tracks_by_sid, muteVars, held, rustTrackVars, room_events, reported, overtaken>>

-----------------------------------------------------------------------------
(* unpublishTrack() *)

UnpublishTrack(s) ==
  /\ task = NoTask
  /\ rust_publications[s] # NoTrack
  /\ task' = [op |-> "unpublish", track |-> NoTrack, sid |-> s]
  /\ UNCHANGED <<trackMap, muteVars, held, rustTrackVars, room_events, reported, overtaken>>

RustUnpublishes ==
  /\ task.op = "unpublish"
  /\ rust_publications' = [rust_publications EXCEPT ![task.sid] = NoTrack]
  /\ task' = [task EXCEPT !.op = "erase"]
  /\ room_events' = Append(room_events, Event("unpublished", task.sid))
  /\ UNCHANGED <<trackMap, muteVars, held, rust_sids, reported, overtaken>>

UnpublishFails ==
  /\ task.op = "unpublish"
  /\ task' = NoTask
  /\ UNCHANGED <<trackMap, muteVars, held, rustTrackVars, room_events, reported, overtaken>>

\* Mutant of UnpublishErase: the track keeps its publication.
UnpublishKeepsPublication ==
  /\ task.op = "erase"
  /\ published_tracks_by_sid' = [published_tracks_by_sid EXCEPT ![task.sid] = NoTrack]
  /\ task' = NoTask
  /\ UNCHANGED <<local_publication, muteVars, held, rustTrackVars, room_events, reported, overtaken>>

\* The entry may be gone, or refer to a track that is.
UnpublishErase ==
  /\ task.op = "erase"
  /\ local_publication' = [t \in LocalTrackSet |->
       IF t = published_tracks_by_sid[task.sid] /\ Alive(t) THEN NoSid ELSE local_publication[t]]
  /\ published_tracks_by_sid' = [published_tracks_by_sid EXCEPT ![task.sid] = NoTrack]
  /\ task' = NoTask
  /\ UNCHANGED <<muteVars, held, rustTrackVars, room_events, reported, overtaken>>

\* The application lets go of a track, published or not; Rust keeps publishing it.
DropTrack(t) ==
  /\ t \in held /\ task = NoTask
  /\ held' = held \ {t}
  /\ UNCHANGED <<trackMap, muteVars, task, rustTrackVars, room_events, reported, overtaken>>

-----------------------------------------------------------------------------
(* mute() and unmute(), and mutes ordered by the server *)

\* The event that Rust sends for the publication of a track whose state changes.
MuteEvents(t, muted) ==
  LET sids == {s \in Sids : rust_publications[s] = t} IN
  room_events' = IF sids = {} \/ rust_muted[t] = muted
                 THEN room_events
                 ELSE Append(room_events, Event(IF muted THEN "muted" ELSE "unmuted", CHOOSE s \in sids : TRUE))

\* The request is sent first: an exception leaves the state as it was.
MuteTrack(t, muted, sent) ==
  /\ task = NoTask /\ t \in held /\ mutes < MaxMutes
  /\ mutes' = mutes + 1
  /\ IF sent
     THEN /\ track_muted' = [track_muted EXCEPT ![t] = muted]
          /\ rust_muted' = [rust_muted EXCEPT ![t] = muted]
          /\ server_muted' = server_muted \ {t}
          /\ MuteEvents(t, muted)
     ELSE UNCHANGED <<track_muted, rust_muted, server_muted, room_events>>
  /\ UNCHANGED <<trackMap, publication_muted, held, task, rustTrackVars, reported, overtaken>>

ServerMutes(t) ==
  /\ mutes < MaxMutes
  /\ \E s \in Sids : rust_publications[s] = t
  /\ mutes' = mutes + 1
  /\ rust_muted' = [rust_muted EXCEPT ![t] = ~@]
  /\ server_muted' = server_muted \cup {t}
  /\ MuteEvents(t, ~rust_muted[t])
  /\ UNCHANGED <<trackMap, track_muted, publication_muted, held, task, rustTrackVars, reported, overtaken>>

-----------------------------------------------------------------------------
(* Room::onEvent(), under lock_ *)

Take(kind) == room_events # <<>> /\ Head(room_events).kind = kind /\ room_events' = Tail(room_events)
EventSid == Head(room_events).sid
Overtakes ==
  overtaken' = IF task.op \in {"publish", "attach"} /\ task.sid = EventSid
               THEN overtaken \cup {Head(room_events)} ELSE overtaken
Report(kind, track) ==
  reported' = IF EventSid \in DOMAIN TrackPublications
              THEN reported \cup {[kind |-> kind, sid |-> EventSid, track |-> track,
                                   publication |-> TrackPublications[EventSid]]}
              ELSE reported

OnLocalTrackPublished ==
  /\ Take("published")
  /\ Report("published", AttachedTrack(EventSid))
  /\ Overtakes
  /\ PruneExpired
  /\ UNCHANGED <<local_publication, muteVars, held, task, rustTrackVars>>

OnLocalTrackUnpublished ==
  /\ Take("unpublished")
  /\ Report("unpublished", NoTrack)
  /\ PruneExpired
  /\ UNCHANGED <<local_publication, muteVars, held, task, rustTrackVars, overtaken>>

\* Rust reports the first subscriber of a publication.
RustSubscribed(s) ==
  /\ rust_publications[s] # NoTrack
  /\ \A e \in reported : ~(e.kind = "subscribed" /\ e.sid = s)
  /\ \A k \in DOMAIN room_events : room_events[k] # Event("subscribed", s)
  /\ room_events' = Append(room_events, Event("subscribed", s))
  /\ UNCHANGED <<trackMap, muteVars, held, task, rustTrackVars, reported, overtaken>>

OnLocalTrackSubscribed ==
  /\ Take("subscribed")
  /\ Report("subscribed", AttachedTrack(EventSid))
  /\ PruneExpired
  /\ UNCHANGED <<local_publication, muteVars, held, task, rustTrackVars, overtaken>>

\* kTrackMuted and kTrackUnmuted find the publication with findTrackPublication(), which prunes
\* the entry it looks at, and set the state of the publication and of the track attached to it.
OnTrackMuted(muted) ==
  /\ Take(IF muted THEN "muted" ELSE "unmuted")
  /\ IF EventSid \in DOMAIN TrackPublications
     THEN /\ publication_muted' = [publication_muted EXCEPT ![TrackPublications[EventSid]] = muted]
          /\ UNCHANGED published_tracks_by_sid
     ELSE /\ published_tracks_by_sid' =
               [published_tracks_by_sid EXCEPT ![EventSid] = IF Alive(@) THEN @ ELSE NoTrack]
          /\ UNCHANGED publication_muted
  /\ Overtakes
  /\ UNCHANGED <<local_publication, track_muted, rust_muted, mutes, server_muted, held, task, rustTrackVars, reported>>

-----------------------------------------------------------------------------
OnEvent ==
  \/ OnLocalTrackPublished \/ OnLocalTrackUnpublished \/ OnLocalTrackSubscribed
  \/ \E muted \in BOOLEAN : OnTrackMuted(muted)

Answer == RustPublishes \/ PublishFails \/ RustUnpublishes \/ UnpublishFails
Store == PublishStore \/ SetPublication \/ UnpublishErase

\* publishTrack() does not ask whether the track is published already.  Unless PublishAgain, the
\* application publishes a track again only when it has been unpublished.
Unpublished(t) == local_publication[t] = NoSid

TracksNext ==
  \/ \E t \in LocalTrackSet : (PublishAgain \/ Unpublished(t)) /\ PublishTrack(t)
  \/ \E t \in LocalTrackSet : DropTrack(t) \/ ServerMutes(t)
  \/ \E t \in LocalTrackSet, muted, sent \in BOOLEAN : MuteTrack(t, muted, sent)
  \/ \E s \in Sids : UnpublishTrack(s) \/ RustSubscribed(s)
  \/ Answer \/ Store \/ OnEvent

TracksSpec == TracksInit /\ [][TracksNext]_trackVars

-----------------------------------------------------------------------------
(* Properties *)

\* Between calls, trackPublications() and findTrackPublication() know exactly the publications
\* that Rust publishes for tracks the application still has, each under its own sid.
PublicationsMirrorRust ==
  task = NoTask =>
    TrackPublications = [s \in {r \in Sids : rust_publications[r] \in held} |-> s]

\* The delegate is told of each publication under its sid, never of another one's; and the event
\* of a published track is dropped only if it overtook publishTrack(), or the track was dropped.
EventsMatchPublications ==
  /\ \A e \in reported : e.publication = e.sid
  /\ \A s \in Sids :
       (/\ rust_publications[s] \in held /\ task = NoTask
        /\ \A k \in DOMAIN room_events : room_events[k] # Event("published", s))
         => Event("published", s) \in overtaken \/ \E e \in reported : e.kind = "published" /\ e.sid = s

\* When all events have been handled and no call is under way, the publication of a track agrees
\* with Rust on whether it is muted, unless an event about it overtook publishTrack(); and so
\* does the track, also after a failed request, unless it was the server that muted it.
MuteStatesAgree ==
  task = NoTask /\ room_events = <<>> =>
    \A t \in held :
      /\ t \notin server_muted => track_muted[t] = rust_muted[t]
      /\ LET s == local_publication[t] IN
         s # NoSid /\ {Event("muted", s), Event("unmuted", s)} \cap overtaken = {} =>
           publication_muted[s] = rust_muted[t]

\* LocalParticipant and Rust agree on what is published and muted, and the delegate has been told of
\* every publication.  Of its end it is told only if the event comes before unpublishTrack() has
\* erased the publication, and the event of a publication names no track: neither is claimed.
LocalTracksAgree == PublicationsMirrorRust /\ EventsMatchPublications /\ MuteStatesAgree
=============================================================================
