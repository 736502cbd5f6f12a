----------------------- MODULE RoomParticipantsProofs -----------------------
(***************************************************************************)
(* The Room's copy of Rust's view, for any number of participants and      *)
(* tracks: it agrees with Rust whenever no event is being handled, the     *)
(* pointers given to the delegate stay valid, and the dispatcher knows     *)
(* which tracks are subscribed.                                            *)
(*                                                                         *)
(* Rust's view changes when it emits an event, the Room's when the handler *)
(* comes to it.  The invariant says that in between they differ in what    *)
(* the event is about, and in nothing else.                                *)
(***************************************************************************)
EXTENDS RoomParticipants, FiniteSetTheorems, TLAPS

Connected == room_state = "connected"

\* The event that is being handled has not changed the Room's maps yet.
Pending == at \in {"check", "handle"}

TrackKinds ==
  {"track_published", "track_unpublished", "track_subscribed", "track_unsubscribed", "track_muted", "track_unmuted"}

\* The Room and its events.
LoopOK ==
  /\ at \in {"idle", "check", "handle", "delegate", "dispatch"}
  /\ room_state \in {"connected", "released"}
  /\ disconnect \in {"none", "stop", "remove", "wait", "done"}
  /\ disconnect = "none" <=> Connected
  /\ event.who \subseteq Everybody
  /\ at = "dispatch" => ForDispatcher

\* A participant has an object of its own, and a new one has no publications.
ObjectsOK ==
  /\ joins \in 0 .. MaxJoins
  /\ remote_participants \in [Identities -> 0 .. joins]
  /\ \A i, j \in Identities : remote_participants[i] = remote_participants[j] /\ remote_participants[i] # None => i = j
  /\ \A x \in publications : x = <<x[1], x[2]>> /\ (x[1] \in 1 .. joins \/ x[1] = LocalObject)
  /\ subscribed \subseteq publications /\ muted \subseteq publications
  /\ Pending /\ event.kind = "participant_connected" => joins < MaxJoins

\* A track has one owner, who is there, and a sid is not used again.
RustOK ==
  /\ rust_participants \subseteq Identities
  /\ \A x \in rust_tracks : x = <<Local, LocalSid>> \/ (x[1] \in rust_participants /\ x[2] \in rust_used)
  /\ \A x, y \in rust_tracks : x[2] = y[2] => x = y
  /\ rust_used \subseteq Sids /\ rust_subscribed \subseteq rust_used /\ rust_muted \subseteq rust_used \cup {LocalSid}

\* What Rust has done when it emits an event.
EventTells ==
  at # "idle" =>
    /\ event.kind = "participant_connected" => \E i \in rust_participants : event.who = {i}
    /\ event.kind = "participant_disconnected" => \E i \in Identities \ rust_participants : event.who = {i}
    /\ event.kind = "track_published" =>
         \E i \in rust_participants : event.who = {i} /\ <<i, event.what>> \in rust_tracks
    /\ event.kind = "track_unpublished" =>
         \E i \in rust_participants : event.who = {i} /\ <<i, event.what>> \notin rust_tracks
    /\ event.kind = "track_subscribed" =>
         \E i \in rust_participants : event.who = {i} /\ <<i, event.what>> \in rust_tracks /\ event.what \in rust_subscribed
    /\ event.kind = "track_unsubscribed" =>
         \E i \in rust_participants : event.who = {i} /\ <<i, event.what>> \in rust_tracks /\ event.what \notin rust_subscribed
    /\ event.kind = "track_muted" =>
         \E i \in rust_participants \cup {Local} :
           event.who = {i} /\ <<i, event.what>> \in rust_tracks /\ event.what \in rust_muted
    /\ event.kind = "track_unmuted" =>
         \E i \in rust_participants \cup {Local} :
           event.who = {i} /\ <<i, event.what>> \in rust_tracks /\ event.what \notin rust_muted
    /\ event.kind \in {"participant_changed", "participants_updated"} =>
         event.who # {} /\ event.who \subseteq rust_participants \cup {Local}

\* The event to be handled is one of the given kinds, about track s of participant i.
Busy(kinds, i, s) == Pending /\ event.kind \in kinds /\ event.who = {i} /\ event.what = s

\* The Room has the pair of participant i's object and s.
Has(i, s, pairs) == \E o \in Find(i) : <<o, s>> \in pairs

PeopleAgree ==
  \A i \in Identities :
    \/ Pending /\ event.kind \in {"participant_connected", "participant_disconnected"} /\ event.who = {i}
    \/ remote_participants[i] # None <=> i \in rust_participants

PublicationsAgree ==
  \A i \in rust_participants \cup {Local}, s \in Tracks :
    \/ Busy({"track_published", "track_unpublished"}, i, s)
    \/ Has(i, s, publications) <=> <<i, s>> \in rust_tracks

SubscriptionsAgree ==
  \A i \in rust_participants \cup {Local}, s \in Tracks :
    \/ Busy({"track_subscribed", "track_unsubscribed"}, i, s)
    \/ Has(i, s, subscribed) <=> <<i, s>> \in rust_tracks /\ s \in rust_subscribed

MutesAgree ==
  \A i \in rust_participants \cup {Local}, s \in Tracks :
    \/ Busy({"track_muted", "track_unmuted", "track_unpublished"}, i, s)
    \/ Has(i, s, muted) <=> <<i, s>> \in rust_tracks /\ s \in rust_muted

NewsStored ==
  /\ rust_news # {} => Pending /\ event.kind \in {"participant_changed", "participants_updated", "room_info"}
  /\ event.kind \in {"participant_changed", "participants_updated"} => rust_news \subseteq event.who
  /\ event.kind = "room_info" => rust_news \subseteq {RoomInfo}

Mirror == Connected => PeopleAgree /\ PublicationsAgree /\ SubscriptionsAgree /\ MutesAgree /\ NewsStored

\* Pointers are held while the delegate may use them, and nothing has been moved out of a connected Room.
Pointers ==
  /\ PointersValid
  /\ held # {} => at \in {"delegate", "dispatch"}
  /\ Connected => moved_out = {}

\* The dispatcher is wrong only about the track of an event that has not come to it yet, and in the
\* cases DispatcherInformed excepts.
Informed ==
  Connected =>
    /\ handed \subseteq rust_used
    /\ \A s \in rust_subscribed : s \in handed \cup threw \/ (at # "idle" /\ event.kind = "track_subscribed" /\ event.what = s)
    /\ \A s \in handed :
         \/ s \in rust_subscribed \cup UnknownSource \cup threw
         \/ \A i \in Identities : <<i, s>> \notin rust_tracks
         \/ at # "idle" /\ event.kind = "track_unsubscribed" /\ event.what = s

Empty == \A i \in Identities : remote_participants[i] = None

\* What an event that was past the first test can leave behind when disconnect() has taken the state out: a
\* participant in the map or, after stopAll(), a track at the dispatcher.
Leftovers ==
  ~Connected =>
    /\ \A i, j \in Identities : remote_participants[i] # None /\ remote_participants[j] # None => i = j
    /\ at = "handle" => Empty
    /\ at \in {"delegate", "dispatch"} /\ ForDispatcher => Empty
    /\ disconnect # "stop" =>
         /\ \A s, u \in handed : s = u
         /\ handed # {} => Empty /\ at # "handle" /\ ~(at \in {"delegate", "dispatch"} /\ ForDispatcher)

ParticipantsInv == LoopOK /\ ObjectsOK /\ RustOK /\ EventTells /\ Mirror /\ Pointers /\ Informed /\ Leftovers

-----------------------------------------------------------------------------
(* What the helpers find *)

\* The objects of different participants are different.
LEMMA FindFacts ==
  ASSUME ObjectsOK
  PROVE  /\ \A i \in Everybody : FindAll({i}) = Find(i)
         /\ \A i, j \in Everybody : \A o : o \in Find(i) /\ o \in Find(j) => i = j
         /\ \A i \in Identities : \A o : o \in Find(i) <=> o = remote_participants[i] /\ o # None
         /\ \A o : o \in Find(Local) <=> Connected /\ o = LocalObject
         /\ \A i \in Everybody : \A o, p : o \in Find(i) /\ p \in Find(i) => o = p
<1>1. \A i \in Identities : \A o : o \in Find(i) <=> o = remote_participants[i] /\ o # None
  BY ParticipantsAssumption DEF Find
<1>2. \A o : o \in Find(Local) <=> Connected /\ o = LocalObject
  BY DEF Find, Connected
<1>3. \A i \in Identities : remote_participants[i] # LocalObject
  BY ParticipantsAssumption DEF ObjectsOK, LocalObject
<1>4. \A i \in Everybody : FindAll({i}) = Find(i)
  BY DEF FindAll
<1>5. \A i, j \in Everybody : \A o : o \in Find(i) /\ o \in Find(j) => i = j
  BY <1>1, <1>2, <1>3 DEF ObjectsOK, Everybody
<1>6. \A i \in Everybody : \A o, p : o \in Find(i) /\ p \in Find(i) => o = p
  BY <1>1, <1>2 DEF Everybody
<1> QED
  BY <1>1, <1>2, <1>4, <1>5, <1>6

\* When no event is waiting to be handled the Room agrees with Rust in everything.
AllAgree ==
  /\ \A j \in Identities : remote_participants[j] # None <=> j \in rust_participants
  /\ \A j \in rust_participants \cup {Local}, u \in Tracks :
       /\ Has(j, u, publications) <=> <<j, u>> \in rust_tracks
       /\ Has(j, u, subscribed) <=> <<j, u>> \in rust_tracks /\ u \in rust_subscribed
       /\ Has(j, u, muted) <=> <<j, u>> \in rust_tracks /\ u \in rust_muted
  /\ rust_news = {}

\* Then the invariant about them holds.
LEMMA AgreeMirror ==
  ASSUME Connected => AllAgree
  PROVE  Mirror
  BY DEF AllAgree, Mirror, PeopleAgree, PublicationsAgree, SubscriptionsAgree, MutesAgree, NewsStored

\* The Room agrees with Rust unless an event waits that tells of a change.
LEMMA QuietAgree ==
  ASSUME Mirror, Connected,
         \/ ~Pending
         \/ event.kind \notin {"participant_connected", "participant_disconnected", "participant_changed",
                               "participants_updated", "room_info"} \cup TrackKinds
  PROVE  AllAgree
  BY DEF Mirror, PeopleAgree, PublicationsAgree, SubscriptionsAgree, MutesAgree, NewsStored, Busy, AllAgree, TrackKinds

-----------------------------------------------------------------------------
(* Rust *)

\* Rust emits an event, and the Room has not changed yet.
EmitKeeps(kind, who, what) ==
  /\ LoopOK' /\ ObjectsOK' /\ Pointers' /\ Leftovers'
  /\ at = "idle" /\ Pending' /\ at' # "idle"
  /\ event'.kind = kind /\ event'.who = who /\ event'.what = what
  /\ kind # "room_event" => Connected
  /\ Connected' <=> Connected
  /\ \A i, s : /\ Has(i, s, publications)' <=> Has(i, s, publications)
               /\ Has(i, s, subscribed)' <=> Has(i, s, subscribed)
               /\ Has(i, s, muted)' <=> Has(i, s, muted)

\* It does so if it touches nothing of the Room.
LEMMA RustFrame ==
  ASSUME ParticipantsInv, NEW kind, NEW who \in SUBSET Everybody, NEW what, Emit(kind, who, what),
         UNCHANGED <<roomVars, handlerVars>>, kind = "participant_connected" => joins < MaxJoins
  PROVE  EmitKeeps(kind, who, what)
<1>1. /\ remote_participants' = remote_participants /\ joins' = joins /\ publications' = publications
      /\ subscribed' = subscribed /\ muted' = muted /\ moved_out' = moved_out
      /\ kept' = kept /\ held' = held /\ handed' = handed /\ threw' = threw /\ room_state' = room_state
      /\ disconnect' = disconnect
  BY DEF roomVars, handlerVars, Emit
<1>2. /\ at = "idle" /\ at' = "check" /\ event'.kind = kind /\ event'.who = who /\ event'.what = what
      /\ kind # "room_event" => Connected
  BY DEF Emit, Connected
<1>3. LoopOK'
  BY <1>1, <1>2 DEF ParticipantsInv, LoopOK, Connected, ForDispatcher
<1>4. ObjectsOK'
  BY <1>1, <1>2 DEF ParticipantsInv, ObjectsOK
<1>5. Pointers'
  BY <1>1, <1>2 DEF ParticipantsInv, Pointers, PointersValid, Alive, Connected
<1>6. Leftovers'
  BY <1>1, <1>2 DEF ParticipantsInv, Leftovers, Empty, Connected
<1>7. \A i : Find(i)' = Find(i)
  BY <1>1 DEF Find
<1> QED
  BY <1>1, <1>2, <1>3, <1>4, <1>5, <1>6, <1>7 DEF EmitKeeps, Pending, Connected, Has

\* A participant joins.
LEMMA RustParticipantConnectedStep ==
  ASSUME ParticipantsInv, NEW i \in Identities, RustParticipantConnected(i)
  PROVE  ParticipantsInv'
<1>0. /\ Emit("participant_connected", {i}, None) /\ {i} \in SUBSET Everybody
      /\ UNCHANGED <<roomVars, handlerVars>> /\ joins < MaxJoins
  BY DEF RustParticipantConnected, Everybody, participantVars
<1>1. EmitKeeps("participant_connected", {i}, None)
  BY <1>0, RustFrame
<1>2. /\ remote_participants' = remote_participants /\ handed' = handed /\ threw' = threw
      /\ rust_participants' = rust_participants \cup {i} /\ rust_tracks' = rust_tracks
      /\ rust_subscribed' = rust_subscribed
      /\ rust_muted' = rust_muted /\ rust_news' = rust_news /\ rust_used' = rust_used
  BY DEF RustParticipantConnected, roomVars, handlerVars, rustVars, participantVars
<1>3. i \in Identities \ rust_participants
  BY DEF RustParticipantConnected
<1>4. RustOK'
  BY <1>2, <1>3 DEF ParticipantsInv, RustOK
<1>5. EventTells'
  BY <1>1, <1>2, <1>3 DEF EmitKeeps, ParticipantsInv, EventTells
<1>6. Mirror'
  <2>1. AllAgree
    BY <1>1, QuietAgree DEF EmitKeeps, ParticipantsInv, Pending
  <2>2. \A u \in Tracks : /\ <<i, u>> \notin rust_tracks /\ i # Local
                         /\ ~Has(i, u, publications) /\ ~Has(i, u, subscribed) /\ ~Has(i, u, muted)
    BY <1>3, <2>1, FindFacts, ParticipantsAssumption DEF AllAgree, ParticipantsInv, RustOK, Has
  <2>3. PeopleAgree'
    BY <1>1, <1>2, <1>3, <2>1, <2>2 DEF EmitKeeps, AllAgree, PeopleAgree
  <2>4. PublicationsAgree'
    BY <1>1, <1>2, <1>3, <2>1, <2>2 DEF EmitKeeps, AllAgree, PublicationsAgree, Busy
  <2>5. SubscriptionsAgree'
    <3> SUFFICES ASSUME NEW j \in rust_participants' \cup {Local}, NEW u \in Tracks
                 PROVE  \/ Busy({"track_subscribed", "track_unsubscribed"}, j, u)'
                        \/ Has(j, u, subscribed)' <=> <<j, u>> \in rust_tracks' /\ u \in rust_subscribed'
      BY DEF SubscriptionsAgree
    <3>1. CASE j = i
      BY <1>1, <1>2, <1>3, <2>1, <2>2, <3>1 DEF EmitKeeps, AllAgree
    <3>2. CASE ~(j = i)
      BY <1>1, <1>2, <1>3, <2>1, <2>2, <3>2 DEF EmitKeeps, AllAgree
    <3> QED
      BY <3>1, <3>2
  <2>6. MutesAgree'
    <3> SUFFICES ASSUME NEW j \in rust_participants' \cup {Local}, NEW u \in Tracks
                 PROVE  \/ Busy({"track_muted", "track_unmuted", "track_unpublished"}, j, u)'
                        \/ Has(j, u, muted)' <=> <<j, u>> \in rust_tracks' /\ u \in rust_muted'
      BY DEF MutesAgree
    <3>1. CASE j = i
      BY <1>1, <1>2, <1>3, <2>1, <2>2, <3>1 DEF EmitKeeps, AllAgree
    <3>2. CASE ~(j = i)
      BY <1>1, <1>2, <1>3, <2>1, <2>2, <3>2 DEF EmitKeeps, AllAgree
    <3> QED
      BY <3>1, <3>2
  <2>7. NewsStored'
    BY <1>1, <1>2, <1>3, <2>1, <2>2 DEF EmitKeeps, AllAgree, NewsStored
  <2> QED
    BY <2>3, <2>4, <2>5, <2>6, <2>7 DEF Mirror
<1>7. Informed'
  BY <1>1, <1>2, <1>3 DEF EmitKeeps, ParticipantsInv, Informed
<1> QED
  BY <1>1, <1>4, <1>5, <1>6, <1>7 DEF EmitKeeps, ParticipantsInv

\* A participant leaves, with its tracks.
LEMMA RustParticipantDisconnectedStep ==
  ASSUME ParticipantsInv, NEW i \in Identities, RustParticipantDisconnected(i)
  PROVE  ParticipantsInv'
<1>0. /\ Emit("participant_disconnected", {i}, None) /\ {i} \in SUBSET Everybody
      /\ UNCHANGED <<roomVars, handlerVars>>
  BY DEF RustParticipantDisconnected, Everybody, participantVars
<1>1. EmitKeeps("participant_disconnected", {i}, None)
  BY <1>0, RustFrame
<1>2. /\ remote_participants' = remote_participants /\ handed' = handed /\ threw' = threw
      /\ rust_participants' = rust_participants \ {i} /\ rust_tracks' = {x \in rust_tracks : x[1] # i}
      /\ rust_subscribed' = rust_subscribed \ {s \in Sids : <<i, s>> \in rust_tracks}
      /\ rust_muted' = rust_muted \ {s \in Sids : <<i, s>> \in rust_tracks} /\ rust_news' = rust_news \ {i} /\ rust_used' = rust_used
  BY DEF RustParticipantDisconnected, roomVars, handlerVars, rustVars, participantVars
<1>3. i \in rust_participants
  BY DEF RustParticipantDisconnected
<1>4. RustOK'
  BY <1>2, <1>3 DEF ParticipantsInv, RustOK
<1>5. EventTells'
  BY <1>1, <1>2, <1>3 DEF EmitKeeps, ParticipantsInv, EventTells
<1>6. Mirror'
  <2>1. AllAgree
    BY <1>1, QuietAgree DEF EmitKeeps, ParticipantsInv, Pending
  <2>2. \A j \in (rust_participants \ {i}) \cup {Local}, u \in Tracks :
          <<j, u>> \in rust_tracks => u \notin {s \in Sids : <<i, s>> \in rust_tracks}
    BY <1>3, ParticipantsAssumption DEF ParticipantsInv, RustOK
  <2>3. PeopleAgree'
    BY <1>1, <1>2, <1>3, <2>1, <2>2 DEF EmitKeeps, AllAgree, PeopleAgree
  <2>4. PublicationsAgree'
    BY <1>1, <1>2, <1>3, <2>1, <2>2, ParticipantsAssumption DEF EmitKeeps, AllAgree, PublicationsAgree, Busy,
         ParticipantsInv, RustOK, Tracks, RoomInfo
  <2>5. SubscriptionsAgree'
    BY <1>1, <1>2, <1>3, <2>1, <2>2 DEF EmitKeeps, AllAgree, SubscriptionsAgree, Busy, ParticipantsInv, RustOK
  <2>6. MutesAgree'
    BY <1>1, <1>2, <1>3, <2>1, <2>2, ParticipantsAssumption DEF EmitKeeps, AllAgree, MutesAgree, Busy, ParticipantsInv,
         RustOK, Tracks, RoomInfo
  <2>7. NewsStored'
    BY <1>1, <1>2, <1>3, <2>1, <2>2 DEF EmitKeeps, AllAgree, NewsStored
  <2> QED
    BY <2>3, <2>4, <2>5, <2>6, <2>7 DEF Mirror
<1>7. Informed'
  BY <1>1, <1>2, <1>3, ParticipantsAssumption DEF EmitKeeps, ParticipantsInv, Informed, RustOK
<1> QED
  BY <1>1, <1>4, <1>5, <1>6, <1>7 DEF EmitKeeps, ParticipantsInv

\* A track is published.
LEMMA RustTrackPublishedStep ==
  ASSUME ParticipantsInv, NEW i \in Identities, NEW s \in Sids, RustTrackPublished(i, s)
  PROVE  ParticipantsInv'
<1>0. /\ Emit("track_published", {i}, s) /\ {i} \in SUBSET Everybody
      /\ UNCHANGED <<roomVars, handlerVars>>
  BY DEF RustTrackPublished, Everybody, participantVars
<1>1. EmitKeeps("track_published", {i}, s)
  BY <1>0, RustFrame
<1>2. /\ remote_participants' = remote_participants /\ handed' = handed /\ threw' = threw
      /\ rust_participants' = rust_participants /\ rust_tracks' = rust_tracks \cup {<<i, s>>}
      /\ rust_subscribed' = rust_subscribed
      /\ rust_muted' = rust_muted /\ rust_news' = rust_news /\ rust_used' = rust_used \cup {s}
  BY DEF RustTrackPublished, roomVars, handlerVars, rustVars, participantVars
<1>3. i \in rust_participants /\ s \in Sids \ rust_used
  BY DEF RustTrackPublished
<1>4. RustOK'
  BY <1>2, <1>3, ParticipantsAssumption DEF ParticipantsInv, RustOK, Everybody, Tracks
<1>5. EventTells'
  BY <1>1, <1>2, <1>3 DEF EmitKeeps, ParticipantsInv, EventTells
<1>6. Mirror'
  <2>1. AllAgree
    BY <1>1, QuietAgree DEF EmitKeeps, ParticipantsInv, Pending
  <2>2. s \in Tracks /\ <<i, s>> \notin rust_tracks /\ s \notin rust_subscribed /\ s \notin rust_muted
    BY <1>3, ParticipantsAssumption DEF ParticipantsInv, RustOK, Tracks
  <2>3. PeopleAgree'
    BY <1>1, <1>2, <1>3, <2>1, <2>2 DEF EmitKeeps, AllAgree, PeopleAgree
  <2>4. PublicationsAgree'
    BY <1>1, <1>2, <1>3, <2>1, <2>2 DEF EmitKeeps, AllAgree, PublicationsAgree, Busy
  <2>5. SubscriptionsAgree'
    <3> SUFFICES ASSUME NEW j \in rust_participants' \cup {Local}, NEW u \in Tracks
                 PROVE  \/ Busy({"track_subscribed", "track_unsubscribed"}, j, u)'
                        \/ Has(j, u, subscribed)' <=> <<j, u>> \in rust_tracks' /\ u \in rust_subscribed'
      BY DEF SubscriptionsAgree
    <3>1. CASE j = i /\ u = s
      BY <1>1, <1>2, <1>3, <2>1, <2>2, <3>1 DEF EmitKeeps, AllAgree
    <3>2. CASE ~(j = i /\ u = s)
      BY <1>1, <1>2, <1>3, <2>1, <2>2, <3>2 DEF EmitKeeps, AllAgree
    <3> QED
      BY <3>1, <3>2
  <2>6. MutesAgree'
    <3> SUFFICES ASSUME NEW j \in rust_participants' \cup {Local}, NEW u \in Tracks
                 PROVE  \/ Busy({"track_muted", "track_unmuted", "track_unpublished"}, j, u)'
                        \/ Has(j, u, muted)' <=> <<j, u>> \in rust_tracks' /\ u \in rust_muted'
      BY DEF MutesAgree
    <3>1. CASE j = i /\ u = s
      BY <1>1, <1>2, <1>3, <2>1, <2>2, <3>1 DEF EmitKeeps, AllAgree
    <3>2. CASE ~(j = i /\ u = s)
      BY <1>1, <1>2, <1>3, <2>1, <2>2, <3>2 DEF EmitKeeps, AllAgree
    <3> QED
      BY <3>1, <3>2
  <2>7. NewsStored'
    BY <1>1, <1>2, <1>3, <2>1, <2>2 DEF EmitKeeps, AllAgree, NewsStored
  <2> QED
    BY <2>3, <2>4, <2>5, <2>6, <2>7 DEF Mirror
<1>7. Informed'
  BY <1>1, <1>2, <1>3 DEF EmitKeeps, ParticipantsInv, Informed
<1> QED
  BY <1>1, <1>4, <1>5, <1>6, <1>7 DEF EmitKeeps, ParticipantsInv

\* A track is unpublished.
LEMMA RustTrackUnpublishedStep ==
  ASSUME ParticipantsInv, NEW i \in Identities, NEW s \in Sids, RustTrackUnpublished(i, s)
  PROVE  ParticipantsInv'
<1>0. /\ Emit("track_unpublished", {i}, s) /\ {i} \in SUBSET Everybody
      /\ UNCHANGED <<roomVars, handlerVars>>
  BY DEF RustTrackUnpublished, Everybody, participantVars
<1>1. EmitKeeps("track_unpublished", {i}, s)
  BY <1>0, RustFrame
<1>2. /\ remote_participants' = remote_participants /\ handed' = handed /\ threw' = threw
      /\ rust_participants' = rust_participants /\ rust_tracks' = rust_tracks \ {<<i, s>>}
      /\ rust_subscribed' = rust_subscribed
      /\ rust_muted' = rust_muted \ {s} /\ rust_news' = rust_news /\ rust_used' = rust_used
  BY DEF RustTrackUnpublished, roomVars, handlerVars, rustVars, participantVars
<1>3. <<i, s>> \in rust_tracks /\ s \in Sids \ rust_subscribed
  BY DEF RustTrackUnpublished
<1>4. RustOK'
  BY <1>2, <1>3 DEF ParticipantsInv, RustOK
<1>5. EventTells'
  BY <1>1, <1>2, <1>3, ParticipantsAssumption DEF EmitKeeps, ParticipantsInv, EventTells, RustOK, Everybody
<1>6. Mirror'
  <2>1. AllAgree
    BY <1>1, QuietAgree DEF EmitKeeps, ParticipantsInv, Pending
  <2>2. s \in Tracks /\ \A j : <<j, s>> \in rust_tracks => j = i
    BY <1>3 DEF ParticipantsInv, RustOK, Tracks
  <2>3. PeopleAgree'
    BY <1>1, <1>2, <1>3, <2>1, <2>2 DEF EmitKeeps, AllAgree, PeopleAgree
  <2>4. PublicationsAgree'
    BY <1>1, <1>2, <1>3, <2>1, <2>2 DEF EmitKeeps, AllAgree, PublicationsAgree, Busy
  <2>5. SubscriptionsAgree'
    <3> SUFFICES ASSUME NEW j \in rust_participants' \cup {Local}, NEW u \in Tracks
                 PROVE  \/ Busy({"track_subscribed", "track_unsubscribed"}, j, u)'
                        \/ Has(j, u, subscribed)' <=> <<j, u>> \in rust_tracks' /\ u \in rust_subscribed'
      BY DEF SubscriptionsAgree
    <3>1. CASE u = s
      BY <1>1, <1>2, <1>3, <2>1, <2>2, <3>1 DEF EmitKeeps, AllAgree
    <3>2. CASE ~(u = s)
      BY <1>1, <1>2, <1>3, <2>1, <2>2, <3>2 DEF EmitKeeps, AllAgree
    <3> QED
      BY <3>1, <3>2
  <2>6. MutesAgree'
    <3> SUFFICES ASSUME NEW j \in rust_participants' \cup {Local}, NEW u \in Tracks
                 PROVE  \/ Busy({"track_muted", "track_unmuted", "track_unpublished"}, j, u)'
                        \/ Has(j, u, muted)' <=> <<j, u>> \in rust_tracks' /\ u \in rust_muted'
      BY DEF MutesAgree
    <3>1. CASE u = s
      BY <1>1, <1>2, <1>3, <2>1, <2>2, <3>1 DEF EmitKeeps, AllAgree, Busy
    <3>2. CASE ~(u = s)
      BY <1>1, <1>2, <1>3, <2>1, <2>2, <3>2 DEF EmitKeeps, AllAgree
    <3> QED
      BY <3>1, <3>2
  <2>7. NewsStored'
    BY <1>1, <1>2, <1>3, <2>1, <2>2 DEF EmitKeeps, AllAgree, NewsStored
  <2> QED
    BY <2>3, <2>4, <2>5, <2>6, <2>7 DEF Mirror
<1>7. Informed'
  BY <1>1, <1>2, <1>3 DEF EmitKeeps, ParticipantsInv, Informed
<1> QED
  BY <1>1, <1>4, <1>5, <1>6, <1>7 DEF EmitKeeps, ParticipantsInv

\* A track is subscribed.
LEMMA RustTrackSubscribedStep ==
  ASSUME ParticipantsInv, NEW i \in Identities, NEW s \in Sids, RustTrackSubscribed(i, s)
  PROVE  ParticipantsInv'
<1>0. /\ Emit("track_subscribed", {i}, s) /\ {i} \in SUBSET Everybody
      /\ UNCHANGED <<roomVars, handlerVars>>
  BY DEF RustTrackSubscribed, Everybody, participantVars
<1>1. EmitKeeps("track_subscribed", {i}, s)
  BY <1>0, RustFrame
<1>2. /\ remote_participants' = remote_participants /\ handed' = handed /\ threw' = threw
      /\ rust_participants' = rust_participants /\ rust_tracks' = rust_tracks
      /\ rust_subscribed' = rust_subscribed \cup {s}
      /\ rust_muted' = rust_muted /\ rust_news' = rust_news /\ rust_used' = rust_used
  BY DEF RustTrackSubscribed, roomVars, handlerVars, rustVars, participantVars
<1>3. <<i, s>> \in rust_tracks /\ s \in Sids \ rust_subscribed
  BY DEF RustTrackSubscribed
<1>4. RustOK'
  BY <1>2, <1>3, ParticipantsAssumption DEF ParticipantsInv, RustOK, Everybody, Tracks
<1>5. EventTells'
  BY <1>1, <1>2, <1>3, ParticipantsAssumption DEF EmitKeeps, ParticipantsInv, EventTells, RustOK, Everybody
<1>6. Mirror'
  <2>1. AllAgree
    BY <1>1, QuietAgree DEF EmitKeeps, ParticipantsInv, Pending
  <2>2. s \in Tracks /\ \A j : <<j, s>> \in rust_tracks => j = i
    BY <1>3 DEF ParticipantsInv, RustOK, Tracks
  <2>3. PeopleAgree'
    BY <1>1, <1>2, <1>3, <2>1, <2>2 DEF EmitKeeps, AllAgree, PeopleAgree
  <2>4. PublicationsAgree'
    BY <1>1, <1>2, <1>3, <2>1, <2>2 DEF EmitKeeps, AllAgree, PublicationsAgree, Busy
  <2>5. SubscriptionsAgree'
    <3> SUFFICES ASSUME NEW j \in rust_participants' \cup {Local}, NEW u \in Tracks
                 PROVE  \/ Busy({"track_subscribed", "track_unsubscribed"}, j, u)'
                        \/ Has(j, u, subscribed)' <=> <<j, u>> \in rust_tracks' /\ u \in rust_subscribed'
      BY DEF SubscriptionsAgree
    <3>1. CASE u = s
      BY <1>1, <1>2, <1>3, <2>1, <2>2, <3>1 DEF EmitKeeps, AllAgree, Busy
    <3>2. CASE ~(u = s)
      BY <1>1, <1>2, <1>3, <2>1, <2>2, <3>2 DEF EmitKeeps, AllAgree
    <3> QED
      BY <3>1, <3>2
  <2>6. MutesAgree'
    <3> SUFFICES ASSUME NEW j \in rust_participants' \cup {Local}, NEW u \in Tracks
                 PROVE  \/ Busy({"track_muted", "track_unmuted", "track_unpublished"}, j, u)'
                        \/ Has(j, u, muted)' <=> <<j, u>> \in rust_tracks' /\ u \in rust_muted'
      BY DEF MutesAgree
    <3>1. CASE u = s
      BY <1>1, <1>2, <1>3, <2>1, <2>2, <3>1 DEF EmitKeeps, AllAgree
    <3>2. CASE ~(u = s)
      BY <1>1, <1>2, <1>3, <2>1, <2>2, <3>2 DEF EmitKeeps, AllAgree
    <3> QED
      BY <3>1, <3>2
  <2>7. NewsStored'
    BY <1>1, <1>2, <1>3, <2>1, <2>2 DEF EmitKeeps, AllAgree, NewsStored
  <2> QED
    BY <2>3, <2>4, <2>5, <2>6, <2>7 DEF Mirror
<1>7. Informed'
  BY <1>1, <1>2, <1>3 DEF EmitKeeps, ParticipantsInv, Informed
<1> QED
  BY <1>1, <1>4, <1>5, <1>6, <1>7 DEF EmitKeeps, ParticipantsInv

\* A track is unsubscribed.
LEMMA RustTrackUnsubscribedStep ==
  ASSUME ParticipantsInv, NEW i \in Identities, NEW s \in Sids, RustTrackUnsubscribed(i, s)
  PROVE  ParticipantsInv'
<1>0. /\ Emit("track_unsubscribed", {i}, s) /\ {i} \in SUBSET Everybody
      /\ UNCHANGED <<roomVars, handlerVars>>
  BY DEF RustTrackUnsubscribed, Everybody, participantVars
<1>1. EmitKeeps("track_unsubscribed", {i}, s)
  BY <1>0, RustFrame
<1>2. /\ remote_participants' = remote_participants /\ handed' = handed /\ threw' = threw
      /\ rust_participants' = rust_participants /\ rust_tracks' = rust_tracks
      /\ rust_subscribed' = rust_subscribed \ {s}
      /\ rust_muted' = rust_muted /\ rust_news' = rust_news /\ rust_used' = rust_used
  BY DEF RustTrackUnsubscribed, roomVars, handlerVars, rustVars, participantVars
<1>3. <<i, s>> \in rust_tracks /\ s \in rust_subscribed
  BY DEF RustTrackUnsubscribed
<1>4. RustOK'
  BY <1>2, <1>3 DEF ParticipantsInv, RustOK
<1>5. EventTells'
  BY <1>1, <1>2, <1>3, ParticipantsAssumption DEF EmitKeeps, ParticipantsInv, EventTells, RustOK, Everybody
<1>6. Mirror'
  <2>1. AllAgree
    BY <1>1, QuietAgree DEF EmitKeeps, ParticipantsInv, Pending
  <2>2. s \in Tracks /\ \A j : <<j, s>> \in rust_tracks => j = i
    BY <1>3 DEF ParticipantsInv, RustOK, Tracks
  <2>3. PeopleAgree'
    BY <1>1, <1>2, <1>3, <2>1, <2>2 DEF EmitKeeps, AllAgree, PeopleAgree
  <2>4. PublicationsAgree'
    BY <1>1, <1>2, <1>3, <2>1, <2>2 DEF EmitKeeps, AllAgree, PublicationsAgree, Busy
  <2>5. SubscriptionsAgree'
    <3> SUFFICES ASSUME NEW j \in rust_participants' \cup {Local}, NEW u \in Tracks
                 PROVE  \/ Busy({"track_subscribed", "track_unsubscribed"}, j, u)'
                        \/ Has(j, u, subscribed)' <=> <<j, u>> \in rust_tracks' /\ u \in rust_subscribed'
      BY DEF SubscriptionsAgree
    <3>1. CASE u = s
      BY <1>1, <1>2, <1>3, <2>1, <2>2, <3>1 DEF EmitKeeps, AllAgree, Busy
    <3>2. CASE ~(u = s)
      BY <1>1, <1>2, <1>3, <2>1, <2>2, <3>2 DEF EmitKeeps, AllAgree
    <3> QED
      BY <3>1, <3>2
  <2>6. MutesAgree'
    <3> SUFFICES ASSUME NEW j \in rust_participants' \cup {Local}, NEW u \in Tracks
                 PROVE  \/ Busy({"track_muted", "track_unmuted", "track_unpublished"}, j, u)'
                        \/ Has(j, u, muted)' <=> <<j, u>> \in rust_tracks' /\ u \in rust_muted'
      BY DEF MutesAgree
    <3>1. CASE u = s
      BY <1>1, <1>2, <1>3, <2>1, <2>2, <3>1 DEF EmitKeeps, AllAgree
    <3>2. CASE ~(u = s)
      BY <1>1, <1>2, <1>3, <2>1, <2>2, <3>2 DEF EmitKeeps, AllAgree
    <3> QED
      BY <3>1, <3>2
  <2>7. NewsStored'
    BY <1>1, <1>2, <1>3, <2>1, <2>2 DEF EmitKeeps, AllAgree, NewsStored
  <2> QED
    BY <2>3, <2>4, <2>5, <2>6, <2>7 DEF Mirror
<1>7. Informed'
  BY <1>1, <1>2, <1>3 DEF EmitKeeps, ParticipantsInv, Informed
<1> QED
  BY <1>1, <1>4, <1>5, <1>6, <1>7 DEF EmitKeeps, ParticipantsInv

\* A track is muted.
LEMMA RustTrackMutedStep ==
  ASSUME ParticipantsInv, NEW i \in Everybody, NEW s \in Tracks, RustTrackMuted(i, s)
  PROVE  ParticipantsInv'
<1>0. /\ Emit("track_muted", {i}, s) /\ {i} \in SUBSET Everybody
      /\ UNCHANGED <<roomVars, handlerVars>>
  BY DEF RustTrackMuted, Everybody, participantVars
<1>1. EmitKeeps("track_muted", {i}, s)
  BY <1>0, RustFrame
<1>2. /\ remote_participants' = remote_participants /\ handed' = handed /\ threw' = threw
      /\ rust_participants' = rust_participants /\ rust_tracks' = rust_tracks /\ rust_subscribed' = rust_subscribed
      /\ rust_muted' = rust_muted \cup {s} /\ rust_news' = rust_news /\ rust_used' = rust_used
  BY DEF RustTrackMuted, roomVars, handlerVars, rustVars, participantVars
<1>3. <<i, s>> \in rust_tracks /\ s \notin rust_muted
  BY DEF RustTrackMuted
<1>4. RustOK'
  BY <1>2, <1>3 DEF ParticipantsInv, RustOK
<1>5. EventTells'
  BY <1>1, <1>2, <1>3, ParticipantsAssumption DEF EmitKeeps, ParticipantsInv, EventTells, RustOK, Everybody
<1>6. Mirror'
  <2>1. AllAgree
    BY <1>1, QuietAgree DEF EmitKeeps, ParticipantsInv, Pending
  <2>2. s \in Tracks /\ \A j : <<j, s>> \in rust_tracks => j = i
    BY <1>3 DEF ParticipantsInv, RustOK, Tracks
  <2>3. PeopleAgree'
    BY <1>1, <1>2, <1>3, <2>1, <2>2 DEF EmitKeeps, AllAgree, PeopleAgree
  <2>4. PublicationsAgree'
    BY <1>1, <1>2, <1>3, <2>1, <2>2 DEF EmitKeeps, AllAgree, PublicationsAgree, Busy
  <2>5. SubscriptionsAgree'
    <3> SUFFICES ASSUME NEW j \in rust_participants' \cup {Local}, NEW u \in Tracks
                 PROVE  \/ Busy({"track_subscribed", "track_unsubscribed"}, j, u)'
                        \/ Has(j, u, subscribed)' <=> <<j, u>> \in rust_tracks' /\ u \in rust_subscribed'
      BY DEF SubscriptionsAgree
    <3>1. CASE u = s
      BY <1>1, <1>2, <1>3, <2>1, <2>2, <3>1 DEF EmitKeeps, AllAgree
    <3>2. CASE ~(u = s)
      BY <1>1, <1>2, <1>3, <2>1, <2>2, <3>2 DEF EmitKeeps, AllAgree
    <3> QED
      BY <3>1, <3>2
  <2>6. MutesAgree'
    <3> SUFFICES ASSUME NEW j \in rust_participants' \cup {Local}, NEW u \in Tracks
                 PROVE  \/ Busy({"track_muted", "track_unmuted", "track_unpublished"}, j, u)'
                        \/ Has(j, u, muted)' <=> <<j, u>> \in rust_tracks' /\ u \in rust_muted'
      BY DEF MutesAgree
    <3>1. CASE u = s
      BY <1>1, <1>2, <1>3, <2>1, <2>2, <3>1 DEF EmitKeeps, AllAgree, Busy
    <3>2. CASE ~(u = s)
      BY <1>1, <1>2, <1>3, <2>1, <2>2, <3>2 DEF EmitKeeps, AllAgree
    <3> QED
      BY <3>1, <3>2
  <2>7. NewsStored'
    BY <1>1, <1>2, <1>3, <2>1, <2>2 DEF EmitKeeps, AllAgree, NewsStored
  <2> QED
    BY <2>3, <2>4, <2>5, <2>6, <2>7 DEF Mirror
<1>7. Informed'
  BY <1>1, <1>2, <1>3 DEF EmitKeeps, ParticipantsInv, Informed
<1> QED
  BY <1>1, <1>4, <1>5, <1>6, <1>7 DEF EmitKeeps, ParticipantsInv

\* A track is unmuted.
LEMMA RustTrackUnmutedStep ==
  ASSUME ParticipantsInv, NEW i \in Everybody, NEW s \in Tracks, RustTrackUnmuted(i, s)
  PROVE  ParticipantsInv'
<1>0. /\ Emit("track_unmuted", {i}, s) /\ {i} \in SUBSET Everybody
      /\ UNCHANGED <<roomVars, handlerVars>>
  BY DEF RustTrackUnmuted, Everybody, participantVars
<1>1. EmitKeeps("track_unmuted", {i}, s)
  BY <1>0, RustFrame
<1>2. /\ remote_participants' = remote_participants /\ handed' = handed /\ threw' = threw
      /\ rust_participants' = rust_participants /\ rust_tracks' = rust_tracks /\ rust_subscribed' = rust_subscribed
      /\ rust_muted' = rust_muted \ {s} /\ rust_news' = rust_news /\ rust_used' = rust_used
  BY DEF RustTrackUnmuted, roomVars, handlerVars, rustVars, participantVars
<1>3. <<i, s>> \in rust_tracks /\ s \in rust_muted
  BY DEF RustTrackUnmuted
<1>4. RustOK'
  BY <1>2, <1>3 DEF ParticipantsInv, RustOK
<1>5. EventTells'
  BY <1>1, <1>2, <1>3, ParticipantsAssumption DEF EmitKeeps, ParticipantsInv, EventTells, RustOK, Everybody
<1>6. Mirror'
  <2>1. AllAgree
    BY <1>1, QuietAgree DEF EmitKeeps, ParticipantsInv, Pending
  <2>2. s \in Tracks /\ \A j : <<j, s>> \in rust_tracks => j = i
    BY <1>3 DEF ParticipantsInv, RustOK, Tracks
  <2>3. PeopleAgree'
    BY <1>1, <1>2, <1>3, <2>1, <2>2 DEF EmitKeeps, AllAgree, PeopleAgree
  <2>4. PublicationsAgree'
    BY <1>1, <1>2, <1>3, <2>1, <2>2 DEF EmitKeeps, AllAgree, PublicationsAgree, Busy
  <2>5. SubscriptionsAgree'
    <3> SUFFICES ASSUME NEW j \in rust_participants' \cup {Local}, NEW u \in Tracks
                 PROVE  \/ Busy({"track_subscribed", "track_unsubscribed"}, j, u)'
                        \/ Has(j, u, subscribed)' <=> <<j, u>> \in rust_tracks' /\ u \in rust_subscribed'
      BY DEF SubscriptionsAgree
    <3>1. CASE u = s
      BY <1>1, <1>2, <1>3, <2>1, <2>2, <3>1 DEF EmitKeeps, AllAgree
    <3>2. CASE ~(u = s)
      BY <1>1, <1>2, <1>3, <2>1, <2>2, <3>2 DEF EmitKeeps, AllAgree
    <3> QED
      BY <3>1, <3>2
  <2>6. MutesAgree'
    <3> SUFFICES ASSUME NEW j \in rust_participants' \cup {Local}, NEW u \in Tracks
                 PROVE  \/ Busy({"track_muted", "track_unmuted", "track_unpublished"}, j, u)'
                        \/ Has(j, u, muted)' <=> <<j, u>> \in rust_tracks' /\ u \in rust_muted'
      BY DEF MutesAgree
    <3>1. CASE u = s
      BY <1>1, <1>2, <1>3, <2>1, <2>2, <3>1 DEF EmitKeeps, AllAgree, Busy
    <3>2. CASE ~(u = s)
      BY <1>1, <1>2, <1>3, <2>1, <2>2, <3>2 DEF EmitKeeps, AllAgree
    <3> QED
      BY <3>1, <3>2
  <2>7. NewsStored'
    BY <1>1, <1>2, <1>3, <2>1, <2>2 DEF EmitKeeps, AllAgree, NewsStored
  <2> QED
    BY <2>3, <2>4, <2>5, <2>6, <2>7 DEF Mirror
<1>7. Informed'
  BY <1>1, <1>2, <1>3 DEF EmitKeeps, ParticipantsInv, Informed
<1> QED
  BY <1>1, <1>4, <1>5, <1>6, <1>7 DEF EmitKeeps, ParticipantsInv

\* The room has news.
LEMMA RustRoomInfoChangedStep ==
  ASSUME ParticipantsInv, RustRoomInfoChanged
  PROVE  ParticipantsInv'
<1>0. /\ Emit("room_info", {}, None) /\ {} \in SUBSET Everybody
      /\ UNCHANGED <<roomVars, handlerVars>>
  BY DEF RustRoomInfoChanged, Everybody, participantVars
<1>1. EmitKeeps("room_info", {}, None)
  BY <1>0, RustFrame
<1>2. /\ remote_participants' = remote_participants /\ handed' = handed /\ threw' = threw
      /\ rust_participants' = rust_participants /\ rust_tracks' = rust_tracks /\ rust_subscribed' = rust_subscribed
      /\ rust_muted' = rust_muted /\ rust_news' = rust_news \cup {RoomInfo} /\ rust_used' = rust_used
  BY DEF RustRoomInfoChanged, roomVars, handlerVars, rustVars, participantVars
<1>4. RustOK'
  BY <1>2 DEF ParticipantsInv, RustOK
<1>5. EventTells'
  BY <1>1, <1>2 DEF EmitKeeps, ParticipantsInv, EventTells
<1>6. Mirror'
  <2>1. AllAgree
    BY <1>1, QuietAgree DEF EmitKeeps, ParticipantsInv, Pending
  <2>2. PeopleAgree'
    BY <1>1, <1>2, <2>1 DEF EmitKeeps, AllAgree, PeopleAgree
  <2>3. PublicationsAgree'
    BY <1>1, <1>2, <2>1 DEF EmitKeeps, AllAgree, PublicationsAgree, Busy
  <2>4. SubscriptionsAgree'
    BY <1>1, <1>2, <2>1 DEF EmitKeeps, AllAgree, SubscriptionsAgree, Busy
  <2>5. MutesAgree'
    BY <1>1, <1>2, <2>1 DEF EmitKeeps, AllAgree, MutesAgree, Busy
  <2>6. NewsStored'
    BY <1>1, <1>2, <2>1 DEF EmitKeeps, AllAgree, NewsStored
  <2> QED
    BY <2>2, <2>3, <2>4, <2>5, <2>6 DEF Mirror
<1>7. Informed'
  BY <1>1, <1>2 DEF EmitKeeps, ParticipantsInv, Informed
<1> QED
  BY <1>1, <1>4, <1>5, <1>6, <1>7 DEF EmitKeeps, ParticipantsInv

\* An event that looks at no participant.
LEMMA RustRoomEventStep ==
  ASSUME ParticipantsInv, RustRoomEvent
  PROVE  ParticipantsInv'
<1>0. /\ Emit("room_event", {}, None) /\ {} \in SUBSET Everybody
      /\ UNCHANGED <<roomVars, handlerVars>>
  BY DEF RustRoomEvent, Everybody, participantVars
<1>1. EmitKeeps("room_event", {}, None)
  BY <1>0, RustFrame
<1>2. /\ remote_participants' = remote_participants /\ handed' = handed /\ threw' = threw
      /\ rust_participants' = rust_participants /\ rust_tracks' = rust_tracks /\ rust_subscribed' = rust_subscribed
      /\ rust_muted' = rust_muted /\ rust_news' = rust_news /\ rust_used' = rust_used
  BY DEF RustRoomEvent, roomVars, handlerVars, rustVars, participantVars
<1>4. RustOK'
  BY <1>2 DEF ParticipantsInv, RustOK
<1>5. EventTells'
  BY <1>1, <1>2 DEF EmitKeeps, ParticipantsInv, EventTells
<1>6. Mirror'
  <2> SUFFICES ASSUME Connected PROVE PeopleAgree' /\ PublicationsAgree' /\ SubscriptionsAgree' /\ MutesAgree' /\ NewsStored'
    BY <1>1 DEF EmitKeeps, Mirror
  <2>1. AllAgree
    BY <1>1, QuietAgree DEF EmitKeeps, ParticipantsInv, Pending
  <2>2. PeopleAgree'
    BY <1>1, <1>2, <2>1 DEF EmitKeeps, AllAgree, PeopleAgree
  <2>3. PublicationsAgree'
    BY <1>1, <1>2, <2>1 DEF EmitKeeps, AllAgree, PublicationsAgree, Busy
  <2>4. SubscriptionsAgree'
    BY <1>1, <1>2, <2>1 DEF EmitKeeps, AllAgree, SubscriptionsAgree, Busy
  <2>5. MutesAgree'
    BY <1>1, <1>2, <2>1 DEF EmitKeeps, AllAgree, MutesAgree, Busy
  <2>6. NewsStored'
    BY <1>1, <1>2, <2>1 DEF EmitKeeps, AllAgree, NewsStored
  <2> QED
    BY <2>2, <2>3, <2>4, <2>5, <2>6 DEF Mirror
<1>7. Informed'
  BY <1>1, <1>2 DEF EmitKeeps, ParticipantsInv, Informed
<1> QED
  BY <1>1, <1>4, <1>5, <1>6, <1>7 DEF EmitKeeps, ParticipantsInv

\* Some participants have news.
LEMMA RustInfoChangedStep ==
  ASSUME ParticipantsInv, NEW who \in SUBSET Everybody, RustInfoChanged(who)
  PROVE  ParticipantsInv'
<1>0. /\ \E kind \in {"participant_changed", "participants_updated"} : Emit(kind, who, None)
      /\ who \in SUBSET Everybody
      /\ UNCHANGED <<roomVars, handlerVars>>
  BY DEF RustInfoChanged, Everybody, participantVars
<1>1. \E kind \in {"participant_changed", "participants_updated"} : EmitKeeps(kind, who, None)
  BY <1>0, RustFrame
<1>2. /\ remote_participants' = remote_participants /\ handed' = handed /\ threw' = threw
      /\ rust_participants' = rust_participants /\ rust_tracks' = rust_tracks /\ rust_subscribed' = rust_subscribed
      /\ rust_muted' = rust_muted /\ rust_news' = rust_news \cup who /\ rust_used' = rust_used
  BY DEF RustInfoChanged, roomVars, handlerVars, rustVars, participantVars
<1>3. who # {} /\ who \subseteq rust_participants \cup {Local}
  BY DEF RustInfoChanged
<1>4. RustOK'
  BY <1>2, <1>3 DEF ParticipantsInv, RustOK
<1>5. EventTells'
  BY <1>1, <1>2, <1>3 DEF EmitKeeps, ParticipantsInv, EventTells
<1>6. Mirror'
  <2>1. AllAgree
    BY <1>1, QuietAgree DEF EmitKeeps, ParticipantsInv, Pending
  <2>2. PeopleAgree'
    BY <1>1, <1>2, <1>3, <2>1 DEF EmitKeeps, AllAgree, PeopleAgree
  <2>3. PublicationsAgree'
    BY <1>1, <1>2, <1>3, <2>1 DEF EmitKeeps, AllAgree, PublicationsAgree, Busy
  <2>4. SubscriptionsAgree'
    BY <1>1, <1>2, <1>3, <2>1 DEF EmitKeeps, AllAgree, SubscriptionsAgree, Busy
  <2>5. MutesAgree'
    BY <1>1, <1>2, <1>3, <2>1 DEF EmitKeeps, AllAgree, MutesAgree, Busy
  <2>6. NewsStored'
    BY <1>1, <1>2, <1>3, <2>1 DEF EmitKeeps, AllAgree, NewsStored
  <2> QED
    BY <2>2, <2>3, <2>4, <2>5, <2>6 DEF Mirror
<1>7. Informed'
  BY <1>1, <1>2, <1>3 DEF EmitKeeps, ParticipantsInv, Informed
<1> QED
  BY <1>1, <1>4, <1>5, <1>6, <1>7 DEF EmitKeeps, ParticipantsInv

\* An event that changes nothing.
LEMMA RustParticipantEventStep ==
  ASSUME ParticipantsInv, NEW kind \in {"participant_event", "e2ee_state", "subscription_failed", "data_packet", "active_speakers",
                                     "local_track"},
         NEW who \in SUBSET Everybody, RustParticipantEvent(kind, who)
  PROVE  ParticipantsInv'
<1>0. /\ Emit(kind, who, None) /\ who \in SUBSET Everybody
      /\ UNCHANGED <<roomVars, handlerVars>>
  BY DEF RustParticipantEvent, Everybody, participantVars
<1>1. EmitKeeps(kind, who, None)
  BY <1>0, RustFrame
<1>2. /\ remote_participants' = remote_participants /\ handed' = handed /\ threw' = threw
      /\ rust_participants' = rust_participants /\ rust_tracks' = rust_tracks /\ rust_subscribed' = rust_subscribed
      /\ rust_muted' = rust_muted /\ rust_news' = rust_news /\ rust_used' = rust_used
  BY DEF RustParticipantEvent, roomVars, handlerVars, rustVars, participantVars
<1>4. RustOK'
  BY <1>2 DEF ParticipantsInv, RustOK
<1>5. EventTells'
  BY <1>1, <1>2 DEF EmitKeeps, ParticipantsInv, EventTells
<1>6. Mirror'
  <2>1. AllAgree
    BY <1>1, QuietAgree DEF EmitKeeps, ParticipantsInv, Pending
  <2>2. PeopleAgree'
    BY <1>1, <1>2, <2>1 DEF EmitKeeps, AllAgree, PeopleAgree
  <2>3. PublicationsAgree'
    BY <1>1, <1>2, <2>1 DEF EmitKeeps, AllAgree, PublicationsAgree, Busy
  <2>4. SubscriptionsAgree'
    BY <1>1, <1>2, <2>1 DEF EmitKeeps, AllAgree, SubscriptionsAgree, Busy
  <2>5. MutesAgree'
    BY <1>1, <1>2, <2>1 DEF EmitKeeps, AllAgree, MutesAgree, Busy
  <2>6. NewsStored'
    BY <1>1, <1>2, <2>1 DEF EmitKeeps, AllAgree, NewsStored
  <2> QED
    BY <2>2, <2>3, <2>4, <2>5, <2>6 DEF Mirror
<1>7. Informed'
  BY <1>1, <1>2 DEF EmitKeeps, ParticipantsInv, Informed
<1> QED
  BY <1>1, <1>4, <1>5, <1>6, <1>7 DEF EmitKeeps, ParticipantsInv

-----------------------------------------------------------------------------
(* The handlers *)

\* An event that finds one of its participants finds it in a connected Room.
LEMMA FoundConnected ==
  ASSUME ParticipantsInv, at = "handle", FindAll(event.who) # {}
  PROVE  Connected
<1>1. PICK i \in event.who : Find(i) # {}
  BY DEF FindAll
<1>2. i \in Everybody
  BY <1>1 DEF ParticipantsInv, LoopOK
<1>3. CASE i = Local
  BY <1>1, <1>3 DEF Find, Connected
<1>4. CASE i \in Identities /\ i # Local
  BY <1>1, <1>4 DEF Find, ParticipantsInv, Leftovers, Empty
<1> QED
  BY <1>2, <1>3, <1>4 DEF Everybody

\* The participants an event finds are alive.
LEMMA FoundAlive ==
  ASSUME ParticipantsInv
  PROVE  FindAll(event.who) \subseteq Alive
<1> SUFFICES ASSUME NEW o \in FindAll(event.who) PROVE o \in Alive
  OBVIOUS
<1>1. PICK i \in event.who : o \in Find(i)
  BY DEF FindAll
<1>2. i \in Everybody
  BY <1>1 DEF ParticipantsInv, LoopOK
<1> QED
  BY <1>1, <1>2 DEF Find, Alive, Everybody

\* The publications an event finds, if it is about one participant.
LEMMA FoundFacts ==
  ASSUME ObjectsOK, NEW i \in Everybody, event.who = {i}
  PROVE  /\ FindAll(event.who) = Find(i)
         /\ \A o, u : <<o, u>> \in Found <=> <<o, u>> \in publications /\ o \in Find(i) /\ u = event.what
         /\ Found = {} <=> ~Has(i, event.what, publications)
         /\ Found # {} => FindAll(event.who) # {}
<1>1. FindAll(event.who) = Find(i)
  BY FindFacts
<1>2. \A o, u : <<o, u>> \in Found <=> <<o, u>> \in publications /\ o \in Find(i) /\ u = event.what
  BY <1>1 DEF Found
<1>3. \A x \in Found : x = <<x[1], x[2]>> /\ x[1] \in Find(i)
  BY <1>1 DEF Found, ObjectsOK
<1>4. ASSUME Has(i, event.what, publications) PROVE Found # {}
  BY <1>2, <1>4 DEF Has
<1>5. ASSUME NEW x \in Found PROVE Has(i, event.what, publications)
  <2>1. x \in publications /\ x[1] \in Find(i) /\ x[2] = event.what
    BY <1>1 DEF Found
  <2> QED
    BY <1>3, <2>1 DEF Has
<1> QED
  BY <1>1, <1>2, <1>3, <1>4, <1>5

\* A handler has changed the maps, and the delegate is called.
Handled ==
  /\ at = "handle" /\ at' = "delegate"
  /\ event' = event /\ room_state' = room_state /\ disconnect' = disconnect /\ handed' = handed /\ threw' = threw
  /\ rust_participants' = rust_participants /\ rust_tracks' = rust_tracks /\ rust_subscribed' = rust_subscribed
  /\ rust_muted' = rust_muted /\ rust_used' = rust_used

\* What a handler leaves as it is.
LEMMA HandlerFrame ==
  ASSUME ParticipantsInv, Handled,
         ~Connected => \/ remote_participants' = remote_participants
                       \/ /\ event.kind = "participant_connected"
                          /\ \A i, j \in Identities : remote_participants'[i] # None /\ remote_participants'[j] # None => i = j
  PROVE  /\ LoopOK' /\ RustOK' /\ EventTells' /\ Informed' /\ Leftovers'
         /\ (Connected' <=> Connected) /\ ~Pending'
<1>1. (Connected' <=> Connected) /\ ~Pending' /\ (ForDispatcher' <=> ForDispatcher)
  BY DEF Handled, Connected, Pending, ForDispatcher
<1>2. LoopOK'
  BY <1>1 DEF ParticipantsInv, LoopOK, Handled
<1>3. RustOK'
  BY DEF ParticipantsInv, RustOK, Handled
<1>4. EventTells'
  BY DEF ParticipantsInv, EventTells, Handled
<1>5. Informed'
  BY <1>1 DEF ParticipantsInv, Informed, Handled
<1>6. Leftovers'
  <2>1. CASE Connected
    BY <1>1, <2>1 DEF Leftovers
  <2>2. CASE ~Connected
    <3>1. Empty /\ (disconnect # "stop" => handed = {})
      BY <2>2 DEF ParticipantsInv, Leftovers, Handled
    <3>2. CASE remote_participants' = remote_participants
      BY <1>1, <2>2, <3>1, <3>2 DEF Leftovers, Empty, Handled
    <3>3. CASE remote_participants' # remote_participants
      BY <1>1, <2>2, <3>1, <3>3 DEF Leftovers, Empty, Handled, ForDispatcher
    <3> QED
      BY <3>2, <3>3
  <2> QED
    BY <2>1, <2>2
<1> QED
  BY <1>1, <1>2, <1>3, <1>4, <1>5, <1>6

\* An event that the delegate is told of, and that changes nothing.
LEMMA NoticeStep ==
  ASSUME ParticipantsInv, at = "handle",
         event.kind \in {"participant_event", "subscription_failed", "e2ee_state", "active_speakers", "data_packet",
                         "local_track", "room_event"},
         NEW objects \in SUBSET FindAll(event.who), Notify(objects),
         UNCHANGED <<roomVars, kept, handed, threw, rustVars>>
  PROVE  ParticipantsInv'
<1>1. Handled /\ held' = objects
  BY DEF Notify, Goto, Handled, rustVars
<1>2. /\ remote_participants' = remote_participants /\ joins' = joins /\ publications' = publications
      /\ subscribed' = subscribed /\ muted' = muted /\ moved_out' = moved_out /\ kept' = kept /\ rust_news' = rust_news
  BY DEF roomVars, rustVars
<1>3. /\ LoopOK' /\ RustOK' /\ EventTells' /\ Informed' /\ Leftovers'
      /\ (Connected' <=> Connected) /\ ~Pending'
  BY <1>1, <1>2, HandlerFrame
<1>4. ObjectsOK'
  BY <1>2, <1>3 DEF ParticipantsInv, ObjectsOK
<1>5. Mirror'
  <2>1. Connected => AllAgree
    BY QuietAgree DEF ParticipantsInv, TrackKinds
  <2>2. \A j : Find(j)' = Find(j)
    BY <1>1, <1>2 DEF Find, Handled
  <2>3. \A j, u : /\ Has(j, u, publications)' <=> Has(j, u, publications)
                  /\ Has(j, u, subscribed)' <=> Has(j, u, subscribed)
                  /\ Has(j, u, muted)' <=> Has(j, u, muted)
    BY <1>2, <2>2 DEF Has
  <2>4. (Connected => AllAgree)'
    BY <1>1, <1>2, <1>3, <2>1, <2>3 DEF AllAgree, Handled
  <2> QED
    BY <2>4, AgreeMirror, PTL
<1>6. Pointers'
  BY <1>1, <1>2, <1>3, FoundAlive DEF ParticipantsInv, Pointers, PointersValid, Alive, Handled
<1> QED
  BY <1>3, <1>4, <1>5, <1>6 DEF ParticipantsInv

\* The information about participants is stored in their objects.
LEMMA StoreInfoStep ==
  ASSUME ParticipantsInv, at = "handle", event.kind \in {"participant_changed", "participants_updated"},
         StoreInfo, Notify(FindAll(event.who))
  PROVE  ParticipantsInv'
<1>1. Handled /\ held' = FindAll(event.who)
  BY DEF Notify, Goto, Handled, StoreInfo
<1>2. /\ remote_participants' = remote_participants /\ joins' = joins /\ publications' = publications
      /\ subscribed' = subscribed /\ muted' = muted /\ moved_out' = moved_out /\ kept' = kept
  BY DEF roomVars, StoreInfo
<1>3. /\ LoopOK' /\ RustOK' /\ EventTells' /\ Informed' /\ Leftovers'
      /\ (Connected' <=> Connected) /\ ~Pending'
  BY <1>1, <1>2, HandlerFrame
<1>4. ObjectsOK'
  BY <1>2, <1>3 DEF ParticipantsInv, ObjectsOK
<1>5. Mirror'
  <2>1. \A j : Find(j)' = Find(j)
    BY <1>1, <1>2 DEF Find, Handled
  <2>2. \A j, u : /\ Has(j, u, publications)' <=> Has(j, u, publications)
                  /\ Has(j, u, subscribed)' <=> Has(j, u, subscribed)
                  /\ Has(j, u, muted)' <=> Has(j, u, muted)
    BY <1>2, <2>1 DEF Has
  <2>3. ASSUME Connected PROVE AllAgree'
    <3>1. /\ \A j \in Identities : remote_participants[j] # None <=> j \in rust_participants
          /\ \A j \in rust_participants \cup {Local}, u \in Tracks :
               /\ Has(j, u, publications) <=> <<j, u>> \in rust_tracks
               /\ Has(j, u, subscribed) <=> <<j, u>> \in rust_tracks /\ u \in rust_subscribed
               /\ Has(j, u, muted) <=> <<j, u>> \in rust_tracks /\ u \in rust_muted
      BY <2>3 DEF ParticipantsInv, Mirror, PeopleAgree, PublicationsAgree, SubscriptionsAgree, MutesAgree, Busy
    <3>2. event.who \subseteq rust_participants \cup {Local} /\ rust_news \subseteq event.who
      BY <2>3 DEF ParticipantsInv, EventTells, Mirror, NewsStored
    <3>3. \A i \in event.who : Find(i) # {}
      <4> SUFFICES ASSUME NEW i \in event.who PROVE Find(i) # {}
        OBVIOUS
      <4>1. CASE i = Local
        BY <2>3, <4>1 DEF Find, Connected
      <4>2. CASE i # Local
        BY <3>1, <3>2, <4>2 DEF Find, ParticipantsInv, RustOK
      <4> QED
        BY <4>1, <4>2
    <3>4. rust_news' = {}
      BY <3>2, <3>3 DEF StoreInfo
    <3> QED
      BY <1>1, <1>2, <2>2, <3>1, <3>4 DEF AllAgree, Handled
  <2>4. (Connected => AllAgree)'
    BY <1>3, <2>3
  <2> QED
    BY <2>4, AgreeMirror, PTL
<1>6. Pointers'
  BY <1>1, <1>2, <1>3, FoundAlive DEF ParticipantsInv, Pointers, PointersValid, Alive, Handled
<1> QED
  BY <1>3, <1>4, <1>5, <1>6 DEF ParticipantsInv

\* The information about the room is stored.
LEMMA OnRoomInfoChangedStep ==
  ASSUME ParticipantsInv, OnRoomInfoChanged
  PROVE  ParticipantsInv'
<1>0. at = "handle" /\ event.kind = "room_info"
  BY DEF OnRoomInfoChanged, Handles
<1>1. Handled /\ held' = {} /\ rust_news' = rust_news \ {RoomInfo}
  BY <1>0 DEF OnRoomInfoChanged, Notify, Goto, Handled
<1>2. /\ remote_participants' = remote_participants /\ joins' = joins /\ publications' = publications
      /\ subscribed' = subscribed /\ muted' = muted /\ moved_out' = moved_out /\ kept' = kept
  BY DEF OnRoomInfoChanged, roomVars
<1>3. /\ LoopOK' /\ RustOK' /\ EventTells' /\ Informed' /\ Leftovers'
      /\ (Connected' <=> Connected) /\ ~Pending'
  BY <1>1, <1>2, HandlerFrame
<1>4. ObjectsOK'
  BY <1>2, <1>3 DEF ParticipantsInv, ObjectsOK
<1>5. Mirror'
  <2>1. \A j : Find(j)' = Find(j)
    BY <1>1, <1>2 DEF Find, Handled
  <2>2. \A j, u : /\ Has(j, u, publications)' <=> Has(j, u, publications)
                  /\ Has(j, u, subscribed)' <=> Has(j, u, subscribed)
                  /\ Has(j, u, muted)' <=> Has(j, u, muted)
    BY <1>2, <2>1 DEF Has
  <2>3. ASSUME Connected PROVE AllAgree'
    <3>1. /\ \A j \in Identities : remote_participants[j] # None <=> j \in rust_participants
          /\ \A j \in rust_participants \cup {Local}, u \in Tracks :
               /\ Has(j, u, publications) <=> <<j, u>> \in rust_tracks
               /\ Has(j, u, subscribed) <=> <<j, u>> \in rust_tracks /\ u \in rust_subscribed
               /\ Has(j, u, muted) <=> <<j, u>> \in rust_tracks /\ u \in rust_muted
      BY <1>0, <2>3 DEF ParticipantsInv, Mirror, PeopleAgree, PublicationsAgree, SubscriptionsAgree, MutesAgree, Busy
    <3>2. rust_news' = {}
      BY <1>0, <1>1, <2>3 DEF ParticipantsInv, Mirror, NewsStored
    <3> QED
      BY <1>1, <1>2, <2>2, <3>1, <3>2 DEF AllAgree, Handled
  <2>4. (Connected => AllAgree)'
    BY <1>3, <2>3
  <2> QED
    BY <2>4, AgreeMirror, PTL
<1>6. Pointers'
  BY <1>1, <1>2, <1>3 DEF ParticipantsInv, Pointers, PointersValid, Alive, Handled
<1> QED
  BY <1>3, <1>4, <1>5, <1>6 DEF ParticipantsInv

\* A publication is added to its participant.
LEMMA OnTrackPublishedStep ==
  ASSUME ParticipantsInv, OnTrackPublished
  PROVE  ParticipantsInv'
<1>0. at = "handle" /\ event.kind = "track_published" /\ FindAll(event.who) # {}
  BY DEF OnTrackPublished, Handles
<1>1. PICK i \in rust_participants : event.who = {i} /\ <<i, event.what>> \in rust_tracks
  BY <1>0 DEF ParticipantsInv, EventTells
<1>2. /\ i \in Everybody /\ FindAll(event.who) = Find(i) /\ FindAll(event.who) # {}
      /\ \A o, u : <<o, u>> \in Found <=> <<o, u>> \in publications /\ o \in Find(i) /\ u = event.what
      /\ Found = {} <=> ~Has(i, event.what, publications)
  BY <1>0, <1>1, FoundFacts DEF ParticipantsInv, RustOK, Everybody
<1>3. Connected
  BY <1>0, <1>2, FoundConnected
<1>4. Handled /\ held' = Find(i)
  BY <1>0, <1>2 DEF OnTrackPublished, Notify, Goto, Handled, rustVars
<1>5. /\ remote_participants' = remote_participants /\ joins' = joins /\ moved_out' = moved_out /\ kept' = kept
      /\ rust_news' = rust_news
  BY DEF OnTrackPublished, rustVars
<1>6. /\ \A o, u : <<o, u>> \in publications' <=> <<o, u>> \in publications \/ (o \in Find(i) /\ u = event.what)
      /\ \A o, u : <<o, u>> \in subscribed' <=> <<o, u>> \in subscribed
      /\ \A o, u : <<o, u>> \in muted' <=> <<o, u>> \in muted
  <2>0. /\ publications' = publications \cup (FindAll(event.who) \X {event.what}) /\ subscribed' = subscribed
        /\ muted' = muted
    BY DEF OnTrackPublished
  <2>1. \A o, u : <<o, u>> \in publications' <=> <<o, u>> \in publications \/ (o \in Find(i) /\ u = event.what)
    BY <1>2, <2>0
  <2>2. \A o, u : <<o, u>> \in subscribed' <=> <<o, u>> \in subscribed
    BY <1>2, <2>0
  <2>3. \A o, u : <<o, u>> \in muted' <=> <<o, u>> \in muted
    BY <1>2, <2>0
  <2> QED
    BY <2>1, <2>2, <2>3
<1>7. /\ LoopOK' /\ RustOK' /\ EventTells' /\ Informed' /\ Leftovers'
      /\ (Connected' <=> Connected) /\ ~Pending'
  BY <1>4, <1>5, HandlerFrame
<1>8. ObjectsOK'
  <2>1. \A o \in Find(i) : o \in 1 .. joins \/ o = LocalObject
    BY <1>2, FindFacts, ParticipantsAssumption DEF ParticipantsInv, ObjectsOK, Everybody, None
  <2>2. \A x \in publications' : x = <<x[1], x[2]>> /\ (x[1] \in 1 .. joins \/ x[1] = LocalObject)
    BY <1>2, <2>1 DEF ParticipantsInv, ObjectsOK, OnTrackPublished
  <2>3. subscribed' \subseteq publications' /\ muted' \subseteq publications'
    BY <1>2 DEF ParticipantsInv, ObjectsOK, OnTrackPublished, Found
  <2> QED
    BY <1>5, <1>7, <2>2, <2>3 DEF ParticipantsInv, ObjectsOK
<1>9. Mirror'
  <2>1. \A j : Find(j)' = Find(j)
    BY <1>4, <1>5 DEF Find, Handled
  <2>2. \A j \in Everybody : \A u : j # i \/ u # event.what =>
          /\ Has(j, u, publications)' <=> Has(j, u, publications)
          /\ Has(j, u, subscribed)' <=> Has(j, u, subscribed)
          /\ Has(j, u, muted)' <=> Has(j, u, muted)
    <3>1. \A j \in Everybody : \A o : o \in Find(j) /\ o \in Find(i) => j = i
      BY <1>2, FindFacts DEF ParticipantsInv
    <3>2. \A j \in Everybody : \A u : j # i \/ u # event.what => (Has(j, u, publications)' <=> Has(j, u, publications))
      BY <1>6, <2>1, <3>1 DEF Has
    <3>3. \A j \in Everybody : \A u : j # i \/ u # event.what => (Has(j, u, subscribed)' <=> Has(j, u, subscribed))
      BY <1>6, <2>1, <3>1 DEF Has
    <3>4. \A j \in Everybody : \A u : j # i \/ u # event.what => (Has(j, u, muted)' <=> Has(j, u, muted))
      BY <1>6, <2>1, <3>1 DEF Has
    <3> QED
      BY <3>2, <3>3, <3>4
  <2>3. /\ \A u : u = event.what => Has(i, u, publications)'
        /\ \A u : u = event.what => (Has(i, u, subscribed)' <=> Has(i, u, subscribed))
        /\ \A u : u = event.what => (Has(i, u, muted)' <=> Has(i, u, muted))
    <3>1. \A u : u = event.what => Has(i, u, publications)'
      BY <1>2, <1>6, <2>1 DEF Has
    <3>2. \A u : u = event.what => (Has(i, u, subscribed)' <=> Has(i, u, subscribed))
      BY <1>2, <1>6, <2>1 DEF Has
    <3>3. \A u : u = event.what => (Has(i, u, muted)' <=> Has(i, u, muted))
      BY <1>2, <1>6, <2>1 DEF Has
    <3> QED
      BY <3>1, <3>2, <3>3
  <2>4. \A j \in Identities : remote_participants'[j] # None <=> j \in rust_participants
    BY <1>0, <1>3, <1>5 DEF ParticipantsInv, Mirror, PeopleAgree
  <2>5. \A j \in rust_participants \cup {Local}, u \in Tracks :
          /\ Has(j, u, publications)' <=> <<j, u>> \in rust_tracks
          /\ Has(j, u, subscribed)' <=> <<j, u>> \in rust_tracks /\ u \in rust_subscribed
          /\ Has(j, u, muted)' <=> <<j, u>> \in rust_tracks /\ u \in rust_muted
    <3> SUFFICES ASSUME NEW j \in rust_participants \cup {Local}, NEW u \in Tracks
                 PROVE  /\ Has(j, u, publications)' <=> <<j, u>> \in rust_tracks
                        /\ Has(j, u, subscribed)' <=> <<j, u>> \in rust_tracks /\ u \in rust_subscribed
                        /\ Has(j, u, muted)' <=> <<j, u>> \in rust_tracks /\ u \in rust_muted
      OBVIOUS
    <3>1. CASE j = i /\ u = event.what
      <4>1. Has(j, u, publications)' <=> <<j, u>> \in rust_tracks
        BY <1>0, <1>1, <1>3, <2>3, <3>1 DEF ParticipantsInv, Mirror, PublicationsAgree, Busy
      <4>2. Has(j, u, subscribed)' <=> <<j, u>> \in rust_tracks /\ u \in rust_subscribed
        BY <1>0, <1>1, <1>3, <2>3, <3>1 DEF ParticipantsInv, Mirror, SubscriptionsAgree, Busy
      <4>3. Has(j, u, muted)' <=> <<j, u>> \in rust_tracks /\ u \in rust_muted
        BY <1>0, <1>1, <1>3, <2>3, <3>1 DEF ParticipantsInv, Mirror, MutesAgree, Busy
      <4> QED
        BY <4>1, <4>2, <4>3
    <3>2. CASE j # i \/ u # event.what
      <4>1. /\ Has(j, u, publications) <=> <<j, u>> \in rust_tracks
            /\ Has(j, u, subscribed) <=> <<j, u>> \in rust_tracks /\ u \in rust_subscribed
            /\ Has(j, u, muted) <=> <<j, u>> \in rust_tracks /\ u \in rust_muted
        BY <1>1, <1>3, <3>2 DEF ParticipantsInv, Mirror, PublicationsAgree, SubscriptionsAgree, MutesAgree, Busy
      <4>2. j \in Everybody
        BY DEF ParticipantsInv, RustOK, Everybody
      <4> QED
        BY <2>2, <3>2, <4>1, <4>2
    <3> QED
      BY <3>1, <3>2
  <2>6. rust_news' = {}
    BY <1>0, <1>3, <1>5 DEF ParticipantsInv, Mirror, NewsStored
  <2>7. (Connected => AllAgree)'
    BY <1>4, <1>5, <2>4, <2>5, <2>6 DEF AllAgree, Handled
  <2> QED
    BY <2>7, AgreeMirror, PTL
<1>10. Pointers'
  BY <1>2, <1>4, <1>5, <1>7, FoundAlive DEF ParticipantsInv, Pointers, PointersValid, Alive, Handled
<1> QED
  BY <1>7, <1>8, <1>9, <1>10 DEF ParticipantsInv

\* A publication is removed from its participant.
LEMMA OnTrackUnpublishedStep ==
  ASSUME ParticipantsInv, OnTrackUnpublished
  PROVE  ParticipantsInv'
<1>0. at = "handle" /\ event.kind = "track_unpublished" /\ Found # {}
  BY DEF OnTrackUnpublished, Handles
<1>1. PICK i \in rust_participants : event.who = {i} /\ <<i, event.what>> \notin rust_tracks
  BY <1>0 DEF ParticipantsInv, EventTells
<1>2. /\ i \in Everybody /\ FindAll(event.who) = Find(i) /\ FindAll(event.who) # {}
      /\ \A o, u : <<o, u>> \in Found <=> <<o, u>> \in publications /\ o \in Find(i) /\ u = event.what
      /\ Found = {} <=> ~Has(i, event.what, publications)
  BY <1>0, <1>1, FoundFacts DEF ParticipantsInv, RustOK, Everybody
<1>3. Connected
  BY <1>0, <1>2, FoundConnected
<1>4. Handled /\ held' = Find(i)
  BY <1>0, <1>2 DEF OnTrackUnpublished, Notify, Goto, Handled, rustVars
<1>5. /\ remote_participants' = remote_participants /\ joins' = joins /\ moved_out' = moved_out /\ kept' = kept
      /\ rust_news' = rust_news
  BY DEF OnTrackUnpublished, rustVars
<1>6. /\ \A o, u : <<o, u>> \in publications' <=> <<o, u>> \in publications /\ ~(o \in Find(i) /\ u = event.what)
      /\ \A o, u : <<o, u>> \in subscribed' <=> <<o, u>> \in subscribed /\ ~(o \in Find(i) /\ u = event.what)
      /\ \A o, u : <<o, u>> \in muted' <=> <<o, u>> \in muted /\ ~(o \in Find(i) /\ u = event.what)
  <2>0. publications' = publications \ Found /\ subscribed' = subscribed \ Found /\ muted' = muted \ Found
    BY DEF OnTrackUnpublished
  <2>1. \A o, u : <<o, u>> \in publications' <=> <<o, u>> \in publications /\ ~(o \in Find(i) /\ u = event.what)
    BY <1>2, <2>0 DEF ParticipantsInv, ObjectsOK
  <2>2. \A o, u : <<o, u>> \in subscribed' <=> <<o, u>> \in subscribed /\ ~(o \in Find(i) /\ u = event.what)
    BY <1>2, <2>0 DEF ParticipantsInv, ObjectsOK
  <2>3. \A o, u : <<o, u>> \in muted' <=> <<o, u>> \in muted /\ ~(o \in Find(i) /\ u = event.what)
    BY <1>2, <2>0 DEF ParticipantsInv, ObjectsOK
  <2> QED
    BY <2>1, <2>2, <2>3
<1>7. /\ LoopOK' /\ RustOK' /\ EventTells' /\ Informed' /\ Leftovers'
      /\ (Connected' <=> Connected) /\ ~Pending'
  BY <1>4, <1>5, HandlerFrame
<1>8. ObjectsOK'
  <2>1. \A o \in Find(i) : o \in 1 .. joins \/ o = LocalObject
    BY <1>2, FindFacts, ParticipantsAssumption DEF ParticipantsInv, ObjectsOK, Everybody, None
  <2>2. \A x \in publications' : x = <<x[1], x[2]>> /\ (x[1] \in 1 .. joins \/ x[1] = LocalObject)
    BY <1>2, <2>1 DEF ParticipantsInv, ObjectsOK, OnTrackUnpublished
  <2>3. subscribed' \subseteq publications' /\ muted' \subseteq publications'
    BY <1>2 DEF ParticipantsInv, ObjectsOK, OnTrackUnpublished, Found
  <2> QED
    BY <1>5, <1>7, <2>2, <2>3 DEF ParticipantsInv, ObjectsOK
<1>9. Mirror'
  <2>1. \A j : Find(j)' = Find(j)
    BY <1>4, <1>5 DEF Find, Handled
  <2>2. \A j \in Everybody : \A u : j # i \/ u # event.what =>
          /\ Has(j, u, publications)' <=> Has(j, u, publications)
          /\ Has(j, u, subscribed)' <=> Has(j, u, subscribed)
          /\ Has(j, u, muted)' <=> Has(j, u, muted)
    <3>1. \A j \in Everybody : \A o : o \in Find(j) /\ o \in Find(i) => j = i
      BY <1>2, FindFacts DEF ParticipantsInv
    <3>2. \A j \in Everybody : \A u : j # i \/ u # event.what => (Has(j, u, publications)' <=> Has(j, u, publications))
      BY <1>6, <2>1, <3>1 DEF Has
    <3>3. \A j \in Everybody : \A u : j # i \/ u # event.what => (Has(j, u, subscribed)' <=> Has(j, u, subscribed))
      BY <1>6, <2>1, <3>1 DEF Has
    <3>4. \A j \in Everybody : \A u : j # i \/ u # event.what => (Has(j, u, muted)' <=> Has(j, u, muted))
      BY <1>6, <2>1, <3>1 DEF Has
    <3> QED
      BY <3>2, <3>3, <3>4
  <2>3. /\ \A u : u = event.what => ~Has(i, u, publications)'
        /\ \A u : u = event.what => ~Has(i, u, subscribed)'
        /\ \A u : u = event.what => ~Has(i, u, muted)'
    <3>1. \A u : u = event.what => ~Has(i, u, publications)'
      BY <1>2, <1>6, <2>1 DEF Has
    <3>2. \A u : u = event.what => ~Has(i, u, subscribed)'
      BY <1>2, <1>6, <2>1 DEF Has
    <3>3. \A u : u = event.what => ~Has(i, u, muted)'
      BY <1>2, <1>6, <2>1 DEF Has
    <3> QED
      BY <3>1, <3>2, <3>3
  <2>4. \A j \in Identities : remote_participants'[j] # None <=> j \in rust_participants
    BY <1>0, <1>3, <1>5 DEF ParticipantsInv, Mirror, PeopleAgree
  <2>5. \A j \in rust_participants \cup {Local}, u \in Tracks :
          /\ Has(j, u, publications)' <=> <<j, u>> \in rust_tracks
          /\ Has(j, u, subscribed)' <=> <<j, u>> \in rust_tracks /\ u \in rust_subscribed
          /\ Has(j, u, muted)' <=> <<j, u>> \in rust_tracks /\ u \in rust_muted
    <3> SUFFICES ASSUME NEW j \in rust_participants \cup {Local}, NEW u \in Tracks
                 PROVE  /\ Has(j, u, publications)' <=> <<j, u>> \in rust_tracks
                        /\ Has(j, u, subscribed)' <=> <<j, u>> \in rust_tracks /\ u \in rust_subscribed
                        /\ Has(j, u, muted)' <=> <<j, u>> \in rust_tracks /\ u \in rust_muted
      OBVIOUS
    <3>1. CASE j = i /\ u = event.what
      <4>1. Has(j, u, publications)' <=> <<j, u>> \in rust_tracks
        BY <1>0, <1>1, <1>3, <2>3, <3>1 DEF ParticipantsInv, Mirror, PublicationsAgree, Busy
      <4>2. Has(j, u, subscribed)' <=> <<j, u>> \in rust_tracks /\ u \in rust_subscribed
        BY <1>0, <1>1, <1>3, <2>3, <3>1 DEF ParticipantsInv, Mirror, SubscriptionsAgree, Busy
      <4>3. Has(j, u, muted)' <=> <<j, u>> \in rust_tracks /\ u \in rust_muted
        BY <1>0, <1>1, <1>3, <2>3, <3>1 DEF ParticipantsInv, Mirror, MutesAgree, Busy
      <4> QED
        BY <4>1, <4>2, <4>3
    <3>2. CASE j # i \/ u # event.what
      <4>1. /\ Has(j, u, publications) <=> <<j, u>> \in rust_tracks
            /\ Has(j, u, subscribed) <=> <<j, u>> \in rust_tracks /\ u \in rust_subscribed
            /\ Has(j, u, muted) <=> <<j, u>> \in rust_tracks /\ u \in rust_muted
        BY <1>1, <1>3, <3>2 DEF ParticipantsInv, Mirror, PublicationsAgree, SubscriptionsAgree, MutesAgree, Busy
      <4>2. j \in Everybody
        BY DEF ParticipantsInv, RustOK, Everybody
      <4> QED
        BY <2>2, <3>2, <4>1, <4>2
    <3> QED
      BY <3>1, <3>2
  <2>6. rust_news' = {}
    BY <1>0, <1>3, <1>5 DEF ParticipantsInv, Mirror, NewsStored
  <2>7. (Connected => AllAgree)'
    BY <1>4, <1>5, <2>4, <2>5, <2>6 DEF AllAgree, Handled
  <2> QED
    BY <2>7, AgreeMirror, PTL
<1>10. Pointers'
  BY <1>2, <1>4, <1>5, <1>7, FoundAlive DEF ParticipantsInv, Pointers, PointersValid, Alive, Handled
<1> QED
  BY <1>7, <1>8, <1>9, <1>10 DEF ParticipantsInv

\* A track is given to its publication.
LEMMA OnTrackSubscribedStep ==
  ASSUME ParticipantsInv, OnTrackSubscribed
  PROVE  ParticipantsInv'
<1>0. at = "handle" /\ event.kind = "track_subscribed" /\ Found # {}
  BY DEF OnTrackSubscribed, Handles
<1>1. PICK i \in rust_participants : event.who = {i} /\ <<i, event.what>> \in rust_tracks /\ event.what \in rust_subscribed
  BY <1>0 DEF ParticipantsInv, EventTells
<1>2. /\ i \in Everybody /\ FindAll(event.who) = Find(i) /\ FindAll(event.who) # {}
      /\ \A o, u : <<o, u>> \in Found <=> <<o, u>> \in publications /\ o \in Find(i) /\ u = event.what
      /\ Found = {} <=> ~Has(i, event.what, publications)
  BY <1>0, <1>1, FoundFacts DEF ParticipantsInv, RustOK, Everybody
<1>3. Connected
  BY <1>0, <1>2, FoundConnected
<1>4. Handled /\ held' = Find(i)
  BY <1>0, <1>2 DEF OnTrackSubscribed, Notify, Goto, Handled, rustVars
<1>5. /\ remote_participants' = remote_participants /\ joins' = joins /\ moved_out' = moved_out /\ kept' = kept
      /\ rust_news' = rust_news
  BY DEF OnTrackSubscribed, rustVars
<1>6. /\ \A o, u : <<o, u>> \in publications' <=> <<o, u>> \in publications
      /\ \A o, u : <<o, u>> \in subscribed' <=> <<o, u>> \in subscribed \/ (<<o, u>> \in publications /\ o \in Find(i) /\ u = event.what)
      /\ \A o, u : <<o, u>> \in muted' <=> <<o, u>> \in muted
  <2>0. publications' = publications /\ subscribed' = subscribed \cup Found /\ muted' = muted
    BY DEF OnTrackSubscribed
  <2>1. \A o, u : <<o, u>> \in publications' <=> <<o, u>> \in publications
    BY <1>2, <2>0
  <2>2. \A o, u : <<o, u>> \in subscribed' <=> <<o, u>> \in subscribed \/ (<<o, u>> \in publications /\ o \in Find(i) /\ u = event.what)
    BY <1>2, <2>0 DEF ParticipantsInv, ObjectsOK
  <2>3. \A o, u : <<o, u>> \in muted' <=> <<o, u>> \in muted
    BY <1>2, <2>0
  <2> QED
    BY <2>1, <2>2, <2>3
<1>7. /\ LoopOK' /\ RustOK' /\ EventTells' /\ Informed' /\ Leftovers'
      /\ (Connected' <=> Connected) /\ ~Pending'
  BY <1>4, <1>5, HandlerFrame
<1>8. ObjectsOK'
  <2>1. \A o \in Find(i) : o \in 1 .. joins \/ o = LocalObject
    BY <1>2, FindFacts, ParticipantsAssumption DEF ParticipantsInv, ObjectsOK, Everybody, None
  <2>2. \A x \in publications' : x = <<x[1], x[2]>> /\ (x[1] \in 1 .. joins \/ x[1] = LocalObject)
    BY <1>2, <2>1 DEF ParticipantsInv, ObjectsOK, OnTrackSubscribed
  <2>3. subscribed' \subseteq publications' /\ muted' \subseteq publications'
    BY <1>2 DEF ParticipantsInv, ObjectsOK, OnTrackSubscribed, Found
  <2> QED
    BY <1>5, <1>7, <2>2, <2>3 DEF ParticipantsInv, ObjectsOK
<1>9. Mirror'
  <2>1. \A j : Find(j)' = Find(j)
    BY <1>4, <1>5 DEF Find, Handled
  <2>2. \A j \in Everybody : \A u : j # i \/ u # event.what =>
          /\ Has(j, u, publications)' <=> Has(j, u, publications)
          /\ Has(j, u, subscribed)' <=> Has(j, u, subscribed)
          /\ Has(j, u, muted)' <=> Has(j, u, muted)
    <3>1. \A j \in Everybody : \A o : o \in Find(j) /\ o \in Find(i) => j = i
      BY <1>2, FindFacts DEF ParticipantsInv
    <3>2. \A j \in Everybody : \A u : j # i \/ u # event.what => (Has(j, u, publications)' <=> Has(j, u, publications))
      BY <1>6, <2>1, <3>1 DEF Has
    <3>3. \A j \in Everybody : \A u : j # i \/ u # event.what => (Has(j, u, subscribed)' <=> Has(j, u, subscribed))
      BY <1>6, <2>1, <3>1 DEF Has
    <3>4. \A j \in Everybody : \A u : j # i \/ u # event.what => (Has(j, u, muted)' <=> Has(j, u, muted))
      BY <1>6, <2>1, <3>1 DEF Has
    <3> QED
      BY <3>2, <3>3, <3>4
  <2>3. /\ \A u : u = event.what => (Has(i, u, publications)' <=> Has(i, u, publications))
        /\ \A u : u = event.what => Has(i, u, subscribed)'
        /\ \A u : u = event.what => (Has(i, u, muted)' <=> Has(i, u, muted))
    <3>1. \A u : u = event.what => (Has(i, u, publications)' <=> Has(i, u, publications))
      BY <1>2, <1>6, <2>1 DEF Has
    <3>2. \A u : u = event.what => Has(i, u, subscribed)'
      BY <1>0, <1>2, <1>6, <2>1 DEF Has, ParticipantsInv, ObjectsOK
    <3>3. \A u : u = event.what => (Has(i, u, muted)' <=> Has(i, u, muted))
      BY <1>2, <1>6, <2>1 DEF Has
    <3> QED
      BY <3>1, <3>2, <3>3
  <2>4. \A j \in Identities : remote_participants'[j] # None <=> j \in rust_participants
    BY <1>0, <1>3, <1>5 DEF ParticipantsInv, Mirror, PeopleAgree
  <2>5. \A j \in rust_participants \cup {Local}, u \in Tracks :
          /\ Has(j, u, publications)' <=> <<j, u>> \in rust_tracks
          /\ Has(j, u, subscribed)' <=> <<j, u>> \in rust_tracks /\ u \in rust_subscribed
          /\ Has(j, u, muted)' <=> <<j, u>> \in rust_tracks /\ u \in rust_muted
    <3> SUFFICES ASSUME NEW j \in rust_participants \cup {Local}, NEW u \in Tracks
                 PROVE  /\ Has(j, u, publications)' <=> <<j, u>> \in rust_tracks
                        /\ Has(j, u, subscribed)' <=> <<j, u>> \in rust_tracks /\ u \in rust_subscribed
                        /\ Has(j, u, muted)' <=> <<j, u>> \in rust_tracks /\ u \in rust_muted
      OBVIOUS
    <3>1. CASE j = i /\ u = event.what
      <4>1. Has(j, u, publications)' <=> <<j, u>> \in rust_tracks
        BY <1>0, <1>1, <1>3, <2>3, <3>1 DEF ParticipantsInv, Mirror, PublicationsAgree, Busy
      <4>2. Has(j, u, subscribed)' <=> <<j, u>> \in rust_tracks /\ u \in rust_subscribed
        BY <1>0, <1>1, <1>3, <2>3, <3>1 DEF ParticipantsInv, Mirror, SubscriptionsAgree, Busy
      <4>3. Has(j, u, muted)' <=> <<j, u>> \in rust_tracks /\ u \in rust_muted
        BY <1>0, <1>1, <1>3, <2>3, <3>1 DEF ParticipantsInv, Mirror, MutesAgree, Busy
      <4> QED
        BY <4>1, <4>2, <4>3
    <3>2. CASE j # i \/ u # event.what
      <4>1. /\ Has(j, u, publications) <=> <<j, u>> \in rust_tracks
            /\ Has(j, u, subscribed) <=> <<j, u>> \in rust_tracks /\ u \in rust_subscribed
            /\ Has(j, u, muted) <=> <<j, u>> \in rust_tracks /\ u \in rust_muted
        BY <1>1, <1>3, <3>2 DEF ParticipantsInv, Mirror, PublicationsAgree, SubscriptionsAgree, MutesAgree, Busy
      <4>2. j \in Everybody
        BY DEF ParticipantsInv, RustOK, Everybody
      <4> QED
        BY <2>2, <3>2, <4>1, <4>2
    <3> QED
      BY <3>1, <3>2
  <2>6. rust_news' = {}
    BY <1>0, <1>3, <1>5 DEF ParticipantsInv, Mirror, NewsStored
  <2>7. (Connected => AllAgree)'
    BY <1>4, <1>5, <2>4, <2>5, <2>6 DEF AllAgree, Handled
  <2> QED
    BY <2>7, AgreeMirror, PTL
<1>10. Pointers'
  BY <1>2, <1>4, <1>5, <1>7, FoundAlive DEF ParticipantsInv, Pointers, PointersValid, Alive, Handled
<1> QED
  BY <1>7, <1>8, <1>9, <1>10 DEF ParticipantsInv

\* A track is taken from its publication.
LEMMA OnTrackUnsubscribedStep ==
  ASSUME ParticipantsInv, OnTrackUnsubscribed
  PROVE  ParticipantsInv'
<1>0. at = "handle" /\ event.kind = "track_unsubscribed" /\ Found # {}
  BY DEF OnTrackUnsubscribed, Handles
<1>1. PICK i \in rust_participants : event.who = {i} /\ <<i, event.what>> \in rust_tracks /\ event.what \notin rust_subscribed
  BY <1>0 DEF ParticipantsInv, EventTells
<1>2. /\ i \in Everybody /\ FindAll(event.who) = Find(i) /\ FindAll(event.who) # {}
      /\ \A o, u : <<o, u>> \in Found <=> <<o, u>> \in publications /\ o \in Find(i) /\ u = event.what
      /\ Found = {} <=> ~Has(i, event.what, publications)
  BY <1>0, <1>1, FoundFacts DEF ParticipantsInv, RustOK, Everybody
<1>3. Connected
  BY <1>0, <1>2, FoundConnected
<1>4. Handled /\ held' = Find(i)
  BY <1>0, <1>2 DEF OnTrackUnsubscribed, Notify, Goto, Handled, rustVars
<1>5. /\ remote_participants' = remote_participants /\ joins' = joins /\ moved_out' = moved_out /\ kept' = kept
      /\ rust_news' = rust_news
  BY DEF OnTrackUnsubscribed, rustVars
<1>6. /\ \A o, u : <<o, u>> \in publications' <=> <<o, u>> \in publications
      /\ \A o, u : <<o, u>> \in subscribed' <=> <<o, u>> \in subscribed /\ ~(<<o, u>> \in publications /\ o \in Find(i) /\ u = event.what)
      /\ \A o, u : <<o, u>> \in muted' <=> <<o, u>> \in muted
  <2>0. publications' = publications /\ subscribed' = subscribed \ Found /\ muted' = muted
    BY DEF OnTrackUnsubscribed
  <2>1. \A o, u : <<o, u>> \in publications' <=> <<o, u>> \in publications
    BY <1>2, <2>0
  <2>2. \A o, u : <<o, u>> \in subscribed' <=> <<o, u>> \in subscribed /\ ~(<<o, u>> \in publications /\ o \in Find(i) /\ u = event.what)
    BY <1>2, <2>0 DEF ParticipantsInv, ObjectsOK
  <2>3. \A o, u : <<o, u>> \in muted' <=> <<o, u>> \in muted
    BY <1>2, <2>0
  <2> QED
    BY <2>1, <2>2, <2>3
<1>7. /\ LoopOK' /\ RustOK' /\ EventTells' /\ Informed' /\ Leftovers'
      /\ (Connected' <=> Connected) /\ ~Pending'
  BY <1>4, <1>5, HandlerFrame
<1>8. ObjectsOK'
  <2>1. \A o \in Find(i) : o \in 1 .. joins \/ o = LocalObject
    BY <1>2, FindFacts, ParticipantsAssumption DEF ParticipantsInv, ObjectsOK, Everybody, None
  <2>2. \A x \in publications' : x = <<x[1], x[2]>> /\ (x[1] \in 1 .. joins \/ x[1] = LocalObject)
    BY <1>2, <2>1 DEF ParticipantsInv, ObjectsOK, OnTrackUnsubscribed
  <2>3. subscribed' \subseteq publications' /\ muted' \subseteq publications'
    BY <1>2 DEF ParticipantsInv, ObjectsOK, OnTrackUnsubscribed, Found
  <2> QED
    BY <1>5, <1>7, <2>2, <2>3 DEF ParticipantsInv, ObjectsOK
<1>9. Mirror'
  <2>1. \A j : Find(j)' = Find(j)
    BY <1>4, <1>5 DEF Find, Handled
  <2>2. \A j \in Everybody : \A u : j # i \/ u # event.what =>
          /\ Has(j, u, publications)' <=> Has(j, u, publications)
          /\ Has(j, u, subscribed)' <=> Has(j, u, subscribed)
          /\ Has(j, u, muted)' <=> Has(j, u, muted)
    <3>1. \A j \in Everybody : \A o : o \in Find(j) /\ o \in Find(i) => j = i
      BY <1>2, FindFacts DEF ParticipantsInv
    <3>2. \A j \in Everybody : \A u : j # i \/ u # event.what => (Has(j, u, publications)' <=> Has(j, u, publications))
      BY <1>6, <2>1, <3>1 DEF Has
    <3>3. \A j \in Everybody : \A u : j # i \/ u # event.what => (Has(j, u, subscribed)' <=> Has(j, u, subscribed))
      BY <1>6, <2>1, <3>1 DEF Has
    <3>4. \A j \in Everybody : \A u : j # i \/ u # event.what => (Has(j, u, muted)' <=> Has(j, u, muted))
      BY <1>6, <2>1, <3>1 DEF Has
    <3> QED
      BY <3>2, <3>3, <3>4
  <2>3. /\ \A u : u = event.what => (Has(i, u, publications)' <=> Has(i, u, publications))
        /\ \A u : u = event.what => ~Has(i, u, subscribed)'
        /\ \A u : u = event.what => (Has(i, u, muted)' <=> Has(i, u, muted))
    <3>1. \A u : u = event.what => (Has(i, u, publications)' <=> Has(i, u, publications))
      BY <1>2, <1>6, <2>1 DEF Has
    <3>2. \A u : u = event.what => ~Has(i, u, subscribed)'
      BY <1>0, <1>2, <1>6, <2>1 DEF Has, ParticipantsInv, ObjectsOK
    <3>3. \A u : u = event.what => (Has(i, u, muted)' <=> Has(i, u, muted))
      BY <1>2, <1>6, <2>1 DEF Has
    <3> QED
      BY <3>1, <3>2, <3>3
  <2>4. \A j \in Identities : remote_participants'[j] # None <=> j \in rust_participants
    BY <1>0, <1>3, <1>5 DEF ParticipantsInv, Mirror, PeopleAgree
  <2>5. \A j \in rust_participants \cup {Local}, u \in Tracks :
          /\ Has(j, u, publications)' <=> <<j, u>> \in rust_tracks
          /\ Has(j, u, subscribed)' <=> <<j, u>> \in rust_tracks /\ u \in rust_subscribed
          /\ Has(j, u, muted)' <=> <<j, u>> \in rust_tracks /\ u \in rust_muted
    <3> SUFFICES ASSUME NEW j \in rust_participants \cup {Local}, NEW u \in Tracks
                 PROVE  /\ Has(j, u, publications)' <=> <<j, u>> \in rust_tracks
                        /\ Has(j, u, subscribed)' <=> <<j, u>> \in rust_tracks /\ u \in rust_subscribed
                        /\ Has(j, u, muted)' <=> <<j, u>> \in rust_tracks /\ u \in rust_muted
      OBVIOUS
    <3>1. CASE j = i /\ u = event.what
      <4>1. Has(j, u, publications)' <=> <<j, u>> \in rust_tracks
        BY <1>0, <1>1, <1>3, <2>3, <3>1 DEF ParticipantsInv, Mirror, PublicationsAgree, Busy
      <4>2. Has(j, u, subscribed)' <=> <<j, u>> \in rust_tracks /\ u \in rust_subscribed
        BY <1>0, <1>1, <1>3, <2>3, <3>1 DEF ParticipantsInv, Mirror, SubscriptionsAgree, Busy
      <4>3. Has(j, u, muted)' <=> <<j, u>> \in rust_tracks /\ u \in rust_muted
        BY <1>0, <1>1, <1>3, <2>3, <3>1 DEF ParticipantsInv, Mirror, MutesAgree, Busy
      <4> QED
        BY <4>1, <4>2, <4>3
    <3>2. CASE j # i \/ u # event.what
      <4>1. /\ Has(j, u, publications) <=> <<j, u>> \in rust_tracks
            /\ Has(j, u, subscribed) <=> <<j, u>> \in rust_tracks /\ u \in rust_subscribed
            /\ Has(j, u, muted) <=> <<j, u>> \in rust_tracks /\ u \in rust_muted
        BY <1>1, <1>3, <3>2 DEF ParticipantsInv, Mirror, PublicationsAgree, SubscriptionsAgree, MutesAgree, Busy
      <4>2. j \in Everybody
        BY DEF ParticipantsInv, RustOK, Everybody
      <4> QED
        BY <2>2, <3>2, <4>1, <4>2
    <3> QED
      BY <3>1, <3>2
  <2>6. rust_news' = {}
    BY <1>0, <1>3, <1>5 DEF ParticipantsInv, Mirror, NewsStored
  <2>7. (Connected => AllAgree)'
    BY <1>4, <1>5, <2>4, <2>5, <2>6 DEF AllAgree, Handled
  <2> QED
    BY <2>7, AgreeMirror, PTL
<1>10. Pointers'
  BY <1>2, <1>4, <1>5, <1>7, FoundAlive DEF ParticipantsInv, Pointers, PointersValid, Alive, Handled
<1> QED
  BY <1>7, <1>8, <1>9, <1>10 DEF ParticipantsInv

\* A publication is muted.
LEMMA OnTrackMutedStep ==
  ASSUME ParticipantsInv, OnTrackMuted
  PROVE  ParticipantsInv'
<1>0. at = "handle" /\ event.kind = "track_muted" /\ Found # {}
  BY DEF OnTrackMuted, Handles
<1>1. PICK i \in rust_participants \cup {Local} : event.who = {i} /\ <<i, event.what>> \in rust_tracks /\ event.what \in rust_muted
  BY <1>0 DEF ParticipantsInv, EventTells
<1>2. /\ i \in Everybody /\ FindAll(event.who) = Find(i) /\ FindAll(event.who) # {}
      /\ \A o, u : <<o, u>> \in Found <=> <<o, u>> \in publications /\ o \in Find(i) /\ u = event.what
      /\ Found = {} <=> ~Has(i, event.what, publications)
  BY <1>0, <1>1, FoundFacts DEF ParticipantsInv, RustOK, Everybody
<1>3. Connected
  BY <1>0, <1>2, FoundConnected
<1>4. Handled /\ held' = Find(i)
  BY <1>0, <1>2 DEF OnTrackMuted, Notify, Goto, Handled, rustVars
<1>5. /\ remote_participants' = remote_participants /\ joins' = joins /\ moved_out' = moved_out /\ kept' = kept
      /\ rust_news' = rust_news
  BY DEF OnTrackMuted, rustVars
<1>6. /\ \A o, u : <<o, u>> \in publications' <=> <<o, u>> \in publications
      /\ \A o, u : <<o, u>> \in subscribed' <=> <<o, u>> \in subscribed
      /\ \A o, u : <<o, u>> \in muted' <=> <<o, u>> \in muted \/ (<<o, u>> \in publications /\ o \in Find(i) /\ u = event.what)
  <2>0. publications' = publications /\ subscribed' = subscribed /\ muted' = muted \cup Found
    BY DEF OnTrackMuted
  <2>1. \A o, u : <<o, u>> \in publications' <=> <<o, u>> \in publications
    BY <1>2, <2>0
  <2>2. \A o, u : <<o, u>> \in subscribed' <=> <<o, u>> \in subscribed
    BY <1>2, <2>0
  <2>3. \A o, u : <<o, u>> \in muted' <=> <<o, u>> \in muted \/ (<<o, u>> \in publications /\ o \in Find(i) /\ u = event.what)
    BY <1>2, <2>0 DEF ParticipantsInv, ObjectsOK
  <2> QED
    BY <2>1, <2>2, <2>3
<1>7. /\ LoopOK' /\ RustOK' /\ EventTells' /\ Informed' /\ Leftovers'
      /\ (Connected' <=> Connected) /\ ~Pending'
  BY <1>4, <1>5, HandlerFrame
<1>8. ObjectsOK'
  <2>1. \A o \in Find(i) : o \in 1 .. joins \/ o = LocalObject
    BY <1>2, FindFacts, ParticipantsAssumption DEF ParticipantsInv, ObjectsOK, Everybody, None
  <2>2. \A x \in publications' : x = <<x[1], x[2]>> /\ (x[1] \in 1 .. joins \/ x[1] = LocalObject)
    BY <1>2, <2>1 DEF ParticipantsInv, ObjectsOK, OnTrackMuted
  <2>3. subscribed' \subseteq publications' /\ muted' \subseteq publications'
    BY <1>2 DEF ParticipantsInv, ObjectsOK, OnTrackMuted, Found
  <2> QED
    BY <1>5, <1>7, <2>2, <2>3 DEF ParticipantsInv, ObjectsOK
<1>9. Mirror'
  <2>1. \A j : Find(j)' = Find(j)
    BY <1>4, <1>5 DEF Find, Handled
  <2>2. \A j \in Everybody : \A u : j # i \/ u # event.what =>
          /\ Has(j, u, publications)' <=> Has(j, u, publications)
          /\ Has(j, u, subscribed)' <=> Has(j, u, subscribed)
          /\ Has(j, u, muted)' <=> Has(j, u, muted)
    <3>1. \A j \in Everybody : \A o : o \in Find(j) /\ o \in Find(i) => j = i
      BY <1>2, FindFacts DEF ParticipantsInv
    <3>2. \A j \in Everybody : \A u : j # i \/ u # event.what => (Has(j, u, publications)' <=> Has(j, u, publications))
      BY <1>6, <2>1, <3>1 DEF Has
    <3>3. \A j \in Everybody : \A u : j # i \/ u # event.what => (Has(j, u, subscribed)' <=> Has(j, u, subscribed))
      BY <1>6, <2>1, <3>1 DEF Has
    <3>4. \A j \in Everybody : \A u : j # i \/ u # event.what => (Has(j, u, muted)' <=> Has(j, u, muted))
      BY <1>6, <2>1, <3>1 DEF Has
    <3> QED
      BY <3>2, <3>3, <3>4
  <2>3. /\ \A u : u = event.what => (Has(i, u, publications)' <=> Has(i, u, publications))
        /\ \A u : u = event.what => (Has(i, u, subscribed)' <=> Has(i, u, subscribed))
        /\ \A u : u = event.what => Has(i, u, muted)'
    <3>1. \A u : u = event.what => (Has(i, u, publications)' <=> Has(i, u, publications))
      BY <1>2, <1>6, <2>1 DEF Has
    <3>2. \A u : u = event.what => (Has(i, u, subscribed)' <=> Has(i, u, subscribed))
      BY <1>2, <1>6, <2>1 DEF Has
    <3>3. \A u : u = event.what => Has(i, u, muted)'
      BY <1>0, <1>2, <1>6, <2>1 DEF Has, ParticipantsInv, ObjectsOK
    <3> QED
      BY <3>1, <3>2, <3>3
  <2>4. \A j \in Identities : remote_participants'[j] # None <=> j \in rust_participants
    BY <1>0, <1>3, <1>5 DEF ParticipantsInv, Mirror, PeopleAgree
  <2>5. \A j \in rust_participants \cup {Local}, u \in Tracks :
          /\ Has(j, u, publications)' <=> <<j, u>> \in rust_tracks
          /\ Has(j, u, subscribed)' <=> <<j, u>> \in rust_tracks /\ u \in rust_subscribed
          /\ Has(j, u, muted)' <=> <<j, u>> \in rust_tracks /\ u \in rust_muted
    <3> SUFFICES ASSUME NEW j \in rust_participants \cup {Local}, NEW u \in Tracks
                 PROVE  /\ Has(j, u, publications)' <=> <<j, u>> \in rust_tracks
                        /\ Has(j, u, subscribed)' <=> <<j, u>> \in rust_tracks /\ u \in rust_subscribed
                        /\ Has(j, u, muted)' <=> <<j, u>> \in rust_tracks /\ u \in rust_muted
      OBVIOUS
    <3>1. CASE j = i /\ u = event.what
      <4>1. Has(j, u, publications)' <=> <<j, u>> \in rust_tracks
        BY <1>0, <1>1, <1>3, <2>3, <3>1 DEF ParticipantsInv, Mirror, PublicationsAgree, Busy
      <4>2. Has(j, u, subscribed)' <=> <<j, u>> \in rust_tracks /\ u \in rust_subscribed
        BY <1>0, <1>1, <1>3, <2>3, <3>1 DEF ParticipantsInv, Mirror, SubscriptionsAgree, Busy
      <4>3. Has(j, u, muted)' <=> <<j, u>> \in rust_tracks /\ u \in rust_muted
        BY <1>0, <1>1, <1>3, <2>3, <3>1 DEF ParticipantsInv, Mirror, MutesAgree, Busy
      <4> QED
        BY <4>1, <4>2, <4>3
    <3>2. CASE j # i \/ u # event.what
      <4>1. /\ Has(j, u, publications) <=> <<j, u>> \in rust_tracks
            /\ Has(j, u, subscribed) <=> <<j, u>> \in rust_tracks /\ u \in rust_subscribed
            /\ Has(j, u, muted) <=> <<j, u>> \in rust_tracks /\ u \in rust_muted
        BY <1>1, <1>3, <3>2 DEF ParticipantsInv, Mirror, PublicationsAgree, SubscriptionsAgree, MutesAgree, Busy
      <4>2. j \in Everybody
        BY DEF ParticipantsInv, RustOK, Everybody
      <4> QED
        BY <2>2, <3>2, <4>1, <4>2
    <3> QED
      BY <3>1, <3>2
  <2>6. rust_news' = {}
    BY <1>0, <1>3, <1>5 DEF ParticipantsInv, Mirror, NewsStored
  <2>7. (Connected => AllAgree)'
    BY <1>4, <1>5, <2>4, <2>5, <2>6 DEF AllAgree, Handled
  <2> QED
    BY <2>7, AgreeMirror, PTL
<1>10. Pointers'
  BY <1>2, <1>4, <1>5, <1>7, FoundAlive DEF ParticipantsInv, Pointers, PointersValid, Alive, Handled
<1> QED
  BY <1>7, <1>8, <1>9, <1>10 DEF ParticipantsInv

\* A publication is unmuted.
LEMMA OnTrackUnmutedStep ==
  ASSUME ParticipantsInv, OnTrackUnmuted
  PROVE  ParticipantsInv'
<1>0. at = "handle" /\ event.kind = "track_unmuted" /\ Found # {}
  BY DEF OnTrackUnmuted, Handles
<1>1. PICK i \in rust_participants \cup {Local} : event.who = {i} /\ <<i, event.what>> \in rust_tracks /\ event.what \notin rust_muted
  BY <1>0 DEF ParticipantsInv, EventTells
<1>2. /\ i \in Everybody /\ FindAll(event.who) = Find(i) /\ FindAll(event.who) # {}
      /\ \A o, u : <<o, u>> \in Found <=> <<o, u>> \in publications /\ o \in Find(i) /\ u = event.what
      /\ Found = {} <=> ~Has(i, event.what, publications)
  BY <1>0, <1>1, FoundFacts DEF ParticipantsInv, RustOK, Everybody
<1>3. Connected
  BY <1>0, <1>2, FoundConnected
<1>4. Handled /\ held' = Find(i)
  BY <1>0, <1>2 DEF OnTrackUnmuted, Notify, Goto, Handled, rustVars
<1>5. /\ remote_participants' = remote_participants /\ joins' = joins /\ moved_out' = moved_out /\ kept' = kept
      /\ rust_news' = rust_news
  BY DEF OnTrackUnmuted, rustVars
<1>6. /\ \A o, u : <<o, u>> \in publications' <=> <<o, u>> \in publications
      /\ \A o, u : <<o, u>> \in subscribed' <=> <<o, u>> \in subscribed
      /\ \A o, u : <<o, u>> \in muted' <=> <<o, u>> \in muted /\ ~(<<o, u>> \in publications /\ o \in Find(i) /\ u = event.what)
  <2>0. publications' = publications /\ subscribed' = subscribed /\ muted' = muted \ Found
    BY DEF OnTrackUnmuted
  <2>1. \A o, u : <<o, u>> \in publications' <=> <<o, u>> \in publications
    BY <1>2, <2>0
  <2>2. \A o, u : <<o, u>> \in subscribed' <=> <<o, u>> \in subscribed
    BY <1>2, <2>0
  <2>3. \A o, u : <<o, u>> \in muted' <=> <<o, u>> \in muted /\ ~(<<o, u>> \in publications /\ o \in Find(i) /\ u = event.what)
    BY <1>2, <2>0 DEF ParticipantsInv, ObjectsOK
  <2> QED
    BY <2>1, <2>2, <2>3
<1>7. /\ LoopOK' /\ RustOK' /\ EventTells' /\ Informed' /\ Leftovers'
      /\ (Connected' <=> Connected) /\ ~Pending'
  BY <1>4, <1>5, HandlerFrame
<1>8. ObjectsOK'
  <2>1. \A o \in Find(i) : o \in 1 .. joins \/ o = LocalObject
    BY <1>2, FindFacts, ParticipantsAssumption DEF ParticipantsInv, ObjectsOK, Everybody, None
  <2>2. \A x \in publications' : x = <<x[1], x[2]>> /\ (x[1] \in 1 .. joins \/ x[1] = LocalObject)
    BY <1>2, <2>1 DEF ParticipantsInv, ObjectsOK, OnTrackUnmuted
  <2>3. subscribed' \subseteq publications' /\ muted' \subseteq publications'
    BY <1>2 DEF ParticipantsInv, ObjectsOK, OnTrackUnmuted, Found
  <2> QED
    BY <1>5, <1>7, <2>2, <2>3 DEF ParticipantsInv, ObjectsOK
<1>9. Mirror'
  <2>1. \A j : Find(j)' = Find(j)
    BY <1>4, <1>5 DEF Find, Handled
  <2>2. \A j \in Everybody : \A u : j # i \/ u # event.what =>
          /\ Has(j, u, publications)' <=> Has(j, u, publications)
          /\ Has(j, u, subscribed)' <=> Has(j, u, subscribed)
          /\ Has(j, u, muted)' <=> Has(j, u, muted)
    <3>1. \A j \in Everybody : \A o : o \in Find(j) /\ o \in Find(i) => j = i
      BY <1>2, FindFacts DEF ParticipantsInv
    <3>2. \A j \in Everybody : \A u : j # i \/ u # event.what => (Has(j, u, publications)' <=> Has(j, u, publications))
      BY <1>6, <2>1, <3>1 DEF Has
    <3>3. \A j \in Everybody : \A u : j # i \/ u # event.what => (Has(j, u, subscribed)' <=> Has(j, u, subscribed))
      BY <1>6, <2>1, <3>1 DEF Has
    <3>4. \A j \in Everybody : \A u : j # i \/ u # event.what => (Has(j, u, muted)' <=> Has(j, u, muted))
      BY <1>6, <2>1, <3>1 DEF Has
    <3> QED
      BY <3>2, <3>3, <3>4
  <2>3. /\ \A u : u = event.what => (Has(i, u, publications)' <=> Has(i, u, publications))
        /\ \A u : u = event.what => (Has(i, u, subscribed)' <=> Has(i, u, subscribed))
        /\ \A u : u = event.what => ~Has(i, u, muted)'
    <3>1. \A u : u = event.what => (Has(i, u, publications)' <=> Has(i, u, publications))
      BY <1>2, <1>6, <2>1 DEF Has
    <3>2. \A u : u = event.what => (Has(i, u, subscribed)' <=> Has(i, u, subscribed))
      BY <1>2, <1>6, <2>1 DEF Has
    <3>3. \A u : u = event.what => ~Has(i, u, muted)'
      BY <1>0, <1>2, <1>6, <2>1 DEF Has, ParticipantsInv, ObjectsOK
    <3> QED
      BY <3>1, <3>2, <3>3
  <2>4. \A j \in Identities : remote_participants'[j] # None <=> j \in rust_participants
    BY <1>0, <1>3, <1>5 DEF ParticipantsInv, Mirror, PeopleAgree
  <2>5. \A j \in rust_participants \cup {Local}, u \in Tracks :
          /\ Has(j, u, publications)' <=> <<j, u>> \in rust_tracks
          /\ Has(j, u, subscribed)' <=> <<j, u>> \in rust_tracks /\ u \in rust_subscribed
          /\ Has(j, u, muted)' <=> <<j, u>> \in rust_tracks /\ u \in rust_muted
    <3> SUFFICES ASSUME NEW j \in rust_participants \cup {Local}, NEW u \in Tracks
                 PROVE  /\ Has(j, u, publications)' <=> <<j, u>> \in rust_tracks
                        /\ Has(j, u, subscribed)' <=> <<j, u>> \in rust_tracks /\ u \in rust_subscribed
                        /\ Has(j, u, muted)' <=> <<j, u>> \in rust_tracks /\ u \in rust_muted
      OBVIOUS
    <3>1. CASE j = i /\ u = event.what
      <4>1. Has(j, u, publications)' <=> <<j, u>> \in rust_tracks
        BY <1>0, <1>1, <1>3, <2>3, <3>1 DEF ParticipantsInv, Mirror, PublicationsAgree, Busy
      <4>2. Has(j, u, subscribed)' <=> <<j, u>> \in rust_tracks /\ u \in rust_subscribed
        BY <1>0, <1>1, <1>3, <2>3, <3>1 DEF ParticipantsInv, Mirror, SubscriptionsAgree, Busy
      <4>3. Has(j, u, muted)' <=> <<j, u>> \in rust_tracks /\ u \in rust_muted
        BY <1>0, <1>1, <1>3, <2>3, <3>1 DEF ParticipantsInv, Mirror, MutesAgree, Busy
      <4> QED
        BY <4>1, <4>2, <4>3
    <3>2. CASE j # i \/ u # event.what
      <4>1. /\ Has(j, u, publications) <=> <<j, u>> \in rust_tracks
            /\ Has(j, u, subscribed) <=> <<j, u>> \in rust_tracks /\ u \in rust_subscribed
            /\ Has(j, u, muted) <=> <<j, u>> \in rust_tracks /\ u \in rust_muted
        BY <1>1, <1>3, <3>2 DEF ParticipantsInv, Mirror, PublicationsAgree, SubscriptionsAgree, MutesAgree, Busy
      <4>2. j \in Everybody
        BY DEF ParticipantsInv, RustOK, Everybody
      <4> QED
        BY <2>2, <3>2, <4>1, <4>2
    <3> QED
      BY <3>1, <3>2
  <2>6. rust_news' = {}
    BY <1>0, <1>3, <1>5 DEF ParticipantsInv, Mirror, NewsStored
  <2>7. (Connected => AllAgree)'
    BY <1>4, <1>5, <2>4, <2>5, <2>6 DEF AllAgree, Handled
  <2> QED
    BY <2>7, AgreeMirror, PTL
<1>10. Pointers'
  BY <1>2, <1>4, <1>5, <1>7, FoundAlive DEF ParticipantsInv, Pointers, PointersValid, Alive, Handled
<1> QED
  BY <1>7, <1>8, <1>9, <1>10 DEF ParticipantsInv

\* A participant that has joined gets an object of its own, which has no publications.
LEMMA OnParticipantConnectedStep ==
  ASSUME ParticipantsInv, OnParticipantConnected
  PROVE  ParticipantsInv'
<1>0. at = "handle" /\ event.kind = "participant_connected" /\ Pending
  BY DEF OnParticipantConnected, Handles, Pending
<1>1. PICK i \in rust_participants : event.who = {i}
  BY <1>0 DEF ParticipantsInv, EventTells
<1>2. i \in Identities /\ i # Local /\ joins \in Nat /\ joins < MaxJoins /\ MaxJoins \in Nat
  BY <1>0, ParticipantsAssumption DEF ParticipantsInv, ObjectsOK, RustOK
<1>3. Handled /\ held' = {joins + 1} /\ kept' = {joins + 1} /\ joins' = joins + 1
  BY <1>0 DEF OnParticipantConnected, Notify, Goto, Handled, rustVars
<1>4. /\ publications' = publications /\ subscribed' = subscribed /\ muted' = muted /\ moved_out' = moved_out
      /\ rust_news' = rust_news
  BY DEF OnParticipantConnected, rustVars
<1>5. /\ \A j \in Identities \ {i} : remote_participants'[j] = remote_participants[j]
      /\ remote_participants[i] # None => remote_participants'[i] = remote_participants[i]
      /\ remote_participants[i] = None => remote_participants'[i] = joins + 1
      /\ remote_participants' \in [Identities -> 0 .. joins + 1]
  <2>1. remote_participants' = [j \in Identities |->
          IF j = i /\ remote_participants[j] = None THEN joins + 1 ELSE remote_participants[j]]
    BY <1>1 DEF OnParticipantConnected
  <2>2. remote_participants \in [Identities -> 0 .. joins]
    BY DEF ParticipantsInv, ObjectsOK
  <2> QED
    BY <1>2, <2>1, <2>2
<1>6. \A j \in Identities : remote_participants[j] \in 0 .. joins
  BY DEF ParticipantsInv, ObjectsOK
<1>7. /\ LoopOK' /\ RustOK' /\ EventTells' /\ Informed' /\ Leftovers'
      /\ (Connected' <=> Connected) /\ ~Pending'
  <2>1. ~Connected => \A j \in Identities : remote_participants[j] = None
    BY <1>0 DEF ParticipantsInv, Leftovers, Empty
  <2>2. ~Connected => \A j, k \in Identities : remote_participants'[j] # None /\ remote_participants'[k] # None => j = k
    BY <1>5, <2>1
  <2> QED
    BY <1>0, <1>3, <2>2, HandlerFrame
<1>8. ObjectsOK'
  <2>1. \A j, k \in Identities : remote_participants'[j] = remote_participants'[k] /\ remote_participants'[j] # None => j = k
    <3> SUFFICES ASSUME NEW j \in Identities, NEW k \in Identities, j # k,
                        remote_participants'[j] = remote_participants'[k], remote_participants'[j] # None
                 PROVE  FALSE
      OBVIOUS
    <3>1. \A m \in Identities : remote_participants[m] # joins + 1
      BY <1>2, <1>6
    <3> QED
      BY <1>5, <3>1 DEF ParticipantsInv, ObjectsOK
  <2>2. \A x \in publications' : x = <<x[1], x[2]>> /\ (x[1] \in 1 .. joins + 1 \/ x[1] = LocalObject)
    BY <1>2, <1>4 DEF ParticipantsInv, ObjectsOK
  <2> QED
    BY <1>2, <1>3, <1>4, <1>5, <1>7, <2>1, <2>2 DEF ParticipantsInv, ObjectsOK
<1>9. Mirror'
  <2> SUFFICES ASSUME Connected PROVE AllAgree'
    BY <1>7, AgreeMirror, PTL
  <2>1. \A j \in Identities : remote_participants'[j] # None <=> j \in rust_participants
    BY <1>1, <1>2, <1>5 DEF ParticipantsInv, Mirror, PeopleAgree, None
  <2>2. \A j \in rust_participants \cup {Local}, u \in Tracks :
          /\ Has(j, u, publications) <=> <<j, u>> \in rust_tracks
          /\ Has(j, u, subscribed) <=> <<j, u>> \in rust_tracks /\ u \in rust_subscribed
          /\ Has(j, u, muted) <=> <<j, u>> \in rust_tracks /\ u \in rust_muted
    BY <1>0 DEF ParticipantsInv, Mirror, PublicationsAgree, SubscriptionsAgree, MutesAgree, Busy
  <2>3. /\ \A j : j # i => Find(j)' = Find(j) \/ j \notin Everybody
        /\ remote_participants[i] # None => Find(i)' = Find(i)
        /\ remote_participants[i] = None => Find(i) = {} /\ Find(i)' = {joins + 1}
    BY <1>2, <1>3, <1>5 DEF Find, Handled, Everybody, None
  <2>4. \A u : <<joins + 1, u>> \notin publications
    BY <1>2 DEF ParticipantsInv, ObjectsOK, LocalObject
  <2>5. \A u : <<joins + 1, u>> \notin subscribed /\ <<joins + 1, u>> \notin muted
    BY <2>4 DEF ParticipantsInv, ObjectsOK
  <2>6. \A j \in Everybody : \A u : /\ Has(j, u, publications)' <=> Has(j, u, publications)
                                    /\ Has(j, u, subscribed)' <=> Has(j, u, subscribed)
                                    /\ Has(j, u, muted)' <=> Has(j, u, muted)
    <3> SUFFICES ASSUME NEW j \in Everybody, NEW u
                 PROVE  /\ Has(j, u, publications)' <=> Has(j, u, publications)
                        /\ Has(j, u, subscribed)' <=> Has(j, u, subscribed)
                        /\ Has(j, u, muted)' <=> Has(j, u, muted)
      OBVIOUS
    <3>1. CASE Find(j)' = Find(j)
      BY <1>4, <3>1 DEF Has
    <3>2. CASE j = i /\ Find(i) = {} /\ Find(i)' = {joins + 1}
      BY <1>4, <2>4, <2>5, <3>2 DEF Has
    <3> QED
      BY <2>3, <3>1, <3>2
  <2>7. rust_news' = {}
    BY <1>0, <1>4 DEF ParticipantsInv, Mirror, NewsStored
  <2>8. rust_participants \cup {Local} \subseteq Everybody
    BY DEF ParticipantsInv, RustOK, Everybody
  <2> QED
    BY <1>3, <2>1, <2>2, <2>6, <2>7, <2>8 DEF AllAgree, Handled
<1>10. Pointers'
  BY <1>3, <1>4, <1>7 DEF ParticipantsInv, Pointers, PointersValid, Alive, Handled
<1> QED
  BY <1>7, <1>8, <1>9, <1>10 DEF ParticipantsInv

\* A participant that has left is taken out of the map, with its publications.
LEMMA OnParticipantDisconnectedStep ==
  ASSUME ParticipantsInv, OnParticipantDisconnected
  PROVE  ParticipantsInv'
<1>0. at = "handle" /\ event.kind = "participant_disconnected" /\ FindAll(event.who) # {} /\ Connected
  BY FoundConnected DEF OnParticipantDisconnected, Handles
<1>1. PICK i \in Identities \ rust_participants : event.who = {i}
  BY <1>0 DEF ParticipantsInv, EventTells
<1>2. i # Local /\ FindAll(event.who) = Find(i) /\ i \in Everybody
  BY <1>1, FindFacts, ParticipantsAssumption DEF ParticipantsInv, Everybody
<1>3. Handled /\ held' = Find(i) /\ kept' = Find(i)
  BY <1>0, <1>2 DEF OnParticipantDisconnected, Notify, Goto, Handled, rustVars
<1>4. /\ joins' = joins /\ moved_out' = moved_out /\ rust_news' = rust_news
      /\ publications' = {x \in publications : x[1] \notin Find(i)}
      /\ subscribed' = {x \in subscribed : x[1] \notin Find(i)}
      /\ muted' = {x \in muted : x[1] \notin Find(i)}
  BY <1>2 DEF OnParticipantDisconnected, rustVars
<1>5. /\ \A j \in Identities \ {i} : remote_participants'[j] = remote_participants[j]
      /\ remote_participants'[i] = None
      /\ remote_participants' \in [Identities -> 0 .. joins]
  <2>1. remote_participants' = [j \in Identities |-> IF j = i THEN None ELSE remote_participants[j]]
    BY <1>1 DEF OnParticipantDisconnected
  <2>2. remote_participants \in [Identities -> 0 .. joins] /\ joins \in Nat
    BY ParticipantsAssumption DEF ParticipantsInv, ObjectsOK
  <2> QED
    BY <2>1, <2>2 DEF None
<1>6. /\ LoopOK' /\ RustOK' /\ EventTells' /\ Informed' /\ Leftovers'
      /\ (Connected' <=> Connected) /\ ~Pending'
  BY <1>0, <1>3, HandlerFrame
<1>7. ObjectsOK'
  <2>1. \A j, k \in Identities : remote_participants'[j] = remote_participants'[k] /\ remote_participants'[j] # None => j = k
    BY <1>5 DEF ParticipantsInv, ObjectsOK
  <2>2. \A x \in publications' : x = <<x[1], x[2]>> /\ (x[1] \in 1 .. joins \/ x[1] = LocalObject)
    BY <1>4 DEF ParticipantsInv, ObjectsOK
  <2>3. subscribed' \subseteq publications' /\ muted' \subseteq publications'
    BY <1>4 DEF ParticipantsInv, ObjectsOK
  <2> QED
    BY <1>4, <1>5, <1>6, <2>1, <2>2, <2>3 DEF ParticipantsInv, ObjectsOK
<1>8. Mirror'
  <2> SUFFICES AllAgree'
    BY <1>6, AgreeMirror, PTL
  <2>1. \A j \in Identities : remote_participants'[j] # None <=> j \in rust_participants
    BY <1>0, <1>1, <1>5 DEF ParticipantsInv, Mirror, PeopleAgree
  <2>2. \A j \in rust_participants \cup {Local}, u \in Tracks :
          /\ Has(j, u, publications) <=> <<j, u>> \in rust_tracks
          /\ Has(j, u, subscribed) <=> <<j, u>> \in rust_tracks /\ u \in rust_subscribed
          /\ Has(j, u, muted) <=> <<j, u>> \in rust_tracks /\ u \in rust_muted
    BY <1>0 DEF ParticipantsInv, Mirror, PublicationsAgree, SubscriptionsAgree, MutesAgree, Busy
  <2>3. \A j \in rust_participants \cup {Local} : j \in Everybody /\ j # i /\ Find(j)' = Find(j)
    BY <1>1, <1>2, <1>3, <1>5 DEF Find, Handled, Everybody, ParticipantsInv, RustOK
  <2>4. \A j \in Everybody : \A o : j # i /\ o \in Find(j) => o \notin Find(i)
    BY <1>2, FindFacts DEF ParticipantsInv
  <2>5. /\ \A o, u : o \notin Find(i) => (<<o, u>> \in publications' <=> <<o, u>> \in publications)
        /\ \A o, u : o \notin Find(i) => (<<o, u>> \in subscribed' <=> <<o, u>> \in subscribed)
        /\ \A o, u : o \notin Find(i) => (<<o, u>> \in muted' <=> <<o, u>> \in muted)
    BY <1>4
  <2>6. \A j \in rust_participants \cup {Local} : \A u :
          /\ Has(j, u, publications)' <=> Has(j, u, publications)
          /\ Has(j, u, subscribed)' <=> Has(j, u, subscribed)
          /\ Has(j, u, muted)' <=> Has(j, u, muted)
    BY <2>3, <2>4, <2>5 DEF Has
  <2>7. rust_news' = {}
    BY <1>0, <1>4 DEF ParticipantsInv, Mirror, NewsStored
  <2> QED
    BY <1>3, <2>1, <2>2, <2>6, <2>7 DEF AllAgree, Handled
<1>9. Pointers'
  BY <1>3, <1>4, <1>6 DEF ParticipantsInv, Pointers, PointersValid, Alive, Handled
<1> QED
  BY <1>6, <1>7, <1>8, <1>9 DEF ParticipantsInv

\* What the event names is unknown to a connected Room only if it is not there in Rust's view either.
LEMMA UnknownAgrees ==
  ASSUME ParticipantsInv, OnUnknown, Connected
  PROVE  AllAgree /\ event.kind # "track_subscribed" /\ event.kind # "track_unsubscribed"
<1>0. at = "handle" /\ Pending
  BY DEF OnUnknown, Pending
<1>1. \A i \in rust_participants \cup {Local} : i \in event.who /\ FindAll(event.who) = {} =>
        event.kind \in {"participant_connected", "participant_disconnected"} /\ event.who = {i}
  <2> SUFFICES ASSUME NEW i \in rust_participants \cup {Local}, i \in event.who, FindAll(event.who) = {},
                      ~(event.kind \in {"participant_connected", "participant_disconnected"} /\ event.who = {i})
               PROVE  FALSE
    OBVIOUS
  <2>1. Find(i) = {}
    BY DEF FindAll
  <2>2. CASE i = Local
    BY <2>1, <2>2 DEF Find, Connected
  <2>3. CASE i # Local
    <3>1. i \in Identities /\ remote_participants[i] # None
      BY <2>3 DEF ParticipantsInv, RustOK, Mirror, PeopleAgree
    <3> QED
      BY <2>1, <2>3, <3>1 DEF Find
  <2> QED
    BY <2>2, <2>3
<1>2. CASE event.kind \in {"participant_event", "e2ee_state", "subscription_failed", "local_track"}
  BY <1>2, QuietAgree DEF ParticipantsInv, TrackKinds
<1>3. CASE event.kind = "participant_disconnected"
  <2>1. PICK i \in Identities \ rust_participants : event.who = {i}
    BY <1>0, <1>3 DEF ParticipantsInv, EventTells
  <2>2. FindAll(event.who) = {}
    BY <1>3 DEF OnUnknown
  <2>3. remote_participants[i] = None
    BY <2>1, <2>2, ParticipantsAssumption DEF FindAll, Find
  <2>4. \A j \in Identities : remote_participants[j] # None <=> j \in rust_participants
    BY <2>1, <2>3 DEF ParticipantsInv, Mirror, PeopleAgree
  <2> QED
    BY <1>0, <1>3, <2>4 DEF ParticipantsInv, Mirror, PublicationsAgree, SubscriptionsAgree, MutesAgree, NewsStored,
         Busy, AllAgree
<1>4. CASE event.kind = "track_published"
  BY <1>0, <1>1, <1>4 DEF OnUnknown, ParticipantsInv, EventTells
<1>5. CASE event.kind = "participant_changed"
  <2>1. event.who # {} /\ event.who \subseteq rust_participants \cup {Local} /\ FindAll(event.who) = {}
    BY <1>0, <1>5 DEF OnUnknown, ParticipantsInv, EventTells
  <2> QED
    BY <1>1, <1>5, <2>1
<1>6. ASSUME event.kind \in {"track_subscribed", "track_unsubscribed", "track_muted", "track_unmuted"} PROVE FALSE
  <2>1. PICK i \in rust_participants \cup {Local} : event.who = {i} /\ <<i, event.what>> \in rust_tracks
    BY <1>0, <1>6 DEF ParticipantsInv, EventTells
  <2>2. event.what \in Tracks /\ i \in Everybody
    BY <2>1 DEF ParticipantsInv, RustOK, Tracks, Everybody
  <2>3. Has(i, event.what, publications)
    BY <1>6, <2>1, <2>2 DEF ParticipantsInv, Mirror, PublicationsAgree, Busy
  <2>4. Found = {}
    BY <1>6 DEF OnUnknown
  <2> QED
    BY <2>1, <2>2, <2>3, <2>4, FoundFacts DEF ParticipantsInv
<1>7. CASE event.kind = "track_unpublished"
  <2>1. PICK i \in rust_participants : event.who = {i} /\ <<i, event.what>> \notin rust_tracks
    BY <1>0, <1>7 DEF ParticipantsInv, EventTells
  <2>2. Found = {} /\ i \in Everybody
    BY <1>7 DEF OnUnknown, ParticipantsInv, RustOK, Everybody
  <2>3. ~Has(i, event.what, publications)
    BY <2>1, <2>2, FoundFacts DEF ParticipantsInv
  <2>4. ~Has(i, event.what, muted)
    BY <2>3 DEF Has, ParticipantsInv, ObjectsOK
  <2>5. \A j \in Identities : remote_participants[j] # None <=> j \in rust_participants
    BY <1>7 DEF ParticipantsInv, Mirror, PeopleAgree
  <2>6. \A j \in rust_participants \cup {Local}, u \in Tracks : Has(j, u, publications) <=> <<j, u>> \in rust_tracks
    BY <2>1, <2>3 DEF ParticipantsInv, Mirror, PublicationsAgree, Busy
  <2>7. \A j \in rust_participants \cup {Local}, u \in Tracks :
          Has(j, u, subscribed) <=> <<j, u>> \in rust_tracks /\ u \in rust_subscribed
    BY <1>7 DEF ParticipantsInv, Mirror, SubscriptionsAgree, Busy
  <2>8. \A j \in rust_participants \cup {Local}, u \in Tracks :
          Has(j, u, muted) <=> <<j, u>> \in rust_tracks /\ u \in rust_muted
    BY <2>1, <2>4 DEF ParticipantsInv, Mirror, MutesAgree, Busy
  <2> QED
    BY <1>7, <2>5, <2>6, <2>7, <2>8 DEF ParticipantsInv, Mirror, NewsStored, AllAgree
<1> QED
  BY <1>2, <1>3, <1>4, <1>5, <1>6, <1>7 DEF OnUnknown

\* onEvent() is done with an event and nothing but what the handler holds changes.
LEMMA FinishFrame ==
  ASSUME ParticipantsInv, Finish, UNCHANGED <<roomVars, rustVars>>,
         held' = {}, Connected => AllAgree,
         \A s \in handed' : Connected => s \in rust_used,
         Connected => \A s \in rust_subscribed : s \in handed' \cup threw',
         Connected => \A s \in handed' : \/ s \in rust_subscribed \cup UnknownSource \cup threw'
                                         \/ \A i \in Identities : <<i, s>> \notin rust_tracks,
         ~Connected /\ disconnect # "stop" =>
           /\ \A s, u \in handed' : s = u
           /\ handed' # {} => Empty
  PROVE  ParticipantsInv'
<1>1. /\ remote_participants' = remote_participants /\ joins' = joins /\ publications' = publications
      /\ subscribed' = subscribed /\ muted' = muted /\ moved_out' = moved_out
      /\ rust_participants' = rust_participants /\ rust_tracks' = rust_tracks /\ rust_subscribed' = rust_subscribed
      /\ rust_muted' = rust_muted /\ rust_news' = rust_news /\ rust_used' = rust_used
      /\ at' = "idle" /\ event' = NoEvent /\ room_state' = room_state /\ disconnect' = disconnect
  BY DEF roomVars, rustVars, Finish
<1>2. /\ (Connected' <=> Connected) /\ ~Pending' /\ ~ForDispatcher'
      /\ event'.who = {} /\ event'.kind = "none"
  BY <1>1 DEF Connected, Pending, ForDispatcher, NoEvent
<1>3. LoopOK'
  BY <1>1, <1>2 DEF ParticipantsInv, LoopOK
<1>4. ObjectsOK'
  BY <1>1, <1>2 DEF ParticipantsInv, ObjectsOK
<1>5. RustOK' /\ EventTells'
  BY <1>1, <1>2 DEF ParticipantsInv, RustOK, EventTells
<1>6. Mirror'
  <2>1. \A j : Find(j)' = Find(j)
    BY <1>1 DEF Find
  <2>2. \A j, u : /\ Has(j, u, publications)' <=> Has(j, u, publications)
                  /\ Has(j, u, subscribed)' <=> Has(j, u, subscribed)
                  /\ Has(j, u, muted)' <=> Has(j, u, muted)
    BY <1>1, <2>1 DEF Has
  <2>3. (Connected => AllAgree)'
    BY <1>1, <1>2, <2>2 DEF AllAgree
  <2> QED
    BY <2>3, AgreeMirror, PTL
<1>7. Pointers'
  BY <1>1, <1>2 DEF ParticipantsInv, Pointers, PointersValid
<1>8. Informed'
  BY <1>1, <1>2 DEF Informed
<1>9. Leftovers'
  BY <1>1, <1>2 DEF ParticipantsInv, Leftovers, Empty
<1> QED
  BY <1>3, <1>4, <1>5, <1>6, <1>7, <1>8, <1>9 DEF ParticipantsInv

\* A warning about something unknown.
LEMMA OnUnknownStep ==
  ASSUME ParticipantsInv, OnUnknown
  PROVE  ParticipantsInv'
<1>0. at = "handle" /\ Finish /\ UNCHANGED <<roomVars, rustVars>> /\ handed' = handed /\ threw' = threw /\ held' = held
  BY DEF OnUnknown, Unknown, participantVars, handlerVars
<1>1. held' = {}
  BY <1>0 DEF ParticipantsInv, Pointers
<1>2. Connected => AllAgree /\ event.kind # "track_subscribed" /\ event.kind # "track_unsubscribed"
  BY UnknownAgrees
<1>3. Connected => /\ \A s \in handed : s \in rust_used
                   /\ \A s \in rust_subscribed : s \in handed \cup threw
                   /\ \A s \in handed : \/ s \in rust_subscribed \cup UnknownSource \cup threw
                                        \/ \A i \in Identities : <<i, s>> \notin rust_tracks
  BY <1>2 DEF ParticipantsInv, Informed
<1>4. ~Connected /\ disconnect # "stop" => (\A s, u \in handed : s = u) /\ (handed # {} => Empty)
  BY DEF ParticipantsInv, Leftovers
<1> QED
  BY <1>0, <1>1, <1>2, <1>3, <1>4, FinishFrame

\* The Room has no handle any more: the event is ignored.
LEMMA OnEventIgnoredStep ==
  ASSUME ParticipantsInv, OnEventIgnored, UNCHANGED participantVars
  PROVE  ParticipantsInv'
<1>0. at = "check" /\ ~Connected /\ Finish /\ UNCHANGED <<roomVars, rustVars>> /\ handed' = handed /\ held' = held
  BY DEF OnEventIgnored, participantVars, handlerVars, Connected
<1>1. held' = {}
  BY <1>0 DEF ParticipantsInv, Pointers
<1>2. disconnect # "stop" => (\A s, u \in handed : s = u) /\ (handed # {} => Empty)
  BY <1>0 DEF ParticipantsInv, Leftovers
<1> QED
  BY <1>0, <1>1, <1>2, FinishFrame

\* The event is for this Room, and will be handled.
LEMMA OnEventCheckedStep ==
  ASSUME ParticipantsInv, OnEventChecked, UNCHANGED participantVars
  PROVE  ParticipantsInv'
<1>1. /\ remote_participants' = remote_participants /\ joins' = joins /\ publications' = publications
      /\ subscribed' = subscribed /\ muted' = muted /\ moved_out' = moved_out
      /\ rust_participants' = rust_participants /\ rust_tracks' = rust_tracks /\ rust_subscribed' = rust_subscribed
      /\ rust_muted' = rust_muted /\ rust_news' = rust_news /\ rust_used' = rust_used
      /\ kept' = kept /\ held' = held /\ handed' = handed /\ threw' = threw
  BY DEF participantVars, roomVars, rustVars, handlerVars
<1>2. at = "check" /\ at' = "handle" /\ event' = event /\ room_state' = room_state /\ disconnect' = disconnect /\ Connected
  BY DEF OnEventChecked, Goto, Connected
<1>3. Connected' /\ Pending /\ Pending'
  BY <1>2 DEF Connected, Pending
<1>4. LoopOK' /\ RustOK' /\ EventTells'
  BY <1>1, <1>2, <1>3 DEF ParticipantsInv, LoopOK, RustOK, EventTells
<1>5. ObjectsOK'
  BY <1>1, <1>2, <1>3 DEF ParticipantsInv, ObjectsOK
<1>6. Mirror'
  <2>1. \A j : Find(j)' = Find(j)
    BY <1>1, <1>2 DEF Find
  <2>2. \A j, u : /\ Has(j, u, publications)' <=> Has(j, u, publications)
                  /\ Has(j, u, subscribed)' <=> Has(j, u, subscribed)
                  /\ Has(j, u, muted)' <=> Has(j, u, muted)
    BY <1>1, <2>1 DEF Has
  <2>3. \A kinds, j, u : Busy(kinds, j, u)' <=> Busy(kinds, j, u)
    BY <1>2, <1>3 DEF Busy
  <2>4. PeopleAgree' /\ NewsStored'
    BY <1>1, <1>2, <1>3 DEF ParticipantsInv, Mirror, PeopleAgree, NewsStored
  <2>5. PublicationsAgree'
    BY <1>1, <1>2, <2>2, <2>3 DEF ParticipantsInv, Mirror, PublicationsAgree
  <2>6. SubscriptionsAgree'
    BY <1>1, <1>2, <2>2, <2>3 DEF ParticipantsInv, Mirror, SubscriptionsAgree
  <2>7. MutesAgree'
    BY <1>1, <1>2, <2>2, <2>3 DEF ParticipantsInv, Mirror, MutesAgree
  <2> QED
    BY <2>4, <2>5, <2>6, <2>7 DEF Mirror
<1>7. Pointers'
  BY <1>1, <1>2, <1>3 DEF ParticipantsInv, Pointers, PointersValid, Alive
<1>8. Informed' /\ Leftovers'
  BY <1>1, <1>2, <1>3 DEF ParticipantsInv, Informed, Leftovers
<1> QED
  BY <1>4, <1>5, <1>6, <1>7, <1>8 DEF ParticipantsInv

-----------------------------------------------------------------------------
(* After the unlock *)

\* The delegate returns.
LEMMA DelegateReturnsStep ==
  ASSUME ParticipantsInv, DelegateReturns
  PROVE  ParticipantsInv'
<1>0. /\ at = "delegate" /\ ~Pending /\ UNCHANGED <<roomVars, rustVars>>
      /\ handed' = handed /\ threw' = threw
  BY DEF DelegateReturns, Pending
<1>1. Connected => AllAgree
  BY <1>0, QuietAgree DEF ParticipantsInv
<1>2. CASE ForDispatcher
  <2>1. /\ remote_participants' = remote_participants /\ joins' = joins /\ publications' = publications
        /\ subscribed' = subscribed /\ muted' = muted /\ moved_out' = moved_out
        /\ rust_participants' = rust_participants /\ rust_tracks' = rust_tracks /\ rust_subscribed' = rust_subscribed
        /\ rust_muted' = rust_muted /\ rust_news' = rust_news /\ rust_used' = rust_used
        /\ kept' = kept /\ held' = held /\ event' = event /\ room_state' = room_state /\ disconnect' = disconnect
        /\ at' = "dispatch"
    BY <1>0, <1>2 DEF DelegateReturns, Goto, roomVars, rustVars
  <2>2. (Connected' <=> Connected) /\ ~Pending' /\ (ForDispatcher' <=> ForDispatcher)
    BY <2>1 DEF Connected, Pending, ForDispatcher
  <2>3. LoopOK' /\ RustOK' /\ EventTells'
    BY <1>0, <1>2, <2>1, <2>2 DEF ParticipantsInv, LoopOK, RustOK, EventTells
  <2>4. ObjectsOK'
    BY <2>1, <2>2 DEF ParticipantsInv, ObjectsOK
  <2>5. Mirror'
    <3>1. \A j : Find(j)' = Find(j)
      BY <2>1 DEF Find
    <3>2. \A j, u : /\ Has(j, u, publications)' <=> Has(j, u, publications)
                    /\ Has(j, u, subscribed)' <=> Has(j, u, subscribed)
                    /\ Has(j, u, muted)' <=> Has(j, u, muted)
      BY <2>1, <3>1 DEF Has
    <3>3. (Connected => AllAgree)'
      BY <1>1, <2>1, <2>2, <3>2 DEF AllAgree
    <3> QED
      BY <3>3, AgreeMirror, PTL
  <2>6. Pointers'
    BY <2>1, <2>2 DEF ParticipantsInv, Pointers, PointersValid, Alive
  <2>7. Informed' /\ Leftovers'
    BY <1>0, <1>2, <2>1, <2>2 DEF ParticipantsInv, Informed, Leftovers, Empty
  <2> QED
    BY <2>3, <2>4, <2>5, <2>6, <2>7 DEF ParticipantsInv
<1>3. CASE ~ForDispatcher
  <2>1. Finish /\ held' = {}
    BY <1>3 DEF DelegateReturns
  <2>2. Connected => /\ \A s \in handed : s \in rust_used
                     /\ \A s \in rust_subscribed : s \in handed \cup threw
                     /\ \A s \in handed : \/ s \in rust_subscribed \cup UnknownSource \cup threw
                                          \/ \A i \in Identities : <<i, s>> \notin rust_tracks
    BY <1>3 DEF ParticipantsInv, Informed, ForDispatcher
  <2>3. ~Connected /\ disconnect # "stop" => (\A s, u \in handed : s = u) /\ (handed # {} => Empty)
    BY DEF ParticipantsInv, Leftovers
  <2> QED
    BY <1>0, <1>1, <2>1, <2>2, <2>3, FinishFrame
<1> QED
  BY <1>2, <1>3

\* The delegate throws, and the dispatcher is not told.
LEMMA DelegateThrowsStep ==
  ASSUME ParticipantsInv, DelegateThrows
  PROVE  ParticipantsInv'
<1>0. /\ at = "delegate" /\ ~Pending /\ Finish /\ held' = {} /\ UNCHANGED <<roomVars, rustVars>> /\ handed' = handed
      /\ threw' = threw \cup {s \in Sids : ForDispatcher /\ s = event.what}
  BY DEF DelegateThrows, Pending
<1>1. Connected => AllAgree
  BY <1>0, QuietAgree DEF ParticipantsInv
<1>2. ASSUME Connected
      PROVE  /\ \A s \in handed : s \in rust_used
             /\ \A s \in rust_subscribed : s \in handed \cup threw'
             /\ \A s \in handed : \/ s \in rust_subscribed \cup UnknownSource \cup threw'
                                  \/ \A i \in Identities : <<i, s>> \notin rust_tracks
  <2>1. handed \subseteq rust_used /\ rust_used \subseteq Sids /\ rust_subscribed \subseteq rust_used
    BY <1>2 DEF ParticipantsInv, Informed, RustOK
  <2>2. \A s \in Sids : event.kind \in {"track_subscribed", "track_unsubscribed"} /\ event.what = s => s \in threw'
    BY <1>0 DEF ForDispatcher
  <2> QED
    BY <1>0, <1>2, <2>1, <2>2 DEF ParticipantsInv, Informed
<1>3. ~Connected /\ disconnect # "stop" => (\A s, u \in handed : s = u) /\ (handed # {} => Empty)
  BY DEF ParticipantsInv, Leftovers
<1> QED
  BY <1>0, <1>1, <1>2, <1>3, FinishFrame

\* The dispatcher is told that a track is subscribed, or is not any more.
LEMMA DispatchStep ==
  ASSUME ParticipantsInv, Dispatch
  PROVE  ParticipantsInv'
<1>0. /\ at = "dispatch" /\ ~Pending /\ Finish /\ held' = {} /\ UNCHANGED <<roomVars, rustVars>> /\ threw' = threw
      /\ event.kind \in {"track_subscribed", "track_unsubscribed"}
  BY DEF Dispatch, Pending, ParticipantsInv, LoopOK, ForDispatcher
<1>1. Connected => AllAgree
  BY <1>0, QuietAgree DEF ParticipantsInv
<1>2. /\ event.kind = "track_subscribed" => handed' = handed \cup {event.what} /\ event.what \in rust_subscribed
      /\ event.kind = "track_unsubscribed" =>
           /\ event.what \notin rust_subscribed
           /\ event.what \in UnknownSource => handed' = handed
           /\ event.what \notin UnknownSource => handed' = handed \ {event.what}
  BY <1>0 DEF Dispatch, ParticipantsInv, EventTells
<1>3. ASSUME Connected
      PROVE  /\ \A s \in handed' : s \in rust_used
             /\ \A s \in rust_subscribed : s \in handed' \cup threw
             /\ \A s \in handed' : \/ s \in rust_subscribed \cup UnknownSource \cup threw
                                   \/ \A i \in Identities : <<i, s>> \notin rust_tracks
  BY <1>0, <1>2, <1>3 DEF ParticipantsInv, Informed, RustOK
<1>4. ~Connected /\ disconnect # "stop" => (\A s, u \in handed' : s = u) /\ (handed' # {} => Empty)
  <2>1. ~Connected /\ disconnect # "stop" => handed = {} /\ Empty
    BY <1>0 DEF ParticipantsInv, Leftovers, ForDispatcher
  <2> QED
    BY <1>0, <1>2, <2>1
<1> QED
  BY <1>0, <1>1, <1>3, <1>4, FinishFrame

-----------------------------------------------------------------------------
(* shutdown() *)

\* The state is moved out of the Room.
LEMMA ShutdownClaimStep ==
  ASSUME ParticipantsInv, ShutdownClaim
  PROVE  ParticipantsInv'
<1>1. /\ joins' = joins /\ publications' = publications /\ subscribed' = subscribed /\ muted' = muted /\ kept' = kept
      /\ held' = held /\ handed' = handed /\ threw' = threw /\ at' = at /\ event' = event
      /\ rust_participants' = rust_participants /\ rust_tracks' = rust_tracks /\ rust_subscribed' = rust_subscribed
      /\ rust_muted' = rust_muted /\ rust_news' = rust_news /\ rust_used' = rust_used
      /\ room_state' = "released" /\ disconnect = "none" /\ disconnect' = "stop"
      /\ moved_out' = {LocalObject} \cup ({remote_participants[i] : i \in Identities} \ {None})
      /\ remote_participants' = [i \in Identities |-> None]
  BY DEF ShutdownClaim, Claim, handlerVars, rustVars
<1>2. Connected /\ ~Connected'
  BY <1>1 DEF ParticipantsInv, LoopOK, Connected
<1>3. (Pending' <=> Pending) /\ (ForDispatcher' <=> ForDispatcher) /\ Empty'
  BY <1>1 DEF Pending, ForDispatcher, Empty
<1>4. LoopOK' /\ RustOK' /\ EventTells'
  BY <1>1, <1>2, <1>3 DEF ParticipantsInv, LoopOK, RustOK, EventTells
<1>5. ObjectsOK'
  <2>1. remote_participants' \in [Identities -> 0 .. joins]
    BY <1>1, ParticipantsAssumption DEF ParticipantsInv, ObjectsOK, None
  <2> QED
    BY <1>1, <1>3, <2>1 DEF ParticipantsInv, ObjectsOK
<1>6. Mirror' /\ Informed'
  BY <1>2 DEF Mirror, Informed
<1>7. Pointers'
  BY <1>1, <1>2 DEF ParticipantsInv, Pointers, PointersValid, Alive
<1>8. Leftovers'
  BY <1>1, <1>3 DEF Leftovers, Empty
<1> QED
  BY <1>4, <1>5, <1>6, <1>7, <1>8 DEF ParticipantsInv

\* The other steps of shutdown() change neither the maps nor the event.
LEMMA ShutdownStep ==
  ASSUME ParticipantsInv, ShutdownStopAll \/ ShutdownRemove \/ ShutdownRelease
  PROVE  ParticipantsInv'
<1>1. /\ joins' = joins /\ remote_participants' = remote_participants /\ publications' = publications
      /\ subscribed' = subscribed /\ muted' = muted /\ kept' = kept /\ held' = held /\ threw' = threw /\ at' = at
      /\ event' = event /\ room_state' = room_state
      /\ rust_participants' = rust_participants /\ rust_tracks' = rust_tracks /\ rust_subscribed' = rust_subscribed
      /\ rust_muted' = rust_muted /\ rust_news' = rust_news /\ rust_used' = rust_used
      /\ disconnect \in {"stop", "remove", "wait"} /\ disconnect' \in {"remove", "wait", "done"}
      /\ handed' = {} \/ (handed' = handed /\ disconnect # "stop")
      /\ moved_out' = moved_out \/ (moved_out' = {} /\ at = "idle")
  BY DEF ShutdownStopAll, StopAll, ShutdownRemove, RemoveListener, ShutdownRelease, Release, handlerVars, rustVars,
       roomVars,
         participantVars
<1>2. ~Connected /\ ~Connected' /\ (Pending' <=> Pending) /\ (ForDispatcher' <=> ForDispatcher) /\ (Empty' <=> Empty)
  BY <1>1 DEF ParticipantsInv, LoopOK, Connected, Pending, ForDispatcher, Empty
<1>3. LoopOK' /\ RustOK' /\ EventTells'
  <2>1. LoopOK'
    BY <1>1, <1>2 DEF ParticipantsInv, LoopOK
  <2>2. RustOK'
    BY <1>1 DEF ParticipantsInv, RustOK
  <2>3. EventTells'
    BY <1>1 DEF ParticipantsInv, EventTells
  <2> QED
    BY <2>1, <2>2, <2>3
<1>4. ObjectsOK'
  BY <1>1, <1>2 DEF ParticipantsInv, ObjectsOK
<1>5. Mirror' /\ Informed'
  BY <1>2 DEF Mirror, Informed
<1>6. Pointers'
  BY <1>1, <1>2 DEF ParticipantsInv, Pointers, PointersValid, Alive
<1>7. Leftovers'
  BY <1>1, <1>2 DEF ParticipantsInv, Leftovers
<1> QED
  BY <1>3, <1>4, <1>5, <1>6, <1>7 DEF ParticipantsInv

-----------------------------------------------------------------------------
(* The invariant *)

\* The participants that connect() has found are in the map, with their publications.
LEMMA ParticipantsInit ==
  ASSUME Init
  PROVE  ParticipantsInv
<1>1. /\ at = "idle" /\ room_state = "connected" /\ disconnect = "none" /\ event.who = {} /\ event.kind = "none"
      /\ held = {} /\ handed = {} /\ moved_out = {} /\ subscribed = {} /\ muted = {}
      /\ rust_subscribed = {} /\ rust_muted = {} /\ rust_news = {}
  BY DEF Init, LoopInit, NoEvent
<1>2. Connected /\ ~Pending
  BY <1>1 DEF Connected, Pending
<1>3. /\ rust_participants \subseteq Identities
      /\ joins = Cardinality(rust_participants)
      /\ remote_participants \in [Identities -> 0 .. joins]
      /\ \A i \in Identities : remote_participants[i] # None <=> i \in rust_participants
      /\ \A i, j \in rust_participants : remote_participants[i] = remote_participants[j] => i = j
  BY DEF Init
<1>4. PICK tracks \in SUBSET (rust_participants \X Sids) :
        /\ \A x, y \in tracks : x[2] = y[2] => x = y
        /\ rust_tracks = tracks \cup {<<Local, LocalSid>>}
        /\ rust_used = {x[2] : x \in tracks}
        /\ publications = {<<remote_participants[x[1]], x[2]>> : x \in tracks} \cup {<<LocalObject, LocalSid>>}
  BY DEF Init
<1>5. joins \in 0 .. MaxJoins
  <2>1. IsFiniteSet(rust_participants) /\ Cardinality(rust_participants) <= Cardinality(Identities)
    BY <1>3, ParticipantsAssumption, FS_Subset
  <2>2. Cardinality(rust_participants) \in Nat /\ Cardinality(Identities) \in Nat
    BY <2>1, ParticipantsAssumption, FS_CardinalityType
  <2> QED
    BY <1>3, <2>1, <2>2, ParticipantsAssumption
<1>6. LoopOK
  BY <1>1, <1>2 DEF LoopOK
<1>7. ObjectsOK
  <2>1. \A x \in tracks : x[1] \in rust_participants /\ x[2] \in Sids /\ x = <<x[1], x[2]>>
    OBVIOUS
  <2>2. \A i \in rust_participants : remote_participants[i] \in 1 .. joins
    BY <1>3, <1>5 DEF None
  <2>3. \A x \in publications : x = <<x[1], x[2]>> /\ (x[1] \in 1 .. joins \/ x[1] = LocalObject)
    BY <1>4, <2>1, <2>2
  <2> QED
    BY <1>1, <1>2, <1>3, <1>5, <2>3 DEF ObjectsOK
<1>8. RustOK
  <2>1. \A x \in tracks : x[1] \in rust_participants /\ x[2] \in Sids /\ x[2] \in rust_used
    BY <1>4
  <2>2. \A x, y \in rust_tracks : x[2] = y[2] => x = y
    BY <1>4, <2>1, ParticipantsAssumption
  <2> QED
    BY <1>1, <1>3, <1>4, <2>1, <2>2 DEF RustOK
<1>9. AllAgree
  <2> SUFFICES ASSUME NEW j \in rust_participants \cup {Local}, NEW u \in Tracks
               PROVE  Has(j, u, publications) <=> <<j, u>> \in rust_tracks
    BY <1>1, <1>3 DEF AllAgree, Has
  <2>1. \A i \in rust_participants : i \in Identities /\ i # Local /\ Find(i) = {remote_participants[i]}
    BY <1>3, ParticipantsAssumption DEF Find
  <2>2. Find(Local) = {LocalObject}
    BY <1>1 DEF Find
  <2>3. \A i \in rust_participants : remote_participants[i] # LocalObject
    BY <1>3, <1>5, ParticipantsAssumption DEF LocalObject
  <2>4. \A x \in tracks : x[1] \in rust_participants /\ x[2] \in Sids /\ x = <<x[1], x[2]>>
    OBVIOUS
  <2>5. CASE j = Local
    <3>1. Has(j, u, publications) <=> <<LocalObject, u>> \in publications
      BY <2>2, <2>5 DEF Has
    <3>2. <<LocalObject, u>> \in publications <=> u = LocalSid
      BY <1>4, <2>3, <2>4
    <3>3. <<j, u>> \in rust_tracks <=> u = LocalSid
      BY <1>4, <2>1, <2>4, <2>5
    <3> QED
      BY <3>1, <3>2, <3>3
  <2>6. CASE j \in rust_participants
    <3>1. Has(j, u, publications) <=> <<remote_participants[j], u>> \in publications
      BY <2>1, <2>6 DEF Has
    <3>2. <<j, u>> \in rust_tracks <=> <<j, u>> \in tracks
      BY <1>4, <2>1, <2>6
    <3>3. ASSUME <<j, u>> \in tracks PROVE <<remote_participants[j], u>> \in publications
      BY <1>4, <3>3
    <3>4. ASSUME <<remote_participants[j], u>> \in publications PROVE <<j, u>> \in tracks
      <4>1. PICK x \in tracks : <<remote_participants[j], u>> = <<remote_participants[x[1]], x[2]>>
        BY <1>4, <2>3, <2>6, <3>4
      <4>2. x[1] = j /\ x[2] = u
        BY <1>3, <2>4, <2>6, <4>1
      <4> QED
        BY <2>4, <4>2
    <3> QED
      BY <3>1, <3>2, <3>3, <3>4
  <2> QED
    BY <2>5, <2>6
<1>10. Mirror
  BY <1>9, AgreeMirror
<1>11. EventTells /\ Pointers /\ Informed /\ Leftovers
  BY <1>1, <1>2 DEF EventTells, Pointers, PointersValid, Informed, Leftovers
<1> QED
  BY <1>6, <1>7, <1>8, <1>10, <1>11 DEF ParticipantsInv

\* Rust's steps.
LEMMA RustStep ==
  ASSUME ParticipantsInv, Rust
  PROVE  ParticipantsInv'
<1>1. ASSUME NEW who \in {{i} : i \in Everybody} \cup {rust_participants \cup {Local}}
      PROVE  who \in SUBSET Everybody
  BY DEF ParticipantsInv, RustOK, Everybody
<1>2. CASE \E i \in Identities : RustParticipantConnected(i) \/ RustParticipantDisconnected(i)
  BY <1>2, RustParticipantConnectedStep, RustParticipantDisconnectedStep
<1>3. CASE \E i \in Identities, s \in Sids : \/ RustTrackPublished(i, s) \/ RustTrackUnpublished(i, s)
                                             \/ RustTrackSubscribed(i, s) \/ RustTrackUnsubscribed(i, s)
  BY <1>3, RustTrackPublishedStep, RustTrackUnpublishedStep, RustTrackSubscribedStep, RustTrackUnsubscribedStep
<1>4. CASE \E i \in Everybody, s \in Tracks : RustTrackMuted(i, s) \/ RustTrackUnmuted(i, s)
  BY <1>4, RustTrackMutedStep, RustTrackUnmutedStep
<1>5. ASSUME NEW who \in {{i} : i \in Everybody} \cup {rust_participants \cup {Local}}, RustInfoChanged(who)
      PROVE  ParticipantsInv'
  BY <1>1, <1>5, RustInfoChangedStep
<1>6. ASSUME NEW who \in {{i} : i \in Everybody} \cup {rust_participants \cup {Local}},
             NEW kind \in {"participant_event", "e2ee_state", "subscription_failed", "data_packet", "active_speakers",
                           "local_track"},
             RustParticipantEvent(kind, who)
      PROVE  ParticipantsInv'
  <2>1. who \in SUBSET Everybody
    BY <1>1
  <2> QED
    BY <1>6, <2>1, RustParticipantEventStep
<1>7. CASE RustRoomInfoChanged \/ RustRoomEvent
  BY <1>7, RustRoomInfoChangedStep, RustRoomEventStep
<1> QED
  BY <1>2, <1>3, <1>4, <1>5, <1>6, <1>7 DEF Rust

\* The steps of onEvent().
LEMMA HandleStep ==
  ASSUME ParticipantsInv, Handle
  PROVE  ParticipantsInv'
<1>1. CASE (OnEventIgnored \/ OnEventChecked) /\ UNCHANGED participantVars
  BY <1>1, OnEventIgnoredStep, OnEventCheckedStep
<1>2. CASE OnParticipantConnected \/ OnParticipantDisconnected
  BY <1>2, OnParticipantConnectedStep, OnParticipantDisconnectedStep
<1>3. CASE \/ OnTrackPublished \/ OnTrackUnpublished \/ OnTrackSubscribed \/ OnTrackUnsubscribed
           \/ OnTrackMuted \/ OnTrackUnmuted \/ OnUnknown
  BY <1>3, OnTrackPublishedStep, OnTrackUnpublishedStep, OnTrackSubscribedStep, OnTrackUnsubscribedStep,
     OnTrackMutedStep, OnTrackUnmutedStep, OnUnknownStep
<1>4. CASE OnParticipantChanged \/ OnParticipantsUpdated
  BY <1>4, StoreInfoStep DEF OnParticipantChanged, OnParticipantsUpdated, Handles
<1>5. CASE OnRoomInfoChanged
  BY <1>5, OnRoomInfoChangedStep
<1>6. CASE \/ OnParticipantEvent \/ OnTrackSubscriptionFailed \/ OnE2eeStateChanged
           \/ OnActiveSpeakersChanged \/ OnDataPacketReceived \/ OnLocalTrackEvent \/ OnRoomEvent
  <2>1. /\ at = "handle"
        /\ event.kind \in {"participant_event", "subscription_failed", "e2ee_state", "active_speakers", "data_packet",
                           "local_track", "room_event"}
        /\ \E objects \in SUBSET FindAll(event.who) : Notify(objects)
        /\ UNCHANGED <<roomVars, kept, handed, threw, rustVars>>
    BY <1>6 DEF OnParticipantEvent, OnTrackSubscriptionFailed, OnE2eeStateChanged, OnActiveSpeakersChanged,
                OnDataPacketReceived, OnLocalTrackEvent, OnRoomEvent, Handles
  <2> QED
    BY <2>1, NoticeStep
<1>7. CASE DelegateReturns \/ DelegateThrows \/ Dispatch
  BY <1>7, DelegateReturnsStep, DelegateThrowsStep, DispatchStep
<1> QED
  BY <1>1, <1>2, <1>3, <1>4, <1>5, <1>6, <1>7 DEF Handle

\* A step of nobody.
LEMMA ParticipantsStutter ==
  ASSUME ParticipantsInv, UNCHANGED vars
  PROVE  ParticipantsInv'
<1>1. /\ remote_participants' = remote_participants /\ joins' = joins /\ publications' = publications
      /\ subscribed' = subscribed /\ muted' = muted /\ moved_out' = moved_out /\ kept' = kept /\ held' = held
      /\ handed' = handed /\ threw' = threw
      /\ rust_participants' = rust_participants /\ rust_tracks' = rust_tracks /\ rust_subscribed' = rust_subscribed
      /\ rust_muted' = rust_muted /\ rust_news' = rust_news /\ rust_used' = rust_used
      /\ at' = at /\ event' = event /\ room_state' = room_state /\ disconnect' = disconnect
  BY DEF vars, participantVars, roomVars, handlerVars, rustVars, loopVars
<1>2. LoopOK' /\ ObjectsOK' /\ RustOK' /\ EventTells'
  <2>1. LoopOK'
    BY <1>1 DEF ParticipantsInv, LoopOK, Connected, ForDispatcher
  <2>2. ObjectsOK'
    BY <1>1 DEF ParticipantsInv, ObjectsOK, Pending
  <2>3. RustOK'
    BY <1>1 DEF ParticipantsInv, RustOK
  <2>4. EventTells'
    BY <1>1 DEF ParticipantsInv, EventTells
  <2> QED
    BY <2>1, <2>2, <2>3, <2>4
<1>3. \A j, u : /\ Has(j, u, publications)' <=> Has(j, u, publications)
                /\ Has(j, u, subscribed)' <=> Has(j, u, subscribed)
                /\ Has(j, u, muted)' <=> Has(j, u, muted)
  BY <1>1 DEF Has, Find
<1>4. \A kinds, j, u : Busy(kinds, j, u)' <=> Busy(kinds, j, u)
  BY <1>1 DEF Busy, Pending
<1>5. Mirror'
  <2>1. PeopleAgree' <=> PeopleAgree
    BY <1>1 DEF PeopleAgree, Pending
  <2>2. PublicationsAgree' <=> PublicationsAgree
    BY <1>1, <1>3, <1>4 DEF PublicationsAgree
  <2>3. SubscriptionsAgree' <=> SubscriptionsAgree
    BY <1>1, <1>3, <1>4 DEF SubscriptionsAgree
  <2>4. MutesAgree' <=> MutesAgree
    BY <1>1, <1>3, <1>4 DEF MutesAgree
  <2>5. (NewsStored' <=> NewsStored) /\ (Connected' <=> Connected)
    BY <1>1 DEF NewsStored, Pending, Connected
  <2> QED
    BY <2>1, <2>2, <2>3, <2>4, <2>5 DEF ParticipantsInv, Mirror
<1>6. Pointers' /\ Informed' /\ Leftovers'
  BY <1>1 DEF ParticipantsInv, Pointers, PointersValid, Alive, Informed, Leftovers, Empty, Connected, ForDispatcher
<1> QED
  BY <1>2, <1>5, <1>6 DEF ParticipantsInv

\* ParticipantsInv is an invariant: it holds at the start and every step keeps it.
LEMMA ParticipantsInvariant == Spec => []ParticipantsInv
<1>1. ParticipantsInv /\ [Next]_vars => ParticipantsInv'
  BY RustStep, HandleStep, ShutdownClaimStep, ShutdownStep, ParticipantsStutter DEF Next
<1> QED
  BY <1>1, ParticipantsInit, PTL DEF Spec

-----------------------------------------------------------------------------
\* Whenever the Room handles no event, its participants, publications, subscriptions and mutes are those of
\* Rust; after disconnect() one late participant or one late track is left at most.
THEOREM RoomAgreesWithRust == Spec => []RoomMirrorsRust
<1>1. ASSUME ParticipantsInv PROVE RoomMirrorsRust
  <2>1. ASSUME at = "idle", Connected
        PROVE  /\ \A i \in Identities : remote_participants[i] # None <=> i \in rust_participants
               /\ rust_news = {}
               /\ \A i \in rust_participants \cup {Local} :
                    /\ TracksOf(i, publications) = RustTracksOf(i)
                    /\ TracksOf(i, subscribed) = RustTracksOf(i) \cap rust_subscribed
                    /\ TracksOf(i, muted) = RustTracksOf(i) \cap rust_muted
    <3>1. AllAgree
      BY <1>1, <2>1, QuietAgree DEF ParticipantsInv, Pending
    <3>2. \A i, pairs : TracksOf(i, pairs) = {s \in Tracks : Has(i, s, pairs)}
      BY DEF TracksOf, Has
    <3>3. ASSUME NEW i \in rust_participants \cup {Local}
          PROVE  /\ TracksOf(i, publications) = RustTracksOf(i)
                 /\ TracksOf(i, subscribed) = RustTracksOf(i) \cap rust_subscribed
                 /\ TracksOf(i, muted) = RustTracksOf(i) \cap rust_muted
      BY <3>1, <3>2 DEF AllAgree, RustTracksOf
    <3> QED
      BY <3>1, <3>3 DEF AllAgree
  <2>2. ASSUME disconnect = "done"
        PROVE  Cardinality({i \in Identities : remote_participants[i] # None}) + Cardinality(handed) <= 1
    <3> DEFINE left == {i \in Identities : remote_participants[i] # None}
    <3>1. ~Connected
      BY <1>1, <2>2 DEF ParticipantsInv, LoopOK
    <3>2. (\A i, j \in left : i = j) /\ (\A s, u \in handed : s = u) /\ (handed # {} => left = {})
      BY <1>1, <2>2, <3>1 DEF ParticipantsInv, Leftovers, Empty
    <3>3. ASSUME NEW S, \A x, y \in S : x = y
          PROVE  Cardinality(S) \in {0, 1}
      <4>1. CASE S = {}
        BY <4>1, FS_EmptySet
      <4>2. CASE \E x : S = {x}
        BY <4>2, FS_Singleton
      <4> QED
        BY <3>3, <4>1, <4>2
    <3>4. Cardinality({}) = 0
      BY FS_EmptySet
    <3> HIDE DEF left
    <3>5. Cardinality(left) + Cardinality(handed) <= 1
      <4>1. Cardinality(left) \in {0, 1} /\ Cardinality(handed) \in {0, 1}
        BY <3>2, <3>3
      <4>2. left = {} \/ handed = {}
        BY <3>2
      <4> QED
        BY <3>4, <4>1, <4>2
    <3> QED
      BY <3>5 DEF left
  <2> QED
    BY <2>1, <2>2 DEF RoomMirrorsRust, Connected
<1> QED
  BY <1>1, ParticipantsInvariant, PTL

\* The participants that an event points to live until the delegate has returned.
THEOREM ParticipantsOutliveEvents == Spec => []PointersValid
<1>1. ParticipantsInv => PointersValid
  BY DEF ParticipantsInv, Pointers
<1> QED
  BY <1>1, ParticipantsInvariant, PTL

\* The dispatcher knows which tracks are subscribed, save where the delegate threw, the source is unknown or the
\* participant left without unsubscribing.
THEOREM DispatcherKnowsTracks == Spec => []DispatcherInformed
<1>1. ParticipantsInv => DispatcherInformed
  BY DEF ParticipantsInv, Informed, LoopOK, DispatcherInformed
<1> QED
  BY <1>1, ParticipantsInvariant, PTL

=============================================================================
