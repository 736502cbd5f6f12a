----------------------------- MODULE RoomProofs -----------------------------
(***************************************************************************)
(* The lifecycle of a Room, for any number of threads and connections, of  *)
(* an application that calls connect() again only once its calls have      *)
(* returned and the last connection has been taken down (AtRest, for       *)
(* DirtyReconnect = FALSE).  The Room does not ask for that; what happens  *)
(* otherwise the runs Room_dirty_reconnect and Room_overlapping_connects   *)
(* show.                                                                   *)
(*                                                                         *)
(* The invariant says that everything there is belongs to the last         *)
(* connection, except what a thread that handles EOS still has in its      *)
(* hands; and that a listener, a published room and a disconnection to be  *)
(* reported have each one owner.                                           *)
(***************************************************************************)
EXTENDS Room, TLAPS

States == {"Disconnected", "Reconnecting", "Connected"}
RustStates == {"none", "connected", "ready", "closing", "eos"}
AppPlaces == {"idle"} \cup ConnectSteps \cup ShutdownSteps
FfiPlaces == {"idle", "check", "handle", "server_notify", "eos_notify", "rpc", "remove", "wait"}

\* connect() has not published its room yet.
Unpublished == {"add", "store", "request", "publish"}

\* A call that has taken the listener, and the room, out of the Room.
Taking == {"catch_remove", "catch_wait", "ffi_disconnect", "remove", "wait"}

Past == 1 .. connects

RoomTypeOK ==
  /\ connects \in 0 .. MaxConnects
  /\ connection_state \in States
  /\ listener_id \in {None, connects} /\ room_handle \in {None, connects}
  /\ registered \in SUBSET ({connects} \ {None})
  /\ rust \in [Connects -> RustStates]
  /\ freed \in SUBSET Past /\ eos_reported \in SUBSET Past /\ after_eos \in SUBSET Past /\ overtaken \in SUBSET Past
  /\ notified \in [Connects -> Nat]
  /\ destroying \in BOOLEAN /\ destroyed \in BOOLEAN

CallsOK ==
  /\ at \in [Threads -> AppPlaces \cup FfiPlaces]
  /\ mine \in [Threads -> 0 .. connects] /\ handle \in [Threads -> 0 .. connects]
  /\ listener_to_remove \in [Threads -> 0 .. connects] /\ claimed \in [Threads -> 0 .. connects]
  /\ inside \in [FfiThreads -> 0 .. connects]
  /\ event \in [FfiThreads -> [room : 0 .. connects, kind : EventKinds]]

\* The calls of the application: one connect() at a time, and what a call has is of the last connection.
AppInv ==
  /\ \A t \in AppThreads :
       /\ at[t] \in AppPlaces
       /\ at[t] \in ConnectSteps => mine[t] = connects /\ connects # None
       /\ handle[t] \in {None, connects} /\ claimed[t] \in {None, connects} /\ listener_to_remove[t] \in {None, connects}
       /\ at[t] \notin Taking => listener_to_remove[t] = None /\ handle[t] = None
       /\ at[t] \notin ShutdownSteps => claimed[t] = None
       /\ at[t] \in {"catch_wait", "wait"} => listener_to_remove[t] \notin registered
  /\ \A t, u \in AppThreads : at[t] \in ConnectSteps /\ at[u] \in ConnectSteps => t = u

\* The threads in onEvent(): what one has is of the room its event is about.
FfiInv ==
  \A t \in FfiThreads :
    /\ at[t] \in FfiPlaces
    /\ at[t] = "idle" <=> inside[t] = None
    /\ inside[t] # None => event[t].room # None /\ event[t].room <= inside[t]
    /\ at[t] \notin {"idle", "check"} => inside[t] = event[t].room
    /\ at[t] = "rpc" => event[t].kind = "rpc"
    /\ at[t] \in {"handle", "server_notify"} => event[t].kind # "rpc"
    /\ at[t] \in {"remove", "wait", "eos_notify"} => event[t].kind = "eos"
    /\ at[t] = "handle" => event[t].room = connects
    /\ at[t] \in {"remove", "wait"} => handle[t] \in {None, event[t].room} /\ listener_to_remove[t] \in {None, event[t].room}
    /\ at[t] \notin {"remove", "wait"} => handle[t] = None /\ listener_to_remove[t] = None
    /\ at[t] \in {"remove", "wait", "server_notify"} => claimed[t] \in {None, event[t].room}
    /\ at[t] \notin {"remove", "wait", "server_notify"} => claimed[t] = None
    /\ at[t] = "wait" => listener_to_remove[t] \notin registered

\* Rust gives the events of a room one after the other, and none before connect() has come so far.
EventsInv ==
  /\ \A t, u \in FfiThreads :
       t # u /\ inside[t] # None /\ inside[u] # None /\ event[t].kind # "rpc" /\ event[u].kind # "rpc" =>
         event[t].room # event[u].room
  /\ \A t \in FfiThreads : inside[t] # None /\ event[t].kind = "eos" =>
       <<inside[t], event[t].room, "disconnected">> \in delivered /\ <<inside[t], event[t].room, "eos">> \in delivered
  /\ \A n \in Connects : rust[n] \in {"none", "connected"} =>
       /\ \A t \in FfiThreads : inside[t] # None => event[t].room # n
       /\ \A l, k : <<l, n, k>> \notin delivered
  /\ \A n \in Connects : n > connects => rust[n] = "none"

\* The listener: known to the Room or to one call, and to nobody before it is stored.
ListenerInv ==
  /\ \A t \in AppThreads : at[t] \in {"add", "store"} => listener_id = None /\ \A u \in Threads : listener_to_remove[u] # connects
  /\ \A t \in AppThreads : at[t] = "store" => connects \in registered
  /\ listener_id # None => \A u \in Threads : listener_to_remove[u] # listener_id
  /\ \A l \in registered : \/ l = listener_id
                           \/ \E t \in Threads : listener_to_remove[t] = l \/ (at[t] = "store" /\ mine[t] = l)
  /\ \A t \in AppThreads : at[t] \in {"request", "publish"} /\ connects \notin overtaken => listener_id = connects /\ connects \in registered
  /\ room_handle # None /\ room_handle \notin overtaken => listener_id = room_handle /\ room_handle \in registered
  /\ \A t \in FfiThreads : at[t] \in {"check", "handle", "rpc", "server_notify"} =>
       inside[t] \in registered \/ \E w \in Threads : listener_to_remove[w] = inside[t]

\* The published room: there once, and freed by a call that has waited for those who use it.
HandleInv ==
  /\ \A t \in AppThreads : at[t] \in Unpublished =>
       /\ room_handle = None /\ connects \notin freed /\ rust[connects] \in {"none", "connected"}
       /\ \A u \in Threads : handle[u] # connects
  /\ room_handle # None => room_handle \notin freed /\ \A u \in Threads : handle[u] # room_handle
  /\ connection_state = "Connected" => room_handle # None
  /\ \A t \in Threads : handle[t] # None /\ handle[t] \notin overtaken => listener_to_remove[t] = handle[t]
  /\ RpcPointerValid

\* A thread is handling the end of the last room's events, and has found the room to be published.
EosOf(n, x) == at[x] \in {"handle", "remove", "wait", "eos_notify"} /\ event[x].kind = "eos" /\ event[x].room = n

\* The disconnection of a connection is reported by the call that made the state Disconnected.
ClaimInv ==
  /\ \A n \in Connects : n > connects => notified[n] = 0
  /\ \A n \in Connects \ overtaken : notified[n] <= 1
  /\ \A t \in Threads : claimed[t] # None /\ claimed[t] \notin overtaken =>
       notified[claimed[t]] = 0 /\ \A u \in Threads \ {t} : claimed[u] # claimed[t]
  /\ connection_state # "Disconnected" => connects # None
  /\ connection_state # "Disconnected" /\ connects \notin overtaken =>
       notified[connects] = 0 /\ \A u \in Threads : claimed[u] # connects
  /\ \A t \in AppThreads : at[t] \in Unpublished /\ connects \notin overtaken => connection_state # "Disconnected"

\* No report follows the report of the end of the room's events.
EosInv ==
  /\ after_eos \subseteq overtaken
  /\ \A n \in eos_reported : /\ <<n, n, "eos">> \in delivered
                             /\ \A u \in FfiThreads : inside[u] = n /\ event[u].room = n => event[u].kind = "rpc"
  /\ room_handle # None /\ room_handle \notin overtaken /\ <<room_handle, room_handle, "disconnected">> \in delivered =>
       \/ connection_state = "Disconnected"
       \/ \E u \in FfiThreads : /\ inside[u] = room_handle /\ at[u] \in {"check", "handle"}
                                /\ event[u].room = room_handle /\ event[u].kind = "disconnected"
  /\ connection_state # "Disconnected" /\ connects \notin overtaken =>
       connects \notin eos_reported /\ \A x \in FfiThreads : ~EosOf(connects, x)
  /\ \A t \in AppThreads : claimed[t] # None /\ claimed[t] \notin overtaken =>
       /\ claimed[t] \notin eos_reported /\ \A x \in FfiThreads : ~EosOf(claimed[t], x)
       /\ room_handle = None /\ \A u \in AppThreads : at[u] \notin Unpublished

\* A Room that is being destroyed has nothing any more, and only the destructor runs.
DestroyInv ==
  /\ destroyed => destroying /\ \A t \in AppThreads : at[t] = "idle"
  /\ destroying =>
       /\ listener_id = None /\ room_handle = None /\ connection_state = "Disconnected"
       /\ \A t \in AppThreads : at[t] \notin ConnectSteps
       /\ \A t, u \in AppThreads : at[t] # "idle" /\ at[u] # "idle" => t = u

RoomInv == RoomTypeOK /\ CallsOK /\ AppInv /\ FfiInv /\ EventsInv /\ ListenerInv /\ HandleInv /\ ClaimInv /\ EosInv /\ DestroyInv

-----------------------------------------------------------------------------
\* Between the events of the last room and a connect() that has not published it there is no overlap.
LEMMA NoneUnpublished ==
  ASSUME RoomInv, NEW t \in FfiThreads, inside[t] # None, event[t].room = connects
  PROVE  \A u \in AppThreads : at[u] \notin Unpublished
<1>1. connects \in Connects
  BY RoomAssumption DEF RoomInv, RoomTypeOK, FfiInv, Connects, None
<1>2. rust[connects] \notin {"none", "connected"}
  BY <1>1 DEF RoomInv, EventsInv
<1> QED
  BY <1>2 DEF RoomInv, HandleInv

\* A thread reports the disconnection it has claimed, if any.
LEMMA ReportOnce ==
  ASSUME RoomInv, NEW t \in Threads,
         connects' = connects, overtaken' = overtaken, connection_state' = connection_state,
         \A u \in AppThreads : at'[u] = at[u] \/ at'[u] = "idle",
         claimed'[t] = None, \A u \in Threads \ {t} : claimed'[u] = claimed[u],
         \A n \in Connects \ {claimed[t]} : notified'[n] = notified[n],
         claimed[t] # None => notified'[claimed[t]] = notified[claimed[t]] + 1
  PROVE  ClaimInv'
<1>1. /\ connects \in Nat /\ claimed[t] \in 0 .. connects
      /\ \A n \in Connects : n \in Nat /\ n # None /\ notified[n] \in Nat
      /\ \A u \in Threads : claimed[u] # None => claimed[u] \in Connects
      /\ connects # None => connects \in Connects
  BY RoomAssumption DEF RoomInv, RoomTypeOK, CallsOK, Connects, None
<1>2. \A n \in Connects : n > connects => notified'[n] = 0
  BY <1>1 DEF RoomInv, ClaimInv
<1>3. \A n \in Connects \ overtaken : notified'[n] <= 1
  <2> TAKE n \in Connects \ overtaken
  <2>1. CASE n = claimed[t]
    BY <1>1, <2>1 DEF RoomInv, ClaimInv
  <2>2. CASE n # claimed[t]
    BY <2>2 DEF RoomInv, ClaimInv
  <2> QED
    BY <2>1, <2>2
<1>4. \A u \in Threads : claimed'[u] # None /\ claimed'[u] \notin overtaken =>
        notified'[claimed'[u]] = 0 /\ \A w \in Threads \ {u} : claimed'[w] # claimed'[u]
  <2> SUFFICES ASSUME NEW u \in Threads, claimed'[u] # None, claimed'[u] \notin overtaken
               PROVE  notified'[claimed'[u]] = 0 /\ \A w \in Threads \ {u} : claimed'[w] # claimed'[u]
    OBVIOUS
  <2>1. u # t /\ claimed'[u] = claimed[u]
    OBVIOUS
  <2>2. notified[claimed[u]] = 0 /\ \A w \in Threads \ {u} : claimed[w] # claimed[u]
    BY <2>1 DEF RoomInv, ClaimInv
  <2> QED
    BY <1>1, <2>1, <2>2
<1>5. connection_state # "Disconnected" => connects # None
  BY DEF RoomInv, ClaimInv
<1>6. connection_state # "Disconnected" /\ connects \notin overtaken =>
        notified'[connects] = 0 /\ \A u \in Threads : claimed'[u] # connects
  BY <1>1, <1>5 DEF RoomInv, ClaimInv
<1>7. \A u \in AppThreads : at'[u] \in Unpublished /\ connects \notin overtaken => connection_state # "Disconnected"
  BY DEF RoomInv, ClaimInv, Unpublished
<1> QED
  BY <1>2, <1>3, <1>4, <1>5, <1>6, <1>7 DEF ClaimInv

\* A thread returns from onEvent(), with an event other than one that still has to make the state Disconnected.
LEMMA LeaveKeepsEos ==
  ASSUME RoomInv, NEW t \in FfiThreads,
         connects' = connects, overtaken' = overtaken, connection_state' = connection_state,
         room_handle' = room_handle, delivered' = delivered,
         after_eos' = after_eos, eos_reported' = eos_reported,
         at'[t] = "idle", \A u \in Threads \ {t} : at'[u] = at[u],
         inside'[t] = None, \A u \in FfiThreads \ {t} : inside'[u] = inside[u],
         \A u \in FfiThreads \ {t} : event'[u] = event[u],
         \A u \in AppThreads : claimed'[u] = claimed[u],
         at[t] \notin {"check", "handle"} \/ event[t].kind # "disconnected" \/ event[t].room # room_handle
  PROVE  EosInv'
<1>1. /\ \A u \in AppThreads : at'[u] = at[u]
      /\ \A u \in FfiThreads \ {t} : at'[u] = at[u]
  BY RoomAssumption DEF Threads
<1>2. \A x \in FfiThreads : \A n : EosOf(n, x)' => EosOf(n, x)
  BY <1>1 DEF EosOf
<1>3. after_eos \subseteq overtaken
  BY DEF RoomInv, EosInv
<1>4. \A n \in eos_reported : /\ <<n, n, "eos">> \in delivered
                              /\ \A u \in FfiThreads : inside'[u] = n /\ event'[u].room = n => event'[u].kind = "rpc"
  <2>1. \A n \in eos_reported : n # None
    BY RoomAssumption DEF RoomInv, RoomTypeOK, Past, None
  <2>2. \A n \in eos_reported : /\ <<n, n, "eos">> \in delivered
                               /\ \A u \in FfiThreads : inside[u] = n /\ event[u].room = n => event[u].kind = "rpc"
    BY DEF RoomInv, EosInv
  <2>3. ASSUME NEW n \in eos_reported, NEW u \in FfiThreads, inside'[u] = n, event'[u].room = n
        PROVE  event'[u].kind = "rpc"
    <3>1. u # t /\ inside[u] = n /\ event'[u] = event[u]
      BY <2>1, <2>3
    <3> QED
      BY <2>2, <2>3, <3>1
  <2> QED
    BY <2>2, <2>3
<1>5. room_handle # None /\ room_handle \notin overtaken /\ <<room_handle, room_handle, "disconnected">> \in delivered =>
        \/ connection_state = "Disconnected"
        \/ \E u \in FfiThreads : /\ inside'[u] = room_handle /\ at'[u] \in {"check", "handle"}
                                 /\ event'[u].room = room_handle /\ event'[u].kind = "disconnected"
  BY <1>1 DEF RoomInv, EosInv
<1>6. connection_state # "Disconnected" /\ connects \notin overtaken =>
        connects \notin eos_reported /\ \A x \in FfiThreads : ~EosOf(connects, x)
  BY DEF RoomInv, EosInv
<1>7. \A u \in AppThreads : claimed[u] # None /\ claimed[u] \notin overtaken =>
        /\ claimed[u] \notin eos_reported /\ \A x \in FfiThreads : ~EosOf(claimed[u], x)
        /\ room_handle = None /\ \A w \in AppThreads : at[w] \notin Unpublished
  BY DEF RoomInv, EosInv
<1> QED
  BY <1>1, <1>2, <1>3, <1>4, <1>5, <1>6, <1>7 DEF EosInv, EosOf

-----------------------------------------------------------------------------
\* connect() claims the state: the connection it starts is new, so nothing refers to it yet.
LEMMA ConnectClaimStep ==
  ASSUME RoomInv, NEW t \in AppThreads, AtRest, ConnectClaim(t)
  PROVE  RoomInv'
<1>0. t \in AppThreads /\ t \in Threads
  BY DEF RoomInv, FfiInv, AppInv, ConnectClaim, AppPlaces, FfiPlaces, ConnectSteps, ShutdownSteps, Threads
<1>1. /\ listener_id' = listener_id /\ room_handle' = room_handle /\ registered' = registered /\ rust' = rust
      /\ freed' = freed /\ handle' = handle /\ listener_to_remove' = listener_to_remove /\ claimed' = claimed
      /\ destroying' = destroying /\ destroyed' = destroyed /\ inside' = inside /\ event' = event
      /\ delivered' = delivered /\ notified' = notified /\ eos_reported' = eos_reported /\ after_eos' = after_eos
      /\ overtaken' = overtaken
  BY <1>0 DEF ConnectClaim, Goto, vars, stateVars, callVars, lifeVars, ffiVars, delegateVars
<1>2. /\ \A u \in AppThreads : at[u] = "idle"
      /\ listener_id = None /\ room_handle = None /\ registered = {}
      /\ connects < MaxConnects
      /\ ~destroying /\ connection_state = "Disconnected"
  BY <1>0, RoomAssumption DEF RoomInv, RoomTypeOK, AppInv, FfiInv, HandleInv, Unpublished, Connects, ConnectSteps, None,
       ConnectClaim, Goto, AtRest, InCall
<1>3. /\ connection_state' = "Reconnecting"
      /\ connects' = connects + 1
      /\ mine'[t] = connects + 1 /\ \A u \in Threads \ {t} : mine'[u] = mine[u]
      /\ at'[t] = "add" /\ \A u \in Threads \ {t} : at'[u] = at[u]
  BY <1>0, <1>2, RoomAssumption DEF RoomInv, RoomTypeOK, CallsOK, Connects, ConnectClaim, Goto
<1>4. RoomTypeOK'
  BY <1>0, <1>1, <1>2, RoomAssumption DEF RoomInv, RoomTypeOK, CallsOK, States, RustStates, Past, Connects, AppInv,
       FfiInv, Taking, ConnectSteps, ShutdownSteps, None, ConnectClaim, Goto
<1>5. CallsOK'
  BY <1>0, <1>1, <1>2, RoomAssumption DEF RoomInv, RoomTypeOK, CallsOK, AppPlaces, FfiPlaces, ConnectSteps,
       ShutdownSteps, EventKinds, NoEvent, ConnectClaim, Goto, AppInv, None
<1>6. AppInv'
  BY <1>0, <1>1, <1>2, <1>3, RoomAssumption DEF RoomInv, AppInv, AppPlaces, ConnectSteps, ShutdownSteps, Taking, FfiInv,
       FfiPlaces, CallsOK, RoomTypeOK, Threads, None
<1>7. FfiInv'
  BY <1>0, <1>1, <1>2, <1>3, RoomAssumption DEF RoomInv, AppInv, Taking, FfiInv, EventsInv, ListenerInv, AppPlaces,
       FfiPlaces, ConnectSteps, ShutdownSteps, Threads, None, Connects
<1>8. EventsInv'
  BY <1>0, <1>1, <1>2, <1>3, RoomAssumption DEF RoomInv, RoomTypeOK, Past, CallsOK, AppPlaces, FfiPlaces, ConnectSteps,
       ShutdownSteps, AppInv, Taking, FfiInv, EventsInv, Threads, None, Connects
<1>9. ListenerInv'
  <2>1. /\ connects \in Nat /\ connects + 1 \in Connects
        /\ \A u \in Threads : /\ listener_to_remove[u] # connects + 1 /\ handle[u] # connects + 1
                              /\ claimed[u] # connects + 1
    BY <1>2, RoomAssumption DEF RoomInv, RoomTypeOK, CallsOK, Connects, None
  <2>2. connects + 1 \notin Past /\ connects + 1 # None
    BY <2>1 DEF Past, None
  <2>3. \A u \in FfiThreads : at'[u] = at[u]
    BY <1>0, <1>3, RoomAssumption DEF Threads
  <2>4. at'[t] = "add" /\ \A u \in AppThreads \ {t} : at'[u] = "idle"
    BY <1>0, <1>2, <1>3 DEF Threads
  <2> QED
    BY <1>1, <1>2, <1>3, <2>1, <2>2, <2>3, <2>4 DEF RoomInv, ListenerInv, Threads
<1>10. HandleInv'
  <2>1. /\ connects \in Nat /\ connects + 1 \in Connects
        /\ \A u \in Threads : /\ listener_to_remove[u] # connects + 1 /\ handle[u] # connects + 1
                              /\ claimed[u] # connects + 1
    BY <1>2, RoomAssumption DEF RoomInv, RoomTypeOK, CallsOK, Connects, None
  <2>2. connects + 1 \notin Past /\ connects + 1 # None
    BY <2>1 DEF Past, None
  <2>3. \A u \in FfiThreads : at'[u] = at[u]
    BY <1>0, <1>3, RoomAssumption DEF Threads
  <2>4. at'[t] = "add" /\ \A u \in AppThreads \ {t} : at'[u] = "idle"
    BY <1>0, <1>2, <1>3 DEF Threads
  <2>5. rust[connects + 1] = "none"
    BY <2>1 DEF RoomInv, EventsInv
  <2>6. connects + 1 \notin freed
    BY <2>2 DEF RoomInv, RoomTypeOK
  <2> QED
    BY <1>1, <1>2, <1>3, <2>1, <2>2, <2>3, <2>4, <2>5, <2>6 DEF RoomInv, HandleInv, RpcPointerValid, Unpublished
<1>11. ClaimInv'
  BY <1>0, <1>1, <1>2, <1>3, RoomAssumption DEF RoomInv, RoomTypeOK, Past, CallsOK, AppPlaces, FfiPlaces, ConnectSteps,
       ShutdownSteps, AppInv, Taking, FfiInv, ClaimInv, Unpublished, Threads, None, Connects
<1>12. EosInv'
  <2>1. /\ connects \in Nat /\ connects + 1 \in Connects
        /\ \A u \in Threads : /\ listener_to_remove[u] # connects + 1 /\ handle[u] # connects + 1
                              /\ claimed[u] # connects + 1
    BY <1>2, RoomAssumption DEF RoomInv, RoomTypeOK, CallsOK, Connects, None
  <2>2. connects + 1 \notin Past /\ connects + 1 # None
    BY <2>1 DEF Past, None
  <2>3. \A u \in FfiThreads : at'[u] = at[u]
    BY <1>0, <1>3, RoomAssumption DEF Threads
  <2>4. at'[t] = "add" /\ \A u \in AppThreads \ {t} : at'[u] = "idle"
    BY <1>0, <1>2, <1>3 DEF Threads
  <2>5. connects + 1 \notin eos_reported
    BY <2>2 DEF RoomInv, RoomTypeOK
  <2>6. \A u \in FfiThreads : event[u].room # connects + 1
    BY <2>1 DEF RoomInv, CallsOK
  <2>7. \A u \in AppThreads : claimed[u] = None
    BY <1>2 DEF RoomInv, AppInv, ShutdownSteps
  <2> QED
    BY <1>1, <1>2, <1>3, <2>1, <2>2, <2>3, <2>4, <2>5, <2>6, <2>7 DEF RoomInv, EosInv, EosOf
<1>13. DestroyInv'
  BY <1>0, <1>1, <1>2, <1>3 DEF RoomInv, DestroyInv, ConnectSteps, Threads
<1> QED
  BY <1>4, <1>5, <1>6, <1>7, <1>8, <1>9, <1>10, <1>11, <1>12, <1>13 DEF RoomInv

\* connect() registers the listener, which no member names until the next step.
LEMMA ConnectAddListenerStep ==
  ASSUME RoomInv, NEW t \in Threads, ConnectAddListener(t)
  PROVE  RoomInv'
<1>0. t \in AppThreads /\ t \in Threads
  BY DEF RoomInv, FfiInv, AppInv, ConnectAddListener, AppPlaces, FfiPlaces, ConnectSteps, ShutdownSteps, Threads
<1>1. /\ connection_state' = connection_state /\ listener_id' = listener_id /\ room_handle' = room_handle
      /\ connects' = connects
      /\ rust' = rust /\ freed' = freed /\ mine' = mine /\ handle' = handle
      /\ listener_to_remove' = listener_to_remove /\ claimed' = claimed /\ destroying' = destroying
      /\ destroyed' = destroyed
      /\ inside' = inside /\ event' = event /\ delivered' = delivered /\ notified' = notified
      /\ eos_reported' = eos_reported /\ after_eos' = after_eos /\ overtaken' = overtaken
  BY <1>0 DEF ConnectAddListener, Goto, vars, stateVars, callVars, lifeVars, ffiVars, delegateVars
<1>2. /\ at[t] = "add" /\ mine[t] = connects /\ connects # None
  BY <1>0, RoomAssumption DEF RoomInv, RoomTypeOK, AppInv, FfiInv, HandleInv, Unpublished, Connects, ConnectSteps, None,
       ConnectAddListener, Goto
<1>3. /\ registered' = registered \cup {mine[t]}
      /\ at'[t] = "store" /\ \A u \in Threads \ {t} : at'[u] = at[u]
  BY <1>0, <1>2, RoomAssumption DEF RoomInv, RoomTypeOK, CallsOK, Connects, ConnectAddListener, Goto
<1>4. RoomTypeOK'
  BY <1>0, <1>1, <1>2, RoomAssumption DEF RoomInv, RoomTypeOK, CallsOK, States, RustStates, Past, Connects, AppInv,
       FfiInv, Taking, ConnectSteps, ShutdownSteps, None, ConnectAddListener, Goto
<1>5. CallsOK'
  BY <1>0, <1>1, <1>2, RoomAssumption DEF RoomInv, RoomTypeOK, CallsOK, AppPlaces, FfiPlaces, ConnectSteps,
       ShutdownSteps, EventKinds, NoEvent, ConnectAddListener, Goto, AppInv, None
<1>6. AppInv'
  BY <1>0, <1>1, <1>2, <1>3, RoomAssumption DEF RoomInv, RoomTypeOK, Past, AppInv, Taking, ListenerInv, AppPlaces,
       FfiPlaces, ConnectSteps, ShutdownSteps, Threads, None
<1>7. FfiInv'
  BY <1>0, <1>1, <1>2, <1>3, RoomAssumption DEF RoomInv, RoomTypeOK, Past, AppInv, Taking, FfiInv, ListenerInv,
       AppPlaces, FfiPlaces, ConnectSteps, ShutdownSteps, Threads, None
<1>8. EventsInv'
  BY <1>0, <1>1, <1>2, <1>3 DEF RoomInv, EventsInv, Threads
<1>9. ListenerInv'
  BY <1>0, <1>1, <1>2, <1>3 DEF RoomInv, ListenerInv, Threads
<1>10. HandleInv'
  BY <1>0, <1>1, <1>2, <1>3 DEF RoomInv, HandleInv, Unpublished, RpcPointerValid, Threads
<1>11. ClaimInv'
  BY <1>0, <1>1, <1>2, <1>3 DEF RoomInv, ClaimInv, Unpublished, Threads
<1>12. EosInv'
  BY <1>0, <1>1, <1>2, <1>3 DEF RoomInv, EosInv, EosOf, Unpublished, Threads
<1>13. DestroyInv'
  BY <1>0, <1>1, <1>2, <1>3 DEF RoomInv, DestroyInv, ConnectSteps, Threads
<1> QED
  BY <1>4, <1>5, <1>6, <1>7, <1>8, <1>9, <1>10, <1>11, <1>12, <1>13 DEF RoomInv

\* connect() stores the identifier of the listener that it has just registered.
LEMMA ConnectStoreListenerStep ==
  ASSUME RoomInv, NEW t \in Threads, ConnectStoreListener(t)
  PROVE  RoomInv'
<1>0. t \in AppThreads /\ t \in Threads
  BY DEF RoomInv, FfiInv, AppInv, ConnectStoreListener, AppPlaces, FfiPlaces, ConnectSteps, ShutdownSteps, Threads
<1>1. /\ connection_state' = connection_state /\ room_handle' = room_handle /\ connects' = connects
      /\ registered' = registered
      /\ rust' = rust /\ freed' = freed /\ mine' = mine /\ handle' = handle
      /\ listener_to_remove' = listener_to_remove /\ claimed' = claimed /\ destroying' = destroying
      /\ destroyed' = destroyed
      /\ inside' = inside /\ event' = event /\ delivered' = delivered /\ notified' = notified
      /\ eos_reported' = eos_reported /\ after_eos' = after_eos /\ overtaken' = overtaken
  BY <1>0 DEF ConnectStoreListener, Goto, vars, stateVars, callVars, lifeVars, ffiVars, delegateVars
<1>2. /\ at[t] = "store" /\ mine[t] = connects /\ connects # None
  BY <1>0, RoomAssumption DEF RoomInv, RoomTypeOK, AppInv, FfiInv, HandleInv, Unpublished, Connects, ConnectSteps, None,
       ConnectStoreListener, Goto
<1>3. /\ listener_id' = mine[t]
      /\ at'[t] = "request" /\ \A u \in Threads \ {t} : at'[u] = at[u]
  BY <1>0, <1>2, RoomAssumption DEF RoomInv, RoomTypeOK, CallsOK, Connects, ConnectStoreListener, Goto
<1>4. RoomTypeOK'
  BY <1>0, <1>1, <1>2, RoomAssumption DEF RoomInv, RoomTypeOK, CallsOK, States, RustStates, Past, Connects, AppInv,
       FfiInv, Taking, ConnectSteps, ShutdownSteps, None, ConnectStoreListener, Goto
<1>5. CallsOK'
  BY <1>0, <1>1, <1>2, RoomAssumption DEF RoomInv, RoomTypeOK, CallsOK, AppPlaces, FfiPlaces, ConnectSteps,
       ShutdownSteps, EventKinds, NoEvent, ConnectStoreListener, Goto, AppInv, None
<1>6. AppInv'
  BY <1>0, <1>1, <1>2, <1>3 DEF RoomInv, AppInv, AppPlaces, ConnectSteps, ShutdownSteps, Taking, Threads
<1>7. FfiInv'
  BY <1>0, <1>1, <1>2, <1>3 DEF RoomInv, FfiInv, FfiPlaces, Threads
<1>8. EventsInv'
  BY <1>0, <1>1, <1>2, <1>3 DEF RoomInv, EventsInv, Threads
<1>9. ListenerInv'
  BY <1>0, <1>1, <1>2, <1>3, RoomAssumption DEF RoomInv, ListenerInv, AppInv, AppPlaces, ConnectSteps, ShutdownSteps,
       Taking, Threads, None
<1>10. HandleInv'
  BY <1>0, <1>1, <1>2, <1>3 DEF RoomInv, HandleInv, Unpublished, RpcPointerValid, Threads
<1>11. ClaimInv'
  BY <1>0, <1>1, <1>2, <1>3 DEF RoomInv, ClaimInv, Unpublished, Threads
<1>12. EosInv'
  BY <1>0, <1>1, <1>2, <1>3 DEF RoomInv, EosInv, EosOf, Unpublished, Threads
<1>13. DestroyInv'
  BY <1>0, <1>1, <1>2, <1>3 DEF RoomInv, DestroyInv, ConnectSteps, Threads
<1> QED
  BY <1>4, <1>5, <1>6, <1>7, <1>8, <1>9, <1>10, <1>11, <1>12, <1>13 DEF RoomInv

\* The connect request is answered: Rust has a room, and no event of it was delivered before.
LEMMA ConnectAnsweredStep ==
  ASSUME RoomInv, NEW t \in Threads, ConnectAnswered(t)
  PROVE  RoomInv'
<1>0. t \in AppThreads /\ t \in Threads
  BY DEF RoomInv, FfiInv, AppInv, ConnectAnswered, AppPlaces, FfiPlaces, ConnectSteps, ShutdownSteps, Threads
<1>1. /\ connection_state' = connection_state /\ listener_id' = listener_id /\ room_handle' = room_handle
      /\ connects' = connects
      /\ registered' = registered /\ freed' = freed /\ mine' = mine /\ handle' = handle
      /\ listener_to_remove' = listener_to_remove /\ claimed' = claimed /\ destroying' = destroying
      /\ destroyed' = destroyed
      /\ inside' = inside /\ event' = event /\ delivered' = delivered /\ notified' = notified
      /\ eos_reported' = eos_reported /\ after_eos' = after_eos /\ overtaken' = overtaken
  BY <1>0 DEF ConnectAnswered, Goto, vars, stateVars, callVars, lifeVars, ffiVars, delegateVars
<1>2. /\ at[t] = "request" /\ mine[t] = connects /\ connects \in Connects
  BY <1>0, RoomAssumption DEF RoomInv, RoomTypeOK, AppInv, FfiInv, HandleInv, Unpublished, Connects, ConnectSteps, None,
       ConnectAnswered, Goto
<1>3. /\ rust'[connects] = "connected" /\ \A m \in Connects \ {connects} : rust'[m] = rust[m]
      /\ at'[t] = "publish" /\ \A u \in Threads \ {t} : at'[u] = at[u]
  BY <1>0, <1>2, RoomAssumption DEF RoomInv, RoomTypeOK, CallsOK, Connects, ConnectAnswered, Goto
<1>4. RoomTypeOK'
  BY <1>0, <1>1, <1>2, RoomAssumption DEF RoomInv, RoomTypeOK, CallsOK, States, RustStates, Past, Connects, AppInv,
       FfiInv, Taking, ConnectSteps, ShutdownSteps, None, ConnectAnswered, Goto
<1>5. CallsOK'
  BY <1>0, <1>1, <1>2, RoomAssumption DEF RoomInv, RoomTypeOK, CallsOK, AppPlaces, FfiPlaces, ConnectSteps,
       ShutdownSteps, EventKinds, NoEvent, ConnectAnswered, Goto, AppInv, None
<1>6. AppInv'
  BY <1>0, <1>1, <1>2, <1>3 DEF RoomInv, AppInv, AppPlaces, ConnectSteps, ShutdownSteps, Taking, Threads
<1>7. FfiInv'
  BY <1>0, <1>1, <1>2, <1>3 DEF RoomInv, FfiInv, FfiPlaces, Threads
<1>8. EventsInv'
  BY <1>0, <1>1, <1>2, <1>3, RoomAssumption DEF RoomInv, RoomTypeOK, Past, CallsOK, AppPlaces, FfiPlaces, ConnectSteps,
       ShutdownSteps, AppInv, Taking, FfiInv, EventsInv, ListenerInv, HandleInv, RpcPointerValid, Unpublished, ClaimInv,
       EosInv, EosOf, DestroyInv, Threads, None
<1>9. ListenerInv'
  BY <1>0, <1>1, <1>2, <1>3 DEF RoomInv, ListenerInv, Threads
<1>10. HandleInv'
  BY <1>0, <1>1, <1>2, <1>3 DEF RoomInv, HandleInv, Unpublished, RpcPointerValid, Threads
<1>11. ClaimInv'
  BY <1>0, <1>1, <1>2, <1>3 DEF RoomInv, ClaimInv, Unpublished, Threads
<1>12. EosInv'
  BY <1>0, <1>1, <1>2, <1>3 DEF RoomInv, EosInv, EosOf, Unpublished, Threads
<1>13. DestroyInv'
  BY <1>0, <1>1, <1>2, <1>3 DEF RoomInv, DestroyInv, ConnectSteps, Threads
<1> QED
  BY <1>4, <1>5, <1>6, <1>7, <1>8, <1>9, <1>10, <1>11, <1>12, <1>13 DEF RoomInv

\* The connect request fails: connect() goes on to its catch block, and Rust has no room.
LEMMA ConnectThrowsStep ==
  ASSUME RoomInv, NEW t \in Threads, ConnectThrows(t)
  PROVE  RoomInv'
<1>0. t \in AppThreads /\ t \in Threads
  BY DEF RoomInv, FfiInv, AppInv, ConnectThrows, AppPlaces, FfiPlaces, ConnectSteps, ShutdownSteps, Threads
<1>1. /\ connection_state' = connection_state /\ listener_id' = listener_id /\ room_handle' = room_handle
      /\ connects' = connects
      /\ registered' = registered /\ rust' = rust /\ freed' = freed /\ mine' = mine
      /\ handle' = handle /\ listener_to_remove' = listener_to_remove /\ claimed' = claimed /\ destroying' = destroying
      /\ destroyed' = destroyed /\ inside' = inside /\ event' = event /\ delivered' = delivered
      /\ notified' = notified /\ eos_reported' = eos_reported /\ after_eos' = after_eos /\ overtaken' = overtaken
  BY <1>0 DEF ConnectThrows, Goto, vars, stateVars, callVars, lifeVars, ffiVars, delegateVars
<1>2. /\ at[t] \in {"add", "request", "publish", "ready"}
  BY <1>0, RoomAssumption DEF RoomInv, RoomTypeOK, AppInv, FfiInv, HandleInv, Unpublished, Connects, ConnectSteps, None,
       ConnectThrows, Goto
<1>3. /\ at'[t] = "catch" /\ \A u \in Threads \ {t} : at'[u] = at[u]
  BY <1>0, <1>2, RoomAssumption DEF RoomInv, RoomTypeOK, CallsOK, Connects, ConnectThrows, Goto
<1>4. RoomTypeOK'
  BY <1>0, <1>1, <1>2, RoomAssumption DEF RoomInv, RoomTypeOK, CallsOK, States, RustStates, Past, Connects, AppInv,
       FfiInv, Taking, ConnectSteps, ShutdownSteps, None, ConnectThrows, Goto
<1>5. CallsOK'
  BY <1>0, <1>1, <1>2, RoomAssumption DEF RoomInv, RoomTypeOK, CallsOK, AppPlaces, FfiPlaces, ConnectSteps,
       ShutdownSteps, EventKinds, NoEvent, ConnectThrows, Goto, AppInv, None
<1>6. AppInv'
  BY <1>0, <1>1, <1>2, <1>3 DEF RoomInv, AppInv, AppPlaces, ConnectSteps, ShutdownSteps, Taking, Threads
<1>7. FfiInv'
  BY <1>0, <1>1, <1>2, <1>3 DEF RoomInv, FfiInv, FfiPlaces, Threads
<1>8. EventsInv'
  BY <1>0, <1>1, <1>2, <1>3 DEF RoomInv, EventsInv, Threads
<1>9. ListenerInv'
  BY <1>0, <1>1, <1>2, <1>3 DEF RoomInv, ListenerInv, Threads
<1>10. HandleInv'
  BY <1>0, <1>1, <1>2, <1>3 DEF RoomInv, HandleInv, Unpublished, RpcPointerValid, Threads
<1>11. ClaimInv'
  BY <1>0, <1>1, <1>2, <1>3 DEF RoomInv, ClaimInv, Unpublished, Threads
<1>12. EosInv'
  BY <1>0, <1>1, <1>2, <1>3 DEF RoomInv, EosInv, EosOf, Unpublished, Threads
<1>13. DestroyInv'
  BY <1>0, <1>1, <1>2, <1>3 DEF RoomInv, DestroyInv, ConnectSteps, Threads
<1> QED
  BY <1>4, <1>5, <1>6, <1>7, <1>8, <1>9, <1>10, <1>11, <1>12, <1>13 DEF RoomInv

\* connect() publishes the room's handle and its participants under the lock, or finds the claim lost.
LEMMA ConnectPublishStep ==
  ASSUME RoomInv, NEW t \in Threads, ConnectPublish(t)
  PROVE  RoomInv'
<1>0. t \in AppThreads /\ t \in Threads
  BY DEF RoomInv, FfiInv, AppInv, ConnectPublish, AppPlaces, FfiPlaces, ConnectSteps, ShutdownSteps, Threads
<1>1. /\ listener_id' = listener_id /\ connects' = connects /\ registered' = registered /\ rust' = rust
      /\ mine' = mine /\ handle' = handle /\ listener_to_remove' = listener_to_remove /\ claimed' = claimed
      /\ destroying' = destroying /\ destroyed' = destroyed /\ inside' = inside /\ event' = event
      /\ delivered' = delivered /\ notified' = notified /\ eos_reported' = eos_reported /\ after_eos' = after_eos
      /\ overtaken' = overtaken
  BY <1>0 DEF ConnectPublish, Goto, vars, stateVars, callVars, lifeVars, ffiVars, delegateVars
<1>2. /\ at[t] = "publish" /\ mine[t] = connects /\ connects # None /\ room_handle = None
  BY <1>0, RoomAssumption DEF RoomInv, RoomTypeOK, AppInv, FfiInv, HandleInv, Unpublished, Connects, ConnectSteps, None,
       ConnectPublish, Goto
<1>3. /\ connection_state' = "Connected"
      /\ room_handle' = mine[t]
      /\ freed' = freed
      /\ at'[t] = "ready" /\ \A u \in Threads \ {t} : at'[u] = at[u]
  BY <1>0, <1>2, RoomAssumption DEF RoomInv, RoomTypeOK, CallsOK, Connects, ConnectPublish, Goto
<1>4. RoomTypeOK'
  BY <1>0, <1>1, <1>2, RoomAssumption DEF RoomInv, RoomTypeOK, CallsOK, States, RustStates, Past, Connects, AppInv,
       FfiInv, Taking, ConnectSteps, ShutdownSteps, None, ConnectPublish, Goto
<1>5. CallsOK'
  BY <1>0, <1>1, <1>2, RoomAssumption DEF RoomInv, RoomTypeOK, CallsOK, AppPlaces, FfiPlaces, ConnectSteps,
       ShutdownSteps, EventKinds, NoEvent, ConnectPublish, Goto, AppInv, None
<1>6. AppInv'
  BY <1>0, <1>1, <1>2, <1>3 DEF RoomInv, AppInv, AppPlaces, ConnectSteps, ShutdownSteps, Taking, Threads
<1>7. FfiInv'
  BY <1>0, <1>1, <1>2, <1>3 DEF RoomInv, FfiInv, FfiPlaces, Threads
<1>8. EventsInv'
  BY <1>0, <1>1, <1>2, <1>3 DEF RoomInv, EventsInv, Threads
<1>9. ListenerInv'
  BY <1>0, <1>1, <1>2, <1>3 DEF RoomInv, ListenerInv, Threads
<1>10. HandleInv'
  BY <1>0, <1>1, <1>2, <1>3, RoomAssumption DEF RoomInv, HandleInv, Unpublished, RpcPointerValid, AppInv, AppPlaces,
       ConnectSteps, ShutdownSteps, Taking, Threads, None
<1>11. ClaimInv'
  BY <1>0, <1>1, <1>2, <1>3 DEF RoomInv, ClaimInv, Unpublished, Threads
<1>12. EosInv'
  <2>1. connects \in Connects
    BY <1>2, RoomAssumption DEF RoomInv, RoomTypeOK, Connects, None
  <2>2. \A l, k : <<l, connects, k>> \notin delivered
    BY <1>0, <1>2, <2>1 DEF RoomInv, HandleInv, EventsInv, Unpublished
  <2>3. connects \notin overtaken => connection_state # "Disconnected"
    BY <1>0, <1>2 DEF RoomInv, ClaimInv, Unpublished
  <2>4. \A u \in AppThreads : claimed[u] # None => claimed[u] \in overtaken
    BY <1>0, <1>2 DEF RoomInv, EosInv, Unpublished
  <2>5. \A u \in FfiThreads : at'[u] = at[u]
    BY <1>0, <1>3, RoomAssumption DEF Threads
  <2> QED
    BY <1>1, <1>2, <1>3, <2>2, <2>3, <2>4, <2>5 DEF RoomInv, EosInv, EosOf
<1>13. DestroyInv'
  BY <1>0, <1>1, <1>2, <1>3 DEF RoomInv, DestroyInv, ConnectSteps, Threads
<1> QED
  BY <1>4, <1>5, <1>6, <1>7, <1>8, <1>9, <1>10, <1>11, <1>12, <1>13 DEF RoomInv

\* connect() tells Rust that events may come, and returns.
LEMMA ConnectReadyStep ==
  ASSUME RoomInv, NEW t \in Threads, ConnectReady(t)
  PROVE  RoomInv'
<1>0. t \in AppThreads /\ t \in Threads
  BY DEF RoomInv, FfiInv, AppInv, ConnectReady, AppPlaces, FfiPlaces, ConnectSteps, ShutdownSteps, Threads
<1>1. /\ connection_state' = connection_state /\ listener_id' = listener_id /\ room_handle' = room_handle
      /\ connects' = connects
      /\ registered' = registered /\ freed' = freed /\ handle' = handle /\ listener_to_remove' = listener_to_remove
      /\ claimed' = claimed /\ destroying' = destroying /\ destroyed' = destroyed /\ inside' = inside
      /\ event' = event /\ delivered' = delivered /\ notified' = notified /\ eos_reported' = eos_reported
      /\ after_eos' = after_eos /\ overtaken' = overtaken
  BY <1>0 DEF ConnectReady, Goto, vars, stateVars, callVars, lifeVars, ffiVars, delegateVars
<1>2. /\ at[t] = "ready" /\ mine[t] = connects /\ connects \in Connects
  BY <1>0, RoomAssumption DEF RoomInv, RoomTypeOK, AppInv, FfiInv, HandleInv, Unpublished, Connects, ConnectSteps, None,
       ConnectReady, Goto
<1>3. /\ rust[connects] = "connected" => rust'[connects] = "ready"
      /\ rust[connects] # "connected" => rust'[connects] = rust[connects]
      /\ \A m \in Connects \ {connects} : rust'[m] = rust[m]
      /\ mine'[t] = None /\ \A u \in Threads \ {t} : mine'[u] = mine[u]
      /\ at'[t] = "idle" /\ \A u \in Threads \ {t} : at'[u] = at[u]
  BY <1>0, <1>2, RoomAssumption DEF RoomInv, RoomTypeOK, CallsOK, Connects, ConnectReady, Goto
<1>4. RoomTypeOK'
  BY <1>0, <1>1, <1>2, RoomAssumption DEF RoomInv, RoomTypeOK, CallsOK, States, RustStates, Past, Connects, AppInv,
       FfiInv, Taking, ConnectSteps, ShutdownSteps, None, ConnectReady, Goto
<1>5. CallsOK'
  BY <1>0, <1>1, <1>2, RoomAssumption DEF RoomInv, RoomTypeOK, CallsOK, AppPlaces, FfiPlaces, ConnectSteps,
       ShutdownSteps, EventKinds, NoEvent, ConnectReady, Goto, AppInv, None
<1>6. AppInv'
  BY <1>0, <1>1, <1>2, <1>3 DEF RoomInv, AppInv, AppPlaces, ConnectSteps, ShutdownSteps, Taking, Threads
<1>7. FfiInv'
  BY <1>0, <1>1, <1>2, <1>3 DEF RoomInv, FfiInv, FfiPlaces, Threads
<1>8. EventsInv'
  BY <1>0, <1>1, <1>2, <1>3 DEF RoomInv, EventsInv, Threads
<1>9. ListenerInv'
  BY <1>0, <1>1, <1>2, <1>3 DEF RoomInv, ListenerInv, Threads
<1>10. HandleInv'
  BY <1>0, <1>1, <1>2, <1>3, RoomAssumption DEF RoomInv, HandleInv, Unpublished, RpcPointerValid, AppInv, AppPlaces,
       ConnectSteps, ShutdownSteps, Taking, Threads, None
<1>11. ClaimInv'
  BY <1>0, <1>1, <1>2, <1>3 DEF RoomInv, ClaimInv, Unpublished, Threads
<1>12. EosInv'
  BY <1>0, <1>1, <1>2, <1>3 DEF RoomInv, EosInv, EosOf, Unpublished, Threads
<1>13. DestroyInv'
  BY <1>0, <1>1, <1>2, <1>3 DEF RoomInv, DestroyInv, ConnectSteps, Threads
<1> QED
  BY <1>4, <1>5, <1>6, <1>7, <1>8, <1>9, <1>10, <1>11, <1>12, <1>13 DEF RoomInv

\* The catch block takes the listener's identifier back, unless another thread has taken it.
LEMMA ConnectCatchStep ==
  ASSUME RoomInv, NEW t \in Threads, ConnectCatch(t)
  PROVE  RoomInv'
<1>0. t \in AppThreads /\ t \in Threads
  BY DEF RoomInv, FfiInv, AppInv, ConnectCatch, AppPlaces, FfiPlaces, ConnectSteps, ShutdownSteps, Threads
<1>1. /\ connects' = connects /\ registered' = registered /\ rust' = rust /\ freed' = freed
      /\ mine' = mine /\ claimed' = claimed /\ destroying' = destroying /\ destroyed' = destroyed
      /\ inside' = inside /\ event' = event /\ delivered' = delivered /\ notified' = notified
      /\ eos_reported' = eos_reported /\ after_eos' = after_eos /\ overtaken' = overtaken
  BY <1>0 DEF ConnectCatch, Goto, vars, stateVars, callVars, lifeVars, ffiVars, delegateVars
<1>2. /\ at[t] = "catch" /\ mine[t] = connects /\ connects # None
  BY <1>0, RoomAssumption DEF RoomInv, RoomTypeOK, AppInv, FfiInv, HandleInv, Unpublished, Connects, ConnectSteps, None,
       ConnectCatch, Goto
<1>3. /\ connection_state' = "Disconnected"
      /\ listener_to_remove'[t] = listener_id /\ \A u \in Threads \ {t} : listener_to_remove'[u] = listener_to_remove[u]
      /\ listener_id' = None
      /\ handle'[t] = room_handle /\ \A u \in Threads \ {t} : handle'[u] = handle[u]
      /\ room_handle' = None
      /\ at'[t] = "catch_remove" /\ \A u \in Threads \ {t} : at'[u] = at[u]
  BY <1>0, <1>2, RoomAssumption DEF RoomInv, RoomTypeOK, CallsOK, Connects, ConnectCatch, Goto
<1>4. RoomTypeOK'
  BY <1>0, <1>1, <1>2, RoomAssumption DEF RoomInv, RoomTypeOK, CallsOK, States, RustStates, Past, Connects, AppInv,
       FfiInv, Taking, ConnectSteps, ShutdownSteps, None, ConnectCatch, Goto
<1>5. CallsOK'
  BY <1>0, <1>1, <1>2, RoomAssumption DEF RoomInv, RoomTypeOK, CallsOK, AppPlaces, FfiPlaces, ConnectSteps,
       ShutdownSteps, EventKinds, NoEvent, ConnectCatch, Goto, AppInv, None
<1>6. AppInv'
  BY <1>0, <1>1, <1>2, <1>3, RoomAssumption DEF RoomInv, AppInv, AppPlaces, ConnectSteps, ShutdownSteps, Taking, FfiInv,
       FfiPlaces, CallsOK, RoomTypeOK, Threads, None
<1>7. FfiInv'
  BY <1>0, <1>1, <1>2, <1>3 DEF RoomInv, FfiInv, FfiPlaces, Threads
<1>8. EventsInv'
  BY <1>0, <1>1, <1>2, <1>3 DEF RoomInv, EventsInv, Threads
<1>9. ListenerInv'
  BY <1>0, <1>1, <1>2, <1>3, RoomAssumption DEF RoomInv, ListenerInv, AppInv, AppPlaces, ConnectSteps, ShutdownSteps,
       Taking, FfiInv, FfiPlaces, Threads, None
<1>10. HandleInv'
  BY <1>0, <1>1, <1>2, <1>3, RoomAssumption DEF RoomInv, RoomTypeOK, Past, AppInv, Taking, ListenerInv, HandleInv,
       RpcPointerValid, Unpublished, AppPlaces, FfiPlaces, ConnectSteps, ShutdownSteps, Threads, None
<1>11. ClaimInv'
  BY <1>0, <1>1, <1>2, <1>3, RoomAssumption DEF RoomInv, ClaimInv, Unpublished, AppInv, AppPlaces, ConnectSteps,
       ShutdownSteps, Taking, Threads, None
<1>12. EosInv'
  BY <1>0, <1>1, <1>2, <1>3 DEF RoomInv, EosInv, EosOf, Unpublished, Threads
<1>13. DestroyInv'
  BY <1>0, <1>1, <1>2, <1>3 DEF RoomInv, DestroyInv, ConnectSteps, Threads
<1> QED
  BY <1>4, <1>5, <1>6, <1>7, <1>8, <1>9, <1>10, <1>11, <1>12, <1>13 DEF RoomInv

\* The catch block removes the listener it has taken.
LEMMA ConnectCatchRemoveStep ==
  ASSUME RoomInv, NEW t \in Threads, ConnectCatchRemove(t)
  PROVE  RoomInv'
<1>0. t \in AppThreads /\ t \in Threads
  BY DEF RoomInv, FfiInv, AppInv, ConnectCatchRemove, AppPlaces, FfiPlaces, ConnectSteps, ShutdownSteps, Threads
<1>1. /\ connection_state' = connection_state /\ listener_id' = listener_id /\ room_handle' = room_handle
      /\ connects' = connects
      /\ rust' = rust /\ freed' = freed /\ mine' = mine /\ handle' = handle
      /\ listener_to_remove' = listener_to_remove /\ claimed' = claimed /\ destroying' = destroying
      /\ destroyed' = destroyed
      /\ inside' = inside /\ event' = event /\ delivered' = delivered /\ notified' = notified
      /\ eos_reported' = eos_reported /\ after_eos' = after_eos /\ overtaken' = overtaken
  BY <1>0 DEF ConnectCatchRemove, Goto, vars, stateVars, callVars, lifeVars, ffiVars, delegateVars, RemoveListener
<1>2. /\ at[t] = "catch_remove"
  BY <1>0, RoomAssumption DEF RoomInv, RoomTypeOK, AppInv, FfiInv, HandleInv, Unpublished, Connects, ConnectSteps, None,
       ConnectCatchRemove, Goto, RemoveListener
<1>3. /\ registered' = registered \ {listener_to_remove[t]}
      /\ at'[t] = "catch_wait" /\ \A u \in Threads \ {t} : at'[u] = at[u]
  BY <1>0, <1>2, RoomAssumption DEF RoomInv, RoomTypeOK, CallsOK, Connects, ConnectCatchRemove, Goto, RemoveListener
<1>4. RoomTypeOK'
  BY <1>0, <1>1, <1>2, RoomAssumption DEF RoomInv, RoomTypeOK, CallsOK, States, RustStates, Past, Connects, AppInv,
       FfiInv, Taking, ConnectSteps, ShutdownSteps, None, ConnectCatchRemove, Goto, RemoveListener
<1>5. CallsOK'
  BY <1>0, <1>1, <1>2, RoomAssumption DEF RoomInv, RoomTypeOK, CallsOK, AppPlaces, FfiPlaces, ConnectSteps,
       ShutdownSteps, EventKinds, NoEvent, ConnectCatchRemove, Goto, AppInv, None, RemoveListener
<1>6. AppInv'
  BY <1>0, <1>1, <1>2, <1>3 DEF RoomInv, AppInv, AppPlaces, ConnectSteps, ShutdownSteps, Taking, Threads
<1>7. FfiInv'
  BY <1>0, <1>1, <1>2, <1>3 DEF RoomInv, FfiInv, FfiPlaces, Threads
<1>8. EventsInv'
  BY <1>0, <1>1, <1>2, <1>3 DEF RoomInv, EventsInv, Threads
<1>9. ListenerInv'
  BY <1>0, <1>1, <1>2, <1>3, RoomAssumption DEF RoomInv, ListenerInv, AppInv, AppPlaces, ConnectSteps, ShutdownSteps,
       Taking, Threads, None
<1>10. HandleInv'
  BY <1>0, <1>1, <1>2, <1>3 DEF RoomInv, HandleInv, Unpublished, RpcPointerValid, Threads
<1>11. ClaimInv'
  BY <1>0, <1>1, <1>2, <1>3 DEF RoomInv, ClaimInv, Unpublished, Threads
<1>12. EosInv'
  BY <1>0, <1>1, <1>2, <1>3 DEF RoomInv, EosInv, EosOf, Unpublished, Threads
<1>13. DestroyInv'
  BY <1>0, <1>1, <1>2, <1>3 DEF RoomInv, DestroyInv, ConnectSteps, Threads
<1> QED
  BY <1>4, <1>5, <1>6, <1>7, <1>8, <1>9, <1>10, <1>11, <1>12, <1>13 DEF RoomInv

\* The catch block is done, and connect() returns false.
LEMMA ConnectCatchLeaveStep ==
  ASSUME RoomInv, NEW t \in Threads, ConnectCatchLeave(t)
  PROVE  RoomInv'
<1>0. t \in AppThreads /\ t \in Threads
  BY DEF RoomInv, FfiInv, AppInv, ConnectCatchLeave, AppPlaces, FfiPlaces, ConnectSteps, ShutdownSteps, Threads
<1>1. /\ connection_state' = connection_state /\ listener_id' = listener_id /\ room_handle' = room_handle
      /\ connects' = connects
      /\ registered' = registered /\ rust' = rust /\ claimed' = claimed /\ destroying' = destroying
      /\ destroyed' = destroyed /\ inside' = inside /\ event' = event /\ delivered' = delivered
      /\ notified' = notified /\ eos_reported' = eos_reported /\ after_eos' = after_eos /\ overtaken' = overtaken
  BY <1>0 DEF ConnectCatchLeave, Goto, vars, stateVars, callVars, lifeVars, ffiVars, delegateVars, NoOtherCallback
<1>2. /\ at[t] = "catch_wait"
      /\ listener_to_remove[t] # None => \A u \in FfiThreads \ {t} : inside[u] # listener_to_remove[t]
  BY <1>0, RoomAssumption DEF RoomInv, RoomTypeOK, AppInv, FfiInv, HandleInv, Unpublished, Connects, ConnectSteps, None,
       ConnectCatchLeave, Goto, NoOtherCallback
<1>3. /\ freed' = freed \cup ({handle[t]} \ {None})
      /\ handle'[t] = None /\ \A u \in Threads \ {t} : handle'[u] = handle[u]
      /\ listener_to_remove'[t] = None /\ \A u \in Threads \ {t} : listener_to_remove'[u] = listener_to_remove[u]
      /\ mine'[t] = None /\ \A u \in Threads \ {t} : mine'[u] = mine[u]
      /\ at'[t] = "idle" /\ \A u \in Threads \ {t} : at'[u] = at[u]
  BY <1>0, <1>2, RoomAssumption DEF RoomInv, RoomTypeOK, CallsOK, Connects, ConnectCatchLeave, Goto, NoOtherCallback
<1>4. RoomTypeOK'
  <2>1. {handle[t]} \ {None} \subseteq Past
    BY <1>0, RoomAssumption DEF RoomInv, RoomTypeOK, CallsOK, Past, None
  <2> QED
    BY <1>1, <1>3, <2>1 DEF RoomInv, RoomTypeOK, Past
<1>5. CallsOK'
  BY <1>0, <1>1, <1>2, RoomAssumption DEF RoomInv, RoomTypeOK, CallsOK, AppPlaces, FfiPlaces, ConnectSteps,
       ShutdownSteps, EventKinds, NoEvent, ConnectCatchLeave, Goto, AppInv, None, NoOtherCallback
<1>6. AppInv'
  BY <1>0, <1>1, <1>2, <1>3 DEF RoomInv, AppInv, AppPlaces, ConnectSteps, ShutdownSteps, Taking, Threads
<1>7. FfiInv'
  BY <1>0, <1>1, <1>2, <1>3 DEF RoomInv, FfiInv, FfiPlaces, Threads
<1>8. EventsInv'
  BY <1>0, <1>1, <1>2, <1>3 DEF RoomInv, EventsInv, Threads
<1>9. ListenerInv'
  BY <1>0, <1>1, <1>2, <1>3, RoomAssumption DEF RoomInv, ListenerInv, AppInv, AppPlaces, ConnectSteps, ShutdownSteps,
       Taking, Threads, None
<1>10. HandleInv'
  BY <1>0, <1>1, <1>2, <1>3, RoomAssumption DEF RoomInv, HandleInv, Unpublished, RpcPointerValid, AppInv, AppPlaces,
       ConnectSteps, ShutdownSteps, Taking, FfiInv, FfiPlaces, Threads, None
<1>11. ClaimInv'
  BY <1>0, <1>1, <1>2, <1>3 DEF RoomInv, ClaimInv, Unpublished, Threads
<1>12. EosInv'
  BY <1>0, <1>1, <1>2, <1>3 DEF RoomInv, EosInv, EosOf, Unpublished, Threads
<1>13. DestroyInv'
  BY <1>0, <1>1, <1>2, <1>3 DEF RoomInv, DestroyInv, ConnectSteps, Threads
<1> QED
  BY <1>4, <1>5, <1>6, <1>7, <1>8, <1>9, <1>10, <1>11, <1>12, <1>13 DEF RoomInv

\* disconnect() takes the claim on the disconnection, the handle and the listener in one step.
LEMMA DisconnectClaimStep ==
  ASSUME RoomInv, NEW t \in AppThreads, DisconnectClaim(t)
  PROVE  RoomInv'
<1>0. t \in AppThreads /\ t \in Threads
  BY DEF RoomInv, FfiInv, AppInv, DisconnectClaim, AppPlaces, FfiPlaces, ConnectSteps, ShutdownSteps, Threads
<1>1. /\ connects' = connects /\ registered' = registered /\ rust' = rust /\ freed' = freed
      /\ mine' = mine /\ destroying' = destroying /\ destroyed' = destroyed /\ inside' = inside
      /\ event' = event /\ delivered' = delivered /\ notified' = notified /\ eos_reported' = eos_reported
      /\ after_eos' = after_eos
  BY <1>0 DEF DisconnectClaim, Goto, vars, stateVars, callVars, lifeVars, ffiVars, delegateVars, ShutdownClaim,
       HasRoomState, Connecting
<1>2. /\ at[t] = "idle" /\ ~destroying
      /\ connection_state # "Disconnected" \/ listener_id # None \/ room_handle # None
  BY <1>0, RoomAssumption DEF RoomInv, RoomTypeOK, AppInv, FfiInv, HandleInv, Unpublished, Connects, ConnectSteps, None,
       DisconnectClaim, Goto, ShutdownClaim, HasRoomState, Connecting
<1>3. /\ claimed'[t] \in {None, connects}
      /\ connection_state # "Disconnected" => claimed'[t] = connects
      /\ connection_state = "Disconnected" => claimed'[t] = None
      /\ \A u \in Threads \ {t} : claimed'[u] = claimed[u]
      /\ handle'[t] = room_handle /\ \A u \in Threads \ {t} : handle'[u] = handle[u]
      /\ room_handle' = None
      /\ listener_to_remove'[t] = listener_id /\ \A u \in Threads \ {t} : listener_to_remove'[u] = listener_to_remove[u]
      /\ listener_id' = None
      /\ connection_state' = "Disconnected"
      /\ at'[t] = "ffi_disconnect" /\ \A u \in Threads \ {t} : at'[u] = at[u]
      /\ overtaken \subseteq overtaken' /\ overtaken' \subseteq overtaken \cup {connects}
      /\ \A u \in AppThreads : at[u] \in ConnectSteps => connects \in overtaken'
  BY <1>0, <1>2, RoomAssumption DEF RoomInv, RoomTypeOK, CallsOK, Connects, DisconnectClaim, Goto, ShutdownClaim,
       HasRoomState, Connecting
<1>4. RoomTypeOK'
  BY <1>0, <1>1, <1>2, RoomAssumption DEF RoomInv, RoomTypeOK, CallsOK, States, RustStates, Past, Connects, AppInv,
       FfiInv, Taking, ConnectSteps, ShutdownSteps, None, DisconnectClaim, Goto, ShutdownClaim, HasRoomState, Connecting
<1>5. CallsOK'
  BY <1>0, <1>1, <1>2, RoomAssumption DEF RoomInv, RoomTypeOK, CallsOK, AppPlaces, FfiPlaces, ConnectSteps,
       ShutdownSteps, EventKinds, NoEvent, DisconnectClaim, Goto, AppInv, None, ShutdownClaim, HasRoomState, Connecting
<1>6. AppInv'
  BY <1>0, <1>1, <1>2, <1>3, RoomAssumption DEF RoomInv, AppInv, AppPlaces, ConnectSteps, ShutdownSteps, Taking, FfiInv,
       FfiPlaces, CallsOK, RoomTypeOK, Threads, None
<1>7. FfiInv'
  BY <1>0, <1>1, <1>2, <1>3, RoomAssumption DEF RoomInv, FfiInv, FfiPlaces, Threads, None
<1>8. EventsInv'
  BY <1>0, <1>1, <1>2, <1>3 DEF RoomInv, EventsInv, Threads
<1>9. ListenerInv'
  BY <1>0, <1>1, <1>2, <1>3, RoomAssumption DEF RoomInv, ListenerInv, AppInv, AppPlaces, ConnectSteps, ShutdownSteps,
       Taking, FfiInv, FfiPlaces, Threads, None
<1>10. HandleInv'
  BY <1>0, <1>1, <1>2, <1>3, RoomAssumption DEF RoomInv, AppInv, Taking, FfiInv, EventsInv, ListenerInv, HandleInv,
       RpcPointerValid, Unpublished, AppPlaces, FfiPlaces, ConnectSteps, ShutdownSteps, Threads, None
<1>11. ClaimInv'
  BY <1>0, <1>1, <1>2, <1>3, RoomAssumption DEF RoomInv, ClaimInv, Unpublished, AppInv, AppPlaces, ConnectSteps,
       ShutdownSteps, Taking, Threads, None
<1>12. EosInv'
  BY <1>0, <1>1, <1>2, <1>3, RoomAssumption DEF RoomInv, EosInv, EosOf, Unpublished, AppInv, AppPlaces, ConnectSteps,
       ShutdownSteps, Taking, Threads, None
<1>13. DestroyInv'
  BY <1>0, <1>1, <1>2, <1>3 DEF RoomInv, DestroyInv, ConnectSteps, Threads
<1> QED
  BY <1>4, <1>5, <1>6, <1>7, <1>8, <1>9, <1>10, <1>11, <1>12, <1>13 DEF RoomInv

\* The destructor takes the claim on a room that is still connected.
LEMMA DestroyClaimStep ==
  ASSUME RoomInv, NEW t \in AppThreads, DestroyClaim(t)
  PROVE  RoomInv'
<1>0. t \in AppThreads /\ t \in Threads
  BY DEF RoomInv, FfiInv, AppInv, DestroyClaim, AppPlaces, FfiPlaces, ConnectSteps, ShutdownSteps, Threads
<1>1. /\ connects' = connects /\ registered' = registered /\ rust' = rust /\ freed' = freed
      /\ mine' = mine /\ destroyed' = destroyed /\ inside' = inside /\ event' = event
      /\ delivered' = delivered /\ notified' = notified /\ eos_reported' = eos_reported /\ after_eos' = after_eos
      /\ overtaken' = overtaken
  BY <1>0 DEF DestroyClaim, Goto, vars, stateVars, callVars, lifeVars, ffiVars, delegateVars, ShutdownClaim,
       HasRoomState, InCall
<1>2. /\ \A u \in AppThreads : at[u] = "idle"
      /\ ~destroying
  BY <1>0, RoomAssumption DEF RoomInv, RoomTypeOK, AppInv, FfiInv, HandleInv, Unpublished, Connects, ConnectSteps, None,
       DestroyClaim, Goto, ShutdownClaim, HasRoomState, InCall
<1>3. /\ claimed'[t] \in {None, connects}
      /\ connection_state # "Disconnected" => claimed'[t] = connects
      /\ connection_state = "Disconnected" => claimed'[t] = None
      /\ \A u \in Threads \ {t} : claimed'[u] = claimed[u]
      /\ handle'[t] = room_handle /\ \A u \in Threads \ {t} : handle'[u] = handle[u]
      /\ room_handle' = None
      /\ listener_to_remove'[t] = listener_id /\ \A u \in Threads \ {t} : listener_to_remove'[u] = listener_to_remove[u]
      /\ listener_id' = None
      /\ connection_state' = "Disconnected"
      /\ at'[t] = "ffi_disconnect" /\ \A u \in Threads \ {t} : at'[u] = at[u]
      /\ destroying' = TRUE
  BY <1>0, <1>2, RoomAssumption DEF RoomInv, RoomTypeOK, CallsOK, Connects, DestroyClaim, Goto, ShutdownClaim,
       HasRoomState, InCall
<1>4. RoomTypeOK'
  BY <1>0, <1>1, <1>2, RoomAssumption DEF RoomInv, RoomTypeOK, CallsOK, States, RustStates, Past, Connects, AppInv,
       FfiInv, Taking, ConnectSteps, ShutdownSteps, None, DestroyClaim, Goto, ShutdownClaim, HasRoomState, InCall
<1>5. CallsOK'
  BY <1>0, <1>1, <1>2, RoomAssumption DEF RoomInv, RoomTypeOK, CallsOK, AppPlaces, FfiPlaces, ConnectSteps,
       ShutdownSteps, EventKinds, NoEvent, DestroyClaim, Goto, AppInv, None, ShutdownClaim, HasRoomState, InCall
<1>6. AppInv'
  BY <1>0, <1>1, <1>2, <1>3, RoomAssumption DEF RoomInv, AppInv, AppPlaces, ConnectSteps, ShutdownSteps, Taking, FfiInv,
       FfiPlaces, CallsOK, RoomTypeOK, Threads, None
<1>7. FfiInv'
  BY <1>0, <1>1, <1>2, <1>3, RoomAssumption DEF RoomInv, FfiInv, FfiPlaces, Threads, None
<1>8. EventsInv'
  BY <1>0, <1>1, <1>2, <1>3 DEF RoomInv, EventsInv, Threads
<1>9. ListenerInv'
  BY <1>0, <1>1, <1>2, <1>3, RoomAssumption DEF RoomInv, ListenerInv, AppInv, AppPlaces, ConnectSteps, ShutdownSteps,
       Taking, FfiInv, FfiPlaces, Threads, None
<1>10. HandleInv'
  BY <1>0, <1>1, <1>2, <1>3, RoomAssumption DEF RoomInv, RoomTypeOK, Past, AppInv, Taking, ListenerInv, HandleInv,
       RpcPointerValid, Unpublished, AppPlaces, FfiPlaces, ConnectSteps, ShutdownSteps, Threads, None
<1>11. ClaimInv'
  BY <1>0, <1>1, <1>2, <1>3 DEF RoomInv, ClaimInv, Unpublished, Threads
<1>12. EosInv'
  BY <1>0, <1>1, <1>2, <1>3 DEF RoomInv, EosInv, EosOf, Unpublished, Threads
<1>13. DestroyInv'
  BY <1>0, <1>1, <1>2, <1>3 DEF RoomInv, DestroyInv, ConnectSteps, Threads
<1> QED
  BY <1>4, <1>5, <1>6, <1>7, <1>8, <1>9, <1>10, <1>11, <1>12, <1>13 DEF RoomInv

\* The destructor of a room that is already disconnected has nothing to take.
LEMMA DestroyNothingStep ==
  ASSUME RoomInv, NEW t \in AppThreads, DestroyNothing(t)
  PROVE  RoomInv'
<1>0. t \in AppThreads /\ t \in Threads
  BY DEF RoomInv, FfiInv, AppInv, DestroyNothing, AppPlaces, FfiPlaces, ConnectSteps, ShutdownSteps, Threads
<1>1. /\ connection_state' = connection_state /\ listener_id' = listener_id /\ room_handle' = room_handle
      /\ connects' = connects
      /\ registered' = registered /\ rust' = rust /\ freed' = freed /\ at' = at
      /\ mine' = mine /\ handle' = handle /\ listener_to_remove' = listener_to_remove /\ claimed' = claimed
      /\ inside' = inside /\ event' = event /\ delivered' = delivered /\ notified' = notified
      /\ eos_reported' = eos_reported /\ after_eos' = after_eos /\ overtaken' = overtaken
  BY <1>0 DEF DestroyNothing, Goto, vars, stateVars, callVars, lifeVars, ffiVars, delegateVars, HasRoomState, InCall
<1>2. /\ \A u \in AppThreads : at[u] = "idle"
      /\ ~destroying
      /\ connection_state = "Disconnected" /\ listener_id = None /\ room_handle = None
  BY <1>0, RoomAssumption DEF RoomInv, RoomTypeOK, AppInv, FfiInv, HandleInv, Unpublished, Connects, ConnectSteps, None,
       DestroyNothing, Goto, HasRoomState, InCall
<1>3. /\ destroying' = TRUE
      /\ destroyed' = TRUE
  BY <1>0, <1>2, RoomAssumption DEF RoomInv, RoomTypeOK, CallsOK, Connects, DestroyNothing, Goto, HasRoomState, InCall
<1>4. RoomTypeOK'
  BY <1>0, <1>1, <1>2, RoomAssumption DEF RoomInv, RoomTypeOK, CallsOK, States, RustStates, Past, Connects, AppInv,
       FfiInv, Taking, ConnectSteps, ShutdownSteps, None, DestroyNothing, Goto, HasRoomState, InCall
<1>5. CallsOK'
  BY <1>0, <1>1, <1>2, RoomAssumption DEF RoomInv, RoomTypeOK, CallsOK, AppPlaces, FfiPlaces, ConnectSteps,
       ShutdownSteps, EventKinds, NoEvent, DestroyNothing, Goto, AppInv, None, HasRoomState, InCall
<1>6. AppInv'
  BY <1>0, <1>1, <1>2, <1>3 DEF RoomInv, AppInv, AppPlaces, ConnectSteps, ShutdownSteps, Taking, Threads
<1>7. FfiInv'
  BY <1>0, <1>1, <1>2, <1>3 DEF RoomInv, FfiInv, FfiPlaces, Threads
<1>8. EventsInv'
  BY <1>0, <1>1, <1>2, <1>3 DEF RoomInv, EventsInv, Threads
<1>9. ListenerInv'
  BY <1>0, <1>1, <1>2, <1>3 DEF RoomInv, ListenerInv, Threads
<1>10. HandleInv'
  BY <1>0, <1>1, <1>2, <1>3 DEF RoomInv, HandleInv, Unpublished, RpcPointerValid, Threads
<1>11. ClaimInv'
  BY <1>0, <1>1, <1>2, <1>3 DEF RoomInv, ClaimInv, Unpublished, Threads
<1>12. EosInv'
  BY <1>0, <1>1, <1>2, <1>3 DEF RoomInv, EosInv, EosOf, Unpublished, Threads
<1>13. DestroyInv'
  BY <1>0, <1>1, <1>2, <1>3 DEF RoomInv, DestroyInv, ConnectSteps, Threads
<1> QED
  BY <1>4, <1>5, <1>6, <1>7, <1>8, <1>9, <1>10, <1>11, <1>12, <1>13 DEF RoomInv

\* The shutdown sends the disconnect request, after which Rust closes the room.
LEMMA ShutdownFfiStep ==
  ASSUME RoomInv, NEW t \in Threads, ShutdownFfi(t)
  PROVE  RoomInv'
<1>0. t \in AppThreads /\ t \in Threads
  BY DEF RoomInv, FfiInv, AppInv, ShutdownFfi, AppPlaces, FfiPlaces, ConnectSteps, ShutdownSteps, Threads
<1>1. /\ connection_state' = connection_state /\ listener_id' = listener_id /\ room_handle' = room_handle
      /\ connects' = connects
      /\ registered' = registered /\ freed' = freed /\ mine' = mine /\ handle' = handle
      /\ listener_to_remove' = listener_to_remove /\ claimed' = claimed /\ destroying' = destroying
      /\ destroyed' = destroyed
      /\ inside' = inside /\ event' = event /\ delivered' = delivered /\ notified' = notified
      /\ eos_reported' = eos_reported /\ after_eos' = after_eos /\ overtaken' = overtaken
  BY <1>0 DEF ShutdownFfi, Goto, vars, stateVars, callVars, lifeVars, ffiVars, delegateVars
<1>2. /\ at[t] = "ffi_disconnect"
  BY <1>0, RoomAssumption DEF RoomInv, RoomTypeOK, AppInv, FfiInv, HandleInv, Unpublished, Connects, ConnectSteps, None,
       ShutdownFfi, Goto
<1>3. /\ IF handle[t] # None /\ claimed[t] # None THEN rust' = [rust EXCEPT ![handle[t]] = "closing"] ELSE rust' = rust
      /\ at'[t] = "remove" /\ \A u \in Threads \ {t} : at'[u] = at[u]
  BY <1>0, <1>2, RoomAssumption DEF RoomInv, RoomTypeOK, CallsOK, Connects, ShutdownFfi, Goto
<1>4. RoomTypeOK'
  BY <1>0, <1>1, <1>2, RoomAssumption DEF RoomInv, RoomTypeOK, CallsOK, States, RustStates, Past, Connects, AppInv,
       FfiInv, Taking, ConnectSteps, ShutdownSteps, None, ShutdownFfi, Goto
<1>5. CallsOK'
  BY <1>0, <1>1, <1>2, RoomAssumption DEF RoomInv, RoomTypeOK, CallsOK, AppPlaces, FfiPlaces, ConnectSteps,
       ShutdownSteps, EventKinds, NoEvent, ShutdownFfi, Goto, AppInv, None
<1>6. AppInv'
  BY <1>0, <1>1, <1>2, <1>3 DEF RoomInv, AppInv, AppPlaces, ConnectSteps, ShutdownSteps, Taking, Threads
<1>7. FfiInv'
  BY <1>0, <1>1, <1>2, <1>3 DEF RoomInv, FfiInv, FfiPlaces, Threads
<1>8. EventsInv'
  BY <1>0, <1>1, <1>2, <1>3, RoomAssumption DEF RoomInv, EventsInv, AppInv, AppPlaces, ConnectSteps, ShutdownSteps,
       Taking, FfiInv, FfiPlaces, CallsOK, RoomTypeOK, Threads, None
<1>9. ListenerInv'
  BY <1>0, <1>1, <1>2, <1>3 DEF RoomInv, ListenerInv, Threads
<1>10. HandleInv'
  BY <1>0, <1>1, <1>2, <1>3, RoomAssumption DEF RoomInv, HandleInv, Unpublished, RpcPointerValid, AppInv, AppPlaces,
       ConnectSteps, ShutdownSteps, Taking, Threads, None
<1>11. ClaimInv'
  BY <1>0, <1>1, <1>2, <1>3 DEF RoomInv, ClaimInv, Unpublished, Threads
<1>12. EosInv'
  BY <1>0, <1>1, <1>2, <1>3, RoomAssumption DEF RoomInv, EosInv, EosOf, Unpublished, Threads, None
<1>13. DestroyInv'
  BY <1>0, <1>1, <1>2, <1>3 DEF RoomInv, DestroyInv, ConnectSteps, Threads
<1> QED
  BY <1>4, <1>5, <1>6, <1>7, <1>8, <1>9, <1>10, <1>11, <1>12, <1>13 DEF RoomInv

\* The shutdown removes the listener that it took with its claim.
LEMMA ShutdownRemoveStep ==
  ASSUME RoomInv, NEW t \in Threads, ShutdownRemove(t)
  PROVE  RoomInv'
<1>0. t \in Threads
  BY DEF RoomInv, FfiInv, AppInv, ShutdownRemove, AppPlaces, FfiPlaces, ConnectSteps, ShutdownSteps, Threads
<1>1. /\ connection_state' = connection_state /\ listener_id' = listener_id /\ room_handle' = room_handle
      /\ connects' = connects
      /\ rust' = rust /\ freed' = freed /\ mine' = mine /\ handle' = handle
      /\ listener_to_remove' = listener_to_remove /\ claimed' = claimed /\ destroying' = destroying
      /\ destroyed' = destroyed
      /\ inside' = inside /\ event' = event /\ delivered' = delivered /\ notified' = notified
      /\ eos_reported' = eos_reported /\ after_eos' = after_eos /\ overtaken' = overtaken
  BY <1>0 DEF ShutdownRemove, Goto, vars, stateVars, callVars, lifeVars, ffiVars, delegateVars, RemoveListener
<1>2. /\ at[t] = "remove"
  BY <1>0, RoomAssumption DEF RoomInv, RoomTypeOK, AppInv, FfiInv, HandleInv, Unpublished, Connects, ConnectSteps, None,
       ShutdownRemove, Goto, RemoveListener
<1>3. /\ registered' = registered \ {listener_to_remove[t]}
      /\ at'[t] = "wait" /\ \A u \in Threads \ {t} : at'[u] = at[u]
  BY <1>0, <1>2, RoomAssumption DEF RoomInv, RoomTypeOK, CallsOK, Connects, ShutdownRemove, Goto, RemoveListener
<1>4. RoomTypeOK'
  BY <1>0, <1>1, <1>2, RoomAssumption DEF RoomInv, RoomTypeOK, CallsOK, States, RustStates, Past, Connects, AppInv,
       FfiInv, Taking, ConnectSteps, ShutdownSteps, None, ShutdownRemove, Goto, RemoveListener
<1>5. CallsOK'
  BY <1>0, <1>1, <1>2, RoomAssumption DEF RoomInv, RoomTypeOK, CallsOK, AppPlaces, FfiPlaces, ConnectSteps,
       ShutdownSteps, EventKinds, NoEvent, ShutdownRemove, Goto, AppInv, None, RemoveListener
<1>6. AppInv'
  BY <1>0, <1>1, <1>2, <1>3 DEF RoomInv, AppInv, AppPlaces, ConnectSteps, ShutdownSteps, Taking, Threads
<1>7. FfiInv'
  BY <1>0, <1>1, <1>2, <1>3 DEF RoomInv, FfiInv, FfiPlaces, Threads
<1>8. EventsInv'
  BY <1>0, <1>1, <1>2, <1>3 DEF RoomInv, EventsInv, Threads
<1>9. ListenerInv'
  BY <1>0, <1>1, <1>2, <1>3, RoomAssumption DEF RoomInv, ListenerInv, AppInv, AppPlaces, ConnectSteps, ShutdownSteps,
       Taking, Threads, None
<1>10. HandleInv'
  BY <1>0, <1>1, <1>2, <1>3 DEF RoomInv, HandleInv, Unpublished, RpcPointerValid, Threads
<1>11. ClaimInv'
  BY <1>0, <1>1, <1>2, <1>3 DEF RoomInv, ClaimInv, Unpublished, Threads
<1>12. EosInv'
  BY <1>0, <1>1, <1>2, <1>3 DEF RoomInv, EosInv, EosOf, Unpublished, Threads
<1>13. DestroyInv'
  BY <1>0, <1>1, <1>2, <1>3 DEF RoomInv, DestroyInv, ConnectSteps, Threads
<1> QED
  BY <1>4, <1>5, <1>6, <1>7, <1>8, <1>9, <1>10, <1>11, <1>12, <1>13 DEF RoomInv

\* disconnect() or the destructor drops the handle that it took: no event reads it any more.
LEMMA ShutdownReleaseAppStep ==
  ASSUME RoomInv, NEW t \in AppThreads, ShutdownRelease(t)
  PROVE  RoomInv'
<1>0. t \in AppThreads /\ t \in Threads
  BY DEF RoomInv, FfiInv, AppInv, ShutdownRelease, AppPlaces, FfiPlaces, ConnectSteps, ShutdownSteps, Threads
<1>1. /\ connection_state' = connection_state /\ listener_id' = listener_id /\ room_handle' = room_handle
      /\ connects' = connects
      /\ registered' = registered /\ rust' = rust /\ mine' = mine /\ destroying' = destroying
      /\ destroyed' = destroyed /\ inside' = inside /\ event' = event /\ delivered' = delivered
      /\ notified' = notified /\ eos_reported' = eos_reported /\ after_eos' = after_eos /\ overtaken' = overtaken
  BY <1>0 DEF ShutdownRelease, Goto, vars, stateVars, callVars, lifeVars, ffiVars, delegateVars, NoOtherCallback
<1>2. /\ at[t] = "wait"
      /\ listener_to_remove[t] # None => \A u \in FfiThreads \ {t} : inside[u] # listener_to_remove[t]
  BY <1>0, RoomAssumption DEF RoomInv, RoomTypeOK, AppInv, FfiInv, HandleInv, Unpublished, Connects, ConnectSteps, None,
       ShutdownRelease, Goto, NoOtherCallback
<1>3. /\ freed' = freed \cup ({handle[t]} \ {None})
      /\ handle'[t] = None /\ \A u \in Threads \ {t} : handle'[u] = handle[u]
      /\ listener_to_remove'[t] = None /\ \A u \in Threads \ {t} : listener_to_remove'[u] = listener_to_remove[u]
      /\ claimed'[t] = claimed[t] /\ \A u \in Threads \ {t} : claimed'[u] = claimed[u]
      /\ at'[t] = "notify" /\ \A u \in Threads \ {t} : at'[u] = at[u]
  BY <1>0, <1>2, RoomAssumption DEF RoomInv, RoomTypeOK, CallsOK, Connects, ShutdownRelease, Goto, NoOtherCallback
<1>4. RoomTypeOK'
  <2>1. {handle[t]} \ {None} \subseteq Past
    BY <1>0, RoomAssumption DEF RoomInv, RoomTypeOK, CallsOK, Past, None
  <2> QED
    BY <1>1, <1>3, <2>1 DEF RoomInv, RoomTypeOK, Past
<1>5. CallsOK'
  BY <1>0, <1>1, <1>2, RoomAssumption DEF RoomInv, RoomTypeOK, CallsOK, AppPlaces, FfiPlaces, ConnectSteps,
       ShutdownSteps, EventKinds, NoEvent, ShutdownRelease, Goto, AppInv, None, NoOtherCallback
<1>6. AppInv'
  BY <1>0, <1>1, <1>2, <1>3 DEF RoomInv, AppInv, AppPlaces, ConnectSteps, ShutdownSteps, Taking, Threads
<1>7. FfiInv'
  BY <1>0, <1>1, <1>2, <1>3, RoomAssumption DEF RoomInv, FfiInv, FfiPlaces, Threads, None
<1>8. EventsInv'
  BY <1>0, <1>1, <1>2, <1>3 DEF RoomInv, EventsInv, Threads
<1>9. ListenerInv'
  BY <1>0, <1>1, <1>2, <1>3, RoomAssumption DEF RoomInv, ListenerInv, AppInv, AppPlaces, ConnectSteps, ShutdownSteps,
       Taking, Threads, None
<1>10. HandleInv'
  BY <1>0, <1>1, <1>2, <1>3, RoomAssumption DEF RoomInv, HandleInv, Unpublished, RpcPointerValid, AppInv, AppPlaces,
       ConnectSteps, ShutdownSteps, Taking, FfiInv, FfiPlaces, Threads, None
<1>11. ClaimInv'
  BY <1>0, <1>1, <1>2, <1>3 DEF RoomInv, ClaimInv, Unpublished, Threads
<1>12. EosInv'
  BY <1>0, <1>1, <1>2, <1>3 DEF RoomInv, EosInv, EosOf, Unpublished, Threads
<1>13. DestroyInv'
  BY <1>0, <1>1, <1>2, <1>3 DEF RoomInv, DestroyInv, ConnectSteps, Threads
<1> QED
  BY <1>4, <1>5, <1>6, <1>7, <1>8, <1>9, <1>10, <1>11, <1>12, <1>13 DEF RoomInv

\* The end of the stream drops the handle that it took.
LEMMA ShutdownReleaseFfiStep ==
  ASSUME RoomInv, NEW t \in FfiThreads, ShutdownRelease(t)
  PROVE  RoomInv'
<1>0. t \in FfiThreads /\ t \in Threads
  BY DEF RoomInv, FfiInv, AppInv, ShutdownRelease, AppPlaces, FfiPlaces, ConnectSteps, ShutdownSteps, Threads
<1>1. /\ connection_state' = connection_state /\ listener_id' = listener_id /\ room_handle' = room_handle
      /\ connects' = connects
      /\ registered' = registered /\ rust' = rust /\ mine' = mine /\ destroying' = destroying
      /\ destroyed' = destroyed /\ inside' = inside /\ event' = event /\ delivered' = delivered
      /\ notified' = notified /\ eos_reported' = eos_reported /\ after_eos' = after_eos /\ overtaken' = overtaken
  BY <1>0 DEF ShutdownRelease, Goto, vars, stateVars, callVars, lifeVars, ffiVars, delegateVars, NoOtherCallback
<1>2. /\ at[t] = "wait"
      /\ listener_to_remove[t] # None => \A u \in FfiThreads \ {t} : inside[u] # listener_to_remove[t]
  BY <1>0, RoomAssumption DEF RoomInv, RoomTypeOK, AppInv, FfiInv, HandleInv, Unpublished, Connects, ConnectSteps, None,
       ShutdownRelease, Goto, NoOtherCallback
<1>3. /\ freed' = freed \cup ({handle[t]} \ {None})
      /\ handle'[t] = None /\ \A u \in Threads \ {t} : handle'[u] = handle[u]
      /\ listener_to_remove'[t] = None /\ \A u \in Threads \ {t} : listener_to_remove'[u] = listener_to_remove[u]
      /\ claimed'[t] = None /\ \A u \in Threads \ {t} : claimed'[u] = claimed[u]
      /\ at'[t] = "eos_notify" /\ \A u \in Threads \ {t} : at'[u] = at[u]
  BY <1>0, <1>2, RoomAssumption DEF RoomInv, RoomTypeOK, CallsOK, Connects, ShutdownRelease, Goto, NoOtherCallback
<1>4. RoomTypeOK'
  <2>1. {handle[t]} \ {None} \subseteq Past
    BY <1>0, RoomAssumption DEF RoomInv, RoomTypeOK, CallsOK, Past, None
  <2> QED
    BY <1>1, <1>3, <2>1 DEF RoomInv, RoomTypeOK, Past
<1>5. CallsOK'
  BY <1>0, <1>1, <1>2, RoomAssumption DEF RoomInv, RoomTypeOK, CallsOK, AppPlaces, FfiPlaces, ConnectSteps,
       ShutdownSteps, EventKinds, NoEvent, ShutdownRelease, Goto, AppInv, None, NoOtherCallback
<1>6. AppInv'
  BY <1>0, <1>1, <1>2, <1>3, RoomAssumption DEF RoomInv, AppInv, AppPlaces, ConnectSteps, ShutdownSteps, Taking,
       Threads, None
<1>7. FfiInv'
  BY <1>0, <1>1, <1>2, <1>3 DEF RoomInv, FfiInv, FfiPlaces, Threads
<1>8. EventsInv'
  BY <1>0, <1>1, <1>2, <1>3 DEF RoomInv, EventsInv, Threads
<1>9. ListenerInv'
  BY <1>0, <1>1, <1>2, <1>3, RoomAssumption DEF RoomInv, ListenerInv, AppInv, AppPlaces, ConnectSteps, ShutdownSteps,
       Taking, FfiInv, FfiPlaces, Threads, None
<1>10. HandleInv'
  BY <1>0, <1>1, <1>2, <1>3, RoomAssumption DEF RoomInv, HandleInv, Unpublished, RpcPointerValid, AppInv, AppPlaces,
       ConnectSteps, ShutdownSteps, Taking, FfiInv, FfiPlaces, Threads, None
<1>11. ClaimInv'
  BY <1>0, <1>1, <1>2, <1>3 DEF RoomInv, ClaimInv, Unpublished, Threads
<1>12. EosInv'
  BY <1>0, <1>1, <1>2, <1>3 DEF RoomInv, EosInv, EosOf, Unpublished, Threads
<1>13. DestroyInv'
  BY <1>0, <1>1, <1>2, <1>3 DEF RoomInv, DestroyInv, ConnectSteps, Threads
<1> QED
  BY <1>4, <1>5, <1>6, <1>7, <1>8, <1>9, <1>10, <1>11, <1>12, <1>13 DEF RoomInv

\* disconnect() reports the disconnection that it claimed, outside the lock.
LEMMA ShutdownNotifyStep ==
  ASSUME RoomInv, NEW t \in Threads, ShutdownNotify(t)
  PROVE  RoomInv'
<1>0. t \in AppThreads /\ t \in Threads
  BY DEF RoomInv, FfiInv, AppInv, ShutdownNotify, AppPlaces, FfiPlaces, ConnectSteps, ShutdownSteps, Threads
<1>1. /\ connection_state' = connection_state /\ listener_id' = listener_id /\ room_handle' = room_handle
      /\ connects' = connects
      /\ registered' = registered /\ rust' = rust /\ freed' = freed /\ mine' = mine
      /\ handle' = handle /\ listener_to_remove' = listener_to_remove /\ destroying' = destroying /\ inside' = inside
      /\ event' = event /\ delivered' = delivered /\ eos_reported' = eos_reported /\ overtaken' = overtaken
  BY <1>0 DEF ShutdownNotify, Goto, vars, stateVars, callVars, lifeVars, ffiVars, delegateVars, Report
<1>2. /\ at[t] = "notify"
  BY <1>0, RoomAssumption DEF RoomInv, RoomTypeOK, AppInv, FfiInv, HandleInv, Unpublished, Connects, ConnectSteps, None,
       ShutdownNotify, Goto, Report
<1>3. /\ \A n \in Connects \ {claimed[t]} : notified'[n] = notified[n]
      /\ claimed[t] # None => notified'[claimed[t]] = notified[claimed[t]] + 1
      /\ after_eos \subseteq after_eos' /\ after_eos' \subseteq after_eos \cup {claimed[t]}
      /\ claimed[t] = None \/ claimed[t] \notin eos_reported => after_eos' = after_eos
      /\ claimed'[t] = None /\ \A u \in Threads \ {t} : claimed'[u] = claimed[u]
      /\ destroyed' = destroying
      /\ at'[t] = "idle" /\ \A u \in Threads \ {t} : at'[u] = at[u]
  <2>1. CASE claimed[t] = None
    BY <1>0, <1>2, <2>1 DEF RoomInv, CallsOK, RoomTypeOK, ShutdownNotify, Goto
  <2>2. CASE claimed[t] # None
    <3>1. claimed[t] \in Connects
      BY <1>0, <2>2, RoomAssumption DEF RoomInv, CallsOK, RoomTypeOK, Connects, None
    <3>2. notified' = [notified EXCEPT ![claimed[t]] = @ + 1]
      BY <2>2 DEF ShutdownNotify
    <3>3. /\ \A n \in Connects \ {claimed[t]} : notified'[n] = notified[n]
          /\ notified'[claimed[t]] = notified[claimed[t]] + 1
      BY <3>1, <3>2 DEF RoomInv, RoomTypeOK
    <3> QED
      BY <1>0, <1>2, <2>2, <3>3 DEF RoomInv, CallsOK, ShutdownNotify, Report, Goto
  <2> QED
    BY <2>1, <2>2
<1>4. RoomTypeOK'
  <2>1. /\ claimed[t] \in 0 .. connects /\ connects \in Nat /\ \A n \in Connects : notified[n] \in Nat
        /\ claimed[t] # None => claimed[t] \in Connects
    BY <1>0, RoomAssumption DEF RoomInv, RoomTypeOK, CallsOK, Connects, None
  <2>2. after_eos' \in SUBSET Past
    BY <1>3, <2>1 DEF RoomInv, RoomTypeOK, Past, None
  <2>3. notified' = notified \/ (claimed[t] # None /\ notified' = [notified EXCEPT ![claimed[t]] = @ + 1])
    BY DEF ShutdownNotify
  <2>4. notified' \in [Connects -> Nat]
    BY <2>1, <2>3 DEF RoomInv, RoomTypeOK
  <2> QED
    BY <1>1, <1>3, <2>2, <2>4 DEF RoomInv, RoomTypeOK, Past
<1>5. CallsOK'
  BY <1>0, <1>1, <1>2, RoomAssumption DEF RoomInv, RoomTypeOK, CallsOK, AppPlaces, FfiPlaces, ConnectSteps,
       ShutdownSteps, EventKinds, NoEvent, ShutdownNotify, Goto, AppInv, None, Report
<1>6. AppInv'
  BY <1>0, <1>1, <1>2, <1>3 DEF RoomInv, AppInv, AppPlaces, ConnectSteps, ShutdownSteps, Taking, Threads
<1>7. FfiInv'
  BY <1>0, <1>1, <1>2, <1>3 DEF RoomInv, FfiInv, FfiPlaces, Threads
<1>8. EventsInv'
  BY <1>0, <1>1, <1>2, <1>3 DEF RoomInv, EventsInv, Threads
<1>9. ListenerInv'
  BY <1>0, <1>1, <1>2, <1>3 DEF RoomInv, ListenerInv, Threads
<1>10. HandleInv'
  BY <1>0, <1>1, <1>2, <1>3 DEF RoomInv, HandleInv, Unpublished, RpcPointerValid, Threads
<1>11. ClaimInv'
  BY <1>0, <1>1, <1>3, ReportOnce, RoomAssumption DEF Threads
<1>12. EosInv'
  BY <1>0, <1>1, <1>2, <1>3 DEF RoomInv, EosInv, EosOf, Unpublished, Threads
<1>13. DestroyInv'
  BY <1>0, <1>1, <1>2, <1>3 DEF RoomInv, DestroyInv, ConnectSteps, Threads
<1> QED
  BY <1>4, <1>5, <1>6, <1>7, <1>8, <1>9, <1>10, <1>11, <1>12, <1>13 DEF RoomInv

\* A callback returns at once: there is no delegate or the event is not for this room.
LEMMA OnEventIgnoredStep ==
  ASSUME RoomInv, NEW t \in FfiThreads, OnEventIgnored(t)
  PROVE  RoomInv'
<1>0. t \in FfiThreads /\ t \in Threads
  BY DEF RoomInv, FfiInv, AppInv, OnEventIgnored, AppPlaces, FfiPlaces, ConnectSteps, ShutdownSteps, Threads
<1>1. /\ connection_state' = connection_state /\ listener_id' = listener_id /\ room_handle' = room_handle
      /\ connects' = connects
      /\ registered' = registered /\ rust' = rust /\ freed' = freed /\ mine' = mine
      /\ handle' = handle /\ listener_to_remove' = listener_to_remove /\ claimed' = claimed /\ destroying' = destroying
      /\ destroyed' = destroyed /\ delivered' = delivered /\ notified' = notified /\ eos_reported' = eos_reported
      /\ after_eos' = after_eos /\ overtaken' = overtaken
  BY <1>0 DEF OnEventIgnored, Goto, vars, stateVars, callVars, lifeVars, ffiVars, delegateVars, Leave
<1>2. /\ at[t] = "check" /\ event[t].room # room_handle
  BY <1>0, RoomAssumption DEF RoomInv, RoomTypeOK, AppInv, FfiInv, HandleInv, Unpublished, Connects, ConnectSteps, None,
       OnEventIgnored, Goto, Leave
<1>3. /\ inside'[t] = None /\ \A u \in FfiThreads \ {t} : inside'[u] = inside[u]
      /\ event'[t] = NoEvent /\ \A u \in FfiThreads \ {t} : event'[u] = event[u]
      /\ at'[t] = "idle" /\ \A u \in Threads \ {t} : at'[u] = at[u]
  BY <1>0, <1>2, RoomAssumption DEF RoomInv, RoomTypeOK, CallsOK, Connects, OnEventIgnored, Goto, Leave
<1>4. RoomTypeOK'
  BY <1>0, <1>1, <1>2, RoomAssumption DEF RoomInv, RoomTypeOK, CallsOK, States, RustStates, Past, Connects, AppInv,
       FfiInv, Taking, ConnectSteps, ShutdownSteps, None, OnEventIgnored, Goto, Leave
<1>5. CallsOK'
  BY <1>0, <1>1, <1>2, RoomAssumption DEF RoomInv, RoomTypeOK, CallsOK, AppPlaces, FfiPlaces, ConnectSteps,
       ShutdownSteps, EventKinds, NoEvent, OnEventIgnored, Goto, AppInv, None, Leave
<1>6. AppInv'
  BY <1>0, <1>1, <1>2, <1>3 DEF RoomInv, AppInv, AppPlaces, ConnectSteps, ShutdownSteps, Taking, Threads
<1>7. FfiInv'
  BY <1>0, <1>1, <1>2, <1>3 DEF RoomInv, FfiInv, FfiPlaces, Threads, NoEvent
<1>8. EventsInv'
  BY <1>0, <1>1, <1>2, <1>3 DEF RoomInv, EventsInv, Threads, NoEvent
<1>9. ListenerInv'
  BY <1>0, <1>1, <1>2, <1>3 DEF RoomInv, ListenerInv, Threads
<1>10. HandleInv'
  BY <1>0, <1>1, <1>2, <1>3 DEF RoomInv, HandleInv, Unpublished, RpcPointerValid, Threads
<1>11. ClaimInv'
  BY <1>0, <1>1, <1>2, <1>3 DEF RoomInv, ClaimInv, Unpublished, Threads
<1>12. EosInv'
  BY <1>0, <1>1, <1>2, <1>3, LeaveKeepsEos
<1>13. DestroyInv'
  BY <1>0, <1>1, <1>2, <1>3 DEF RoomInv, DestroyInv, ConnectSteps, Threads
<1> QED
  BY <1>4, <1>5, <1>6, <1>7, <1>8, <1>9, <1>10, <1>11, <1>12, <1>13 DEF RoomInv

\* A callback has read the handle under the lock and goes on to handle the event.
LEMMA OnEventCheckedStep ==
  ASSUME RoomInv, NEW t \in FfiThreads, OnEventChecked(t)
  PROVE  RoomInv'
<1>0. t \in FfiThreads /\ t \in Threads
  BY DEF RoomInv, FfiInv, AppInv, OnEventChecked, AppPlaces, FfiPlaces, ConnectSteps, ShutdownSteps, Threads
<1>1. /\ connection_state' = connection_state /\ listener_id' = listener_id /\ room_handle' = room_handle
      /\ connects' = connects
      /\ registered' = registered /\ rust' = rust /\ freed' = freed /\ mine' = mine
      /\ handle' = handle /\ listener_to_remove' = listener_to_remove /\ claimed' = claimed /\ destroying' = destroying
      /\ destroyed' = destroyed /\ inside' = inside /\ event' = event /\ delivered' = delivered
      /\ notified' = notified /\ eos_reported' = eos_reported /\ after_eos' = after_eos /\ overtaken' = overtaken
  BY <1>0 DEF OnEventChecked, Goto, vars, stateVars, callVars, lifeVars, ffiVars, delegateVars
<1>2. /\ at[t] = "check" /\ event[t].room = room_handle
  BY <1>0, RoomAssumption DEF RoomInv, RoomTypeOK, AppInv, FfiInv, HandleInv, Unpublished, Connects, ConnectSteps, None,
       OnEventChecked, Goto
<1>3. /\ event[t].kind = "rpc" => at'[t] = "rpc"
      /\ event[t].kind # "rpc" => at'[t] = "handle"
      /\ \A u \in Threads \ {t} : at'[u] = at[u]
  BY <1>0, <1>2, RoomAssumption DEF RoomInv, RoomTypeOK, CallsOK, Connects, OnEventChecked, Goto
<1>4. RoomTypeOK'
  BY <1>0, <1>1, <1>2, RoomAssumption DEF RoomInv, RoomTypeOK, CallsOK, States, RustStates, Past, Connects, AppInv,
       FfiInv, Taking, ConnectSteps, ShutdownSteps, None, OnEventChecked, Goto
<1>5. CallsOK'
  BY <1>0, <1>1, <1>2, RoomAssumption DEF RoomInv, RoomTypeOK, CallsOK, AppPlaces, FfiPlaces, ConnectSteps,
       ShutdownSteps, EventKinds, NoEvent, OnEventChecked, Goto, AppInv, None
<1>6. AppInv'
  BY <1>0, <1>1, <1>2, <1>3 DEF RoomInv, AppInv, AppPlaces, ConnectSteps, ShutdownSteps, Taking, Threads
<1>7. FfiInv'
  BY <1>0, <1>1, <1>2, <1>3, RoomAssumption DEF RoomInv, FfiInv, FfiPlaces, AppInv, AppPlaces, ConnectSteps,
       ShutdownSteps, Taking, CallsOK, RoomTypeOK, Threads, None
<1>8. EventsInv'
  BY <1>0, <1>1, <1>2, <1>3 DEF RoomInv, EventsInv, Threads
<1>9. ListenerInv'
  BY <1>0, <1>1, <1>2, <1>3 DEF RoomInv, ListenerInv, Threads
<1>10. HandleInv'
  BY <1>0, <1>1, <1>2, <1>3, RoomAssumption DEF RoomInv, HandleInv, Unpublished, RpcPointerValid, FfiInv, FfiPlaces,
       Threads, None
<1>11. ClaimInv'
  BY <1>0, <1>1, <1>2, <1>3 DEF RoomInv, ClaimInv, Unpublished, Threads
<1>12. EosInv'
  <2>1. /\ \A u \in AppThreads : at'[u] = at[u]
        /\ \A u \in FfiThreads \ {t} : at'[u] = at[u]
    BY <1>0, <1>3, RoomAssumption DEF Threads
  <2>2. room_handle = connects /\ inside[t] = connects
    BY <1>0, <1>2, RoomAssumption DEF RoomInv, RoomTypeOK, CallsOK, FfiInv, None
  <2>3. event[t].kind = "eos" /\ connects \notin overtaken => connection_state = "Disconnected"
    <3> SUFFICES ASSUME event[t].kind = "eos", connects \notin overtaken, connection_state # "Disconnected"
                 PROVE  FALSE
      OBVIOUS
    <3>1. inside[t] # None /\ event[t].room = connects /\ connects # None
      BY <1>0, <1>2, <2>2 DEF RoomInv, FfiInv
    <3>2. <<room_handle, room_handle, "disconnected">> \in delivered
      BY <1>0, <2>2, <3>1 DEF RoomInv, EventsInv
    <3>3. PICK u \in FfiThreads : inside[u] = room_handle /\ event[u].room = room_handle /\ event[u].kind = "disconnected"
      BY <2>2, <3>1, <3>2 DEF RoomInv, EosInv
    <3> QED
      BY <1>0, <2>2, <3>1, <3>3 DEF RoomInv, EventsInv
  <2>4. \A x \in FfiThreads : \A n : EosOf(n, x)' => EosOf(n, x) \/ (x = t /\ event[t].kind = "eos" /\ n = connects)
    BY <1>1, <1>2, <1>3, <2>1, <2>2 DEF EosOf
  <2>5. \A u \in AppThreads : claimed[u] # None => claimed[u] \in overtaken
    BY <1>0, <1>2 DEF RoomInv, FfiInv, EosInv
  <2>6. event[t].kind = "disconnected" => at'[t] \in {"check", "handle"}
    BY <1>3
  <2>7. room_handle # None /\ room_handle \notin overtaken /\ <<room_handle, room_handle, "disconnected">> \in delivered =>
          \/ connection_state = "Disconnected"
          \/ \E u \in FfiThreads : /\ inside[u] = room_handle /\ at'[u] \in {"check", "handle"}
                                   /\ event[u].room = room_handle /\ event[u].kind = "disconnected"
    BY <2>1, <2>6 DEF RoomInv, EosInv
  <2>8. connection_state # "Disconnected" /\ connects \notin overtaken =>
          connects \notin eos_reported /\ \A x \in FfiThreads : ~EosOf(connects, x)'
    BY <1>1, <2>3, <2>4 DEF RoomInv, EosInv
  <2> QED
    BY <1>1, <2>5, <2>7, <2>8 DEF RoomInv, EosInv, EosOf
<1>13. DestroyInv'
  BY <1>0, <1>1, <1>2, <1>3 DEF RoomInv, DestroyInv, ConnectSteps, Threads
<1> QED
  BY <1>4, <1>5, <1>6, <1>7, <1>8, <1>9, <1>10, <1>11, <1>12, <1>13 DEF RoomInv

\* An RPC invocation is answered by the local participant that the callback has read.
LEMMA OnRpcMethodInvocationStep ==
  ASSUME RoomInv, NEW t \in FfiThreads, OnRpcMethodInvocation(t)
  PROVE  RoomInv'
<1>0. t \in FfiThreads /\ t \in Threads
  BY DEF RoomInv, FfiInv, AppInv, OnRpcMethodInvocation, AppPlaces, FfiPlaces, ConnectSteps, ShutdownSteps, Threads
<1>1. /\ connection_state' = connection_state /\ listener_id' = listener_id /\ room_handle' = room_handle
      /\ connects' = connects
      /\ registered' = registered /\ rust' = rust /\ freed' = freed /\ mine' = mine
      /\ handle' = handle /\ listener_to_remove' = listener_to_remove /\ claimed' = claimed /\ destroying' = destroying
      /\ destroyed' = destroyed /\ delivered' = delivered /\ notified' = notified /\ eos_reported' = eos_reported
      /\ after_eos' = after_eos /\ overtaken' = overtaken
  BY <1>0 DEF OnRpcMethodInvocation, Goto, vars, stateVars, callVars, lifeVars, ffiVars, delegateVars, Leave
<1>2. /\ at[t] = "rpc"
  BY <1>0, RoomAssumption DEF RoomInv, RoomTypeOK, AppInv, FfiInv, HandleInv, Unpublished, Connects, ConnectSteps, None,
       OnRpcMethodInvocation, Goto, Leave
<1>3. /\ inside'[t] = None /\ \A u \in FfiThreads \ {t} : inside'[u] = inside[u]
      /\ event'[t] = NoEvent /\ \A u \in FfiThreads \ {t} : event'[u] = event[u]
      /\ at'[t] = "idle" /\ \A u \in Threads \ {t} : at'[u] = at[u]
  BY <1>0, <1>2, RoomAssumption DEF RoomInv, RoomTypeOK, CallsOK, Connects, OnRpcMethodInvocation, Goto, Leave
<1>4. RoomTypeOK'
  BY <1>0, <1>1, <1>2, RoomAssumption DEF RoomInv, RoomTypeOK, CallsOK, States, RustStates, Past, Connects, AppInv,
       FfiInv, Taking, ConnectSteps, ShutdownSteps, None, OnRpcMethodInvocation, Goto, Leave
<1>5. CallsOK'
  BY <1>0, <1>1, <1>2, RoomAssumption DEF RoomInv, RoomTypeOK, CallsOK, AppPlaces, FfiPlaces, ConnectSteps,
       ShutdownSteps, EventKinds, NoEvent, OnRpcMethodInvocation, Goto, AppInv, None, Leave
<1>6. AppInv'
  BY <1>0, <1>1, <1>2, <1>3 DEF RoomInv, AppInv, AppPlaces, ConnectSteps, ShutdownSteps, Taking, Threads
<1>7. FfiInv'
  BY <1>0, <1>1, <1>2, <1>3 DEF RoomInv, FfiInv, FfiPlaces, Threads, NoEvent
<1>8. EventsInv'
  BY <1>0, <1>1, <1>2, <1>3 DEF RoomInv, EventsInv, Threads, NoEvent
<1>9. ListenerInv'
  BY <1>0, <1>1, <1>2, <1>3 DEF RoomInv, ListenerInv, Threads
<1>10. HandleInv'
  BY <1>0, <1>1, <1>2, <1>3 DEF RoomInv, HandleInv, Unpublished, RpcPointerValid, Threads
<1>11. ClaimInv'
  BY <1>0, <1>1, <1>2, <1>3 DEF RoomInv, ClaimInv, Unpublished, Threads
<1>12. EosInv'
  BY <1>0, <1>1, <1>2, <1>3, LeaveKeepsEos
<1>13. DestroyInv'
  BY <1>0, <1>1, <1>2, <1>3 DEF RoomInv, DestroyInv, ConnectSteps, Threads
<1> QED
  BY <1>4, <1>5, <1>6, <1>7, <1>8, <1>9, <1>10, <1>11, <1>12, <1>13 DEF RoomInv

\* Any other event is handled without a change of the connection's state.
LEMMA OnOtherEventStep ==
  ASSUME RoomInv, NEW t \in FfiThreads, OnOtherEvent(t)
  PROVE  RoomInv'
<1>0. t \in FfiThreads /\ t \in Threads
  BY DEF RoomInv, FfiInv, AppInv, OnOtherEvent, AppPlaces, FfiPlaces, ConnectSteps, ShutdownSteps, Threads
<1>1. /\ connection_state' = connection_state /\ listener_id' = listener_id /\ room_handle' = room_handle
      /\ connects' = connects
      /\ registered' = registered /\ rust' = rust /\ freed' = freed /\ mine' = mine
      /\ handle' = handle /\ listener_to_remove' = listener_to_remove /\ claimed' = claimed /\ destroying' = destroying
      /\ destroyed' = destroyed /\ delivered' = delivered /\ notified' = notified /\ eos_reported' = eos_reported
      /\ overtaken' = overtaken
  BY <1>0 DEF OnOtherEvent, Goto, vars, stateVars, callVars, lifeVars, ffiVars, delegateVars, Leave, Report
<1>2. /\ at[t] = "handle" /\ event[t].kind = "other"
  BY <1>0, RoomAssumption DEF RoomInv, RoomTypeOK, AppInv, FfiInv, HandleInv, Unpublished, Connects, ConnectSteps, None,
       OnOtherEvent, Goto, Leave, Report
<1>3. /\ inside'[t] = None /\ \A u \in FfiThreads \ {t} : inside'[u] = inside[u]
      /\ event'[t] = NoEvent /\ \A u \in FfiThreads \ {t} : event'[u] = event[u]
      /\ at'[t] = "idle" /\ \A u \in Threads \ {t} : at'[u] = at[u]
      /\ after_eos' \subseteq after_eos \cup {event[t].room} /\ (event[t].room \notin eos_reported => after_eos' = after_eos)
  BY <1>0, <1>2, RoomAssumption DEF RoomInv, RoomTypeOK, CallsOK, Connects, OnOtherEvent, Goto, Leave, Report
<1>4. RoomTypeOK'
  BY <1>0, <1>1, <1>2, RoomAssumption DEF RoomInv, RoomTypeOK, CallsOK, States, RustStates, Past, Connects, AppInv,
       FfiInv, Taking, ConnectSteps, ShutdownSteps, None, OnOtherEvent, Goto, Leave, Report
<1>5. CallsOK'
  BY <1>0, <1>1, <1>2, RoomAssumption DEF RoomInv, RoomTypeOK, CallsOK, AppPlaces, FfiPlaces, ConnectSteps,
       ShutdownSteps, EventKinds, NoEvent, OnOtherEvent, Goto, AppInv, None, Leave, Report
<1>6. AppInv'
  BY <1>0, <1>1, <1>2, <1>3 DEF RoomInv, AppInv, AppPlaces, ConnectSteps, ShutdownSteps, Taking, Threads
<1>7. FfiInv'
  BY <1>0, <1>1, <1>2, <1>3 DEF RoomInv, FfiInv, FfiPlaces, Threads, NoEvent
<1>8. EventsInv'
  BY <1>0, <1>1, <1>2, <1>3 DEF RoomInv, EventsInv, Threads, NoEvent
<1>9. ListenerInv'
  BY <1>0, <1>1, <1>2, <1>3 DEF RoomInv, ListenerInv, Threads
<1>10. HandleInv'
  BY <1>0, <1>1, <1>2, <1>3 DEF RoomInv, HandleInv, Unpublished, RpcPointerValid, Threads
<1>11. ClaimInv'
  BY <1>0, <1>1, <1>2, <1>3 DEF RoomInv, ClaimInv, Unpublished, Threads
<1>12. EosInv'
  <2>1. event[t].room \notin eos_reported
    BY <1>0, <1>2 DEF RoomInv, FfiInv, EosInv
  <2>2. after_eos' = after_eos
    BY <1>3, <2>1
  <2>3. event[t].kind # "disconnected"
    BY <1>2
  <2> QED
    BY <1>0, <1>1, <1>3, <2>2, <2>3, LeaveKeepsEos
<1>13. DestroyInv'
  BY <1>0, <1>1, <1>2, <1>3 DEF RoomInv, DestroyInv, ConnectSteps, Threads
<1> QED
  BY <1>4, <1>5, <1>6, <1>7, <1>8, <1>9, <1>10, <1>11, <1>12, <1>13 DEF RoomInv

\* The disconnected event makes the state Disconnected, and claims the report if it was not.
LEMMA OnDisconnectedStep ==
  ASSUME RoomInv, NEW t \in FfiThreads, OnDisconnected(t)
  PROVE  RoomInv'
<1>0. t \in FfiThreads /\ t \in Threads
  BY DEF RoomInv, FfiInv, AppInv, OnDisconnected, AppPlaces, FfiPlaces, ConnectSteps, ShutdownSteps, Threads
<1>1. /\ listener_id' = listener_id /\ room_handle' = room_handle /\ connects' = connects /\ registered' = registered
      /\ rust' = rust /\ freed' = freed /\ mine' = mine /\ handle' = handle
      /\ listener_to_remove' = listener_to_remove /\ destroying' = destroying /\ destroyed' = destroyed
      /\ inside' = inside
      /\ event' = event /\ delivered' = delivered /\ notified' = notified /\ eos_reported' = eos_reported
      /\ after_eos' = after_eos /\ overtaken' = overtaken
  BY <1>0 DEF OnDisconnected, Goto, vars, stateVars, callVars, lifeVars, ffiVars, delegateVars
<1>2. /\ at[t] = "handle" /\ event[t].kind = "disconnected" /\ event[t].room = connects
  BY <1>0, RoomAssumption DEF RoomInv, RoomTypeOK, AppInv, FfiInv, HandleInv, Unpublished, Connects, ConnectSteps, None,
       OnDisconnected, Goto
<1>3. /\ connection_state' = "Disconnected"
      /\ claimed'[t] \in {None, connects}
      /\ connection_state # "Disconnected" => claimed'[t] = connects
      /\ connection_state = "Disconnected" => claimed'[t] = None
      /\ \A u \in Threads \ {t} : claimed'[u] = claimed[u]
      /\ at'[t] = "server_notify" /\ \A u \in Threads \ {t} : at'[u] = at[u]
  BY <1>0, <1>2, RoomAssumption DEF RoomInv, RoomTypeOK, CallsOK, Connects, OnDisconnected, Goto
<1>4. RoomTypeOK'
  BY <1>0, <1>1, <1>2, RoomAssumption DEF RoomInv, RoomTypeOK, CallsOK, States, RustStates, Past, Connects, AppInv,
       FfiInv, Taking, ConnectSteps, ShutdownSteps, None, OnDisconnected, Goto
<1>5. CallsOK'
  BY <1>0, <1>1, <1>2, RoomAssumption DEF RoomInv, RoomTypeOK, CallsOK, AppPlaces, FfiPlaces, ConnectSteps,
       ShutdownSteps, EventKinds, NoEvent, OnDisconnected, Goto, AppInv, None
<1>6. AppInv'
  BY <1>0, <1>1, <1>2, <1>3 DEF RoomInv, AppInv, AppPlaces, ConnectSteps, ShutdownSteps, Taking, Threads
<1>7. FfiInv'
  BY <1>0, <1>1, <1>2, <1>3 DEF RoomInv, FfiInv, FfiPlaces, Threads
<1>8. EventsInv'
  BY <1>0, <1>1, <1>2, <1>3 DEF RoomInv, EventsInv, Threads
<1>9. ListenerInv'
  BY <1>0, <1>1, <1>2, <1>3 DEF RoomInv, ListenerInv, Threads
<1>10. HandleInv'
  BY <1>0, <1>1, <1>2, <1>3 DEF RoomInv, HandleInv, Unpublished, RpcPointerValid, Threads
<1>11. ClaimInv'
  <2>1. \A u \in AppThreads : at[u] \notin Unpublished
    BY <1>0, <1>2, NoneUnpublished DEF RoomInv, FfiInv
  <2>2. \A u \in AppThreads : at'[u] = at[u]
    BY <1>0, <1>3, RoomAssumption DEF Threads
  <2>3. claimed[t] = None
    BY <1>0, <1>2 DEF RoomInv, FfiInv
  <2> QED
    BY <1>0, <1>1, <1>3, <2>1, <2>2, <2>3 DEF RoomInv, ClaimInv
<1>12. EosInv'
  BY <1>0, <1>1, <1>2, <1>3, RoomAssumption DEF RoomInv, EosInv, EosOf, Unpublished, Threads, None
<1>13. DestroyInv'
  BY <1>0, <1>1, <1>2, <1>3 DEF RoomInv, DestroyInv, ConnectSteps, Threads
<1> QED
  BY <1>4, <1>5, <1>6, <1>7, <1>8, <1>9, <1>10, <1>11, <1>12, <1>13 DEF RoomInv

\* The callback of the disconnected event reports the disconnection.
LEMMA OnDisconnectedNotifyStep ==
  ASSUME RoomInv, NEW t \in FfiThreads, OnDisconnectedNotify(t)
  PROVE  RoomInv'
<1>0. t \in FfiThreads /\ t \in Threads
  BY DEF RoomInv, FfiInv, AppInv, OnDisconnectedNotify, AppPlaces, FfiPlaces, ConnectSteps, ShutdownSteps, Threads
<1>1. /\ connection_state' = connection_state /\ listener_id' = listener_id /\ room_handle' = room_handle
      /\ connects' = connects
      /\ registered' = registered /\ rust' = rust /\ freed' = freed /\ mine' = mine
      /\ handle' = handle /\ listener_to_remove' = listener_to_remove /\ destroying' = destroying
      /\ destroyed' = destroyed
      /\ delivered' = delivered /\ eos_reported' = eos_reported /\ overtaken' = overtaken
  BY <1>0 DEF OnDisconnectedNotify, Goto, vars, stateVars, callVars, lifeVars, ffiVars, delegateVars, Leave, Report
<1>2. /\ at[t] = "server_notify"
  BY <1>0, RoomAssumption DEF RoomInv, RoomTypeOK, AppInv, FfiInv, HandleInv, Unpublished, Connects, ConnectSteps, None,
       OnDisconnectedNotify, Goto, Leave, Report
<1>3. /\ \A n \in Connects \ {claimed[t]} : notified'[n] = notified[n]
      /\ claimed[t] # None => notified'[claimed[t]] = notified[claimed[t]] + 1
      /\ after_eos \subseteq after_eos' /\ after_eos' \subseteq after_eos \cup {claimed[t]}
      /\ claimed[t] = None \/ claimed[t] \notin eos_reported => after_eos' = after_eos
      /\ claimed'[t] = None /\ \A u \in Threads \ {t} : claimed'[u] = claimed[u]
      /\ inside'[t] = None /\ \A u \in FfiThreads \ {t} : inside'[u] = inside[u]
      /\ event'[t] = NoEvent /\ \A u \in FfiThreads \ {t} : event'[u] = event[u]
      /\ at'[t] = "idle" /\ \A u \in Threads \ {t} : at'[u] = at[u]
  <2>1. CASE claimed[t] = None
    BY <1>0, <1>2, <2>1 DEF RoomInv, CallsOK, RoomTypeOK, OnDisconnectedNotify, Goto, Leave
  <2>2. CASE claimed[t] # None
    <3>1. claimed[t] \in Connects
      BY <1>0, <2>2, RoomAssumption DEF RoomInv, CallsOK, RoomTypeOK, Connects, None
    <3>2. notified' = [notified EXCEPT ![claimed[t]] = @ + 1]
      BY <2>2 DEF OnDisconnectedNotify
    <3>3. /\ \A n \in Connects \ {claimed[t]} : notified'[n] = notified[n]
          /\ notified'[claimed[t]] = notified[claimed[t]] + 1
      BY <3>1, <3>2 DEF RoomInv, RoomTypeOK
    <3> QED
      BY <1>0, <1>2, <2>2, <3>3 DEF RoomInv, CallsOK, OnDisconnectedNotify, Report, Goto, Leave
  <2> QED
    BY <2>1, <2>2
<1>4. RoomTypeOK'
  <2>1. /\ claimed[t] \in 0 .. connects /\ connects \in Nat /\ \A n \in Connects : notified[n] \in Nat
        /\ claimed[t] # None => claimed[t] \in Connects
    BY <1>0, RoomAssumption DEF RoomInv, RoomTypeOK, CallsOK, Connects, None
  <2>2. after_eos' \in SUBSET Past
    BY <1>3, <2>1 DEF RoomInv, RoomTypeOK, Past, None
  <2>3. notified' = notified \/ (claimed[t] # None /\ notified' = [notified EXCEPT ![claimed[t]] = @ + 1])
    BY DEF OnDisconnectedNotify
  <2>4. notified' \in [Connects -> Nat]
    BY <2>1, <2>3 DEF RoomInv, RoomTypeOK
  <2> QED
    BY <1>1, <1>3, <2>2, <2>4 DEF RoomInv, RoomTypeOK, Past
<1>5. CallsOK'
  BY <1>0, <1>1, <1>2, RoomAssumption DEF RoomInv, RoomTypeOK, CallsOK, AppPlaces, FfiPlaces, ConnectSteps,
       ShutdownSteps, EventKinds, NoEvent, OnDisconnectedNotify, Goto, AppInv, None, Leave, Report
<1>6. AppInv'
  BY <1>0, <1>1, <1>2, <1>3 DEF RoomInv, AppInv, AppPlaces, ConnectSteps, ShutdownSteps, Taking, Threads
<1>7. FfiInv'
  BY <1>0, <1>1, <1>2, <1>3 DEF RoomInv, FfiInv, FfiPlaces, Threads, NoEvent
<1>8. EventsInv'
  BY <1>0, <1>1, <1>2, <1>3 DEF RoomInv, EventsInv, Threads, NoEvent
<1>9. ListenerInv'
  BY <1>0, <1>1, <1>2, <1>3 DEF RoomInv, ListenerInv, Threads
<1>10. HandleInv'
  BY <1>0, <1>1, <1>2, <1>3 DEF RoomInv, HandleInv, Unpublished, RpcPointerValid, Threads
<1>11. ClaimInv'
  BY <1>0, <1>1, <1>3, ReportOnce, RoomAssumption DEF Threads
<1>12. EosInv'
  <2>1. event[t].room \notin eos_reported /\ claimed[t] \in {None, event[t].room}
    BY <1>0, <1>2 DEF RoomInv, FfiInv, EosInv
  <2>2. \A u \in AppThreads : claimed'[u] = claimed[u]
    BY <1>0, <1>3, RoomAssumption DEF Threads
  <2>3. after_eos' = after_eos
    BY <1>3, <2>1
  <2>4. at[t] \notin {"check", "handle"}
    BY <1>2
  <2> QED
    BY <1>0, <1>1, <1>3, <2>2, <2>3, <2>4, LeaveKeepsEos
<1>13. DestroyInv'
  BY <1>0, <1>1, <1>2, <1>3 DEF RoomInv, DestroyInv, ConnectSteps, Threads
<1> QED
  BY <1>4, <1>5, <1>6, <1>7, <1>8, <1>9, <1>10, <1>11, <1>12, <1>13 DEF RoomInv

\* The end of the stream takes the claim, the handle and the listener, as disconnect() does.
LEMMA OnEosClaimStep ==
  ASSUME RoomInv, NEW t \in FfiThreads, OnEosClaim(t)
  PROVE  RoomInv'
<1>0. t \in FfiThreads /\ t \in Threads
  BY DEF RoomInv, FfiInv, AppInv, OnEosClaim, AppPlaces, FfiPlaces, ConnectSteps, ShutdownSteps, Threads
<1>1. /\ connects' = connects /\ registered' = registered /\ rust' = rust /\ freed' = freed
      /\ mine' = mine /\ destroying' = destroying /\ destroyed' = destroyed /\ inside' = inside
      /\ event' = event /\ delivered' = delivered /\ notified' = notified /\ eos_reported' = eos_reported
      /\ after_eos' = after_eos /\ overtaken' = overtaken
  BY <1>0 DEF OnEosClaim, Goto, vars, stateVars, callVars, lifeVars, ffiVars, delegateVars, ShutdownClaim, HasRoomState
<1>2. /\ at[t] = "handle" /\ event[t].kind = "eos" /\ event[t].room = connects
  BY <1>0, RoomAssumption DEF RoomInv, RoomTypeOK, AppInv, FfiInv, HandleInv, Unpublished, Connects, ConnectSteps, None,
       OnEosClaim, Goto, ShutdownClaim, HasRoomState
<1>3. /\ claimed'[t] \in {None, connects}
      /\ connection_state # "Disconnected" => claimed'[t] = connects
      /\ connection_state = "Disconnected" => claimed'[t] = None
      /\ \A u \in Threads \ {t} : claimed'[u] = claimed[u]
      /\ handle'[t] = room_handle /\ \A u \in Threads \ {t} : handle'[u] = handle[u]
      /\ room_handle' = None
      /\ listener_to_remove'[t] = listener_id /\ \A u \in Threads \ {t} : listener_to_remove'[u] = listener_to_remove[u]
      /\ listener_id' = None
      /\ connection_state' = "Disconnected"
      /\ at'[t] = "remove" /\ \A u \in Threads \ {t} : at'[u] = at[u]
  BY <1>0, <1>2, RoomAssumption DEF RoomInv, RoomTypeOK, CallsOK, Connects, OnEosClaim, Goto, ShutdownClaim,
       HasRoomState
<1>4. RoomTypeOK'
  BY <1>0, <1>1, <1>2, RoomAssumption DEF RoomInv, RoomTypeOK, CallsOK, States, RustStates, Past, Connects, AppInv,
       FfiInv, Taking, ConnectSteps, ShutdownSteps, None, OnEosClaim, Goto, ShutdownClaim, HasRoomState
<1>5. CallsOK'
  BY <1>0, <1>1, <1>2, RoomAssumption DEF RoomInv, RoomTypeOK, CallsOK, AppPlaces, FfiPlaces, ConnectSteps,
       ShutdownSteps, EventKinds, NoEvent, OnEosClaim, Goto, AppInv, None, ShutdownClaim, HasRoomState
<1>6. AppInv'
  BY <1>0, <1>1, <1>2, <1>3 DEF RoomInv, AppInv, AppPlaces, ConnectSteps, ShutdownSteps, Taking, Threads
<1>7. FfiInv'
  BY <1>0, <1>1, <1>2, <1>3, RoomAssumption DEF RoomInv, FfiInv, FfiPlaces, AppInv, AppPlaces, ConnectSteps,
       ShutdownSteps, Taking, CallsOK, RoomTypeOK, Threads, None
<1>8. EventsInv'
  BY <1>0, <1>1, <1>2, <1>3 DEF RoomInv, EventsInv, Threads
<1>9. ListenerInv'
  <2>1. \A u \in AppThreads : at[u] \notin Unpublished
    BY <1>0, <1>2, NoneUnpublished DEF RoomInv, FfiInv
  <2>2. /\ \A u \in AppThreads : at'[u] = at[u]
        /\ \A u \in FfiThreads \ {t} : at'[u] = at[u]
    BY <1>0, <1>3, RoomAssumption DEF Threads
  <2>3. \A u \in Threads : \A l : listener_to_remove[u] = l /\ l # None => listener_to_remove'[u] = l
    BY <1>0, <1>2, <1>3 DEF RoomInv, FfiInv
  <2>4. \A u \in Threads : at'[u] = "store" => FALSE
    BY <1>0, <1>3, <2>1, <2>2, RoomAssumption DEF RoomInv, FfiInv, FfiPlaces, Unpublished, Threads
  <2>5. \A l \in registered : l # None
    BY DEF RoomInv, RoomTypeOK
  <2>6. \A l \in registered : \E u \in Threads : listener_to_remove'[u] = l
    BY <1>0, <1>3, <2>1, <2>3, <2>4, <2>5, RoomAssumption DEF RoomInv, ListenerInv, FfiInv, FfiPlaces, Unpublished,
         Threads
  <2>7. \A u \in FfiThreads : at'[u] \in {"check", "handle", "rpc", "server_notify"} =>
          inside[u] \in registered \/ \E w \in Threads : listener_to_remove'[w] = inside[u]
    BY <1>3, <2>2, <2>3 DEF RoomInv, ListenerInv, FfiInv
  <2> QED
    BY <1>1, <1>3, <2>1, <2>2, <2>4, <2>6, <2>7 DEF ListenerInv, Unpublished
<1>10. HandleInv'
  BY <1>0, <1>1, <1>2, <1>3, RoomAssumption DEF RoomInv, RoomTypeOK, Past, AppInv, Taking, ListenerInv, HandleInv,
       RpcPointerValid, Unpublished, AppPlaces, FfiPlaces, ConnectSteps, ShutdownSteps, Threads, None
<1>11. ClaimInv'
  <2>1. \A u \in AppThreads : at[u] \notin Unpublished
    BY <1>0, <1>2, NoneUnpublished DEF RoomInv, FfiInv
  <2>2. \A u \in AppThreads : at'[u] = at[u]
    BY <1>0, <1>3, RoomAssumption DEF Threads
  <2>3. claimed[t] = None
    BY <1>0, <1>2 DEF RoomInv, FfiInv
  <2> QED
    BY <1>0, <1>1, <1>3, <2>1, <2>2, <2>3 DEF RoomInv, ClaimInv
<1>12. EosInv'
  BY <1>0, <1>1, <1>2, <1>3 DEF RoomInv, EosInv, EosOf, Unpublished, Threads
<1>13. DestroyInv'
  BY <1>0, <1>1, <1>2, <1>3 DEF RoomInv, DestroyInv, ConnectSteps, Threads
<1> QED
  BY <1>4, <1>5, <1>6, <1>7, <1>8, <1>9, <1>10, <1>11, <1>12, <1>13 DEF RoomInv

\* The end of the stream finds that another thread has taken everything.
LEMMA OnEosNothingStep ==
  ASSUME RoomInv, NEW t \in FfiThreads, OnEosNothing(t)
  PROVE  RoomInv'
<1>0. t \in FfiThreads /\ t \in Threads
  BY DEF RoomInv, FfiInv, AppInv, OnEosNothing, AppPlaces, FfiPlaces, ConnectSteps, ShutdownSteps, Threads
<1>1. /\ connection_state' = connection_state /\ listener_id' = listener_id /\ room_handle' = room_handle
      /\ connects' = connects
      /\ registered' = registered /\ rust' = rust /\ freed' = freed /\ mine' = mine
      /\ handle' = handle /\ listener_to_remove' = listener_to_remove /\ claimed' = claimed /\ destroying' = destroying
      /\ destroyed' = destroyed /\ inside' = inside /\ event' = event /\ delivered' = delivered
      /\ notified' = notified /\ eos_reported' = eos_reported /\ after_eos' = after_eos /\ overtaken' = overtaken
  BY <1>0 DEF OnEosNothing, Goto, vars, stateVars, callVars, lifeVars, ffiVars, delegateVars, HasRoomState
<1>2. /\ at[t] = "handle" /\ event[t].kind = "eos" /\ event[t].room = connects
      /\ connection_state = "Disconnected" /\ listener_id = None /\ room_handle = None
  BY <1>0, RoomAssumption DEF RoomInv, RoomTypeOK, AppInv, FfiInv, HandleInv, Unpublished, Connects, ConnectSteps, None,
       OnEosNothing, Goto, HasRoomState
<1>3. /\ at'[t] = "eos_notify" /\ \A u \in Threads \ {t} : at'[u] = at[u]
  BY <1>0, <1>2, RoomAssumption DEF RoomInv, RoomTypeOK, CallsOK, Connects, OnEosNothing, Goto, HasRoomState
<1>4. RoomTypeOK'
  BY <1>0, <1>1, <1>2, RoomAssumption DEF RoomInv, RoomTypeOK, CallsOK, States, RustStates, Past, Connects, AppInv,
       FfiInv, Taking, ConnectSteps, ShutdownSteps, None, OnEosNothing, Goto, HasRoomState
<1>5. CallsOK'
  BY <1>0, <1>1, <1>2, RoomAssumption DEF RoomInv, RoomTypeOK, CallsOK, AppPlaces, FfiPlaces, ConnectSteps,
       ShutdownSteps, EventKinds, NoEvent, OnEosNothing, Goto, AppInv, None, HasRoomState
<1>6. AppInv'
  BY <1>0, <1>1, <1>2, <1>3 DEF RoomInv, AppInv, AppPlaces, ConnectSteps, ShutdownSteps, Taking, Threads
<1>7. FfiInv'
  BY <1>0, <1>1, <1>2, <1>3 DEF RoomInv, FfiInv, FfiPlaces, Threads
<1>8. EventsInv'
  BY <1>0, <1>1, <1>2, <1>3 DEF RoomInv, EventsInv, Threads
<1>9. ListenerInv'
  BY <1>0, <1>1, <1>2, <1>3 DEF RoomInv, ListenerInv, Threads
<1>10. HandleInv'
  BY <1>0, <1>1, <1>2, <1>3 DEF RoomInv, HandleInv, Unpublished, RpcPointerValid, Threads
<1>11. ClaimInv'
  BY <1>0, <1>1, <1>2, <1>3 DEF RoomInv, ClaimInv, Unpublished, Threads
<1>12. EosInv'
  BY <1>0, <1>1, <1>2, <1>3 DEF RoomInv, EosInv, EosOf, Unpublished, Threads
<1>13. DestroyInv'
  BY <1>0, <1>1, <1>2, <1>3 DEF RoomInv, DestroyInv, ConnectSteps, Threads
<1> QED
  BY <1>4, <1>5, <1>6, <1>7, <1>8, <1>9, <1>10, <1>11, <1>12, <1>13 DEF RoomInv

\* The callback of the end of the stream reports its end, and the disconnection it claimed.
LEMMA OnEosNotifyStep ==
  ASSUME RoomInv, NEW t \in FfiThreads, OnEosNotify(t)
  PROVE  RoomInv'
<1>0. t \in FfiThreads /\ t \in Threads
  BY DEF RoomInv, FfiInv, AppInv, OnEosNotify, AppPlaces, FfiPlaces, ConnectSteps, ShutdownSteps, Threads
<1>1. /\ connection_state' = connection_state /\ listener_id' = listener_id /\ room_handle' = room_handle
      /\ connects' = connects
      /\ registered' = registered /\ rust' = rust /\ freed' = freed /\ mine' = mine
      /\ handle' = handle /\ listener_to_remove' = listener_to_remove /\ claimed' = claimed /\ destroying' = destroying
      /\ destroyed' = destroyed /\ delivered' = delivered /\ notified' = notified /\ overtaken' = overtaken
  BY <1>0 DEF OnEosNotify, Goto, vars, stateVars, callVars, lifeVars, ffiVars, delegateVars, Leave, Report
<1>2. /\ at[t] = "eos_notify" /\ event[t].kind = "eos"
  BY <1>0, RoomAssumption DEF RoomInv, RoomTypeOK, AppInv, FfiInv, HandleInv, Unpublished, Connects, ConnectSteps, None,
       OnEosNotify, Goto, Leave, Report
<1>3. /\ inside'[t] = None /\ \A u \in FfiThreads \ {t} : inside'[u] = inside[u]
      /\ event'[t] = NoEvent /\ \A u \in FfiThreads \ {t} : event'[u] = event[u]
      /\ at'[t] = "idle" /\ \A u \in Threads \ {t} : at'[u] = at[u]
      /\ eos_reported' = eos_reported \cup {event[t].room}
      /\ after_eos' \subseteq after_eos \cup {event[t].room} /\ (event[t].room \notin eos_reported => after_eos' = after_eos)
  BY <1>0, <1>2, RoomAssumption DEF RoomInv, RoomTypeOK, CallsOK, Connects, OnEosNotify, Goto, Leave, Report
<1>4. RoomTypeOK'
  <2>1. event[t].room \in Past
    BY <1>0, <1>2, RoomAssumption DEF RoomInv, RoomTypeOK, CallsOK, FfiInv, Past, None
  <2> QED
    BY <1>1, <1>3, <2>1 DEF RoomInv, RoomTypeOK, Past
<1>5. CallsOK'
  BY <1>0, <1>1, <1>2, RoomAssumption DEF RoomInv, RoomTypeOK, CallsOK, AppPlaces, FfiPlaces, ConnectSteps,
       ShutdownSteps, EventKinds, NoEvent, OnEosNotify, Goto, AppInv, None, Leave, Report
<1>6. AppInv'
  BY <1>0, <1>1, <1>2, <1>3 DEF RoomInv, AppInv, AppPlaces, ConnectSteps, ShutdownSteps, Taking, Threads
<1>7. FfiInv'
  BY <1>0, <1>1, <1>2, <1>3 DEF RoomInv, FfiInv, FfiPlaces, Threads, NoEvent
<1>8. EventsInv'
  BY <1>0, <1>1, <1>2, <1>3 DEF RoomInv, EventsInv, Threads, NoEvent
<1>9. ListenerInv'
  BY <1>0, <1>1, <1>2, <1>3 DEF RoomInv, ListenerInv, Threads
<1>10. HandleInv'
  BY <1>0, <1>1, <1>2, <1>3 DEF RoomInv, HandleInv, Unpublished, RpcPointerValid, Threads
<1>11. ClaimInv'
  BY <1>0, <1>1, <1>2, <1>3 DEF RoomInv, ClaimInv, Unpublished, Threads
<1>12. EosInv'
  <2>1. event[t].room \notin eos_reported /\ inside[t] = event[t].room /\ inside[t] # None
    BY <1>0, <1>2 DEF RoomInv, FfiInv, EosInv
  <2>2. /\ \A u \in AppThreads : at'[u] = at[u]
        /\ \A u \in FfiThreads \ {t} : at'[u] = at[u]
    BY <1>0, <1>3, RoomAssumption DEF Threads
  <2>3. <<event[t].room, event[t].room, "eos">> \in delivered
    BY <1>0, <1>2, <2>1 DEF RoomInv, EventsInv
  <2>4. \A n \in eos_reported' : n # None
    BY <1>3, <2>1, RoomAssumption DEF RoomInv, RoomTypeOK, Past, None
  <2>5. \A u \in FfiThreads \ {t} : inside[u] = event[t].room /\ event[u].room = event[t].room => event[u].kind = "rpc"
    BY <1>0, <1>2, <2>1 DEF RoomInv, EventsInv
  <2>6. \A n \in eos_reported' : /\ <<n, n, "eos">> \in delivered
                                 /\ \A u \in FfiThreads : inside'[u] = n /\ event'[u].room = n => event'[u].kind = "rpc"
    <3>1. \A n \in eos_reported : /\ <<n, n, "eos">> \in delivered
                                 /\ \A u \in FfiThreads : inside[u] = n /\ event[u].room = n => event[u].kind = "rpc"
      BY DEF RoomInv, EosInv
    <3>2. \A n \in eos_reported', u \in FfiThreads : inside'[u] = n /\ event'[u].room = n => event'[u].kind = "rpc"
      <4> TAKE n \in eos_reported', u \in FfiThreads
      <4>1. CASE u = t
        BY <1>3, <2>4, <4>1
      <4>2. CASE u # t /\ n = event[t].room
        BY <1>3, <2>5, <4>2
      <4>3. CASE u # t /\ n \in eos_reported
        BY <1>3, <3>1, <4>3
      <4> QED
        BY <1>3, <4>1, <4>2, <4>3
    <3> QED
      BY <1>3, <2>3, <3>1, <3>2
  <2>7. EosOf(event[t].room, t) /\ \A x \in FfiThreads : \A n : EosOf(n, x)' => EosOf(n, x)
    BY <1>2, <1>3, <2>2 DEF EosOf
  <2>8. after_eos' = after_eos
    BY <1>3, <2>1
  <2>9. room_handle # None /\ room_handle \notin overtaken /\ <<room_handle, room_handle, "disconnected">> \in delivered =>
          \/ connection_state = "Disconnected"
          \/ \E u \in FfiThreads : /\ inside'[u] = room_handle /\ at'[u] \in {"check", "handle"}
                                   /\ event'[u].room = room_handle /\ event'[u].kind = "disconnected"
    BY <1>2, <1>3, <2>2 DEF RoomInv, EosInv
  <2>10. connection_state # "Disconnected" /\ connects \notin overtaken =>
           connects \notin eos_reported' /\ \A x \in FfiThreads : ~EosOf(connects, x)
    BY <1>0, <1>3, <2>7 DEF RoomInv, EosInv
  <2>11. \A u \in AppThreads : claimed[u] # None /\ claimed[u] \notin overtaken =>
           /\ claimed[u] \notin eos_reported' /\ \A x \in FfiThreads : ~EosOf(claimed[u], x)
           /\ room_handle = None /\ \A w \in AppThreads : at[w] \notin Unpublished
    BY <1>0, <1>3, <2>7 DEF RoomInv, EosInv
  <2>12. after_eos \subseteq overtaken
    BY DEF RoomInv, EosInv
  <2> QED
    BY <1>1, <2>2, <2>6, <2>7, <2>8, <2>9, <2>10, <2>11, <2>12 DEF EosInv, EosOf
<1>13. DestroyInv'
  BY <1>0, <1>1, <1>2, <1>3 DEF RoomInv, DestroyInv, ConnectSteps, Threads
<1> QED
  BY <1>4, <1>5, <1>6, <1>7, <1>8, <1>9, <1>10, <1>11, <1>12, <1>13 DEF RoomInv


\* Rust closes a room, or ends the stream of its events.
LEMMA RustClosesStep ==
  ASSUME RoomInv, NEW n \in Connects, RustCloses(n)
  PROVE  RoomInv'
<1>1. /\ connection_state' = connection_state /\ listener_id' = listener_id /\ room_handle' = room_handle
      /\ connects' = connects
      /\ registered' = registered /\ freed' = freed /\ at' = at /\ mine' = mine
      /\ handle' = handle /\ listener_to_remove' = listener_to_remove /\ claimed' = claimed /\ destroying' = destroying
      /\ destroyed' = destroyed /\ inside' = inside /\ event' = event /\ delivered' = delivered
      /\ notified' = notified /\ eos_reported' = eos_reported /\ after_eos' = after_eos /\ overtaken' = overtaken
  BY DEF RustCloses, stateVars, callVars, lifeVars, ffiVars, delegateVars
<1>2. /\ rust[n] \in {"ready", "closing"} /\ rust'[n] \in {"closing", "eos"}
      /\ \A m \in Connects \ {n} : rust'[m] = rust[m]
  BY DEF RoomInv, RoomTypeOK, RustCloses
<1>3. RoomTypeOK' /\ CallsOK'
  BY <1>1 DEF RoomInv, RoomTypeOK, RustStates, Past, CallsOK, RustCloses
<1>4. AppInv' /\ FfiInv' /\ ListenerInv' /\ ClaimInv' /\ DestroyInv'
  BY <1>1 DEF RoomInv, AppInv, FfiInv, ListenerInv, ClaimInv, DestroyInv
<1>5. \A m \in Connects : rust'[m] \in {"none", "connected"} => rust[m] = rust'[m]
  BY <1>2
<1>6. EventsInv'
  <2>1. \A m \in Connects : m > connects => rust'[m] = "none"
    BY <1>2 DEF RoomInv, EventsInv
  <2> QED
    BY <1>1, <1>5, <2>1 DEF RoomInv, EventsInv
<1>7. HandleInv'
  <2>1. \A u \in AppThreads : at[u] \in Unpublished => connects # n /\ connects \in Connects
    BY <1>2, RoomAssumption DEF RoomInv, RoomTypeOK, HandleInv, AppInv, Unpublished, ConnectSteps, Connects, None
  <2> QED
    BY <1>1, <1>2, <2>1 DEF RoomInv, HandleInv, RpcPointerValid
<1>8. EosInv'
  BY <1>1 DEF RoomInv, EosInv, EosOf
<1> QED
  BY <1>3, <1>4, <1>6, <1>7, <1>8 DEF RoomInv

\* FfiClient calls the Room's listener.
LEMMA OnEventStep ==
  ASSUME RoomInv, NEW t \in FfiThreads, NEW l \in Connects, NEW n \in Connects, NEW kind \in EventKinds,
         OnEvent(t, l, n, kind)
  PROVE  RoomInv'
<1>1. /\ connection_state' = connection_state /\ listener_id' = listener_id /\ room_handle' = room_handle
      /\ connects' = connects
      /\ registered' = registered /\ freed' = freed /\ rust' = rust /\ mine' = mine
      /\ handle' = handle /\ listener_to_remove' = listener_to_remove /\ claimed' = claimed /\ destroying' = destroying
      /\ destroyed' = destroyed /\ overtaken' = overtaken
      /\ notified' = notified /\ eos_reported' = eos_reported /\ after_eos' = after_eos
  BY DEF OnEvent, stateVars, callVars, lifeVars, delegateVars
<1>2. t \in Threads /\ \A u \in AppThreads : u # t
  BY RoomAssumption DEF Threads
<1>3. /\ at'[t] = "check" /\ \A u \in Threads \ {t} : at'[u] = at[u]
      /\ inside'[t] = l /\ \A u \in FfiThreads \ {t} : inside'[u] = inside[u]
      /\ event'[t] = [room |-> n, kind |-> kind] /\ \A u \in FfiThreads \ {t} : event'[u] = event[u]
  BY <1>2 DEF RoomInv, CallsOK, OnEvent, Goto
<1>4. at[t] = "idle" /\ inside[t] = None /\ l \in registered /\ l = connects /\ connects # None
  BY DEF OnEvent, RoomInv, RoomTypeOK
<1>5. rust[n] \notin {"none", "connected"}
  BY DEF OnEvent, Emitted, EventKinds
<1>6. n \in 1 .. connects
  BY <1>5, RoomAssumption DEF RoomInv, RoomTypeOK, EventsInv, Connects
<1>7. event'[t].room = n /\ event'[t].kind = kind
  BY <1>3
<1>8. /\ \A u \in AppThreads : at'[u] = at[u]
      /\ \A u \in FfiThreads \ {t} : at'[u] = at[u]
  BY <1>2, <1>3 DEF Threads
<1>9. /\ delivered \subseteq delivered'
      /\ \A d \in delivered' : d \in delivered \/ (d = <<l, n, kind>> /\ kind \in {"disconnected", "eos"})
      /\ kind = "eos" => <<l, n, "disconnected">> \in delivered /\ <<l, n, "eos">> \in delivered'
      /\ kind # "rpc" => <<l, n, "eos">> \notin delivered
      /\ kind # "rpc" => \A u \in FfiThreads : inside[u] # None /\ event[u].room = n => event[u].kind = "rpc"
  BY DEF OnEvent
<1>10. RoomTypeOK'
  BY <1>1 DEF RoomInv, RoomTypeOK, Past
<1>11. CallsOK'
  <2>1. [room |-> n, kind |-> kind] \in [room : 0 .. connects, kind : EventKinds]
    BY <1>6
  <2>2. l \in 0 .. connects
    BY <1>4, RoomAssumption DEF RoomInv, RoomTypeOK
  <2> QED
    BY <1>1, <2>1, <2>2 DEF RoomInv, CallsOK, OnEvent, Goto, AppPlaces, FfiPlaces
<1>12. AppInv'
  BY <1>1, <1>8 DEF RoomInv, AppInv
<1>13. FfiInv'
  <2>1. n <= l /\ n # None /\ l # None
    BY <1>4, <1>6, RoomAssumption DEF RoomInv, RoomTypeOK, None
  <2>2. handle[t] = None /\ listener_to_remove[t] = None /\ claimed[t] = None
    BY <1>4 DEF RoomInv, FfiInv
  <2> QED
    BY <1>1, <1>3, <1>7, <1>8, <2>1, <2>2 DEF RoomInv, FfiInv, FfiPlaces
<1>14. EventsInv'
  <2>1. \A u, w \in FfiThreads :
          u # w /\ inside'[u] # None /\ inside'[w] # None /\ event'[u].kind # "rpc" /\ event'[w].kind # "rpc" =>
            event'[u].room # event'[w].room
    BY <1>3, <1>7, <1>9 DEF RoomInv, EventsInv
  <2>2. \A u \in FfiThreads : inside'[u] # None /\ event'[u].kind = "eos" =>
          <<inside'[u], event'[u].room, "disconnected">> \in delivered' /\ <<inside'[u], event'[u].room, "eos">> \in delivered'
    BY <1>3, <1>7, <1>9 DEF RoomInv, EventsInv
  <2>3. \A m \in Connects : rust[m] \in {"none", "connected"} =>
          /\ \A u \in FfiThreads : inside'[u] # None => event'[u].room # m
          /\ \A p, k : <<p, m, k>> \notin delivered'
    <3> SUFFICES ASSUME NEW m \in Connects, rust[m] \in {"none", "connected"}
                 PROVE  /\ \A u \in FfiThreads : inside'[u] # None => event'[u].room # m
                        /\ \A p, k : <<p, m, k>> \notin delivered'
      OBVIOUS
    <3>1. m # n
      BY <1>5
    <3>2. \A u \in FfiThreads : inside'[u] # None => event'[u].room # m
      BY <1>3, <1>7, <3>1 DEF RoomInv, EventsInv
    <3>3. ASSUME NEW p, NEW k, <<p, m, k>> \in delivered'
          PROVE  FALSE
      <4>1. <<p, m, k>> \notin delivered
        BY DEF RoomInv, EventsInv
      <4> QED
        BY <1>9, <3>1, <3>3, <4>1
    <3> QED
      BY <3>2, <3>3
  <2> QED
    BY <1>1, <2>1, <2>2, <2>3 DEF RoomInv, EventsInv
<1>15. ListenerInv'
  BY <1>1, <1>3, <1>4, <1>8 DEF RoomInv, ListenerInv, Threads
<1>16. HandleInv'
  BY <1>1, <1>3, <1>8 DEF RoomInv, HandleInv, RpcPointerValid
<1>17. ClaimInv'
  BY <1>1, <1>8 DEF RoomInv, ClaimInv
<1>18. EosInv'
  <2>1. \A x \in FfiThreads : \A m : EosOf(m, x)' => EosOf(m, x)
    BY <1>3, <1>8 DEF EosOf
  <2>2. \A m \in eos_reported : /\ <<m, m, "eos">> \in delivered'
                                /\ \A u \in FfiThreads : inside'[u] = m /\ event'[u].room = m => event'[u].kind = "rpc"
    <3>1. \A m \in eos_reported : /\ <<m, m, "eos">> \in delivered
                                  /\ \A u \in FfiThreads : inside[u] = m /\ event[u].room = m => event[u].kind = "rpc"
      BY DEF RoomInv, EosInv
    <3>2. \A m \in eos_reported : l = m /\ n = m => kind = "rpc"
      BY <1>9, <3>1
    <3>3. \A m \in eos_reported, u \in FfiThreads : inside'[u] = m /\ event'[u].room = m => event'[u].kind = "rpc"
      <4> TAKE m \in eos_reported, u \in FfiThreads
      <4>1. CASE u = t
        BY <1>3, <1>7, <3>2, <4>1
      <4>2. CASE u # t
        BY <1>3, <3>1, <4>2
      <4> QED
        BY <4>1, <4>2
    <3> QED
      BY <1>9, <3>1, <3>3
  <2>3. room_handle # None /\ room_handle \notin overtaken /\ <<room_handle, room_handle, "disconnected">> \in delivered' =>
          \/ connection_state = "Disconnected"
          \/ \E u \in FfiThreads : /\ inside'[u] = room_handle /\ at'[u] \in {"check", "handle"}
                                   /\ event'[u].room = room_handle /\ event'[u].kind = "disconnected"
    <3>1. CASE <<room_handle, room_handle, "disconnected">> \in delivered
      BY <1>3, <1>4, <1>8, <3>1 DEF RoomInv, EosInv
    <3>2. CASE <<room_handle, room_handle, "disconnected">> = <<l, n, kind>>
      BY <1>3, <1>7, <3>2
    <3> QED
      BY <1>9, <3>1, <3>2
  <2>4. connection_state # "Disconnected" /\ connects \notin overtaken =>
          connects \notin eos_reported /\ \A x \in FfiThreads : ~EosOf(connects, x)
    BY DEF RoomInv, EosInv
  <2>5. \A u \in AppThreads : claimed[u] # None /\ claimed[u] \notin overtaken =>
          /\ claimed[u] \notin eos_reported /\ \A x \in FfiThreads : ~EosOf(claimed[u], x)
          /\ room_handle = None /\ \A w \in AppThreads : at[w] \notin Unpublished
    BY DEF RoomInv, EosInv
  <2>6. after_eos \subseteq overtaken
    BY DEF RoomInv, EosInv
  <2> QED
    BY <1>1, <1>8, <2>1, <2>2, <2>3, <2>4, <2>5, <2>6 DEF EosInv, EosOf
<1>19. DestroyInv'
  BY <1>1, <1>8 DEF RoomInv, DestroyInv
<1> QED
  BY <1>10, <1>11, <1>12, <1>13, <1>14, <1>15, <1>16, <1>17, <1>18, <1>19 DEF RoomInv

\* A new Room.
LEMMA RoomInit == Init => RoomInv
<1> SUFFICES ASSUME Init PROVE RoomInv
  OBVIOUS
<1>1. RoomTypeOK
  <2>1. connects = 0 /\ connects \in 0 .. MaxConnects /\ rust \in [Connects -> RustStates] /\ notified \in [Connects -> Nat]
    BY RoomAssumption DEF Init, RustStates
  <2> QED
    BY <2>1 DEF Init, RoomTypeOK, States, Past, None
<1>2. CallsOK
  <2>1. NoEvent \in [room : 0 .. connects, kind : EventKinds]
    BY DEF Init, NoEvent, None, EventKinds
  <2> QED
    BY <2>1 DEF Init, CallsOK, AppPlaces, None
<1>3. AppInv /\ FfiInv
  BY DEF Init, AppInv, FfiInv, AppPlaces, FfiPlaces, ConnectSteps, ShutdownSteps, Taking, Threads, None
<1>4. EventsInv /\ ListenerInv
  BY DEF Init, EventsInv, ListenerInv, Threads, None
<1>5. HandleInv /\ ClaimInv
  BY DEF Init, HandleInv, RpcPointerValid, ClaimInv, Unpublished, Threads, None
<1>6. EosInv /\ DestroyInv
  BY DEF Init, EosInv, DestroyInv, Threads, None
<1> QED
  BY <1>1, <1>2, <1>3, <1>4, <1>5, <1>6 DEF RoomInv

\* Every step keeps the invariant, one lemma for each action.
LEMMA RoomStep ==
  ASSUME DirtyReconnect = FALSE, RoomInv, [Next]_vars
  PROVE  RoomInv'
<1>1. CASE UNCHANGED vars
  <2>1. /\ connection_state' = connection_state /\ listener_id' = listener_id /\ room_handle' = room_handle
        /\ connects' = connects
        /\ registered' = registered /\ freed' = freed /\ rust' = rust /\ at' = at /\ mine' = mine
        /\ handle' = handle /\ listener_to_remove' = listener_to_remove /\ claimed' = claimed
        /\ destroying' = destroying
        /\ destroyed' = destroyed /\ inside' = inside /\ event' = event /\ delivered' = delivered
        /\ notified' = notified /\ eos_reported' = eos_reported /\ after_eos' = after_eos /\ overtaken' = overtaken
    BY <1>1 DEF vars, stateVars, callVars, lifeVars, ffiVars, delegateVars
  <2>2. RoomTypeOK' /\ CallsOK' /\ AppInv' /\ FfiInv' /\ EventsInv'
    BY <2>1 DEF RoomInv, RoomTypeOK, CallsOK, AppInv, FfiInv, EventsInv, Past
  <2>3. ListenerInv' /\ HandleInv' /\ ClaimInv' /\ EosInv' /\ DestroyInv'
    BY <2>1 DEF RoomInv, ListenerInv, HandleInv, RpcPointerValid, ClaimInv, EosInv, EosOf, DestroyInv
  <2> QED
    BY <2>2, <2>3 DEF RoomInv
<1>2. ASSUME NEW t \in AppThreads, StartCall(t)
      PROVE  RoomInv'
  BY <1>2, ConnectClaimStep, DisconnectClaimStep, DestroyClaimStep, DestroyNothingStep DEF StartCall
<1>3. ASSUME NEW t \in Threads, ContinueCall(t)
      PROVE  RoomInv'
  <2>1. CASE ShutdownRelease(t)
    BY <2>1, ShutdownReleaseAppStep, ShutdownReleaseFfiStep DEF Threads
  <2> QED
    BY <1>3, <2>1, ConnectAddListenerStep, ConnectStoreListenerStep, ConnectAnsweredStep, ConnectThrowsStep,
       ConnectPublishStep, ConnectReadyStep, ConnectCatchStep, ConnectCatchRemoveStep, ConnectCatchLeaveStep,
       ShutdownFfiStep, ShutdownRemoveStep, ShutdownNotifyStep DEF ContinueCall
<1>4. ASSUME NEW t \in FfiThreads, ContinueEvent(t)
      PROVE  RoomInv'
  BY <1>4, OnEventIgnoredStep, OnEventCheckedStep, OnRpcMethodInvocationStep, OnOtherEventStep, OnDisconnectedStep,
     OnDisconnectedNotifyStep, OnEosClaimStep, OnEosNothingStep, OnEosNotifyStep DEF ContinueEvent
<1>5. CASE Rust
  BY <1>5, RustClosesStep, OnEventStep DEF Rust
<1> QED
  BY <1>1, <1>2, <1>3, <1>4, <1>5 DEF Next

\* RoomInv is an invariant of the Room's lifecycle.
LEMMA RoomInvariant == DirtyReconnect = FALSE /\ Safe => []RoomInv
<1> SUFFICES ASSUME DirtyReconnect = FALSE PROVE Safe => []RoomInv
  OBVIOUS
<1>1. RoomInv /\ [Next]_vars => RoomInv'
  BY RoomStep
<1> QED
  BY <1>1, RoomInit, PTL DEF Safe

-----------------------------------------------------------------------------
\* If the application calls connect() only AtRest, each listener is known to the Room or to a call that will store or
\* remove it, and a connected Room has its listener registered unless disconnect() has overtaken its connect().
THEOREM RoomListenersOwned == DirtyReconnect = FALSE /\ Safe => []ListenersOwned
<1>1. RoomInv => ListenersOwned
  BY DEF RoomInv, ListenerInv, HandleInv, ListenersOwned
<1> QED
  BY <1>1, RoomInvariant, PTL

\* If the application calls connect() only AtRest, onDisconnected() is called once at most for a connection, and
\* nothing is reported after onRoomEos(), unless disconnect() has overtaken the connect().
THEOREM DisconnectReportedOnce == DirtyReconnect = FALSE /\ Safe => []NotifiedOnce
<1>1. RoomInv => NotifiedOnce
  BY DEF RoomInv, ClaimInv, EosInv, NotifiedOnce
<1> QED
  BY <1>1, RoomInvariant, PTL

\* If the application calls connect() only AtRest, the LocalParticipant an RPC invocation uses through a plain pointer
\* has not been destroyed, unless disconnect() has overtaken the connect() that made it.
THEOREM RpcParticipantAlive == DirtyReconnect = FALSE /\ Safe => []RpcPointerValid
<1>1. RoomInv => RpcPointerValid
  BY DEF RoomInv, HandleInv
<1> QED
  BY <1>1, RoomInvariant, PTL

\* If the application calls connect() only AtRest, then no event is handled once the destructor has returned, and none
\* will be, unless a thread handles EOS, for which the destructor does not wait.
THEOREM DestructorWaits == DirtyReconnect = FALSE /\ Safe => []OnlyEosOutlivesRoom
<1>1. RoomInv => OnlyEosOutlivesRoom
  <2> SUFFICES ASSUME RoomInv, destroyed, \A t \in FfiThreads : event[t].kind # "eos"
               PROVE  registered = {} /\ \A t \in FfiThreads : inside[t] = None
    BY DEF OnlyEosOutlivesRoom
  <2>1. listener_id = None /\ \A t \in AppThreads : at[t] = "idle" /\ listener_to_remove[t] = None
    BY DEF RoomInv, DestroyInv, AppInv, Taking
  <2>2. \A t \in FfiThreads : at[t] \notin {"remove", "wait", "eos_notify"} /\ listener_to_remove[t] = None
    BY DEF RoomInv, FfiInv
  <2>3. registered = {}
    BY <2>1, <2>2 DEF RoomInv, RoomTypeOK, ListenerInv, FfiInv, FfiPlaces, Threads
  <2> QED
    BY <2>1, <2>2, <2>3 DEF RoomInv, ListenerInv, FfiInv, FfiPlaces, Threads
<1> QED
  BY <1>1, RoomInvariant, PTL

=============================================================================
