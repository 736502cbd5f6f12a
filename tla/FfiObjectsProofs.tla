--------------------------- MODULE FfiObjectsProofs ---------------------------
(***************************************************************************)
(* The handles of Rust objects, for any number of C++ objects: every one   *)
(* that Rust has not dropped is owned, no FfiHandle holds another's, and   *)
(* none is dropped twice or used after it was dropped.                     *)
(*                                                                         *)
(* The inductive invariant says in addition what an object that does not   *)
(* exist, or is being destroyed, may still hold, and that the handles are  *)
(* numbered as Rust gave them out, so that a new one is nobody's.          *)
(***************************************************************************)
EXTENDS FfiObjects, TLAPS

ObjectKinds == MovableKinds \cup {"none", "LocalParticipant", "RemoteDataTrack", "LocalTrack", "LocalDataTrack",
                                  "DataTrackStream"}

\* The handle is an object's own, or one that it shares.
Held(h) == h # 0 /\ \E o \in Objects : handle_[o] = h \/ shared[o] = h

ObjectsTypeOK ==
  /\ kind \in [Objects -> ObjectKinds] /\ destroying \in SUBSET Objects
  /\ given \in Nat
  /\ handle_ \in [Objects -> 0 .. given] /\ shared \in [Objects -> 0 .. given]
  /\ leaked \in SUBSET (1 .. given)

\* Rust keeps what is held and what no object took, and what no object took is held by none.
RustKeeps ==
  /\ bad_handle = FALSE
  /\ \A h : h \in rust_handles <=> Held(h) \/ h \in leaked
  /\ \A h \in leaked : ~Held(h)

\* An FfiHandle is its object's only.
OwnOnce ==
  /\ \A o, p \in Objects : o # p /\ handle_[o] # 0 => handle_[o] # handle_[p]
  /\ \A o, p \in Objects : handle_[o] # 0 => handle_[o] # shared[p]

\* What there is of an object before its construction, during its destruction and after it; a source has its platform.
Remains ==
  \A o \in Objects :
    /\ kind[o] = "none" => handle_[o] = 0 /\ shared[o] = 0 /\ o \notin destroying
    /\ o \in destroying => shared[o] = 0
    /\ kind[o] = "PlatformAudioSource" /\ handle_[o] # 0 /\ o \notin destroying => shared[o] # 0

ObjectsInv == ObjectsTypeOK /\ RustKeeps /\ OwnOnce /\ Remains

-----------------------------------------------------------------------------
LEMMA ObjectsInitInv == ObjectsInit => ObjectsInv
  BY DEF ObjectsInit, ObjectsInv, ObjectsTypeOK, RustKeeps, OwnOnce, Remains, Held, ObjectKinds

\* A request that names only handles that are held, and 0.
LEMMA AskHeld ==
  ASSUME ObjectsInv, NEW hs, \A h \in hs : h = 0 \/ Held(h), Ask(hs)
  PROVE  bad_handle' = FALSE
<1>1. hs \ {0} \subseteq rust_handles
  BY DEF ObjectsInv, RustKeeps
<1> QED
  BY <1>1 DEF Ask, ObjectsInv, RustKeeps

\* Handles that are held, and 0, are dropped.
LEMMA DropHeld ==
  ASSUME ObjectsInv, NEW hs, \A h \in hs : h = 0 \/ Held(h), Drop(hs)
  PROVE  bad_handle' = FALSE /\ rust_handles' = rust_handles \ (hs \ {0}) /\ given' = given
<1>1. hs \ {0} \subseteq rust_handles
  BY DEF ObjectsInv, RustKeeps
<1> QED
  BY <1>1 DEF Drop, ObjectsInv, RustKeeps

\* A step that changes no object and no handle.
LEMMA SameHandles ==
  ASSUME ObjectsInv, bad_handle' = FALSE, UNCHANGED <<objectVars, given, rust_handles, leaked>>
  PROVE  ObjectsInv'
  BY DEF objectVars, ObjectsInv, ObjectsTypeOK, RustKeeps, OwnOnce, Remains, Held

\* A new object takes the new handle, as its own or to share, or shares another's.
LEMMA NewStep ==
  ASSUME ObjectsInv, bad_handle' = FALSE,
         NEW o \in Objects, NEW k \in ObjectKinds \ {"none"}, NEW own \in {0, NewHandle}, NEW share,
         share \in {0, NewHandle} \/ \E m \in Objects : share = shared[m],
         own = 0 \/ own # share,
         k = "PlatformAudioSource" => share # 0,
         New(o, k, own, share)
  PROVE  ObjectsInv'
<1>1. /\ kind[o] = "none" /\ handle_[o] = 0 /\ shared[o] = 0 /\ o \notin destroying
      /\ kind' = [kind EXCEPT ![o] = k] /\ handle_' = [handle_ EXCEPT ![o] = own]
      /\ shared' = [shared EXCEPT ![o] = share] /\ UNCHANGED <<destroying, leaked>>
  BY DEF New, ObjectsInv, Remains
<1>2. \/ NewHandle \in {own, share} /\ given' = NewHandle /\ rust_handles' = rust_handles \cup {NewHandle}
      \/ NewHandle \notin {own, share} /\ given' = given /\ rust_handles' = rust_handles
  BY DEF New, Give
<1>3. given \in Nat /\ NewHandle = given + 1 /\ given' \in Nat /\ given <= given' /\ own \in 0 .. given' /\ share \in 0 .. given'
  <2>1. given \in Nat /\ NewHandle = given + 1 /\ \A m \in Objects : shared[m] \in 0 .. given
    BY DEF ObjectsInv, ObjectsTypeOK, NewHandle
  <2> QED
    BY <1>2, <2>1
<1>4. ~Held(NewHandle) /\ NewHandle \notin leaked /\ NewHandle # 0
  BY <1>3 DEF ObjectsInv, ObjectsTypeOK, Held
<1>5. \A p \in Objects : handle_[p] # NewHandle /\ shared[p] # NewHandle
  BY <1>4 DEF Held
<1>6. ObjectsTypeOK'
  <2>1. 0 .. given \subseteq 0 .. given' /\ 1 .. given \subseteq 1 .. given'
    BY <1>3
  <2>2. handle_' \in [Objects -> 0 .. given'] /\ shared' \in [Objects -> 0 .. given']
    BY <1>1, <1>3, <2>1 DEF ObjectsInv, ObjectsTypeOK
  <2> QED
    BY <1>1, <1>3, <2>1, <2>2 DEF ObjectsInv, ObjectsTypeOK
<1>7. \A h : Held(h)' <=> Held(h) \/ (h # 0 /\ h \in {own, share})
  <2>1. \A p \in Objects : /\ handle_'[p] = IF p = o THEN own ELSE handle_[p]
                           /\ shared'[p] = IF p = o THEN share ELSE shared[p]
    BY <1>1 DEF ObjectsInv, ObjectsTypeOK
  <2> QED
    BY <1>1, <2>1 DEF Held
<1>8. RustKeeps'
  <2>1. \A h \in {own, share} : h = 0 \/ h = NewHandle \/ Held(h)
    BY DEF Held
  <2> QED
    BY <1>1, <1>2, <1>4, <1>7, <2>1 DEF ObjectsInv, RustKeeps
<1>9. OwnOnce'
  BY <1>1, <1>5 DEF ObjectsInv, ObjectsTypeOK, OwnOnce
<1>10. Remains'
  BY <1>1 DEF ObjectsInv, ObjectsTypeOK, Remains
<1> QED
  BY <1>6, <1>8, <1>9, <1>10 DEF ObjectsInv

\* A copy of a PlatformAudio shares its handle.
LEMMA CopyStep ==
  ASSUME ObjectsInv, NEW m \in Objects, NEW o \in Objects, CopyPlatformAudio(m, o)
  PROVE  ObjectsInv'
<1>1. /\ kind[o] = "none" /\ handle_[o] = 0 /\ shared[o] = 0 /\ o \notin destroying /\ m # o
      /\ kind' = [kind EXCEPT ![o] = "PlatformAudio"] /\ shared' = [shared EXCEPT ![o] = shared[m]]
      /\ UNCHANGED <<handle_, destroying, given, rust_handles, bad_handle, leaked>>
  BY DEF CopyPlatformAudio, Alive, ObjectsInv, Remains, rustHandleVars
<1>2. ObjectsTypeOK'
  BY <1>1 DEF ObjectsInv, ObjectsTypeOK, ObjectKinds, MovableKinds
<1>3. \A h : Held(h)' <=> Held(h)
  <2>1. \A p \in Objects : shared'[p] = IF p = o THEN shared[m] ELSE shared[p]
    BY <1>1 DEF ObjectsInv, ObjectsTypeOK
  <2> QED
    BY <1>1, <2>1 DEF Held
<1>4. RustKeeps'
  BY <1>1, <1>3 DEF ObjectsInv, RustKeeps
<1>5. OwnOnce' /\ Remains'
  BY <1>1 DEF ObjectsInv, ObjectsTypeOK, OwnOnce, Remains
<1> QED
  BY <1>2, <1>4, <1>5 DEF ObjectsInv

\* A new object takes over what another had.
LEMMA MoveConstructStep ==
  ASSUME ObjectsInv, NEW o \in Objects, NEW p \in Objects, MoveConstruct(o, p)
  PROVE  ObjectsInv'
<1>1. /\ kind[p] = "none" /\ handle_[p] = 0 /\ shared[p] = 0 /\ p \notin destroying /\ o # p
      /\ kind[o] # "none" /\ o \notin destroying
      /\ kind' = [kind EXCEPT ![p] = kind[o]]
      /\ handle_' = [handle_ EXCEPT ![p] = handle_[o], ![o] = 0]
      /\ shared' = [shared EXCEPT ![p] = shared[o], ![o] = 0]
      /\ UNCHANGED <<destroying, given, rust_handles, bad_handle, leaked>>
  BY DEF MoveConstruct, Alive, ObjectsInv, Remains, rustHandleVars
<1>2. ObjectsTypeOK'
  BY <1>1 DEF ObjectsInv, ObjectsTypeOK
<1>3. /\ handle_'[p] = handle_[o] /\ shared'[p] = shared[o] /\ handle_'[o] = 0 /\ shared'[o] = 0
      /\ kind'[p] = kind[o] /\ kind'[o] = kind[o]
      /\ \A q \in Objects \ {o, p} : handle_'[q] = handle_[q] /\ shared'[q] = shared[q] /\ kind'[q] = kind[q]
  BY <1>1 DEF ObjectsInv, ObjectsTypeOK
<1>4. \A h : Held(h)' <=> Held(h)
  <2>1. \A h : Held(h)' => Held(h)
    BY <1>3 DEF Held
  <2>2. ASSUME NEW h, Held(h) PROVE Held(h)'
    <3>1. PICK q \in Objects : handle_[q] = h \/ shared[q] = h
      BY <2>2 DEF Held
    <3>2. CASE q = o
      BY <1>3, <2>2, <3>1, <3>2 DEF Held
    <3>3. CASE q # o
      BY <1>1, <1>3, <2>2, <3>1, <3>3 DEF Held
    <3> QED
      BY <3>2, <3>3
  <2> QED
    BY <2>1, <2>2
<1>5. RustKeeps'
  BY <1>1, <1>4 DEF ObjectsInv, RustKeeps
<1>6. OwnOnce'
  <2> SUFFICES ASSUME NEW q \in Objects, NEW t \in Objects, handle_'[q] # 0
               PROVE  (q # t => handle_'[q] # handle_'[t]) /\ handle_'[q] # shared'[t]
    BY DEF OwnOnce
  <2>1. q # o
    BY <1>3
  <2>2. CASE t = o
    BY <1>3, <2>2
  <2>3. CASE q = p /\ t = p
    BY <1>1, <1>3, <2>3 DEF ObjectsInv, OwnOnce
  <2>4. CASE q = p /\ t \notin {o, p}
    <3>1. handle_'[q] = handle_[o] /\ handle_'[t] = handle_[t] /\ shared'[t] = shared[t] /\ t # o
      BY <1>3, <2>4
    <3> QED
      BY <3>1 DEF ObjectsInv, OwnOnce
  <2>5. CASE q # p /\ t = p
    <3>1. handle_'[q] = handle_[q] /\ handle_'[t] = handle_[o] /\ shared'[t] = shared[o]
      BY <1>3, <2>1, <2>5
    <3> QED
      BY <2>1, <3>1 DEF ObjectsInv, OwnOnce
  <2>6. CASE q # p /\ t \notin {o, p}
    <3>1. handle_'[q] = handle_[q] /\ handle_'[t] = handle_[t] /\ shared'[t] = shared[t]
      BY <1>3, <2>1, <2>6
    <3> QED
      BY <3>1 DEF ObjectsInv, OwnOnce
  <2> QED
    BY <2>2, <2>3, <2>4, <2>5, <2>6
<1>7. Remains'
  <2> SUFFICES ASSUME NEW q \in Objects
               PROVE  /\ kind'[q] = "none" => handle_'[q] = 0 /\ shared'[q] = 0 /\ q \notin destroying
                      /\ q \in destroying => shared'[q] = 0
                      /\ kind'[q] = "PlatformAudioSource" /\ handle_'[q] # 0 /\ q \notin destroying => shared'[q] # 0
    BY <1>1 DEF Remains
  <2>1. CASE q = p
    BY <1>1, <1>3, <2>1 DEF ObjectsInv, Remains
  <2>2. CASE q = o
    BY <1>1, <1>3, <2>2 DEF ObjectsInv, Remains
  <2>3. CASE q # o /\ q # p
    BY <1>1, <1>3, <2>3 DEF ObjectsInv, Remains
  <2> QED
    BY <2>1, <2>2, <2>3
<1> QED
  BY <1>2, <1>5, <1>6, <1>7 DEF ObjectsInv

\* What the last owner of a shared handle drops is its own, or nothing.
LEMMA LetGoFacts ==
  ASSUME ObjectsInv, NEW o \in Objects
  PROVE  /\ LetGo(o) = 0 \/ (LetGo(o) = shared[o] /\ \A p \in Objects \ {o} : shared[p] # shared[o])
         /\ LetGo(o) = 0 /\ shared[o] # 0 => \E p \in Objects \ {o} : shared[p] = shared[o]
  BY DEF LetGo

\* *o = *m: what o had is dropped, unless it is shared, m's copy of the same handle included.
LEMMA CopyAssignStep ==
  ASSUME ObjectsInv, NEW m \in Objects, NEW o \in Objects, CopyAssignPlatformAudio(m, o)
  PROVE  ObjectsInv'
<1> DEFINE last == LetGo(o)
<1>1. /\ m # o /\ kind[o] = "PlatformAudio" /\ o \notin destroying
      /\ shared' = [shared EXCEPT ![o] = shared[m]]
      /\ UNCHANGED <<kind, handle_, destroying, leaked>>
  BY DEF CopyAssignPlatformAudio, Alive
<1>2. /\ last = 0 \/ (last = shared[o] /\ \A q \in Objects \ {o} : shared[q] # shared[o])
      /\ last = 0 /\ shared[o] # 0 => \E q \in Objects \ {o} : shared[q] = shared[o]
  BY LetGoFacts
<1> HIDE DEF last
<1>3. \A h \in {last} : h = 0 \/ Held(h)
  BY <1>2 DEF Held
<1>4. bad_handle' = FALSE /\ rust_handles' = rust_handles \ ({last} \ {0}) /\ given' = given
  <2>1. Drop({last})
    BY DEF CopyAssignPlatformAudio, last
  <2> QED
    BY <1>3, <2>1, DropHeld
<1>5. ObjectsTypeOK'
  BY <1>1, <1>4 DEF ObjectsInv, ObjectsTypeOK
<1>6. shared'[o] = shared[m] /\ \A q \in Objects \ {o} : shared'[q] = shared[q]
  BY <1>1 DEF ObjectsInv, ObjectsTypeOK
<1>7. \A h : Held(h)' <=> Held(h) /\ h # last
  <2>1. ASSUME NEW h, Held(h)' PROVE h # 0 /\ \E q \in Objects : handle_[q] = h \/ (q # o /\ shared[q] = h)
    BY <1>1, <1>6, <2>1 DEF Held
  <2>2. ASSUME NEW h, Held(h)' PROVE Held(h) /\ h # last
    <3>1. PICK q \in Objects : handle_[q] = h \/ (q # o /\ shared[q] = h)
      BY <2>1, <2>2
    <3>2. h # 0
      BY <2>1, <2>2
    <3>3. Held(h)
      BY <3>1, <3>2 DEF Held
    <3>4. CASE handle_[q] = h
      BY <1>2, <3>2, <3>3, <3>4 DEF ObjectsInv, OwnOnce
    <3>5. CASE q # o /\ shared[q] = h
      BY <1>2, <3>2, <3>3, <3>5
    <3> QED
      BY <3>1, <3>3, <3>4, <3>5
  <2>3. ASSUME NEW h, Held(h), h # last PROVE Held(h)'
    <3>1. PICK q \in Objects : handle_[q] = h \/ shared[q] = h
      BY <2>3 DEF Held
    <3>2. CASE handle_[q] = h \/ q # o
      BY <1>1, <1>6, <2>3, <3>1, <3>2 DEF Held
    <3>3. CASE q = o /\ shared[q] = h
      <4>1. last = 0 /\ shared[o] # 0
        BY <1>2, <2>3, <3>3 DEF Held
      <4>2. PICK r \in Objects \ {o} : shared[r] = h
        BY <1>2, <3>3, <4>1
      <4> QED
        BY <1>6, <2>3, <4>2 DEF Held
    <3> QED
      BY <3>1, <3>2, <3>3
  <2> QED
    BY <2>2, <2>3
<1>8. RustKeeps'
  <2>1. \A h \in leaked : h # last /\ h # 0
    BY <1>3 DEF ObjectsInv, ObjectsTypeOK, RustKeeps
  <2>2. \A h : Held(h) => h # 0
    BY DEF Held
  <2> QED
    BY <1>1, <1>4, <1>7, <2>1, <2>2 DEF ObjectsInv, RustKeeps
<1>9. OwnOnce'
  <2>1. \A t \in Objects : \E r \in Objects : shared'[t] = shared[r]
    BY <1>6
  <2> QED
    BY <1>1, <2>1 DEF ObjectsInv, OwnOnce
<1>10. Remains'
  <2> SUFFICES ASSUME NEW q \in Objects
               PROVE  /\ kind[q] = "none" => handle_[q] = 0 /\ shared'[q] = 0 /\ q \notin destroying
                      /\ q \in destroying => shared'[q] = 0
                      /\ kind[q] = "PlatformAudioSource" /\ handle_[q] # 0 /\ q \notin destroying => shared'[q] # 0
    BY <1>1 DEF Remains
  <2>1. CASE q = o
    BY <1>1, <2>1
  <2>2. CASE q # o
    BY <1>6, <2>2 DEF ObjectsInv, Remains
  <2> QED
    BY <2>1, <2>2
<1> QED
  BY <1>5, <1>8, <1>9, <1>10 DEF ObjectsInv

\* *p = std::move(*o): what p had is dropped, unless it is shared.
LEMMA MoveAssignStep ==
  ASSUME ObjectsInv, NEW o \in Objects, NEW p \in Objects, MoveAssign(o, p)
  PROVE  ObjectsInv'
<1> DEFINE mine == handle_[p]
           last == LetGo(p)
<1>1. /\ o # p /\ kind[o] = kind[p] /\ kind[o] # "none" /\ o \notin destroying /\ p \notin destroying
      /\ handle_' = [handle_ EXCEPT ![p] = handle_[o], ![o] = 0]
      /\ shared' = [shared EXCEPT ![p] = shared[o], ![o] = 0]
      /\ UNCHANGED <<kind, destroying, leaked>>
  BY DEF MoveAssign, Alive
<1>2. /\ last = 0 \/ (last = shared[p] /\ \A q \in Objects \ {p} : shared[q] # shared[p])
      /\ last = 0 /\ shared[p] # 0 => \E q \in Objects \ {p} : shared[q] = shared[p]
  BY LetGoFacts
<1> HIDE DEF last
<1>3. \A h \in {mine, last} : h = 0 \/ Held(h)
  BY <1>2 DEF Held
<1>4. bad_handle' = FALSE /\ rust_handles' = rust_handles \ ({mine, last} \ {0}) /\ given' = given
  <2>1. Drop({mine, last})
    BY DEF MoveAssign, last
  <2> QED
    BY <1>3, <2>1, DropHeld
<1>5. ObjectsTypeOK'
  BY <1>1, <1>4 DEF ObjectsInv, ObjectsTypeOK
<1>6. /\ handle_'[p] = handle_[o] /\ shared'[p] = shared[o] /\ handle_'[o] = 0 /\ shared'[o] = 0
      /\ \A q \in Objects \ {o, p} : handle_'[q] = handle_[q] /\ shared'[q] = shared[q]
  BY <1>1 DEF ObjectsInv, ObjectsTypeOK
<1>7. \A h : Held(h)' <=> Held(h) /\ h # mine /\ h # last
  <2>1. ASSUME NEW h, Held(h)' PROVE \E q \in Objects \ {p} : h # 0 /\ (handle_[q] = h \/ shared[q] = h)
    BY <1>1, <1>6, <2>1 DEF Held
  <2>2. \A h : Held(h)' => Held(h) /\ h # mine
    BY <2>1 DEF Held, ObjectsInv, OwnOnce
  <2>3. ASSUME NEW h, Held(h)' PROVE h # last
    <3>1. PICK q \in Objects \ {p} : h # 0 /\ (handle_[q] = h \/ shared[q] = h)
      BY <2>1, <2>3
    <3> QED
      BY <1>2, <3>1 DEF ObjectsInv, OwnOnce
  <2>4. ASSUME NEW h, Held(h), h # mine, h # last PROVE Held(h)'
    <3>1. PICK q \in Objects : handle_[q] = h \/ shared[q] = h
      BY <2>4 DEF Held
    <3>2. CASE q # p
      BY <1>1, <1>6, <2>4, <3>1, <3>2 DEF Held
    <3>3. CASE q = p
      <4>1. shared[p] = h /\ last = 0 /\ shared[p] # 0
        BY <1>2, <2>4, <3>1, <3>3 DEF Held
      <4>2. PICK r \in Objects \ {p} : shared[r] = h
        BY <1>2, <4>1
      <4> QED
        BY <1>1, <1>6, <2>4, <4>2 DEF Held
    <3> QED
      BY <3>2, <3>3
  <2> QED
    BY <2>2, <2>3, <2>4
<1>8. RustKeeps'
  <2>1. \A h \in leaked : h # mine /\ h # last /\ h # 0
    BY <1>3 DEF ObjectsInv, ObjectsTypeOK, RustKeeps
  <2>2. \A h : Held(h) => h # 0
    BY DEF Held
  <2> QED
    BY <1>1, <1>4, <1>7, <2>1, <2>2 DEF ObjectsInv, RustKeeps
<1>9. OwnOnce'
  <2> SUFFICES ASSUME NEW q \in Objects, NEW t \in Objects, handle_'[q] # 0
               PROVE  (q # t => handle_'[q] # handle_'[t]) /\ handle_'[q] # shared'[t]
    BY DEF OwnOnce
  <2>1. q # o
    BY <1>6
  <2>2. CASE t = o
    BY <1>6, <2>2
  <2>3. CASE q = p /\ t = p
    BY <1>1, <1>6, <2>3 DEF ObjectsInv, OwnOnce
  <2>4. CASE q = p /\ t \notin {o, p}
    <3>1. handle_'[q] = handle_[o] /\ handle_'[t] = handle_[t] /\ shared'[t] = shared[t] /\ t # o
      BY <1>6, <2>4
    <3> QED
      BY <3>1 DEF ObjectsInv, OwnOnce
  <2>5. CASE q # p /\ t = p
    <3>1. handle_'[q] = handle_[q] /\ handle_'[t] = handle_[o] /\ shared'[t] = shared[o]
      BY <1>6, <2>1, <2>5
    <3> QED
      BY <2>1, <3>1 DEF ObjectsInv, OwnOnce
  <2>6. CASE q # p /\ t \notin {o, p}
    <3>1. handle_'[q] = handle_[q] /\ handle_'[t] = handle_[t] /\ shared'[t] = shared[t]
      BY <1>6, <2>1, <2>6
    <3> QED
      BY <3>1 DEF ObjectsInv, OwnOnce
  <2> QED
    BY <2>2, <2>3, <2>4, <2>5, <2>6
<1>10. Remains'
  <2> SUFFICES ASSUME NEW q \in Objects
               PROVE  /\ kind'[q] = "none" => handle_'[q] = 0 /\ shared'[q] = 0 /\ q \notin destroying
                      /\ q \in destroying => shared'[q] = 0
                      /\ kind'[q] = "PlatformAudioSource" /\ handle_'[q] # 0 /\ q \notin destroying => shared'[q] # 0
    BY <1>1 DEF Remains
  <2>1. CASE q = p
    BY <1>1, <1>6, <2>1 DEF ObjectsInv, Remains
  <2>2. CASE q = o
    BY <1>1, <1>6, <2>2 DEF ObjectsInv, Remains
  <2>3. CASE q # o /\ q # p
    BY <1>1, <1>6, <2>3 DEF ObjectsInv, Remains
  <2> QED
    BY <2>1, <2>2, <2>3
<1> QED
  BY <1>5, <1>8, <1>9, <1>10 DEF ObjectsInv

\* The destructor lets go of the shared handle ...
LEMMA DestroySharedStep ==
  ASSUME ObjectsInv, NEW o \in Objects, DestroyShared(o)
  PROVE  ObjectsInv'
<1> DEFINE last == LetGo(o)
<1>1. /\ kind[o] # "none" /\ shared' = [shared EXCEPT ![o] = 0] /\ destroying' = destroying \cup {o}
      /\ UNCHANGED <<kind, handle_, leaked>>
  BY DEF DestroyShared, Alive
<1>2. /\ last = 0 \/ (last = shared[o] /\ \A q \in Objects \ {o} : shared[q] # shared[o])
      /\ last = 0 /\ shared[o] # 0 => \E q \in Objects \ {o} : shared[q] = shared[o]
  BY LetGoFacts
<1> HIDE DEF last
<1>3. \A h \in {last} : h = 0 \/ Held(h)
  BY <1>2 DEF Held
<1>4. bad_handle' = FALSE /\ rust_handles' = rust_handles \ ({last} \ {0}) /\ given' = given
  <2>1. Drop({last})
    BY DEF DestroyShared, last
  <2> QED
    BY <1>3, <2>1, DropHeld
<1>5. ObjectsTypeOK'
  BY <1>1, <1>4 DEF ObjectsInv, ObjectsTypeOK
<1>6. \A q \in Objects : shared'[q] = IF q = o THEN 0 ELSE shared[q]
  BY <1>1 DEF ObjectsInv, ObjectsTypeOK
<1>7. \A h : Held(h)' <=> Held(h) /\ h # last
  <2>1. \A h : Held(h)' => Held(h)
    BY <1>1, <1>6 DEF Held
  <2>2. \A h : Held(h)' => h # last
    BY <1>1, <1>2, <1>6 DEF Held, ObjectsInv, OwnOnce
  <2>3. ASSUME NEW h, Held(h), h # last PROVE Held(h)'
    <3>1. PICK q \in Objects : handle_[q] = h \/ shared[q] = h
      BY <2>3 DEF Held
    <3>2. CASE q # o \/ handle_[q] = h
      BY <1>1, <1>6, <2>3, <3>1, <3>2 DEF Held
    <3>3. CASE q = o /\ shared[q] = h
      <4>1. shared[o] = h /\ last = 0 /\ shared[o] # 0
        BY <1>2, <2>3, <3>1, <3>3 DEF Held
      <4>2. PICK r \in Objects \ {o} : shared[r] = h
        BY <1>2, <4>1
      <4> QED
        BY <1>1, <1>6, <2>3, <4>2 DEF Held
    <3> QED
      BY <3>1, <3>2, <3>3
  <2> QED
    BY <2>1, <2>2, <2>3
<1>8. RustKeeps'
  <2>1. \A h \in leaked : h # last /\ h # 0
    BY <1>3 DEF ObjectsInv, ObjectsTypeOK, RustKeeps
  <2>2. \A h : Held(h) => h # 0
    BY DEF Held
  <2> QED
    BY <1>1, <1>4, <1>7, <2>1, <2>2 DEF ObjectsInv, RustKeeps
<1>9. OwnOnce' /\ Remains'
  BY <1>1, <1>6 DEF ObjectsInv, OwnOnce, Remains
<1> QED
  BY <1>5, <1>8, <1>9 DEF ObjectsInv

\* ... and then of its own.
LEMMA DestroyHandleStep ==
  ASSUME ObjectsInv, NEW o \in Objects, DestroyHandle(o)
  PROVE  ObjectsInv'
<1> DEFINE mine == handle_[o]
<1>1. /\ o \in destroying /\ shared[o] = 0 /\ destroying' = destroying \ {o}
      /\ handle_' = [handle_ EXCEPT ![o] = 0] /\ kind' = [kind EXCEPT ![o] = "none"]
      /\ UNCHANGED <<shared, leaked>>
  BY DEF DestroyHandle, ObjectsInv, Remains
<1>2. \A h \in {mine} : h = 0 \/ Held(h)
  BY DEF Held
<1>3. bad_handle' = FALSE /\ rust_handles' = rust_handles \ ({mine} \ {0}) /\ given' = given
  BY <1>2, DropHeld DEF DestroyHandle
<1>4. ObjectsTypeOK'
  BY <1>1, <1>3 DEF ObjectsInv, ObjectsTypeOK, ObjectKinds
<1>5. /\ handle_'[o] = 0 /\ kind'[o] = "none"
      /\ \A q \in Objects \ {o} : handle_'[q] = handle_[q] /\ kind'[q] = kind[q]
  BY <1>1 DEF ObjectsInv, ObjectsTypeOK
<1>6. \A h : Held(h)' <=> Held(h) /\ h # mine
  <2>1. ASSUME NEW h, Held(h)' PROVE Held(h) /\ h # mine
    <3>1. PICK q \in Objects : handle_'[q] = h \/ shared[q] = h
      BY <1>1, <2>1 DEF Held
    <3>2. h # 0
      BY <2>1 DEF Held
    <3>3. CASE handle_'[q] = h
      BY <1>5, <3>2, <3>3 DEF Held, ObjectsInv, OwnOnce
    <3>4. CASE shared[q] = h
      BY <3>2, <3>4 DEF Held, ObjectsInv, OwnOnce
    <3> QED
      BY <3>1, <3>3, <3>4
  <2>2. \A h : Held(h) /\ h # mine => Held(h)'
    BY <1>1, <1>5 DEF Held
  <2> QED
    BY <2>1, <2>2
<1>7. RustKeeps'
  <2>1. \A h \in leaked : h # mine /\ h # 0
    BY <1>2 DEF ObjectsInv, ObjectsTypeOK, RustKeeps
  <2>2. \A h : Held(h) => h # 0
    BY DEF Held
  <2> QED
    BY <1>1, <1>3, <1>6, <2>1, <2>2 DEF ObjectsInv, RustKeeps
<1>8. OwnOnce' /\ Remains'
  BY <1>1, <1>5 DEF ObjectsInv, OwnOnce, Remains
<1> QED
  BY <1>4, <1>7, <1>8 DEF ObjectsInv

\* A buffer comes with a handle, which is dropped at once or never.
LEMMA BufferStep ==
  ASSUME ObjectsInv, FrameFromOwned \/ BufferNotWrapped
  PROVE  ObjectsInv'
<1>1. /\ given \in Nat /\ given' = given + 1 /\ UNCHANGED <<kind, handle_, shared, destroying, bad_handle>>
      /\ \/ UNCHANGED <<rust_handles, leaked>>
         \/ rust_handles' = rust_handles \cup {NewHandle} /\ leaked' = leaked \cup {NewHandle}
  BY DEF FrameFromOwned, BufferNotWrapped, Give, NewHandle, objectVars, ObjectsInv, ObjectsTypeOK
<1>2. 0 .. given \subseteq 0 .. given' /\ 1 .. given \subseteq 1 .. given' /\ NewHandle \in 1 .. given'
  BY <1>1 DEF NewHandle
<1>3. ObjectsTypeOK'
  <2>1. handle_' \in [Objects -> 0 .. given'] /\ shared' \in [Objects -> 0 .. given']
    BY <1>1, <1>2 DEF ObjectsInv, ObjectsTypeOK
  <2>2. leaked' \in SUBSET (1 .. given') /\ given' \in Nat
    <3>1. leaked \subseteq 1 .. given'
      BY <1>2 DEF ObjectsInv, ObjectsTypeOK
    <3>2. leaked' \subseteq leaked \cup {NewHandle}
      BY <1>1
    <3> QED
      BY <1>1, <1>2, <3>1, <3>2
  <2> QED
    BY <1>1, <2>1, <2>2 DEF ObjectsInv, ObjectsTypeOK
<1>4. ~Held(NewHandle)
  BY <1>1 DEF Held, NewHandle, ObjectsInv, ObjectsTypeOK
<1>5. \A h : Held(h)' <=> Held(h)
  BY <1>1 DEF Held
<1>6. RustKeeps'
  BY <1>1, <1>4, <1>5 DEF ObjectsInv, RustKeeps
<1>7. OwnOnce' /\ Remains'
  BY <1>1 DEF ObjectsInv, OwnOnce, Remains
<1> QED
  BY <1>3, <1>6, <1>7 DEF ObjectsInv

\* A constructor or a factory that makes nothing, and a method.
LEMMA NotMadeStep ==
  ASSUME ObjectsInv, bad_handle' = FALSE, NEW o, NEW result, NotMade(o, result)
  PROVE  ObjectsInv'
  BY SameHandles DEF NotMade

LEMMA CallStep ==
  ASSUME ObjectsInv, NEW o \in Objects, NEW k, NEW asks, NEW result, Call(o, k, asks, result)
  PROVE  ObjectsInv'
<1> DEFINE hs == IF asks THEN {handle_[o], shared[o]} ELSE {}
<1>1. \A h \in hs : h = 0 \/ Held(h)
  BY DEF Held
<1>2. Ask(hs)
  BY DEF Call
<1> HIDE DEF hs
<1>3. bad_handle' = FALSE
  BY <1>1, <1>2, AskHeld
<1> QED
  BY <1>3, SameHandles DEF Call

-----------------------------------------------------------------------------
\* Every construction takes a new handle or a shared one, or leaves nothing behind.
LEMMA ConstructionStep ==
  ASSUME ObjectsInv, NEW o \in Objects, Construction(o)
  PROVE  ObjectsInv'
<1>1. NewHandle # 0 /\ ~Held(NewHandle)
  BY DEF ObjectsInv, ObjectsTypeOK, NewHandle, Held
<1>2. \A m \in Objects : shared[m] # NewHandle
  BY <1>1 DEF Held
<1>3. Ask({}) => bad_handle' = FALSE
  BY AskHeld
<1>4. \A m \in Objects : /\ Ask({handle_[m]}) => bad_handle' = FALSE
                         /\ Ask({shared[m]}) => bad_handle' = FALSE
  <2> TAKE m \in Objects
  <2>1. \A h \in {handle_[m]} : h = 0 \/ Held(h)
    BY DEF Held
  <2>2. \A h \in {shared[m]} : h = 0 \/ Held(h)
    BY DEF Held
  <2> QED
    BY <2>1, <2>2, AskHeld
<1>5. ASSUME NEW k \in {"AudioProcessingModule", "VideoSource", "LocalTrack", "LocalDataTrack", "DataTrackStream",
                        "LocalParticipant", "RemoteDataTrack"},
             NEW h \in {0, NewHandle}, New(o, k, h, 0), bad_handle' = FALSE
      PROVE  ObjectsInv'
  <2>1. k \in ObjectKinds \ {"none"} /\ k # "PlatformAudioSource"
    BY DEF ObjectKinds, MovableKinds
  <2>2. h = 0 \/ h # 0
    OBVIOUS
  <2> QED
    BY <1>5, <2>1, <2>2, NewStep
<1>6. ASSUME NEW k \in {"PlatformAudio", "VideoFrame"}, New(o, k, 0, NewHandle), bad_handle' = FALSE
      PROVE  ObjectsInv'
  <2>1. k \in ObjectKinds \ {"none"} /\ k # "PlatformAudioSource"
    BY DEF ObjectKinds, MovableKinds
  <2> QED
    BY <1>6, <2>1, NewStep
<1>7. ASSUME NEW m \in Objects, shared[m] # 0, New(o, "PlatformAudioSource", NewHandle, shared[m]), bad_handle' = FALSE
      PROVE  ObjectsInv'
  <2>1. "PlatformAudioSource" \in ObjectKinds \ {"none"}
    BY DEF ObjectKinds, MovableKinds
  <2> QED
    BY <1>2, <1>7, <2>1, NewStep
<1>8. ASSUME NEW result, NotMade(o, result), bad_handle' = FALSE PROVE ObjectsInv'
  BY <1>8, NotMadeStep
<1>9. ASSUME NEW answer \in Answers, NewAudioProcessingModule(o, answer) \/ NewVideoSource(o, answer)
      PROVE  ObjectsInv'
  BY <1>3, <1>5, <1>8, <1>9 DEF NewAudioProcessingModule, NewVideoSource, Answers
<1>16. ASSUME NEW answer \in Answers \cup {"null"}, NewPlatformAudio(o, answer) PROVE ObjectsInv'
  <2>1. "PlatformAudio" \in ObjectKinds \ {"none"}
    BY DEF ObjectKinds, MovableKinds
  <2>2. ASSUME New(o, "PlatformAudio", 0, 0), bad_handle' = FALSE PROVE ObjectsInv'
    BY <2>1, <2>2, NewStep
  <2>3. bad_handle' = FALSE
    BY <1>3, <1>16 DEF NewPlatformAudio
  <2>4. \/ New(o, "PlatformAudio", 0, NewHandle) \/ New(o, "PlatformAudio", 0, 0) \/ NotMade(o, "threw")
    BY <1>16 DEF NewPlatformAudio, Answers
  <2> QED
    BY <1>6, <1>8, <2>2, <2>3, <2>4
<1>10. ASSUME NEW answer \in Answers, NEW m \in Objects, CreateAudioSource(m, o, answer) PROVE ObjectsInv'
  BY <1>4, <1>7, <1>8, <1>10 DEF CreateAudioSource
<1>11. ASSUME NEW answer \in Answers, NEW m \in Objects, PublishDataTrack(m, o, answer) PROVE ObjectsInv'
  BY <1>4, <1>5, <1>8, <1>11 DEF PublishDataTrack
<1>12. ASSUME NEW answer \in Answers, NEW m \in Objects, Subscribe(m, o, answer) PROVE ObjectsInv'
  BY <1>3, <1>4, <1>5, <1>8, <1>12 DEF Subscribe, SubscribeDataTrack
<1>13. ASSUME NEW answer \in Answers, NEW m \in Objects,
              CreateLocalAudioTrack(m, o, answer) \/ CreateLocalVideoTrack(m, o, answer)
       PROVE  ObjectsInv'
  BY <1>4, <1>5, <1>8, <1>13 DEF CreateLocalAudioTrack, CreateLocalVideoTrack, Answers
<1>14. ASSUME NEW h \in {0, NewHandle}, NewLocalParticipant(o, h) \/ NewRemoteDataTrack(o, h) PROVE ObjectsInv'
  BY <1>3, <1>5, <1>14 DEF NewLocalParticipant, NewRemoteDataTrack
<1>15. ASSUME NewExternalFrame(o) PROVE ObjectsInv'
  BY <1>3, <1>6, <1>15 DEF NewExternalFrame
<1> QED
  BY <1>9, <1>10, <1>11, <1>12, <1>13, <1>14, <1>15, <1>16 DEF Construction

\* Every method is a call.
LEMMA MethodStep ==
  ASSUME ObjectsInv, NEW o \in Objects, Method(o)
  PROVE  ObjectsInv'
<1>1. ASSUME NEW answer \in Answers,
             \/ PlatformAudioCall(o, answer) \/ LocalDataTrackCall(o, answer) \/ RemoteDataTrackCall(o, answer)
             \/ SchemaCall(o, answer) \/ PerformRpc(o, answer)
      PROVE  ObjectsInv'
  BY <1>1, CallStep DEF PlatformAudioCall, LocalDataTrackCall, RemoteDataTrackCall, SchemaCall, PerformRpc
<1>2. ASSUME NEW answer \in Answers, NEW b \in BOOLEAN,
             \/ ApmCall(o, b, answer) \/ VideoSourceCall(o, b, answer) \/ PublishData(o, b, answer)
             \/ ParticipantCall(o, b, answer)
      PROVE  ObjectsInv'
  BY <1>2, CallStep DEF ApmCall, VideoSourceCall, PublishData, ParticipantCall
<1>3. ASSUME NEW answer \in Answers, NEW b \in BOOLEAN, NEW size \in {0, 1}, TryPush(o, size, b, answer)
      PROVE  ObjectsInv'
  BY <1>3, CallStep DEF TryPush
<1> QED
  BY <1>1, <1>2, <1>3 DEF Method

\* Through every construction, copy, move and destruction of any number of objects no handle is dropped twice or
\* used afterwards, Rust keeps no handle without an owner but those of the buffers that are never wrapped, and a
\* platform audio source keeps its platform alive until its own destruction begins.
THEOREM HandlesOwned == ObjectsSpec => []HandlesSafe
<1>1. ObjectsInv /\ [ObjectsNext]_ffiObjectVars => ObjectsInv'
  <2> SUFFICES ASSUME ObjectsInv, [ObjectsNext]_ffiObjectVars PROVE ObjectsInv'
    OBVIOUS
  <2>1. CASE UNCHANGED ffiObjectVars
    <3>1. bad_handle' = FALSE
      BY <2>1 DEF ffiObjectVars, rustHandleVars, ObjectsInv, RustKeeps
    <3> QED
      BY <2>1, <3>1, SameHandles DEF ffiObjectVars, rustHandleVars
  <2>2. ASSUME NEW o \in Objects, Construction(o) \/ Method(o) \/ DestroyShared(o) \/ DestroyHandle(o)
        PROVE  ObjectsInv'
    BY <2>2, ConstructionStep, MethodStep, DestroySharedStep, DestroyHandleStep
  <2>3. ASSUME NEW o \in Objects, NEW p \in Objects,
               CopyPlatformAudio(o, p) \/ CopyAssignPlatformAudio(o, p) \/ MoveConstruct(o, p) \/ MoveAssign(o, p)
        PROVE  ObjectsInv'
    BY <2>3, CopyStep, CopyAssignStep, MoveConstructStep, MoveAssignStep
  <2> QED
    BY <2>1, <2>2, <2>3, BufferStep DEF ObjectsNext
<1>2. ObjectsInv => HandlesSafe
  <2> SUFFICES ASSUME ObjectsInv PROVE HandlesSafe
    OBVIOUS
  <2>1. rust_handles = (Owned \ {0}) \cup leaked
    BY DEF ObjectsInv, RustKeeps, Held, Owned
  <2>2. HandlesOwnedOnce
    BY <2>1 DEF ObjectsInv, RustKeeps, OwnOnce, HandlesOwnedOnce
  <2>3. SourcesKeepPlatform
    <3>1. \A o \in Objects : shared[o] # 0 => shared[o] \in rust_handles
      BY DEF ObjectsInv, RustKeeps, Held
    <3> QED
      BY <3>1 DEF ObjectsInv, Remains, SourcesKeepPlatform, Alive
  <2> QED
    BY <2>2, <2>3 DEF HandlesSafe
<1> QED
  BY <1>1, <1>2, ObjectsInitInv, PTL DEF ObjectsSpec
=============================================================================
