----------------------------- MODULE FfiObjects -----------------------------
(***************************************************************************)
(* Objects that own handles of Rust objects: FfiHandle (ffi_handle.cpp),   *)
(* and what is built on it: AudioProcessingModule, VideoSource, the        *)
(* LocalParticipant, tracks, data tracks and their streams, PlatformAudio  *)
(* with its sources, and the frames that arrive with a handle.             *)
(*                                                                         *)
(* An object has an FfiHandle of its own (handle_) or shares one through a *)
(* shared_ptr (PlatformAudio::state_, PlatformAudioSource::platform_audio_,*)
(* VideoFrame::external_owner_), or both.  0 is no handle.                 *)
(***************************************************************************)
EXTENDS Integers, FiniteSets

CONSTANTS
  Objects,      \* the C++ objects
  MaxHandles    \* bound on the handles Rust gives out

ASSUME FfiObjectsAssumption == IsFiniteSet(Objects) /\ MaxHandles \in Nat

MovableKinds == {"AudioProcessingModule", "VideoSource", "PlatformAudio", "PlatformAudioSource", "VideoFrame"}

\* What Rust answers: what it was asked for, an error or a handle 0, a message of another kind; or the request throws.
Answers == {"ok", "error", "missing", "throws"}

VARIABLES
  kind,          \* the class of an object, "none" before its construction and after its destruction
  handle_,       \* the FfiHandle of an object
  shared,        \* the handle it shares with others
  destroying,    \* the objects of which the destructor has let go of the shared handle only
  call_result,   \* how the last call of a method ended
  given,         \* Rust: how many handles it has given out
  rust_handles,  \* Rust: the handles that have not been dropped
  leaked,        \* history: the handles that no object took
  bad_handle     \* history: a handle was dropped, or used in a request, that Rust did not have any more

objectVars == <<kind, handle_, shared, destroying>>
rustHandleVars == <<given, rust_handles, bad_handle>>
ffiObjectVars == <<objectVars, call_result, rustHandleVars, leaked>>

ObjectsInit ==
  /\ kind = [o \in Objects |-> "none"]
  /\ handle_ = [o \in Objects |-> 0] /\ shared = [o \in Objects |-> 0]
  /\ destroying = {}
  /\ call_result = "none"
  /\ given = 0 /\ rust_handles = {} /\ leaked = {} /\ bad_handle = FALSE

Alive(o) == kind[o] # "none" /\ o \notin destroying

-----------------------------------------------------------------------------
(* Handles *)

NewHandle == given + 1

\* Rust answers with a new handle.
Give == given < MaxHandles /\ given' = NewHandle /\ rust_handles' = rust_handles \cup {NewHandle}

\* livekit_ffi_drop_handle() of these handles, 0 excepted
Drop(hs) ==
  LET dropped == hs \ {0} IN
  /\ rust_handles' = rust_handles \ dropped
  /\ bad_handle' = (bad_handle \/ ~(dropped \subseteq rust_handles))
  /\ UNCHANGED given

\* A request that names these handles, 0 excepted.
Ask(hs) == bad_handle' = (bad_handle \/ ~(hs \ {0} \subseteq rust_handles))

\* What the last owner of a shared handle drops when it lets go of it.
LetGo(o) == IF \E p \in Objects \ {o} : shared[p] = shared[o] THEN 0 ELSE shared[o]

-----------------------------------------------------------------------------
(* Construction *)

\* A new object, which takes the new handle as its own or to share, if it has one.
New(o, k, own, share) ==
  /\ kind[o] = "none"
  /\ IF NewHandle \in {own, share} THEN Give ELSE UNCHANGED <<given, rust_handles>>
  /\ kind' = [kind EXCEPT ![o] = k]
  /\ handle_' = [handle_ EXCEPT ![o] = own]
  /\ shared' = [shared EXCEPT ![o] = share]
  /\ call_result' = "returned"
  /\ UNCHANGED <<destroying, leaked>>

\* A constructor or a factory that throws, or gives a failure, leaves nothing behind.
NotMade(o, result) ==
  /\ kind[o] = "none"
  /\ call_result' = result
  /\ UNCHANGED <<objectVars, given, rust_handles, leaked>>

\* An answer with the handle 0 is an error here ...
NewAudioProcessingModule(o, answer) ==
  /\ Ask({})
  /\ IF answer = "ok" THEN New(o, "AudioProcessingModule", NewHandle, 0) ELSE NotMade(o, "threw")

\* ... but not here: the source then does nothing.
NewVideoSource(o, answer) ==
  /\ Ask({})
  /\ CASE answer = "ok" -> New(o, "VideoSource", NewHandle, 0)
       [] answer = "error" -> New(o, "VideoSource", 0, 0)
       [] answer \in {"missing", "throws"} -> NotMade(o, "threw")

\* With the handle 0 there is a PlatformAudio, of which every method throws.
NewPlatformAudio(o, answer) ==
  /\ Ask({})
  /\ CASE answer = "ok" -> New(o, "PlatformAudio", 0, NewHandle)
       [] answer = "null" -> New(o, "PlatformAudio", 0, 0)
       [] answer \in {"error", "missing", "throws"} -> NotMade(o, "threw")

\* The objects that the Room makes from what Rust's answer to connect and its events contain.
NewLocalParticipant(o, h) == h \in {0, NewHandle} /\ Ask({}) /\ New(o, "LocalParticipant", h, 0)
NewRemoteDataTrack(o, h) == h \in {0, NewHandle} /\ Ask({}) /\ New(o, "RemoteDataTrack", h, 0)

\* A frame of an external decoder, of which the copies share the handle.
NewExternalFrame(o) == Ask({}) /\ New(o, "VideoFrame", 0, NewHandle)

CreateAudioSource(m, o, answer) ==
  /\ Alive(m) /\ kind[m] = "PlatformAudio"
  /\ Ask({shared[m]})
  /\ IF shared[m] # 0 /\ answer = "ok" THEN New(o, "PlatformAudioSource", NewHandle, shared[m]) ELSE NotMade(o, "threw")

\* A track of a source, which it does not keep.  The answer is not looked at closely: there may be a
\* track without a handle.
CreateLocalAudioTrack(m, o, answer) ==
  /\ Alive(m) /\ kind[m] = "PlatformAudioSource"
  /\ Ask({handle_[m]})
  /\ CASE answer = "ok" -> New(o, "LocalTrack", NewHandle, 0)
       [] answer = "error" -> New(o, "LocalTrack", 0, 0)
       [] answer \in {"missing", "throws"} -> NotMade(o, "threw")

CreateLocalVideoTrack(m, o, answer) ==
  /\ Alive(m) /\ kind[m] = "VideoSource"
  /\ Ask({handle_[m]})
  /\ CASE answer = "ok" -> New(o, "LocalTrack", NewHandle, 0)
       [] answer \in {"error", "missing"} -> New(o, "LocalTrack", 0, 0)
       [] answer = "throws" -> NotMade(o, "threw")

PublishDataTrack(m, o, answer) ==
  /\ Alive(m) /\ kind[m] = "LocalParticipant"
  /\ Ask({handle_[m]})
  /\ IF handle_[m] # 0 /\ answer = "ok" THEN New(o, "LocalDataTrack", NewHandle, 0) ELSE NotMade(o, "failure")

SubscribeDataTrack(h, o, answer) ==
  /\ Ask({h})
  /\ IF answer = "ok" THEN New(o, "DataTrackStream", NewHandle, 0) ELSE NotMade(o, "failure")

Subscribe(m, o, answer) ==
  /\ Alive(m) /\ kind[m] = "RemoteDataTrack"
  /\ IF handle_[m] # 0 THEN SubscribeDataTrack(handle_[m], o, answer) ELSE Ask({}) /\ NotMade(o, "failure")

CopyPlatformAudio(m, o) ==
  /\ Alive(m) /\ kind[m] = "PlatformAudio" /\ kind[o] = "none"
  /\ kind' = [kind EXCEPT ![o] = "PlatformAudio"]
  /\ shared' = [shared EXCEPT ![o] = shared[m]]
  /\ UNCHANGED <<handle_, destroying, call_result, rustHandleVars, leaked>>

\* *o = *m; an assignment to itself changes nothing.
CopyAssignPlatformAudio(m, o) ==
  /\ Alive(m) /\ Alive(o) /\ m # o /\ kind[m] = "PlatformAudio" /\ kind[o] = "PlatformAudio"
  /\ Drop({LetGo(o)})
  /\ shared' = [shared EXCEPT ![o] = shared[m]]
  /\ UNCHANGED <<kind, handle_, destroying, call_result, leaked>>

-----------------------------------------------------------------------------
(* Moves and destruction, member by member *)

MoveConstruct(o, p) ==
  /\ Alive(o) /\ kind[o] \in MovableKinds /\ kind[p] = "none"
  /\ kind' = [kind EXCEPT ![p] = kind[o]]
  /\ handle_' = [handle_ EXCEPT ![p] = handle_[o], ![o] = 0]
  /\ shared' = [shared EXCEPT ![p] = shared[o], ![o] = 0]
  /\ UNCHANGED <<destroying, call_result, rustHandleVars, leaked>>

\* Mutant of MoveAssign: the other handle is taken and not given up.
MoveAssignKeeps(o, p) ==
  /\ Alive(o) /\ Alive(p) /\ o # p /\ kind[o] \in MovableKinds /\ kind[o] = kind[p]
  /\ Drop({handle_[p], LetGo(p)})
  /\ handle_' = [handle_ EXCEPT ![p] = handle_[o]]
  /\ shared' = [shared EXCEPT ![p] = shared[o], ![o] = 0]
  /\ UNCHANGED <<kind, destroying, call_result, leaked>>

\* *p = std::move(*o); an assignment to itself changes nothing.
MoveAssign(o, p) ==
  /\ Alive(o) /\ Alive(p) /\ o # p /\ kind[o] \in MovableKinds /\ kind[o] = kind[p]
  /\ Drop({handle_[p], LetGo(p)})
  /\ handle_' = [handle_ EXCEPT ![p] = handle_[o], ![o] = 0]
  /\ shared' = [shared EXCEPT ![p] = shared[o], ![o] = 0]
  /\ UNCHANGED <<kind, destroying, call_result, leaked>>

\* The members are destroyed in the reverse order of their declaration: the shared handle first.
DestroyShared(o) ==
  /\ Alive(o)
  /\ Drop({LetGo(o)})
  /\ shared' = [shared EXCEPT ![o] = 0]
  /\ destroying' = destroying \cup {o}
  /\ UNCHANGED <<kind, handle_, call_result, leaked>>

DestroyHandle(o) ==
  /\ o \in destroying
  /\ Drop({handle_[o]})
  /\ handle_' = [handle_ EXCEPT ![o] = 0]
  /\ kind' = [kind EXCEPT ![o] = "none"]
  /\ destroying' = destroying \ {o}
  /\ UNCHANGED <<shared, call_result, leaked>>

-----------------------------------------------------------------------------
(* Methods.  One that asks names the handle of its object; without a handle it throws or does nothing *)

Call(o, k, asks, result) ==
  /\ Alive(o) /\ kind[o] = k
  /\ Ask(IF asks THEN {handle_[o], shared[o]} ELSE {})
  /\ call_result' = result
  /\ UNCHANGED <<objectVars, given, rust_handles, leaked>>

Has(o) == handle_[o] # 0

ApmCall(o, empty_frame, answer) ==
  Call(o, "AudioProcessingModule", Has(o) /\ ~empty_frame,
       IF Has(o) /\ (empty_frame \/ answer = "ok") THEN "returned" ELSE "threw")

\* An empty payload is refused before the handle is looked at.
VideoSourceCall(o, empty_payload, answer) ==
  Call(o, "VideoSource", Has(o) /\ ~empty_payload,
       IF ~empty_payload /\ (~Has(o) \/ answer \in {"ok", "error"}) THEN "returned" ELSE "threw")

\* tryPush() does not throw: an exception becomes a failure; no answer passes for a success.
TryPush(o, size, null_data, answer) ==
  Call(o, "LocalDataTrack", Has(o) /\ size > 0 /\ ~null_data,
       IF Has(o) /\ (size = 0 \/ (~null_data /\ answer \in {"ok", "missing"})) THEN "returned" ELSE "failure")

\* isPublished() and unpublishDataTrack(); isPublished() and setPipelineOptions(): only the request may throw.
LocalDataTrackCall(o, answer) ==
  Call(o, "LocalDataTrack", Has(o), IF ~Has(o) \/ answer # "throws" THEN "returned" ELSE "threw")

RemoteDataTrackCall(o, answer) ==
  Call(o, "RemoteDataTrack", Has(o), IF ~Has(o) \/ answer # "throws" THEN "returned" ELSE "threw")

PlatformAudioCall(o, answer) ==
  Call(o, "PlatformAudio", shared[o] # 0, IF shared[o] # 0 /\ answer = "ok" THEN "returned" ELSE "threw")

PublishData(o, empty_payload, answer) ==
  Call(o, "LocalParticipant", Has(o) /\ ~empty_payload,
       IF empty_payload \/ (Has(o) /\ answer = "ok") THEN "returned" ELSE "threw")

\* publishDtmf() and setMetadata() wait for an answer, the other setters only send a request.
ParticipantCall(o, waits, answer) ==
  Call(o, "LocalParticipant", Has(o),
       IF Has(o) /\ (answer = "ok" \/ (~waits /\ answer # "throws")) THEN "returned" ELSE "threw")

\* defineSchema() and getSchema() log a failure and return false or nothing.
SchemaCall(o, answer) ==
  Call(o, "LocalParticipant", Has(o), IF Has(o) /\ answer = "ok" THEN "returned" ELSE "failure")

PerformRpc(o, answer) ==
  Call(o, "LocalParticipant", Has(o), IF Has(o) /\ answer = "ok" THEN "returned" ELSE "threw")

-----------------------------------------------------------------------------
(* Buffers that come with a handle *)

\* AudioFrame::fromOwnedInfo() and fromOwnedProto(): the contents are copied and the handle is dropped.
FrameFromOwned ==
  /\ given < MaxHandles /\ given' = NewHandle
  /\ UNCHANGED <<objectVars, call_result, rust_handles, bad_handle, leaked>>

\* They throw before the handle is wrapped if the contents are missing; and the payload of a user packet is
\* copied without its handle.
BufferNotWrapped ==
  /\ Give
  /\ leaked' = leaked \cup {NewHandle}
  /\ UNCHANGED <<objectVars, call_result, bad_handle>>

Construction(o) ==
  \/ \E answer \in Answers :
       \/ NewAudioProcessingModule(o, answer) \/ NewVideoSource(o, answer)
       \/ \E m \in Objects :
            \/ CreateAudioSource(m, o, answer) \/ PublishDataTrack(m, o, answer) \/ Subscribe(m, o, answer)
            \/ CreateLocalAudioTrack(m, o, answer) \/ CreateLocalVideoTrack(m, o, answer)
  \/ \E answer \in Answers \cup {"null"} : NewPlatformAudio(o, answer)
  \/ \E h \in {0, NewHandle} : NewLocalParticipant(o, h) \/ NewRemoteDataTrack(o, h)
  \/ NewExternalFrame(o)

Method(o) ==
  \E answer \in Answers :
    \/ PlatformAudioCall(o, answer) \/ LocalDataTrackCall(o, answer) \/ RemoteDataTrackCall(o, answer)
    \/ SchemaCall(o, answer) \/ PerformRpc(o, answer)
    \/ \E b \in BOOLEAN :
         \/ ApmCall(o, b, answer) \/ VideoSourceCall(o, b, answer) \/ PublishData(o, b, answer)
         \/ ParticipantCall(o, b, answer)
         \/ \E size \in {0, 1} : TryPush(o, size, b, answer)

ObjectsNext ==
  \/ \E o \in Objects : Construction(o) \/ Method(o) \/ DestroyShared(o) \/ DestroyHandle(o)
  \/ \E o, p \in Objects :
       CopyPlatformAudio(o, p) \/ CopyAssignPlatformAudio(o, p) \/ MoveConstruct(o, p) \/ MoveAssign(o, p)
  \/ FrameFromOwned \/ BufferNotWrapped

ObjectsSpec == ObjectsInit /\ [][ObjectsNext]_ffiObjectVars

-----------------------------------------------------------------------------
(* Properties *)

Owned == {handle_[o] : o \in Objects} \cup {shared[o] : o \in Objects}

\* Through every construction, copy, move and destruction a handle is dropped once and not before its owners have
\* let go of it; no request names a handle that has been dropped; no two FfiHandles hold the same one; and no handle
\* that an object took is lost: Rust keeps those that have an owner, and those of the buffers that the code never
\* wraps (BufferNotWrapped), which nobody can drop.
HandlesOwnedOnce ==
  /\ ~bad_handle
  /\ rust_handles = (Owned \ {0}) \cup leaked
  /\ \A o, p \in Objects : o # p /\ handle_[o] # 0 => handle_[o] # handle_[p]
  /\ \A o, p \in Objects : handle_[o] # 0 => handle_[o] # shared[p]

\* A platform audio source keeps its platform alive, whatever becomes of the PlatformAudio objects,
\* until its own destruction begins.
SourcesKeepPlatform ==
  \A o \in Objects :
    Alive(o) /\ kind[o] = "PlatformAudioSource" /\ handle_[o] # 0 => shared[o] # 0 /\ shared[o] \in rust_handles

\* Every handle has the owners that need it, and no other ones.
HandlesSafe == HandlesOwnedOnce /\ SourcesKeepPlatform
=============================================================================
