-------------------------- MODULE MCMediaEndpoints --------------------------
(***************************************************************************)
(* The instance for TLC of the objects through which media enter and leave *)
(* the SDK.  They do not interact: a behaviour is one of one of them, and  *)
(* the others stay as they are at the start, where none of their fair      *)
(* actions is enabled.                                                     *)
(***************************************************************************)
EXTENDS MediaStream, FreshAudioStream, AudioSource, RemoteSettings, FfiObjects, VideoFrames, TLC

CONSTANT Parts   \* the parts that are explored

VARIABLE part

MCCaptureTimeouts == {-1, 0, 20}
MCDimensions == {<<0, 1>>, <<1, 1>>, <<2, 1>>}
MCSizes == {-1, 1, 2, 3}

MCInit ==
  /\ part \in Parts
  /\ Init /\ FreshInit /\ AudioInit /\ SettingsInit /\ ObjectsInit /\ FramesInit
  /\ part # "source" => audio_handle /\ \A size \in QueueSizes : queue_size_ms <= size
  /\ part # "settings" => pub_kind = "audio" /\ ~pub_simulcasted /\ intent

\* At most two kinds of objects exist at a time: what moves, copies and shared handles need.
TwoKinds == Cardinality({kind'[o] : o \in Objects} \ {"none"}) <= 2

MCNext ==
  \/ part = "stream" /\ Next /\ UNCHANGED <<part, freshVars, audioVars, settingsVars, ffiObjectVars, frameVars>>
  \/ part = "fresh" /\ FreshNext /\ UNCHANGED <<part, vars, audioVars, settingsVars, ffiObjectVars, frameVars>>
  \/ part = "source" /\ AudioNext /\ UNCHANGED <<part, vars, freshVars, settingsVars, ffiObjectVars, frameVars>>
  \/ part = "settings" /\ SettingsNext /\ UNCHANGED <<part, vars, freshVars, audioVars, ffiObjectVars, frameVars>>
  \/ /\ part = "objects" /\ ObjectsNext /\ TwoKinds
     /\ UNCHANGED <<part, vars, freshVars, audioVars, settingsVars, frameVars>>
  \/ part = "frames" /\ FramesNext /\ UNCHANGED <<part, vars, freshVars, audioVars, settingsVars, ffiObjectVars>>

MCSpec ==
  /\ MCInit
  /\ [][MCNext]_<<part, vars, freshVars, audioVars, settingsVars, ffiObjectVars, frameVars>>
  /\ Fairness /\ AudioFairness

\* The calls that wait come back: read() of an AudioStream or VideoStream, and captureFrame() with
\* a timeout.
EndpointsReturn == ReadsEnd /\ TimedCapturesReturn
=============================================================================
