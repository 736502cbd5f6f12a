---------------------------- MODULE MCFfiClient ----------------------------
(***************************************************************************)
(* Instances of FfiClient for TLC.                                         *)
(***************************************************************************)
EXTENDS FfiClient

\* One request of each style: its error is thrown, its error is a Result.
MCTwoStyles == {publishTrackAsync, getSchemaAsync}
=============================================================================
