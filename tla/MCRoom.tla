------------------------------- MODULE MCRoom -------------------------------
(* Instances of the Room for TLC.                                          *)
EXTENDS Room, TLC

\* Threads of one kind are interchangeable (for runs without temporal properties).
MCSymmetry == Permutations(AppThreads) \cup Permutations(FfiThreads)
=============================================================================
