---------------------------- MODULE MCEventLoop -----------------------------
(***************************************************************************)
(* Instances of EventLoop for TLC.  Functors and callers are model values; *)
(* the runs check liveness, so no symmetry is used.                        *)
(***************************************************************************)
EXTENDS EventLoop

=============================================================================
