----------------------- MODULE MCEventLoopThreadPool ------------------------
(***************************************************************************)
(* An instance of EventLoopThreadPool for TLC: two threads; a callback of  *)
(* the base loop and one of the first thread's loop may quit their loop.   *)
(***************************************************************************)
EXTENDS EventLoopThreadPool

=============================================================================
