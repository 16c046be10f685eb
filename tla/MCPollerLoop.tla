---------------------------- MODULE MCPollerLoop ----------------------------
(***************************************************************************)
(* Instances of PollerLoop for TLC: channels and descriptors are model     *)
(* values.  A run checks liveness and its connections differ, so that no   *)
(* symmetry is used.                                                       *)
(***************************************************************************)
EXTENDS PollerLoop

=============================================================================
