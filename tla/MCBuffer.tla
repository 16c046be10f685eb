------------------------------ MODULE MCBuffer ------------------------------
(***************************************************************************)
(* An instance of Buffer for TLC: a vector that a single chunk overflows,  *)
(* an extrabuf of two bytes, and bytes of two values, so that a byte out   *)
(* of place is seen.                                                       *)
(***************************************************************************)
EXTENDS Buffer

=============================================================================
