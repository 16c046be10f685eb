-------------------------- MODULE MCTcpConnection ---------------------------
(***************************************************************************)
(* Instances of TcpConnection for TLC: one message that fits the kernel's  *)
(* buffer and one that does not, so that writes are whole, short or        *)
(* refused, and the high-water mark is met exactly and passed.             *)
(***************************************************************************)
EXTENDS TcpConnection, TLC

CONSTANTS m1, m2, m3

TwoSizes   == (m1 :> 3) @@ (m2 :> 1)
ThreeSizes == (m1 :> 3) @@ (m2 :> 1) @@ (m3 :> 2)

=============================================================================
