--------------------------- MODULE ConnectionLife ---------------------------
(***************************************************************************)
(* What a TcpServer promises about each connection object: it is made for  *)
(* an accepted client, goes up, goes down and is freed, in this order.     *)
(* Only when the base loop has stopped may it be freed without having been *)
(* up or down.  TcpServer.tla is shown to implement this specification.    *)
(***************************************************************************)
CONSTANT Conn

VARIABLES
    life,        \* Conn -> the stage of its life
    stopping     \* the base loop has stopped

vars == <<life, stopping>>

Stage == {"absent", "opening", "up", "down", "gone"}

Init == life = [c \in Conn |-> "absent"] /\ stopping = FALSE

\* Opened on the base loop itself, a connection is up at once.
Open(c) ==
    /\ life[c] = "absent"
    /\ \E s \in {"opening", "up"} : life' = [life EXCEPT ![c] = s]
    /\ UNCHANGED stopping

Up(c) ==
    /\ life[c] = "opening"
    /\ life' = [life EXCEPT ![c] = "up"]
    /\ UNCHANGED stopping

Down(c) ==
    /\ life[c] = "up"
    /\ life' = [life EXCEPT ![c] = "down"]
    /\ UNCHANGED stopping

Free(cs) ==
    /\ \A c \in cs : life[c] = "down" \/ (stopping /\ life[c] \in {"opening", "up"})
    /\ life' = [c \in Conn |-> IF c \in cs THEN "gone" ELSE life[c]]
    /\ UNCHANGED stopping

Stop == stopping' = TRUE /\ UNCHANGED life

Next ==
    \/ \E c \in Conn : Open(c) \/ Up(c) \/ Down(c)
    \/ \E cs \in SUBSET Conn : Free(cs)
    \/ Stop

Spec == Init /\ [][Next]_vars

=============================================================================
