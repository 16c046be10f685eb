----------------------------- MODULE ByteQueue ------------------------------
(***************************************************************************)
(* What a Buffer promises its users (include/Buffer.h): bytes come out in  *)
(* the order in which they went in, none missing and none twice, however   *)
(* they are laid out in memory.                                            *)
(***************************************************************************)
EXTENDS Sequences

VARIABLES
    content,   \* the bytes held, oldest first
    io         \* the last operation: what went in or came out

Init ==
    /\ content = <<>>
    /\ io = <<"take", <<>>>>

Put ==
    /\ io'[1] = "put"
    /\ content' = content \o io'[2]

Take ==
    /\ io'[1] = "take"
    /\ content = io'[2] \o content'

Next == Put \/ Take

Spec == Init /\ [][Next]_<<content, io>>

=============================================================================
