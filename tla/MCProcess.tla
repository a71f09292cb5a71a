----------------------------- MODULE MCProcess ------------------------------
(***************************************************************************)
(* Two topics of two messages.  The second message of one topic carries    *)
(* the event of the first message of the other: a duplicate for the inbox. *)
(* The second message of the other cannot be decoded.                      *)
(***************************************************************************)
EXTENDS Process

MCPoison == {<<"shipped", 2>>}
MCEventOf == [m \in Topics \X (1..Messages) |-> IF m = <<"placed", 1>> THEN "a" ELSE "b"]
=============================================================================
