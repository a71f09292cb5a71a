---------------------------- MODULE MCPgxOutbox -----------------------------
(***************************************************************************)
(* Small instances of PgxOutbox: values for the constants a cfg cannot     *)
(* write down.                                                             *)
(***************************************************************************)
EXTENDS PgxOutbox, TLC

\* Two events staged in one Stage call, or each in a transaction of its own.
MCOneTxn == [e \in Event |-> 1]
MCOwnTxn == [e \in Event |-> e]
MCPosition == [e \in Event |-> e]

\* A relay whose clock runs behind the database by more than the backoff, and
\* one whose retry lies in the future.
MCDelays == {-1, 1}

Symmetry == Permutations(Relays)
=============================================================================
