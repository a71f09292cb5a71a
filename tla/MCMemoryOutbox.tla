--------------------------- MODULE MCMemoryOutbox ---------------------------
(***************************************************************************)
(* Small instances of MemoryOutbox.                                        *)
(***************************************************************************)
EXTENDS MemoryOutbox

\* Two concurrent Stage calls, one of two events; or one call of two events.
MCTwoCalls == {<<1, 2>>, <<3>>}
MCOneCall == {<<1, 2>>}
=============================================================================
