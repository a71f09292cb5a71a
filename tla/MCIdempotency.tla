---------------------------- MODULE MCIdempotency ---------------------------
(***************************************************************************)
(* Small instances of Idempotency: two retries of one request and a third  *)
(* request that reuses the key with another body.                          *)
(***************************************************************************)
EXTENDS Idempotency

MCFingerprint == [c \in Requests |-> IF c = 3 THEN 2 ELSE 1]
=============================================================================
