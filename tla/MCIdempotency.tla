--------------------------- MODULE MCIdempotency ----------------------------
(***************************************************************************)
(* Four attempts on one key, one of them with another body.              *)
(***************************************************************************)
EXTENDS Idempotency, TLC

CONSTANTS a1, a2, a3, a4, k1, p, q

MCKeyOf == (a1 :> k1) @@ (a2 :> k1) @@ (a3 :> k1) @@ (a4 :> k1)
MCPayloadOf == (a1 :> p) @@ (a2 :> p) @@ (a3 :> p) @@ (a4 :> q)
=============================================================================
