----------------------------- MODULE MCObexClient -----------------------------
(* A small instance of ObexClient for TLC. *)
EXTENDS ObexClient

\* No retry, two retries, retries without end.
Retries == {[period |-> 0, limit |-> 0], [period |-> 1, limit |-> 2], [period |-> 1, limit |-> 0]}
=============================================================================
