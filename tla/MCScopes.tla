------------------------------- MODULE MCScopes -------------------------------
(***************************************************************************)
(* An instance of Scopes for TLC: two names that collide, one of them      *)
(* predefined, and one alone in its bucket.                                *)
(***************************************************************************)
EXTENDS Scopes, TLC

CONSTANTS a, b, p

MCHash == (a :> 0) @@ (b :> 1) @@ (p :> 0)
=============================================================================
