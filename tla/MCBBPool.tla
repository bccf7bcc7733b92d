------------------------------ MODULE MCBBPool ------------------------------
(* Instances of BBPool for TLC: q is an operand of p, r of both.           *)
EXTENDS BBPool, TLC

CONSTANTS p, q, r

MCNodes == {p, q, r}
MCKids == (p :> <<q, r>>) @@ (q :> <<r>>) @@ (r :> <<>>)
=============================================================================
