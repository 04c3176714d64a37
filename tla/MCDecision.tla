----------------------------- MODULE MCDecision -----------------------------
(* Instances of Decision for TLC.                                          *)
EXTENDS Decision

CONSTANTS c1, c2

\* A mediated call beside a call of every kind.
VaultAndAny == {k \in [Call -> Kind] : k[c1] = "vault"}
=============================================================================
