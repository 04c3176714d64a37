----------------------------- MODULE MCEvidence -----------------------------
(* Evidence for TLC.                                                       *)
EXTENDS Evidence

CONSTANTS i1, i2, i3

\* A decision, the intent of another call, and that key again in another
\* history, under a writer key that some auditors have revoked.
Bodies ==
    i1 :> [key |-> "k1", record_type |-> "none", outcome_type |-> "policy_allow",
           writer |-> "w1", form |-> "signed"] @@
    i2 :> [key |-> "k2", record_type |-> "decision_intent", outcome_type |-> "none",
           writer |-> "w2", form |-> "signed"] @@
    i3 :> [key |-> "k2", record_type |-> "none", outcome_type |-> "none",
           writer |-> "w3", form |-> "bad"]

\* A v1 log that only the SigningConfig calls v1, and a v2 log that gives
\* way to another: the end of the first is announced with the second.
Win(u, v, s, e) == [url |-> u, version |-> v, start |-> s, end |-> e]
Documents ==
    << [signing |-> {Win("v1", 1, 1, 0)},
        root |-> {Win("v1", 1, 1, 0), Win("a", 2, 1, 0)}],
       [signing |-> {Win("v1", 1, 1, 0), Win("b", 2, 2, 0)},
        root |-> {Win("v1", 1, 1, 0), Win("a", 2, 1, 2), Win("b", 2, 2, 0)}] >>

\* A fault beside two records; a fault, or the --once process, beside a state
\* signed twice and a change of log; two records and a change of log.
Scenario(o, x, f, n, t) == [once |-> o, txs |-> x, faults |-> f, nonces |-> n, time |-> t]
FaultOrTwo ==
    {Scenario(FALSE, 2, 1, 1, 1), Scenario(FALSE, 1, 1, 2, 2), Scenario(TRUE, 1, 0, 2, 2),
     Scenario(FALSE, 2, 0, 1, 2)}

Inv(k, w, d, a, s) ==
    [key |-> k, writers |-> w, denied |-> d, anchors |-> a, skip |-> s]
W == {"w1", "w2", "w3"}
Auditors ==
    {Inv("ledger key", W, {"w3"}, {"anchor key"}, FALSE),
     Inv("ledger key", W, {"w1"}, {}, FALSE),
     Inv("ledger key", W, {"w3"}, {}, TRUE),
     Inv("ledger key", {"w2"}, {}, {"anchor key"}, FALSE),
     Inv("ledger key", W, {"w3", Absent}, {"anchor key"}, FALSE),
     Inv("other key", W, {"w3"}, {"anchor key"}, FALSE)}
=============================================================================
