----------------------------- MODULE MCReconcile ----------------------------
(* Instances of Reconcile for TLC: three old records in two transactions, *)
(* and two keys for live writes.                                           *)
EXTENDS Reconcile

\* Two old decisions fill a page of two; 4 and 5 are the keys of live writes.
ViewsOfKeys == [k \in Key |-> IF k \in {3, 4} THEN "intent" ELSE "decision"]

\* Written before the reserve existed: 1 and 3 in one transaction, then 2; the
\* ledger's first transaction is of another kind.
OldRecords == [k \in Key |-> CASE k \in {1, 3} -> 2 [] k = 2 -> 3 [] OTHER -> 0]

Fresh == [positions |-> {}, counter |-> 0]

\* A deployment that allocated before the reserve existed: its last
\* record took position 1 from a counter that is still running.
Counting == [positions |-> {[view |-> "decision", key |-> 2, score |-> 1]}, counter |-> 1]

AnyDeployment == {Fresh, Counting}
OnlyFresh == {Fresh}

\* Three passes, cut anywhere, past the transaction that reaches the reserve;
\* one beside reconciliations; a shorter one with a piece of damage; and
\* reconciliations by a service with another reserve.
Passes(n) == [passes |-> n, damage |-> 0, txs |-> 13, readers |-> 0]
Readers == [passes |-> 1, damage |-> 0, txs |-> 8, readers |-> Reserve]
Damaged == [Readers EXCEPT !.damage = 1, !.txs = 6]
OtherReader == [passes |-> 0, damage |-> 0, txs |-> 5, readers |-> Reserve - 1]
PassesOrReaders == {Passes(3), Readers, Damaged, OtherReader}
OnlyReaders == {Readers}

Stray(v, k, s) == [view |-> v, key |-> k, score |-> s]

\* A decision in the intent view; a position the counter has yet to reach; one
\* that is no integer; a row with no score and a key that does not decode.
OneOfEach ==
    {Stray("intent", 1, 1), Stray("intent", 4, 11), Stray("intent", 3, 24),
     Stray("decision", 0, 0)}
TwentyFour == {24}
=============================================================================
