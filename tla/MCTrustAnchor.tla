--------------------------- MODULE MCTrustAnchor ---------------------------
(* Instances of TrustAnchor for TLC.                                       *)
EXTENDS TrustAnchor

CONSTANTS r1, r2, r3, r4

\* Every route, three at a time, on a ledger nobody touches.
Racing(k) ==
    [kind |-> r1 :> "set" @@ r2 :> "verify" @@ r3 :> k @@ r4 :> "off",
     pool |-> 3, honest |-> TRUE, versions |-> 2]

\* The routes that move the anchor, one at a time, for a ledger restored and
\* a file damaged between them.
Served == r1 :> "verify" @@ r2 :> "set" @@ r3 :> "get" @@ r4 :> "off"
Restored == [kind |-> Served, pool |-> 1, honest |-> FALSE, versions |-> 3]

\* The same routes, two at a time, on a ledger nobody touches.
Pair == [kind |-> Served, pool |-> 2, honest |-> TRUE, versions |-> 2]

RacingOrRestored == {Racing("pinned"), Racing("get"), Restored}
OnlyPair == {Pair}
=============================================================================
