--------------------------- MODULE MCOrderedWrite ---------------------------
(* Instances of OrderedWrite for TLC.                                      *)
EXTENDS OrderedWrite, TLC

CONSTANTS w1, w2, w3, p1, p2, k1, k2, k3

\* Two processes: w1 and w2 are threads of p1, w3 runs in p2.
MCProcOf == [w \in Writer |-> IF w = w3 THEN p2 ELSE p1]

\* All three keys differ / w2 re-uses the key of w1 with other bytes.
KeysApart == [w \in Writer |-> CASE w = w1 -> k1 [] w = w2 -> k2 [] w = w3 -> k3]
KeysShared == [w \in Writer |-> IF w = w3 THEN k3 ELSE k1]

\* Each request has bytes of its own.
OwnBytes == [w \in Writer |-> CASE w = w1 -> 1 [] w = w2 -> 2 [] w = w3 -> 3]

SameReserve == (p1 :> 2) @@ (p2 :> 2)
OtherReserve == (p1 :> 2) @@ (p2 :> 1)
=============================================================================
