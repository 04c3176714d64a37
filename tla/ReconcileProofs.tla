-------------------------- MODULE ReconcileProofs --------------------------
(***************************************************************************)
(* Proofs about Backfill and Reconcile, for any records, deployments, page *)
(* sizes, damage and number of passes.                                     *)
(*                                                                         *)
(* A page is a set: the elements of a finite set with fewer than n before  *)
(* them.  PageFacts is all that is used of it: a short page is the whole   *)
(* set, and a page leaves no gap below its last row.  From it follow what  *)
(* indexed_keys and scan_all have seen (CoverInv, WalkInv) and what        *)
(* collect_positions has (StandingInv, HandedInv) while writers go on.     *)
(*                                                                         *)
(* Where a record is placed (OrderInv) rests on who has no place yet: a    *)
(* record that a settled read of the index did not show is history         *)
(* (WalkInv with LedgerInv), below the reserve (CounterInv), and what is   *)
(* written live is above every position held (PositionInv).  The last two  *)
(* need a tool that has the writers' reserve: ToolReserve = Reserve is a   *)
(* hypothesis of the theorems that rest on them.                           *)
(***************************************************************************)
EXTENDS Reconcile, HistoryLemmas, FiniteSetTheorems, TLAPS

-----------------------------------------------------------------------------
(* Pages.                                                                  *)

\* A page of a finite set: before[x] are the elements before x, and a page
\* of n takes those with fewer than n before them.  A page of fewer than n
\* elements is all of the set, and a page leaves no gap.
LEMMA PageFacts ==
    ASSUME NEW S, IsFiniteSet(S), NEW P \in [S -> SUBSET S], NEW n \in Nat,
           \A x \in S : x \notin P[x],
           \A x, y \in S : x \in P[y] => P[x] \subseteq P[y],
           NEW G, G = {x \in S : Cardinality(P[x]) < n}
    PROVE  /\ IsFiniteSet(G) /\ Cardinality(G) \in Nat
           /\ Cardinality(G) < n => G = S
           /\ \A x \in S, y \in G : x \in P[y] => x \in G
<1>1. \A x \in S : IsFiniteSet(P[x]) /\ Cardinality(P[x]) \in Nat
  BY FS_Subset, FS_CardinalityType
<1>2. \A x, y \in S : x \in P[y] => Cardinality(P[x]) < Cardinality(P[y])
  <2> SUFFICES ASSUME NEW x \in S, NEW y \in S, x \in P[y]
               PROVE  Cardinality(P[x]) < Cardinality(P[y])
    OBVIOUS
  <2>1. P[x] \in SUBSET P[y] /\ P[x] # P[y]
    OBVIOUS
  <2>2. /\ Cardinality(P[x]) <= Cardinality(P[y])
        /\ Cardinality(P[y]) = Cardinality(P[x]) => P[y] = P[x]
    BY <1>1, <2>1, FS_Subset
  <2> QED BY <1>1, <2>1, <2>2
<1>3. IsFiniteSet(G) /\ Cardinality(G) \in Nat
  BY FS_Subset, FS_CardinalityType
<1>4. ASSUME Cardinality(G) < n, G # S
      PROVE  FALSE
  <2> DEFINE C == {Cardinality(P[x]) : x \in S \ G}
  <2>1. C \subseteq Nat /\ C # {}
    BY <1>1, <1>4
  <2> HIDE DEF C
  <2>2. PICK c \in C : \A d \in C : c <= d
    BY <2>1, Least
  <2>3. PICK x \in S \ G : c = Cardinality(P[x])
    BY <2>2 DEF C
  <2>4. P[x] \subseteq G
    <3> SUFFICES ASSUME NEW y \in P[x], y \notin G PROVE FALSE
      OBVIOUS
    <3>1. y \in S \ G /\ Cardinality(P[y]) < Cardinality(P[x])
      BY <1>2, <2>3
    <3>2. Cardinality(P[y]) \in C
      BY <3>1 DEF C
    <3> QED BY <1>1, <2>2, <2>3, <3>1, <3>2
  <2>5. Cardinality(P[x]) <= Cardinality(G)
    BY <1>3, <2>4, FS_Subset
  <2>6. ~(Cardinality(P[x]) < n)
    BY <2>3
  <2> QED BY <1>1, <1>3, <1>4, <2>3, <2>5, <2>6
<1>5. ASSUME NEW x \in S, NEW y \in G, x \in P[y]
      PROVE  x \in G
  BY <1>1, <1>2, <1>5
<1> QED BY <1>3, <1>4, <1>5

\* A finite set of numbers has a greatest one.
LEMMA FiniteMax ==
    ASSUME NEW S, IsFiniteSet(S), S \subseteq Nat, S # {}
    PROVE  Max(S) \in S /\ \A x \in S : x <= Max(S)
<1>1. PICK B : B = [x \in S |-> {y \in S : y < x}]
  OBVIOUS
<1>2. PICK R : R = {Cardinality(B[x]) : x \in S}
  OBVIOUS
<1>3. \A x \in S : B[x] \in SUBSET S
  BY <1>1
<1>4. \A x \in S : IsFiniteSet(B[x]) /\ Cardinality(B[x]) <= Cardinality(S)
  BY <1>3, FS_Subset
<1>5. Cardinality(S) \in Nat /\ \A x \in S : Cardinality(B[x]) \in Nat
  BY <1>4, FS_CardinalityType
<1>6. R \subseteq 0 .. Cardinality(S) /\ R # {}
  BY <1>2, <1>4, <1>5
<1>7. PICK r \in R : \A q \in R : q <= r
  BY ONLY <1>5, <1>6, Greatest
<1>8. PICK x \in S : r = Cardinality(B[x])
  BY <1>2, <1>7
<1>9. ASSUME NEW y \in S, ~(y <= x) PROVE FALSE
  <2>1. x < y
    BY <1>9
  <2>2. B[x] \in SUBSET B[y] /\ x \in B[y] /\ x \notin B[x]
    <3>1. x \in Nat /\ y \in Nat /\ \A z \in S : z \in Nat
      OBVIOUS
    <3>2. ASSUME NEW z \in S, z < x PROVE z < y
      BY ONLY <2>1, <3>1, <3>2
    <3>3. ~(x < x)
      BY <3>1
    <3> QED BY <1>1, <2>1, <3>2, <3>3
  <2>3. /\ Cardinality(B[x]) <= Cardinality(B[y])
        /\ Cardinality(B[y]) = Cardinality(B[x]) => B[y] = B[x]
    BY <1>4, <2>2, FS_Subset
  <2>4. Cardinality(B[x]) < Cardinality(B[y])
    BY <1>5, <2>2, <2>3
  <2>5. Cardinality(B[y]) <= r
    BY <1>2, <1>7
  <2> QED BY <1>5, <1>8, <2>4, <2>5
<1>10. \E m \in S : \A y \in S : m >= y
  BY <1>8, <1>9
<1> QED BY <1>10 DEF Max

\* The members a scan by score is over.
Scored(S) == IsFiniteSet(S) /\ \A m \in S : m.score \in Nat /\ m.key \in Nat

\* A page of a scan by score: all of it when it is short, and everything below
\* the score it ends with.
LEMMA ScorePageFacts ==
    ASSUME NEW S, Scored(S), NEW n \in Nat, NEW G, G = ScorePage(S, n)
    PROVE  /\ IsFiniteSet(G) /\ Cardinality(G) \in Nat /\ G \subseteq S
           /\ Cardinality(G) < n => G = S
           /\ G # {} => /\ LastScore(G) \in {m.score : m \in G}
                        /\ \A m \in S : m.score < LastScore(G) => m \in G
<1>1. PICK P : P = [m \in S |-> {x \in S : Precedes(x, m)}]
  OBVIOUS
<1>2. P \in [S -> SUBSET S]
  BY <1>1
<1>3. \A x \in S : x \notin P[x]
  BY <1>1 DEF Precedes, Scored
<1>4. \A x, y \in S : x \in P[y] => P[x] \subseteq P[y]
  BY <1>1 DEF Precedes, Scored
<1>5. G = {x \in S : Cardinality(P[x]) < n}
  BY <1>1 DEF ScorePage
<1>6. /\ IsFiniteSet(G) /\ Cardinality(G) \in Nat
      /\ Cardinality(G) < n => G = S
      /\ \A x \in S, y \in G : x \in P[y] => x \in G
  BY <1>2, <1>3, <1>4, <1>5, PageFacts DEF Scored
<1>7. G \subseteq S
  BY <1>5
<1>8. ASSUME G # {}
      PROVE  /\ LastScore(G) \in {m.score : m \in G}
             /\ \A m \in S : m.score < LastScore(G) => m \in G
  <2> DEFINE T == {m.score : m \in G}
  <2>1. PICK f : f = [m \in G |-> m.score]
    OBVIOUS
  <2>2. f \in Surjection(G, T)
    BY <2>1 DEF Surjection
  <2>3. IsFiniteSet(T)
    BY <1>6, <2>2, FS_Surjection
  <2>4. T \subseteq Nat /\ T # {}
    BY <1>7, <1>8 DEF Scored
  <2> HIDE DEF T
  <2>5. LastScore(G) \in T
    BY <2>3, <2>4, FiniteMax DEF T, LastScore
  <2>6. PICK t \in G : LastScore(G) = t.score
    BY <2>5 DEF T
  <2>7. ASSUME NEW m \in S, m.score < LastScore(G)
        PROVE  m \in G
    <3>1. m \in P[t]
      BY <1>1, <1>7, <2>6, <2>7 DEF Precedes
    <3> QED BY <1>6, <3>1
  <2> QED BY <2>5, <2>7 DEF T
<1> QED BY <1>6, <1>7, <1>8

\* A page of a scan by key.
LEMMA KeyPageFacts ==
    ASSUME NEW S, IsFiniteSet(S), S \subseteq Nat, NEW n \in Nat, NEW G, G = KeyPage(S, n)
    PROVE  /\ IsFiniteSet(G) /\ Cardinality(G) \in Nat /\ G \subseteq S
           /\ Cardinality(G) < n => G = S
           /\ \A j \in S, k \in G : j < k => j \in G
<1>1. PICK P : P = [k \in S |-> {j \in S : j < k}]
  OBVIOUS
<1>2. P \in [S -> SUBSET S]
  BY <1>1
<1>3. \A x \in S : x \notin P[x]
  BY <1>1
<1>4. \A x, y \in S : x \in P[y] => P[x] \subseteq P[y]
  <2> SUFFICES ASSUME NEW x \in S, NEW y \in S, x \in P[y], NEW z \in P[x] PROVE z \in P[y]
    OBVIOUS
  <2>1. z \in S /\ z < x /\ x < y
    BY <1>1
  <2>2. x \in Nat /\ y \in Nat /\ z \in Nat
    BY ONLY <2>1, x \in S, y \in S, S \subseteq Nat
  <2>3. z < y
    BY ONLY <2>1, <2>2
  <2> QED BY <1>1, <2>1, <2>3
<1>5. G = {x \in S : Cardinality(P[x]) < n}
  BY <1>1 DEF KeyPage
<1>6. /\ IsFiniteSet(G) /\ Cardinality(G) \in Nat
      /\ Cardinality(G) < n => G = S
      /\ \A x \in S, y \in G : x \in P[y] => x \in G
  BY <1>2, <1>3, <1>4, <1>5, PageFacts
<1>7. G \subseteq S
  BY <1>5
<1>8. \A j \in S, k \in G : j < k => j \in P[k]
  BY <1>1, <1>7
<1> QED BY <1>6, <1>7, <1>8

-----------------------------------------------------------------------------
(* The inductive invariant of the ledger and the backfill pass.            *)

Settled(k) == k \notin Unsettled

Types ==
    /\ TypeOK
    /\ limits \in Bounds
    /\ \A k \in Key : rec[k] <= head
    /\ IsFiniteSet(members)
    /\ raced \subseteq Key /\ inside \subseteq Key /\ damaged \subseteq Member
    /\ stalled \in BOOLEAN
    /\ observed \in [value : Nat, tx : 0 .. limits.txs]

\* What a writer added is of a record, in its view; a record that came with a
\* position has one, unless it was damaged.
LedgerInv ==
    /\ \A k \in inside : rec[k] > 0
    /\ \A m \in members \ damaged : rec[m.key] > 0 /\ m.view = ViewOf[m.key]
    /\ \A k \in Key : (rec[k] > StartTx \/ k \in inside) /\ Settled(k) =>
          \E m \in members : m.key = k

\* What the pass has read; a record it did not find at its start raced it.
PassInv ==
    /\ before \subseteq {k \in Key : rec[k] > 0}
    /\ Running => \A k \in Key : rec[k] > 0 => k \in before \cup raced
    /\ pc = "index" => rows = {}
    /\ \A row \in rows : rec[row[1]] = row[2] /\ InView(row[1])
    /\ \A row \in pending : rec[row[1]] = row[2]

\* Every record of the start is accounted for as far as the pass has come.
Present(k) == \E m \in members \cup damaged : m.key = k
Passed(k) ==
    \/ pc \in {"counter", "seed", "zadd"}
    \/ pc \in {"index", "scan"} /\ view = 2 /\ ViewOf[k] = "decision"
CoverInv ==
    /\ \A k \in already : Present(k)
    /\ pc = "scan" => \A k \in before : InView(k) /\ k <= LastKey => <<k, rec[k]>> \in rows
    /\ \A k \in before : Passed(k) => Present(k) \/ <<k, rec[k]>> \in pending
    /\ pc = "done" => \A k \in before : Present(k)

\* The counter; what the pass knows of it, and that history is below it.
CounterInv ==
    /\ counter.tx <= head /\ StartTx <= head
    /\ counter.value = 0 => counter.tx = 0
    /\ pc = "seed" => /\ observed.value < ToolReserve
                      /\ observed.tx <= counter.tx
                      /\ observed.tx = counter.tx => observed = counter
    /\ pc \in {"zadd", "done"} /\ observed # None => counter.value >= ToolReserve
    /\ pc \in {"counter", "seed", "zadd"} => \A row \in pending : row[2] < ToolReserve

\* Positions above the reserve: handed out, each to one member, and held.
PositionInv ==
    /\ \A m \in members \ damaged : m.score > Reserve => m.score <= counter.value
    /\ \A m, n \in members \ damaged : m.score > Reserve /\ m.score = n.score => m = n
    /\ damaged = {} => \A p \in Reserve + 1 .. counter.value : \E m \in members : m.score = p
    /\ \A f \in Fractions : /\ counter.value + (limits.txs - head) < f
                            /\ Reserve + (limits.txs - head) < f

\* Where the index holds a record: history at its transaction, below the
\* reserve, and what was written live at its position, above.
Placed(m) ==
    IF rec[m.key] <= StartTx THEN m.score = rec[m.key] /\ m.score < Reserve
                             ELSE m.score > Reserve
Outside(k) == Settled(k) /\ k \notin inside
OrderInv ==
    /\ OnePosition
    /\ \A m \in members : Outside(m.key) => Placed(m)
    /\ \A m, n \in members : Outside(m.key) /\ Outside(n.key) /\ StartTx < rec[m.key] =>
          (rec[m.key] < rec[n.key] => m.score < n.score)

\* What a read of the index that did not stall has seen, and what it leaves
\* to be indexed: history only.
WalkInv ==
    /\ pc \in {"index", "scan"} => \A m \in members :
          /\ m.view = Views[view] /\ m.key \in before /\ Settled(m.key)
          /\ pc = "scan" \/ m.score < minScore
          => m.key \in already
    /\ Running => \A row \in pending : Settled(row[1]) => rec[row[1]] <= StartTx /\ row[1] \notin inside

IndexInv == ~stalled => OrderInv /\ WalkInv

Inv == Types /\ LedgerInv /\ PassInv /\ CoverInv /\ CounterInv /\ PositionInv /\ IndexInv

-----------------------------------------------------------------------------
(* The constants and the shape of a step.                                  *)

LEMMA Constants ==
    /\ NumKeys \in Nat /\ Key \subseteq Nat /\ 0 \notin Key /\ IsFiniteSet(Key)
    /\ ViewOf \in [Key -> View]
    /\ StartTx \in Nat \ {0} /\ Reserve \in Nat \ {0} /\ ToolReserve \in Nat \ {0} /\ ScanPage \in Nat \ {0}
<1>1. NumKeys \in Nat /\ ViewOf \in [Key -> View]
      /\ {StartTx, Reserve, ToolReserve, ScanPage} \subseteq Nat \ {0}
  BY BackfillAssumption
<1>2. Key \subseteq Nat /\ 0 \notin Key
  BY <1>1 DEF Key
<1>3. IsFiniteSet(Key)
  BY <1>1, Counting DEF Key
<1> QED BY <1>1, <1>2, <1>3

\* Bounds of a behaviour.
LEMMA LimitFacts ==
    ASSUME Types
    PROVE  limits.txs \in Nat /\ StartTx <= limits.txs /\ head \in Nat
BY BackfillAssumption DEF Types, TypeOK

\* The fields of a member.
LEMMA MemberFields ==
    ASSUME NEW m \in Member
    PROVE  m.view \in View /\ m.score \in Nat /\ m.key \in Key \cup {0} /\ m.key \in Nat
<1>1. m.view \in View /\ m.score \in Nat /\ m.key \in Key \cup {0}
  BY DEF Member
<1>2. \A k \in Key \cup {0} : k \in Nat
  BY Constants
<1> QED BY <1>1, <1>2

LEMMA MemberTypes ==
    ASSUME Types
    PROVE  \A m \in members : /\ m.view \in View /\ m.score \in Nat
                               /\ m.key \in Key \cup {0} /\ m.key \in Nat
BY MemberFields DEF Types, TypeOK

\* A set of members with one more is finite.
LEMMA OneMore ==
    ASSUME NEW S, IsFiniteSet(S), NEW x
    PROVE  IsFiniteSet(S \cup {x}) /\ IsFiniteSet(S \ {x})
BY FS_AddElement, FS_RemoveElement

-----------------------------------------------------------------------------
(* The pages of the pass.                                                  *)

\* A page of the index: members of the view only, all from minScore on when it
\* is short, and everything up to the score it ends with.
LEMMA IndexPageFacts ==
    ASSUME Types, NEW page, page = IndexPage
    PROVE  /\ page \subseteq members
           /\ Cardinality(page) \in Nat
           /\ page # {} => LastScore(page) \in Nat
           /\ \A m \in members : m.view = Views[view] /\ m.score >= minScore =>
                 \/ m \in page
                 \/ Cardinality(page) >= ScanPage /\ (page # {} => m.score >= LastScore(page))
<1>1. PICK S : S = {m \in Held(Views[view]) : m.score >= minScore}
  OBVIOUS
<1>2. S \subseteq members
  BY <1>1 DEF Held
<1>3. Scored(S)
  <2>1. IsFiniteSet(S)
    BY <1>2, FS_Subset DEF Types
  <2> QED BY <1>2, <2>1, MemberTypes DEF Scored
<1>4. page = ScorePage(S, ScanPage)
  BY <1>1 DEF IndexPage
<1>5. /\ Cardinality(page) \in Nat /\ page \subseteq S
      /\ Cardinality(page) < ScanPage => page = S
      /\ page # {} => /\ LastScore(page) \in {m.score : m \in page}
                      /\ \A m \in S : m.score < LastScore(page) => m \in page
  BY <1>3, <1>4, Constants, ScorePageFacts
<1>6. page # {} => LastScore(page) \in Nat
  BY <1>3, <1>5 DEF Scored
<1>7. ASSUME NEW m \in members, m.view = Views[view], m.score >= minScore, m \notin page
      PROVE  Cardinality(page) >= ScanPage /\ (page # {} => m.score >= LastScore(page))
  <2>1. m \in S
    BY <1>1, <1>7 DEF Held
  <2>2. m.score \in Nat
    BY <1>3, <2>1 DEF Scored
  <2> QED BY <1>5, <1>6, <1>7, <2>1, <2>2, Constants
<1> QED BY <1>2, <1>5, <1>6, <1>7

\* The greatest key of some rows.
LEMMA GreatestKey ==
    ASSUME NEW R, \A row \in R : row[1] \in Key,
           NEW K, K = IF R = {} THEN 0 ELSE Max({row[1] : row \in R})
    PROVE  /\ K \in Nat
           /\ \A row \in R : row[1] <= K
           /\ R = {} => K = 0
           /\ R # {} => \E row \in R : row[1] = K
<1>1. CASE R = {}
  BY <1>1
<1>2. CASE R # {}
  <2>1. PICK S : S = {row[1] : row \in R}
    OBVIOUS
  <2>2. S \subseteq Key /\ S # {}
    BY <1>2, <2>1
  <2>3. IsFiniteSet(S) /\ S \subseteq Nat
    BY <2>2, Constants, FS_Subset
  <2>4. Max(S) \in S /\ \A x \in S : x <= Max(S)
    BY <2>2, <2>3, FiniteMax
  <2>5. K = Max(S)
    BY <1>2, <2>1
  <2> QED BY <1>2, <2>1, <2>3, <2>4, <2>5
<1> QED BY <1>1, <1>2

\* The last key read is that of a row.
LEMMA LastKeyFacts ==
    ASSUME Types
    PROVE  /\ LastKey \in Nat
           /\ \A row \in rows : row[1] <= LastKey
           /\ rows = {} => LastKey = 0
<1>1. \A row \in rows : row[1] \in Key
  BY DEF Types, TypeOK
<1> QED BY <1>1, GreatestKey DEF LastKey

\* A page of the records: rows of the view as the ledger has them, past the
\* last key; all of them when it is short, and no key left out below another.
LEMMA RecordPageFacts ==
    ASSUME Types, NEW page, page = RecordPage
    PROVE  /\ \A row \in page : /\ row = <<row[1], rec[row[1]]>> /\ row[1] \in Key
                                /\ InView(row[1]) /\ rec[row[1]] > 0 /\ row[1] > LastKey
           /\ \A k \in Key : InView(k) /\ rec[k] > 0 /\ k > LastKey =>
                 \/ <<k, rec[k]>> \in page
                 \/ Cardinality(page) >= ScanPage /\ \A row \in page : row[1] < k
<1>1. PICK S : S = {j \in Key : InView(j) /\ rec[j] > 0 /\ j > LastKey}
  OBVIOUS
<1>2. S \subseteq Key /\ IsFiniteSet(S) /\ S \subseteq Nat
  BY <1>1, Constants, FS_Subset
<1>3. PICK G : G = KeyPage(S, ScanPage)
  OBVIOUS
<1>4. /\ IsFiniteSet(G) /\ Cardinality(G) \in Nat /\ G \subseteq S
      /\ Cardinality(G) < ScanPage => G = S
      /\ \A j \in S, k \in G : j < k => j \in G
  <2>1. ScanPage \in Nat
    BY Constants
  <2> QED BY ONLY <1>2, <1>3, <2>1, KeyPageFacts
<1>5. page = {<<k, rec[k]>> : k \in G}
  BY <1>1, <1>3 DEF RecordPage
<1>6. Cardinality(page) = Cardinality(G)
  <2>1. PICK s : s = [k \in G |-> <<k, rec[k]>>]
    OBVIOUS
  <2>2. \A i, j \in G : s[i] = s[j] => i = j
    BY <2>1
  <2>3. page = {s[i] : i \in G}
    BY <1>5, <2>1
  <2> QED BY <1>4, <2>2, <2>3, PlacesCounted
<1>7. ASSUME NEW row \in page
      PROVE  /\ row = <<row[1], rec[row[1]]>> /\ row[1] \in Key
             /\ InView(row[1]) /\ rec[row[1]] > 0 /\ row[1] > LastKey
  BY <1>1, <1>4, <1>5, <1>7
<1>8. ASSUME NEW k \in Key, InView(k), rec[k] > 0, k > LastKey, <<k, rec[k]>> \notin page
      PROVE  Cardinality(page) >= ScanPage /\ \A row \in page : row[1] < k
  <2>1. k \in S /\ k \notin G
    BY <1>1, <1>5, <1>8
  <2>2. Cardinality(page) >= ScanPage
    BY <1>4, <1>6, <2>1, Constants
  <2>3. ASSUME NEW row \in page PROVE row[1] < k
    <3>1. row[1] \in G
      BY <1>5, <2>3
    <3>2. row[1] \in Nat /\ k \in Nat /\ row[1] # k
      BY <1>2, <1>4, <2>1, <3>1
    <3>3. ~(k < row[1])
      BY <1>4, <2>1, <3>1
    <3> QED BY <3>2, <3>3
  <2> QED BY <2>2, <2>3
<1> QED BY <1>7, <1>8

-----------------------------------------------------------------------------
(* Each part of the invariant is kept by each step.                        *)

LEMMA TypesInit == Init => Types
<1> SUFFICES ASSUME Init PROVE Types
  OBVIOUS
<1>1. PICK d \in Deployments :
         /\ members = d.positions
         /\ counter = [value |-> d.counter, tx |-> IF d.counter = 0 THEN 0 ELSE StartTx]
         /\ inside = {m.key : m \in d.positions}
  BY DEF Init
<1>2. Allocating(d)
  BY BackfillAssumption
<1>3. limits \in Bounds /\ limits.txs \in Nat /\ StartTx <= limits.txs
  BY BackfillAssumption DEF Init
<1>4. StartTx \in Nat \ {0} /\ head = StartTx
  BY Constants DEF Init
<1>5. rec \in [Key -> 0 .. limits.txs] /\ \A k \in Key : rec[k] <= head
  <2>1. rec = History /\ History \in [Key -> Nat] /\ \A k \in Key : History[k] <= StartTx
    BY BackfillAssumption DEF Init
  <2>2. \A k \in Key : History[k] \in 0 .. limits.txs
    BY <1>3, <1>4, <2>1
  <2> QED BY <1>4, <2>1, <2>2
<1>6. counter \in [value : Nat, tx : 0 .. limits.txs]
  <2>1. d.counter \in Nat
    BY <1>2 DEF Allocating
  <2> QED BY <1>1, <1>3, <1>4, <2>1
<1>7. /\ members \subseteq Member /\ IsFiniteSet(members) /\ inside \subseteq Key
      /\ \A m \in members : m.key \in Key /\ m.score > 0
  BY <1>1, <1>2 DEF Allocating
<1>8. observed \in [value : Nat, tx : 0 .. limits.txs]
  BY <1>3 DEF Init, None
<1>9. head \in 1 .. limits.txs
  BY <1>3, <1>4
<1> QED BY <1>3, <1>5, <1>6, <1>7, <1>8, <1>9 DEF Init, Types, TypeOK

LEMMA TypesStep ==
    ASSUME Types, Next
    PROVE  Types'
<1> USE DEF Types, TypeOK
<1>0. limits.txs \in Nat /\ StartTx <= limits.txs /\ head \in Nat /\ 1 <= head /\ head <= limits.txs
  BY LimitFacts
<1>1. ASSUME NEW k \in Key, LiveWrite(k) PROVE Types'
  <2>1. head' = head + 1 /\ head < limits.txs
    BY <1>1 DEF LiveWrite, Commit
  <2>2. LivePosition \in Nat /\ LivePosition > 0
    BY Constants DEF LivePosition
  <2>3. PICK m : m = [view |-> ViewOf[k], key |-> k, score |-> LivePosition]
    OBVIOUS
  <2>4. m \in Member /\ m.key = k /\ m.score = LivePosition
    BY <2>2, <2>3, Constants DEF Member
  <2>5. members' = members \cup {m} /\ UNCHANGED damaged
    BY <1>1, <2>3 DEF LiveWrite
  <2>6. IsFiniteSet(members')
    BY <2>5, OneMore
  <2>7. /\ members' \subseteq Member
        /\ \A x \in members' \ damaged' : x.key \in Key /\ x.score > 0
    BY <2>2, <2>4, <2>5
  <2>8. head' \in 1 .. limits'.txs /\ limits' = limits
    BY <1>0, <1>1, <2>1 DEF LiveWrite
  <2>9. rec' \in [Key -> 0 .. limits'.txs] /\ \A j \in Key : rec'[j] <= head'
    BY <1>0, <1>1, <2>1, <2>8 DEF LiveWrite
  <2>10. counter' \in [value : Nat, tx : 0 .. limits'.txs]
    BY <1>0, <1>1, <2>1, <2>2, <2>8 DEF LiveWrite
  <2>11. (rows \cup pending)' \subseteq Key \X (1 .. head')
    BY <1>0, <1>1, <2>1 DEF LiveWrite
  <2>12. raced' \subseteq Key /\ inside' \subseteq Key
    BY <1>1 DEF LiveWrite
  <2> QED BY <1>1, <2>6, <2>7, <2>8, <2>9, <2>10, <2>11, <2>12 DEF LiveWrite
<1>2. CASE StartPass
  <2>1. None \in [value : Nat, tx : 0 .. limits.txs]
    BY <1>0 DEF None
  <2> QED BY <1>2, <2>1 DEF StartPass, ledger
<1>3. CASE ReadIndex
  <2>1. PICK page : page = IndexPage
    OBVIOUS
  <2>2. page \subseteq members /\ (page # {} => LastScore(page) \in Nat)
    BY <2>1, IndexPageFacts
  <2>3. minScore' = IF page = {} THEN minScore ELSE LastScore(page)
    BY <1>3, <2>1 DEF ReadIndex
  <2>4. already' = already \cup {m.key : m \in page}
    BY <1>3, <2>1 DEF ReadIndex
  <2>5. already' \subseteq Key \cup {0}
    BY <2>2, <2>4, MemberTypes
  <2>6. minScore' \in Nat
    BY <2>2, <2>3
  <2>7. pc' \in {"scan", "index"} /\ stalled' \in BOOLEAN
    BY <1>3 DEF ReadIndex
  <2> QED BY <1>3, <2>5, <2>6, <2>7 DEF ReadIndex, ledger
<1>4. CASE ReadRecords
  <2>1. PICK page : page = RecordPage
    OBVIOUS
  <2>2. page \subseteq Key \X (1 .. head)
    <3>1. ASSUME NEW row \in page PROVE row \in Key \X (1 .. head)
      <4>1. row = <<row[1], rec[row[1]]>> /\ row[1] \in Key /\ rec[row[1]] > 0
        BY <2>1, <3>1, RecordPageFacts
      <4>2. rec[row[1]] \in 1 .. head
        BY <1>0, <4>1
      <4> QED BY <4>1, <4>2
    <3> QED BY <3>1
  <2>3. PICK found : found = Found(rows \cup page)
    OBVIOUS
  <2>4. found \subseteq Key \X (1 .. head)
    BY <2>2, <2>3 DEF Found, Missing
  <2>5. CASE MoreRecords(page)
    BY <1>4, <2>1, <2>2, <2>5 DEF ReadRecords, ledger
  <2>6. CASE ~MoreRecords(page)
    <3>1. /\ rows' = {} /\ already' = {} /\ minScore' = 0 /\ pending' = found
          /\ view' \in {1, 2} /\ pc' \in {"index", "counter", "refused"}
      BY <1>4, <2>1, <2>3, <2>6 DEF ReadRecords
    <3> QED BY <1>4, <2>4, <3>1 DEF ReadRecords, ledger
  <2> QED BY <2>5, <2>6
<1>5. CASE ReadCounter
  BY <1>5 DEF ReadCounter, ledger
<1>6. CASE ReadCounterFails
  BY <1>0, <1>6 DEF ReadCounterFails, ledger, None
<1>7. CASE Seed
  <2>1. CASE CounterUnmoved
    <3>1. head' = head + 1 /\ head < limits.txs
      BY <1>7, <2>1 DEF Seed, Commit
    <3>2. counter' \in [value : Nat, tx : 0 .. limits.txs] /\ pc' = "zadd"
      BY <1>0, <1>7, <2>1, <3>1, Constants DEF Seed
    <3>3. (rows \cup pending)' \subseteq Key \X (1 .. head')
      BY <1>0, <1>7, <3>1 DEF Seed
    <3>4. head' \in 1 .. limits.txs /\ \A k \in Key : rec[k] <= head'
      BY <1>0, <3>1
    <3> QED BY <1>7, <3>2, <3>3, <3>4 DEF Seed
  <2>2. CASE ~CounterUnmoved
    BY <1>7, <2>2 DEF Seed
  <2> QED BY <2>1, <2>2
<1>8. CASE ZAdd
  <2>1. head' = head + 1 /\ head < limits.txs
    BY <1>8 DEF ZAdd, Commit
  <2>2. PICK row \in pending :
           /\ members' = members \cup {[view |-> ViewOf[row[1]], key |-> row[1], score |-> Score(row)]}
           /\ pending' = pending \ {row}
    BY <1>8 DEF ZAdd
  <2>3. row[1] \in Key /\ row[2] \in 1 .. head
    OBVIOUS
  <2>4. PICK m : m = [view |-> ViewOf[row[1]], key |-> row[1], score |-> Score(row)]
    OBVIOUS
  <2>5. m \in Member /\ m.key = row[1] /\ m.score = row[2]
    <3>1. row[2] \in Nat
      BY ONLY <1>0, <2>3
    <3>2. ViewOf[row[1]] \in View
      BY ONLY <2>3, Constants
    <3> QED BY ONLY <2>3, <2>4, <3>1, <3>2 DEF Member, Score
  <2>6. IsFiniteSet(members')
    BY <2>2, <2>4, OneMore
  <2>7. /\ members' \subseteq Member
        /\ \A x \in members' \ damaged : x.key \in Key /\ x.score > 0
    BY <1>0, <2>2, <2>3, <2>4, <2>5
  <2>8. (rows \cup pending)' \subseteq Key \X (1 .. head')
    BY <1>0, <1>8, <2>1, <2>2 DEF ZAdd
  <2>9. head' \in 1 .. limits.txs /\ \A k \in Key : rec[k] <= head'
    BY <1>0, <2>1
  <2> QED BY <1>8, <2>6, <2>7, <2>8, <2>9 DEF ZAdd
<1>9. CASE EndPass
  BY <1>9 DEF EndPass, ledger
<1>10. CASE Interrupt
  BY <1>10 DEF Interrupt, ledger
<1>11. CASE LoseMember
  <2>1. PICK m \in members \ damaged : members' = members \ {m} /\ damaged' = damaged \cup {m}
    BY <1>11 DEF LoseMember
  <2>2. IsFiniteSet(members')
    BY <2>1, OneMore
  <2> QED BY <1>11, <2>1, <2>2 DEF LoseMember
<1>12. CASE AddStray
  <2>1. PICK m \in Strays \ (members \cup damaged) : members' = members \cup {m} /\ damaged' = damaged \cup {m}
    BY <1>12 DEF AddStray
  <2>2. IsFiniteSet(members')
    BY <2>1, OneMore
  <2>3. m \in Member
    BY <2>1, BackfillAssumption
  <2> QED BY <1>12, <2>1, <2>2, <2>3 DEF AddStray
<1> QED BY <1>1, <1>2, <1>3, <1>4, <1>5, <1>6, <1>7, <1>8, <1>9, <1>10, <1>11, <1>12 DEF Next

\* The steps by what they do to the records and the index.
Added(m) == members' = members \cup {m} /\ UNCHANGED damaged
Placing(row) ==
    /\ pc = "zadd" /\ row \in pending
    /\ row[1] \in Key /\ row[2] \in Nat /\ row[2] > 0
    /\ \E m \in Member : /\ m.view = ViewOf[row[1]] /\ m.key = row[1] /\ m.score = row[2]
                         /\ Added(m)
    /\ pending' = pending \ {row}
    /\ head' = head + 1
    /\ UNCHANGED <<rec, counter, bound, pc, view, already, minScore, rows,
                   observed, passes, limits, before, raced, inside, stalled>>
Recording(k, m) ==
    /\ k \in Key /\ m \in Member
    /\ m.view = ViewOf[k] /\ m.key = k /\ m.score = LivePosition
    /\ LivePosition \in Nat /\ Added(m)
    /\ LiveWrite(k)
    /\ head' = head + 1
    /\ rec[k] = 0 /\ rec' = [rec EXCEPT ![k] = head + 1]
    /\ counter' = [value |-> LivePosition, tx |-> head + 1]
    /\ raced' = IF Running THEN raced \cup {k} ELSE raced
    /\ inside' = IF LivePosition <= Reserve THEN inside \cup {k} ELSE inside
Quiet == UNCHANGED <<rec, members, raced, inside, damaged, limits>>

LEMMA ZAddIs ==
    ASSUME Types, ZAdd
    PROVE  \E row \in pending : Placing(row)
<1>1. PICK row \in pending :
         /\ members' = members \cup {[view |-> ViewOf[row[1]], key |-> row[1], score |-> Score(row)]}
         /\ pending' = pending \ {row}
  BY DEF ZAdd
<1>2. row[1] \in Key /\ row[2] \in Nat /\ row[2] > 0
  <2>1. row \in Key \X (1 .. head)
    BY DEF Types, TypeOK
  <2> QED BY <2>1, LimitFacts
<1>3. PICK m : m = [view |-> ViewOf[row[1]], key |-> row[1], score |-> Score(row)]
  OBVIOUS
<1>4. m \in Member /\ m.view = ViewOf[row[1]] /\ m.key = row[1] /\ m.score = row[2]
  BY <1>2, <1>3, Constants DEF Member, Score
<1>5. Added(m)
  BY <1>1, <1>3 DEF ZAdd, Added
<1>6. /\ pc = "zadd" /\ head' = head + 1
      /\ UNCHANGED <<rec, counter, bound, pc, view, already, minScore, rows,
                     observed, passes, limits, before, raced, inside, stalled>>
  BY DEF ZAdd, Commit
<1> QED BY <1>1, <1>2, <1>4, <1>5, <1>6 DEF Placing

LEMMA LiveWriteIs ==
    ASSUME Types, NEW k \in Key, LiveWrite(k)
    PROVE  \E m : Recording(k, m)
<1>1. LivePosition \in Nat
  BY Constants DEF LivePosition, Types, TypeOK
<1>2. PICK m : m = [view |-> ViewOf[k], key |-> k, score |-> LivePosition]
  OBVIOUS
<1>3. m \in Member /\ m.view = ViewOf[k] /\ m.key = k /\ m.score = LivePosition
  BY <1>1, <1>2, Constants DEF Member
<1>4. Added(m)
  BY <1>2 DEF LiveWrite, Added
<1>5. /\ head' = head + 1 /\ rec[k] = 0 /\ rec' = [rec EXCEPT ![k] = head + 1]
      /\ counter' = [value |-> LivePosition, tx |-> head + 1]
      /\ raced' = IF Running THEN raced \cup {k} ELSE raced
      /\ inside' = IF LivePosition <= Reserve THEN inside \cup {k} ELSE inside
  BY DEF LiveWrite, Commit
<1> QED BY <1>1, <1>3, <1>4, <1>5 DEF Recording

\* What is left: steps of the pass that change neither records nor index.
Quietly ==
    \/ StartPass \/ ReadIndex \/ ReadRecords \/ ReadCounter \/ ReadCounterFails
    \/ Seed \/ EndPass \/ Interrupt

LEMMA QuietlyIsQuiet ==
    ASSUME Quietly
    PROVE  Quiet
BY DEF Quietly, StartPass, ReadIndex, ReadRecords, ReadCounter, ReadCounterFails, Seed, EndPass,
       Interrupt, Quiet, ledger

LEMMA Kinds ==
    ASSUME Types, Next
    PROVE  \/ \E k \in Key : \E m : Recording(k, m)
           \/ \E row \in pending : Placing(row)
           \/ LoseMember \/ AddStray
           \/ Quietly
BY LiveWriteIs, ZAddIs DEF Next, Quietly

\* Keys are only ever unsettled.
LEMMA StillSettled ==
    ASSUME NEW k, Settled(k)',
           raced \subseteq raced', damaged \subseteq damaged'
    PROVE  Settled(k)
BY DEF Settled, Unsettled

\* A member with a settled key was not damaged.
LEMMA SettledMember ==
    ASSUME NEW m, Settled(m.key)
    PROVE  m \notin damaged
BY DEF Settled, Unsettled

LEMMA LedgerStep ==
    ASSUME Types, LedgerInv, PassInv, Next
    PROVE  LedgerInv'
<1>0. limits.txs \in Nat /\ StartTx <= limits.txs /\ head \in Nat /\ rec \in [Key -> Nat]
  <2>1. rec \in [Key -> 0 .. limits.txs]
    BY DEF Types, TypeOK
  <2> QED BY <2>1, LimitFacts
<1>a. raced \subseteq Key /\ inside \subseteq Key /\ \A m \in members \ damaged : m.key \in Key
  BY DEF Types, TypeOK
<1>1. ASSUME NEW k \in Key, NEW m, Recording(k, m) PROVE LedgerInv'
  <2>1. /\ m.view = ViewOf[k] /\ m.key = k
        /\ members' = members \cup {m} /\ damaged' = damaged
        /\ rec' = [rec EXCEPT ![k] = head + 1] /\ rec[k] = 0
        /\ inside' \subseteq inside \cup {k} /\ raced \subseteq raced'
    BY <1>1 DEF Recording, Added
  <2>2. \A j \in Key : rec'[j] = IF j = k THEN head + 1 ELSE rec[j]
    BY <1>0, <2>1
  <2>3. \A j \in inside' : rec'[j] > 0
    BY <1>0, <1>a, <2>1, <2>2 DEF LedgerInv
  <2>4. \A x \in members' \ damaged' : rec'[x.key] > 0 /\ x.view = ViewOf[x.key]
    BY <1>0, <1>a, <2>1, <2>2 DEF LedgerInv
  <2>5. ASSUME NEW j \in Key, rec'[j] > StartTx \/ j \in inside', Settled(j)'
        PROVE  \E x \in members' : x.key = j
    <3>1. CASE j = k
      BY <2>1, <3>1
    <3>2. CASE j # k
      <4>1. rec[j] > StartTx \/ j \in inside
        BY <2>1, <2>2, <2>5, <3>2
      <4>2. Settled(j)
        BY <2>1, <2>5, StillSettled
      <4> QED BY <2>1, <4>1, <4>2 DEF LedgerInv
    <3> QED BY <3>1, <3>2
  <2> QED BY <2>3, <2>4, <2>5 DEF LedgerInv
<1>2. ASSUME NEW row \in pending, Placing(row) PROVE LedgerInv'
  <2>0. rec[row[1]] > 0
    BY <1>2 DEF Placing, PassInv
  <2>1. PICK m \in Member : m.view = ViewOf[row[1]] /\ m.key = row[1] /\ Added(m)
    BY <1>2 DEF Placing
  <2>2. /\ members' = members \cup {m} /\ UNCHANGED <<damaged, rec, inside, raced>>
    BY <1>2, <2>1 DEF Placing, Added
  <2> QED BY <1>2, <2>0, <2>1, <2>2 DEF LedgerInv, Settled, Unsettled
<1>3. CASE LoseMember
  <2>1. PICK m \in members \ damaged : members' = members \ {m} /\ damaged' = damaged \cup {m}
    BY <1>3 DEF LoseMember
  <2>2. UNCHANGED <<rec, inside, raced>>
    BY <1>3 DEF LoseMember
  <2>3. ASSUME NEW j \in Key, rec[j] > StartTx \/ j \in inside, Settled(j)'
        PROVE  \E x \in members' : x.key = j
    <3>1. Settled(j)
      BY <2>1, <2>2, <2>3, StillSettled
    <3>2. m.key # j
      BY <2>1, <2>3 DEF Settled, Unsettled
    <3>3. PICK x \in members : x.key = j
      BY <2>3, <3>1 DEF LedgerInv
    <3> QED BY <2>1, <3>2, <3>3
  <2> QED BY <2>1, <2>2, <2>3 DEF LedgerInv
<1>4. CASE AddStray
  <2>1. PICK m \in Strays \ (members \cup damaged) : members' = members \cup {m} /\ damaged' = damaged \cup {m}
    BY <1>4 DEF AddStray
  <2>2. UNCHANGED <<rec, inside, raced>>
    BY <1>4 DEF AddStray
  <2>3. \A j : Settled(j)' => Settled(j)
    BY <2>1, <2>2, StillSettled
  <2> QED BY <2>1, <2>2, <2>3 DEF LedgerInv
<1>5. CASE Quietly
  <2>1. Quiet
    BY <1>5, QuietlyIsQuiet
  <2> QED BY <2>1 DEF Quiet, LedgerInv, Settled, Unsettled
<1> QED BY <1>1, <1>2, <1>3, <1>4, <1>5, Kinds

LEMMA PassStep ==
    ASSUME Types, PassInv, Next
    PROVE  PassInv'
<1>0. head \in Nat /\ rec \in [Key -> Nat] /\ rows \cup pending \subseteq Key \X (1 .. head)
  <2>1. rec \in [Key -> 0 .. limits.txs]
    BY DEF Types, TypeOK
  <2> QED BY <2>1, LimitFacts DEF Types, TypeOK
<1>1. ASSUME NEW k \in Key, NEW m, Recording(k, m) PROVE PassInv'
  <2>1. /\ rec[k] = 0 /\ rec' = [rec EXCEPT ![k] = head + 1]
        /\ UNCHANGED <<pc, view, rows, pending, before>>
        /\ Running => raced' = raced \cup {k}
        /\ ~Running => raced' = raced
    BY <1>1 DEF Recording, LiveWrite
  <2>2. \A j \in Key : rec'[j] = IF j = k THEN head + 1 ELSE rec[j]
    BY <1>0, <2>1
  <2>3. \A row \in rows \cup pending : row[1] \in Key /\ row[2] \in Nat /\ row[2] > 0
    BY <1>0
  <2>4. \A row \in rows \cup pending : rec'[row[1]] = row[2]
    BY <2>1, <2>2, <2>3 DEF PassInv
  <2>5. before' \subseteq {j \in Key : rec'[j] > 0}
    BY <1>0, <2>1, <2>2 DEF PassInv
  <2>6. Running' => \A j \in Key : rec'[j] > 0 => j \in before' \cup raced'
    BY <2>1, <2>2 DEF PassInv, Running
  <2> QED BY <2>1, <2>4, <2>5, <2>6 DEF PassInv, InView
<1>2. ASSUME NEW row \in pending, Placing(row) PROVE PassInv'
  BY <1>2 DEF Placing, PassInv, Running, InView
<1>3. CASE LoseMember
  BY <1>3 DEF LoseMember, PassInv, Running, InView
<1>4. CASE AddStray
  BY <1>4 DEF AddStray, PassInv, Running, InView
<1>5. CASE StartPass
  BY <1>5 DEF StartPass, ledger, PassInv
<1>6. CASE ReadIndex
  <2>1. rows = {} /\ rows' = {} /\ Running
    BY <1>6 DEF ReadIndex, PassInv, Running
  <2> QED BY <1>6, <2>1 DEF ReadIndex, ledger, PassInv
<1>7. CASE ReadRecords
  <2>1. PICK page : page = RecordPage
    OBVIOUS
  <2>2. \A row \in page : rec[row[1]] = row[2] /\ InView(row[1])
    <3>1. \A row \in page : row = <<row[1], rec[row[1]]>> /\ InView(row[1])
      BY <2>1, RecordPageFacts
    <3> QED BY <3>1
  <2>3. Running /\ UNCHANGED <<before, raced, rec>>
    BY <1>7 DEF ReadRecords, Running, ledger
  <2>4. CASE MoreRecords(page)
    <3>1. rows' = rows \cup page /\ UNCHANGED <<pc, view, pending>>
      BY <1>7, <2>1, <2>4 DEF ReadRecords
    <3>2. pc # "index"
      BY <1>7 DEF ReadRecords
    <3> QED BY <2>2, <2>3, <3>1, <3>2 DEF PassInv, InView, Running
  <2>5. CASE ~MoreRecords(page)
    <3>1. rows' = {} /\ pending' = Found(rows \cup page)
      BY <1>7, <2>1, <2>5 DEF ReadRecords
    <3> QED BY <2>2, <2>3, <3>1 DEF PassInv, Found, Missing
  <2> QED BY <2>4, <2>5
<1>8. CASE ReadCounter \/ ReadCounterFails \/ Seed
  BY <1>8 DEF ReadCounter, ReadCounterFails, Seed, ledger, PassInv, Running, InView
<1>9. CASE EndPass \/ Interrupt
  BY <1>9 DEF EndPass, Interrupt, ledger, PassInv, Running, InView
<1> QED BY <1>1, <1>2, <1>3, <1>4, <1>5, <1>6, <1>7, <1>8, <1>9, Kinds DEF Quietly

\* A place in the index, once there, leaves it only into damaged.
LEMMA StaysPresent ==
    ASSUME Types, Next, NEW k, Present(k)
    PROVE  Present(k)'
<1>1. members \cup damaged \subseteq (members \cup damaged)'
  <2>1. ASSUME NEW j \in Key, NEW m, Recording(j, m) PROVE members \cup damaged \subseteq (members \cup damaged)'
    BY <2>1 DEF Recording, Added
  <2>2. ASSUME NEW row \in pending, Placing(row) PROVE members \cup damaged \subseteq (members \cup damaged)'
    BY <2>2 DEF Placing, Added
  <2>3. CASE LoseMember
    BY <2>3 DEF LoseMember
  <2>4. CASE AddStray
    BY <2>4 DEF AddStray
  <2>5. CASE Quietly
    BY <2>5, QuietlyIsQuiet DEF Quiet
  <2> QED BY <2>1, <2>2, <2>3, <2>4, <2>5, Kinds
<1> QED BY <1>1 DEF Present

\* A short page ends the scan: every record of the view has been read.
LEMMA ScanComplete ==
    ASSUME Types, PassInv, CoverInv, pc = "scan", NEW page, page = RecordPage,
           NEW k \in before, InView(k)
    PROVE  /\ <<k, rec[k]>> \in rows \cup page \/ Cardinality(page) >= ScanPage
           /\ <<k, rec[k]>> \in rows \cup page \/ (LastKey < k /\ \A row \in rows \cup page : row[1] < k)
<1>1. k \in Key /\ rec[k] > 0 /\ k \in Nat
  BY Constants DEF PassInv
<1>2. CASE k <= LastKey
  BY <1>2 DEF CoverInv
<1>3. CASE ~(k <= LastKey)
  <2>1. LastKey \in Nat /\ \A row \in rows : row[1] <= LastKey
    BY LastKeyFacts
  <2>2. k > LastKey
    BY <1>1, <1>3, <2>1
  <2>3. <<k, rec[k]>> \in page \/ (Cardinality(page) >= ScanPage /\ \A row \in page : row[1] < k)
    BY <1>1, <2>2, RecordPageFacts
  <2>4. \A row \in rows : row[1] < k
    <3>1. \A row \in rows : row[1] \in Nat
      BY Constants DEF Types, TypeOK
    <3> QED BY <1>1, <2>1, <2>2, <3>1
  <2> QED BY <2>2, <2>3, <2>4
<1> QED BY <1>2, <1>3

LEMMA CoverStep ==
    ASSUME Types, PassInv, CoverInv, Next
    PROVE  CoverInv'
<1>0. \A k : Present(k) => Present(k)'
  BY StaysPresent
<1>a. before \subseteq Key /\ (\A k \in before : rec[k] > 0) /\ rec \in [Key -> 0 .. limits.txs]
  BY DEF PassInv, Types, TypeOK
<1>b. view \in {1, 2} /\ Views[1] = "decision" /\ Views[2] = "intent" /\ ViewOf \in [Key -> View]
  BY Constants DEF Types, TypeOK, Views
<1>1. ASSUME NEW k \in Key, NEW m, Recording(k, m) PROVE CoverInv'
  <2>1. /\ rec[k] = 0 /\ rec' = [rec EXCEPT ![k] = head + 1]
        /\ UNCHANGED <<pc, view, rows, pending, before, already>>
    BY <1>1 DEF Recording, LiveWrite
  <2>2. \A j \in before : rec'[j] = rec[j]
    BY <1>a, <2>1
  <2>3. \A j : (InView(j)' <=> InView(j)) /\ (Passed(j)' <=> Passed(j)) /\ LastKey' = LastKey
    BY <2>1 DEF InView, Passed, LastKey
  <2> QED BY <1>0, <2>1, <2>2, <2>3 DEF CoverInv
<1>2. ASSUME NEW row \in pending, Placing(row) PROVE CoverInv'
  <2>1. /\ pc = "zadd" /\ pending' = pending \ {row}
        /\ UNCHANGED <<pc, rec, before, already>>
    BY <1>2 DEF Placing
  <2>2. Present(row[1])'
    BY <1>2 DEF Placing, Added, Present
  <2>3. \A k \in before : Present(k) \/ <<k, rec[k]>> \in pending
    BY <2>1 DEF CoverInv, Passed
  <2>4. ASSUME NEW k \in before PROVE Present(k)' \/ <<k, rec[k]>> \in pending'
    <3>1. CASE Present(k)
      BY <1>0, <3>1
    <3>2. CASE <<k, rec[k]>> \in pending /\ <<k, rec[k]>> # row
      BY <2>1, <3>2
    <3>3. CASE <<k, rec[k]>> = row
      BY <2>2, <3>3
    <3> QED BY <2>3, <3>1, <3>2, <3>3
  <2>5. \A k \in already : Present(k)'
    BY <1>0 DEF CoverInv
  <2> QED BY <2>1, <2>4, <2>5 DEF CoverInv
<1>3. CASE LoseMember \/ AddStray
  <2>1. UNCHANGED <<pc, view, rows, pending, before, already, rec>>
    BY <1>3 DEF LoseMember, AddStray
  <2>2. \A j : (InView(j)' <=> InView(j)) /\ (Passed(j)' <=> Passed(j)) /\ LastKey' = LastKey
    BY <2>1 DEF InView, Passed, LastKey
  <2> QED BY <1>0, <2>1, <2>2 DEF CoverInv
<1>4. CASE StartPass
  BY <1>4 DEF StartPass, CoverInv, Passed
<1>5. CASE ReadIndex
  <2>1. PICK page : page = IndexPage
    OBVIOUS
  <2>2. page \subseteq members
    BY <2>1, IndexPageFacts
  <2>3. /\ pc = "index" /\ pc' \in {"index", "scan"} /\ already' = already \cup {m.key : m \in page}
        /\ UNCHANGED <<members, damaged, rec, view, rows, pending, before>>
    BY <1>5, <2>1 DEF ReadIndex, ledger
  <2>4. rows' = {} /\ LastKey' = 0
    BY <2>3 DEF PassInv, LastKey
  <2>5. \A k \in already' : Present(k)'
    BY <2>2, <2>3 DEF CoverInv, Present
  <2>6. \A k \in before : ~(k <= LastKey')
    BY <1>a, <2>4, Constants DEF Key
  <2>7. \A k \in before : Passed(k)' => Passed(k)
    BY <2>3 DEF Passed
  <2> QED BY <1>0, <2>3, <2>5, <2>6, <2>7 DEF CoverInv
<1>6. CASE ReadRecords
  <2>1. PICK page : page = RecordPage
    OBVIOUS
  <2>2. pc = "scan" /\ UNCHANGED <<members, damaged, rec, before>>
    BY <1>6 DEF ReadRecords, ledger
  <2>3. CASE MoreRecords(page)
    <3>1. rows' = rows \cup page /\ UNCHANGED <<pc, view, already, pending>>
      BY <1>6, <2>1, <2>3 DEF ReadRecords
    <3>2. ASSUME NEW k \in before, InView(k), k <= LastKey' PROVE <<k, rec[k]>> \in rows'
      <4>1. SUFFICES ASSUME LastKey < k, \A row \in rows \cup page : row[1] < k
                     PROVE  FALSE
        BY <2>1, <2>2, <3>1, <3>2, ScanComplete
      <4>2. k \in Nat /\ k > 0
        BY <1>a, Constants DEF Key
      <4>3. PICK R : R = rows \cup page
        OBVIOUS
      <4>4. \A row \in R : row[1] \in Key
        <5>1. \A row \in rows : row[1] \in Key
          BY DEF Types, TypeOK
        <5>2. \A row \in page : row[1] \in Key
          BY <2>1, RecordPageFacts
        <5> QED BY <4>3, <5>1, <5>2
      <4>5. PICK K : K = IF R = {} THEN 0 ELSE Max({row[1] : row \in R})
        OBVIOUS
      <4>6. K \in Nat /\ (R = {} => K = 0) /\ (R # {} => \E row \in R : row[1] = K)
        BY <4>4, <4>5, GreatestKey
      <4>7. K = LastKey'
        BY <3>1, <4>3, <4>5 DEF LastKey
      <4>8. K < k
        BY <4>1, <4>2, <4>3, <4>6
      <4> QED BY <3>2, <4>2, <4>6, <4>7, <4>8
    <3> QED BY <1>0, <2>2, <3>1, <3>2 DEF CoverInv, InView, Passed
  <2>4. CASE ~MoreRecords(page)
    <3>1. PICK found : found = Found(rows \cup page)
      OBVIOUS
    <3>2. rows' = {} /\ already' = {} /\ pending' = found /\ pc' \in {"index", "counter", "refused"}
      BY <1>6, <2>1, <2>4, <3>1 DEF ReadRecords
    <3>3. pc' = "index" => view = 1 /\ view' = 2
      BY <1>6, <2>1, <2>4 DEF ReadRecords
    <3>4. pc' = "counter" => view = 2
      BY <1>6, <1>b, <2>1, <2>4 DEF ReadRecords
    <3>5. ~(Cardinality(page) >= ScanPage)
      BY <2>4 DEF MoreRecords
    <3>6. ASSUME NEW k \in before, InView(k) PROVE Present(k) \/ <<k, rec[k]>> \in found
      <4>1. <<k, rec[k]>> \in rows \cup page
        BY <2>1, <2>2, <3>5, <3>6, ScanComplete
      <4> QED BY <3>1, <4>1 DEF Found, Missing, CoverInv
    <3>7. ASSUME NEW k \in before, Passed(k)' PROVE Present(k) \/ <<k, rec[k]>> \in found
      <4>1. CASE pc' = "index"
        <5>1. ViewOf[k] = "decision"
          BY <3>7, <4>1 DEF Passed
        <5> QED BY <1>b, <3>3, <3>6, <4>1, <5>1 DEF InView
      <4>2. CASE pc' = "counter"
        <5>1. CASE ViewOf[k] = "decision"
          <6>1. Passed(k)
            BY <2>2, <3>4, <4>2, <5>1 DEF Passed
          <6> QED BY <3>1, <6>1 DEF CoverInv, Found
        <5>2. CASE ViewOf[k] = "intent"
          BY <1>b, <3>4, <3>6, <4>2, <5>2 DEF InView
        <5> QED BY <1>a, <1>b, <5>1, <5>2 DEF View
      <4> QED BY <3>2, <3>7, <4>1, <4>2 DEF Passed
    <3> QED BY <1>0, <2>2, <3>2, <3>7 DEF CoverInv
  <2> QED BY <2>3, <2>4
<1>7. CASE ReadCounter \/ ReadCounterFails \/ Seed
  <2>1. /\ pc \in {"counter", "seed"} /\ pc' \in {"seed", "zadd", "idle"}
        /\ UNCHANGED <<rec, before, already, pending>>
    BY <1>7 DEF ReadCounter, ReadCounterFails, Seed, ledger
  <2>2. \A k : Passed(k)' => Passed(k)
    BY <2>1 DEF Passed
  <2> QED BY <1>0, <2>1, <2>2 DEF CoverInv
<1>8. CASE EndPass
  <2>1. \A k \in before : Present(k)
    BY <1>8 DEF EndPass, CoverInv, Passed
  <2> QED BY <1>0, <1>8, <2>1 DEF EndPass, ledger, CoverInv, Passed
<1>9. CASE Interrupt
  BY <1>0, <1>9 DEF Interrupt, CoverInv, Passed
<1> QED BY <1>1, <1>2, <1>3, <1>4, <1>5, <1>6, <1>7, <1>8, <1>9, Kinds DEF Quietly

LEMMA CounterStep ==
    ASSUME Types, CounterInv, Next
    PROVE  CounterInv'
<1>0. /\ head \in Nat /\ counter \in [value : Nat, tx : Nat] /\ observed \in [value : Nat, tx : Nat]
      /\ ToolReserve \in Nat \ {0} /\ Reserve \in Nat \ {0} /\ StartTx \in Nat
  <2>1. \A i \in 0 .. limits.txs : i \in Nat
    BY LimitFacts
  <2> QED BY <2>1, LimitFacts, Constants DEF Types, TypeOK
<1>a. \A row \in pending \cup rows : row[2] \in Nat
  BY LimitFacts DEF Types, TypeOK
<1>1. ASSUME NEW k \in Key, NEW m, Recording(k, m) PROVE CounterInv'
  <2>1. /\ head' = head + 1 /\ counter' = [value |-> LivePosition, tx |-> head + 1]
        /\ LivePosition \in Nat
        /\ UNCHANGED <<pc, observed, pending>>
    BY <1>1 DEF Recording, LiveWrite
  <2>2. LivePosition > 0 /\ (counter.value # 0 => LivePosition = counter.value + 1)
    BY <1>0 DEF LivePosition
  <2>3. counter'.tx = head + 1 /\ counter'.value = LivePosition
    BY <2>1
  <2>4. counter'.tx <= head' /\ StartTx <= head' /\ (counter'.value = 0 => counter'.tx = 0)
    BY <1>0, <2>1, <2>2, <2>3 DEF CounterInv
  <2>5. pc = "seed" => /\ observed.value < ToolReserve
                       /\ observed.tx <= counter'.tx /\ observed.tx # counter'.tx
    BY <1>0, <2>3 DEF CounterInv
  <2>6. pc \in {"zadd", "done"} /\ observed # None => counter'.value >= ToolReserve
    BY <1>0, <2>1, <2>2, <2>3 DEF CounterInv
  <2> QED BY <2>1, <2>4, <2>5, <2>6 DEF CounterInv
<1>2. ASSUME NEW row \in pending, Placing(row) PROVE CounterInv'
  BY <1>0, <1>2 DEF Placing, CounterInv
<1>3. CASE LoseMember \/ AddStray
  BY <1>3 DEF LoseMember, AddStray, CounterInv
<1>4. CASE StartPass
  BY <1>4 DEF StartPass, ledger, CounterInv
<1>5. CASE ReadIndex
  <2>1. pc' \in {"index", "scan"} /\ UNCHANGED <<head, counter>>
    BY <1>5 DEF ReadIndex, ledger
  <2> QED BY <2>1 DEF CounterInv
<1>6. CASE ReadRecords
  <2>1. PICK found : found = Found(rows \cup RecordPage)
    OBVIOUS
  <2>2. \A row \in found : row[2] \in Nat
    <3>1. \A row \in RecordPage : row = <<row[1], rec[row[1]]>> /\ row[1] \in Key
      BY RecordPageFacts
    <3>2. \A row \in RecordPage : row[2] \in Nat
      BY <3>1, LimitFacts DEF Types, TypeOK
    <3> QED BY <1>a, <2>1, <3>2 DEF Found, Missing
  <2>3. UNCHANGED <<head, counter>>
    BY <1>6 DEF ReadRecords, ledger
  <2>4. CASE pc' \in {"index", "scan", "refused"}
    BY <2>3, <2>4 DEF CounterInv
  <2>5. CASE pc' \notin {"index", "scan", "refused"}
    <3>1. pc' = "counter" /\ pending' = found /\ ~OverReserve(found)
      BY <1>6, <2>1, <2>5 DEF ReadRecords
    <3>2. \A row \in pending' : row[2] < ToolReserve
      BY <1>0, <2>2, <3>1 DEF OverReserve
    <3> QED BY <2>3, <3>1, <3>2 DEF CounterInv
  <2> QED BY <2>4, <2>5
<1>7. CASE ReadCounter
  <2>1. /\ pc = "counter" /\ observed' = counter /\ UNCHANGED <<head, counter, pending>>
        /\ pc' = IF counter.value = 0 \/ counter.value >= ToolReserve THEN "zadd" ELSE "seed"
    BY <1>7 DEF ReadCounter, ledger
  <2>2. counter.value = 0 => counter = None
    BY <1>0 DEF CounterInv, None
  <2>3. pc' = "seed" => counter.value < ToolReserve
    BY <1>0, <2>1
  <2>4. counter.tx <= counter.tx
    BY <1>0
  <2> QED BY <2>1, <2>2, <2>3, <2>4 DEF CounterInv
<1>8. CASE ReadCounterFails
  BY <1>8 DEF ReadCounterFails, ledger, CounterInv
<1>9. CASE Seed
  <2>1. CASE CounterUnmoved
    <3>1. /\ pc = "seed" /\ pc' = "zadd" /\ counter' = [value |-> ToolReserve, tx |-> head + 1]
          /\ head' = head + 1 /\ UNCHANGED <<pending, observed>>
      BY <1>9, <2>1 DEF Seed, Commit
    <3>2. counter'.value = ToolReserve /\ counter'.tx = head'
      BY <3>1
    <3> QED BY <1>0, <3>1, <3>2 DEF CounterInv
  <2>2. CASE ~CounterUnmoved
    BY <1>9, <2>2 DEF Seed, CounterInv
  <2> QED BY <2>1, <2>2
<1>10. CASE EndPass \/ Interrupt
  BY <1>10 DEF EndPass, Interrupt, ledger, CounterInv
<1> QED BY <1>1, <1>2, <1>3, <1>4, <1>5, <1>6, <1>7, <1>8, <1>9, <1>10, Kinds DEF Quietly

\* A counter is only ever raised.
LEMMA CounterRises ==
    ASSUME Types, CounterInv, Next
    PROVE  counter.value <= counter'.value
<1>0. counter.value \in Nat /\ Reserve \in Nat
  BY Constants DEF Types, TypeOK
<1>1. ASSUME NEW k \in Key, NEW m, Recording(k, m) PROVE counter.value <= counter'.value
  <2>1. counter'.value = LivePosition
    BY <1>1 DEF Recording
  <2> QED BY <1>0, <2>1 DEF LivePosition
<1>2. CASE Seed
  <2>1. CASE CounterUnmoved
    <3>1. counter'.value = ToolReserve /\ observed.value < ToolReserve /\ observed = counter
      BY <1>2, <2>1 DEF Seed, CounterUnmoved, CounterInv
    <3> QED BY <1>0, <3>1, Constants
  <2>2. CASE ~CounterUnmoved
    BY <1>0, <1>2, <2>2 DEF Seed
  <2> QED BY <2>1, <2>2
<1>3. ASSUME NEW row \in pending, Placing(row) PROVE counter.value <= counter'.value
  BY <1>0, <1>3 DEF Placing
<1>4. CASE Quietly /\ ~Seed
  BY <1>0, <1>4 DEF Quietly, StartPass, ReadIndex, ReadRecords, ReadCounter, ReadCounterFails, EndPass, Interrupt, ledger
<1>5. CASE LoseMember \/ AddStray
  BY <1>0, <1>5 DEF LoseMember, AddStray
<1> QED BY <1>1, <1>2, <1>3, <1>4, <1>5, Kinds

LEMMA PositionStep ==
    ASSUME ToolReserve = Reserve, Types, CounterInv, PositionInv, Next
    PROVE  PositionInv'
<1>0. /\ head \in Nat /\ limits.txs \in Nat /\ counter.value \in Nat /\ Reserve \in Nat \ {0}
      /\ \A m \in members : m.score \in Nat
      /\ \A f \in Fractions : f \in Nat
  BY LimitFacts, Constants, MemberTypes, ReconcileAssumption DEF Types, TypeOK
<1>1. ASSUME NEW k \in Key, NEW m, Recording(k, m) PROVE PositionInv'
  <2>1. /\ m.score = LivePosition /\ members' = members \cup {m} /\ UNCHANGED <<damaged, limits>>
        /\ head' = head + 1 /\ counter'.value = LivePosition
    BY <1>1 DEF Recording, Added, LiveWrite
  <2>2. LivePosition \in Nat /\ LivePosition = (IF counter.value = 0 THEN Reserve ELSE counter.value) + 1
    BY <1>0 DEF LivePosition
  <2>3. \A x \in members \ damaged : x.score > Reserve => x.score < LivePosition
    BY <1>0, <2>2 DEF PositionInv
  <2>4. \A x \in members' \ damaged' : x.score > Reserve => x.score <= counter'.value
    BY <1>0, <2>1, <2>2, <2>3
  <2>5. \A x, y \in members' \ damaged' : x.score > Reserve /\ x.score = y.score => x = y
    BY <1>0, <2>1, <2>2, <2>3 DEF PositionInv
  <2>6. ASSUME damaged' = {}, NEW p \in Reserve + 1 .. counter'.value
        PROVE  \E x \in members' : x.score = p
    <3>1. CASE p = LivePosition
      BY <2>1, <3>1
    <3>2. CASE p # LivePosition
      <4>1. p \in Reserve + 1 .. counter.value
        BY <1>0, <2>1, <2>2, <2>6, <3>2
      <4> QED BY <2>1, <2>6, <4>1 DEF PositionInv
    <3> QED BY <3>1, <3>2
  <2>7. \A f \in Fractions : /\ counter'.value + (limits'.txs - head') < f
                             /\ Reserve + (limits'.txs - head') < f
    BY <1>0, <2>1, <2>2 DEF PositionInv
  <2> QED BY <2>4, <2>5, <2>6, <2>7 DEF PositionInv
<1>2. ASSUME NEW row \in pending, Placing(row) PROVE PositionInv'
  <2>1. PICK m \in Member : m.score = row[2] /\ Added(m)
    BY <1>2 DEF Placing
  <2>2. row[2] < Reserve /\ row[2] \in Nat
    BY <1>2 DEF Placing, CounterInv
  <2>3. members' = members \cup {m} /\ UNCHANGED <<damaged, limits, counter>> /\ head' = head + 1
    BY <1>2, <2>1 DEF Placing, Added
  <2>4. ~(m.score > Reserve)
    BY <1>0, <2>1, <2>2
  <2>5. \A x \in members' \ damaged' : x.score > Reserve => x.score <= counter'.value
    BY <2>3, <2>4 DEF PositionInv
  <2>6. \A x, y \in members' \ damaged' : x.score > Reserve /\ x.score = y.score => x = y
    BY <2>3, <2>4 DEF PositionInv
  <2>7. damaged' = {} => \A p \in Reserve + 1 .. counter'.value : \E x \in members' : x.score = p
    BY <2>3 DEF PositionInv
  <2>8. \A f \in Fractions : /\ counter'.value + (limits'.txs - head') < f
                             /\ Reserve + (limits'.txs - head') < f
    BY <1>0, <2>3 DEF PositionInv
  <2> QED BY <2>5, <2>6, <2>7, <2>8 DEF PositionInv
<1>3. CASE LoseMember \/ AddStray
  <2>1. PICK m : damaged' = damaged \cup {m} /\ (members' = members \ {m} \/ members' = members \cup {m})
    BY <1>3 DEF LoseMember, AddStray
  <2>2. UNCHANGED <<limits, counter, head>>
    BY <1>3 DEF LoseMember, AddStray
  <2>3. members' \ damaged' \subseteq members \ damaged /\ damaged' # {}
    BY <2>1
  <2> QED BY <2>2, <2>3 DEF PositionInv
<1>4. CASE Seed /\ CounterUnmoved
  <2>1. /\ counter'.value = Reserve /\ counter.value < Reserve
        /\ head' = head + 1 /\ UNCHANGED <<members, damaged, limits>>
    BY <1>4 DEF Seed, Commit, CounterUnmoved, CounterInv
  <2>2. \A x \in members \ damaged : ~(x.score > Reserve)
    BY <1>0, <2>1 DEF PositionInv
  <2>3. Reserve + 1 .. counter'.value = {}
    BY <1>0, <2>1
  <2>4. \A f \in Fractions : /\ counter'.value + (limits'.txs - head') < f
                             /\ Reserve + (limits'.txs - head') < f
    BY <1>0, <2>1 DEF PositionInv
  <2> QED BY <2>1, <2>2, <2>3, <2>4 DEF PositionInv
<1>5. CASE Quietly /\ ~(Seed /\ CounterUnmoved)
  <2>1. UNCHANGED <<members, damaged, limits, counter, head>>
    BY <1>5 DEF Quietly, StartPass, ReadIndex, ReadRecords, ReadCounter, ReadCounterFails, Seed, EndPass, Interrupt, ledger
  <2> QED BY <2>1 DEF PositionInv
<1> QED BY <1>1, <1>2, <1>3, <1>4, <1>5, Kinds DEF Quietly

\* A read that has stalled is not forgotten.
LEMMA StillUnstalled ==
    ASSUME Next, ~stalled'
    PROVE  ~stalled
BY DEF Next, LiveWrite, StartPass, ReadIndex, ReadRecords, ReadCounter, ReadCounterFails, Seed, ZAdd,
       EndPass, Interrupt, LoseMember, AddStray

\* Damage takes members away from the settled keys, and adds none to them.
LEMMA DamageIs ==
    ASSUME LoseMember \/ AddStray
    PROVE  /\ \A k : Settled(k)' => Settled(k)
           /\ \A x \in members' : Settled(x.key)' => x \in members
           /\ UNCHANGED <<rec, pc, view, already, minScore, pending, before, inside, raced, counter, head>>
<1>1. PICK m : damaged' = damaged \cup {m} /\ (members' = members \ {m} \/ members' = members \cup {m})
  BY DEF LoseMember, AddStray
<1>2. UNCHANGED <<rec, pc, view, already, minScore, pending, before, inside, raced, counter, head>>
  BY DEF LoseMember, AddStray
<1>3. \A k : Settled(k)' => Settled(k)
  BY <1>1, <1>2, StillSettled
<1>4. ASSUME NEW x \in members', Settled(x.key)' PROVE x \in members
  BY <1>1, <1>4 DEF Settled, Unsettled
<1> QED BY <1>2, <1>3, <1>4

LEMMA OrderStep ==
    ASSUME ToolReserve = Reserve, Types, LedgerInv, PassInv, CounterInv, PositionInv, OrderInv, WalkInv, Next
    PROVE  OrderInv'
<1>0. /\ head \in Nat /\ counter.value \in Nat /\ Reserve \in Nat \ {0} /\ StartTx \in Nat
      /\ \A m \in members : m.score \in Nat
      /\ rec \in [Key -> Nat]
  <2>1. rec \in [Key -> 0 .. limits.txs]
    BY DEF Types, TypeOK
  <2> QED BY <2>1, LimitFacts, Constants, MemberTypes DEF Types, TypeOK
<1>a. \A x \in members : Settled(x.key) => x \notin damaged /\ x.key \in Key /\ rec[x.key] > 0
  BY SettledMember DEF Types, TypeOK, LedgerInv
<1>1. ASSUME NEW k \in Key, NEW m, Recording(k, m) PROVE OrderInv'
  <2>1. /\ m.key = k /\ m.score = LivePosition /\ LivePosition \in Nat
        /\ members' = members \cup {m} /\ damaged' = damaged
        /\ rec' = [rec EXCEPT ![k] = head + 1] /\ rec[k] = 0
        /\ inside' = IF LivePosition <= Reserve THEN inside \cup {k} ELSE inside
        /\ raced \subseteq raced'
    BY <1>1 DEF Recording, Added
  <2>2. \A j \in Key : rec'[j] = IF j = k THEN head + 1 ELSE rec[j]
    BY <1>0, <2>1
  <2>3. \A j : Settled(j)' => Settled(j)
    BY <2>1, StillSettled
  <2>4. \A j : Outside(j)' => Outside(j)
    BY <2>1, <2>3 DEF Outside
  <2>5. ASSUME NEW x \in members, Settled(x.key)'
        PROVE  x.key # k /\ x.key \in Key /\ rec'[x.key] = rec[x.key] /\ x \notin damaged
    BY <1>0, <1>a, <2>1, <2>2, <2>3, <2>5
  <2>6. OnePosition'
    <3> SUFFICES ASSUME NEW x \in members', NEW y \in members', x.key = y.key, Settled(x.key)'
                 PROVE  x.score = y.score
      BY DEF OnePosition, Settled
    <3>1. x = m <=> y = m
      BY <2>1, <2>5
    <3>2. CASE x # m
      BY <2>1, <2>3, <3>1, <3>2 DEF OrderInv, OnePosition, Settled
    <3> QED BY <3>1, <3>2
  <2>7. ASSUME NEW x \in members', Outside(x.key)' PROVE Placed(x)'
    <3>1. CASE x = m
      <4>1. m.score > Reserve
        BY <1>0, <2>1, <2>7, <3>1 DEF Outside
      <4>2. ~(rec'[m.key] <= StartTx)
        BY <1>0, <2>1, <2>2 DEF CounterInv
      <4> QED BY <3>1, <4>1, <4>2 DEF Placed
    <3>2. CASE x # m
      <4>1. Placed(x)
        BY <2>1, <2>4, <2>7, <3>2 DEF OrderInv
      <4> QED BY <2>1, <2>5, <2>7, <3>2, <4>1 DEF Placed, Outside
    <3> QED BY <3>1, <3>2
  <2>8. ASSUME NEW x \in members', NEW y \in members', Outside(x.key)', Outside(y.key)',
               StartTx < rec'[x.key], rec'[x.key] < rec'[y.key]
        PROVE  x.score < y.score
    <3>1. \A z \in members' : z # m => z \in members
      BY <2>1
    <3>2. x # m
      <4> SUFFICES ASSUME x = m PROVE FALSE
        OBVIOUS
      <4>1. rec'[x.key] = head + 1
        BY <2>1, <2>2
      <4>2. y.key \in Key /\ rec'[y.key] \in Nat /\ rec'[y.key] <= head + 1
        <5>1. CASE y = m
          BY <1>0, <2>1, <2>2, <5>1
        <5>2. CASE y # m
          <6>1. y.key \in Key /\ rec'[y.key] = rec[y.key]
            BY <2>5, <2>8, <3>1, <5>2 DEF Outside
          <6>2. rec[y.key] <= head
            BY <6>1 DEF Types
          <6> QED BY <1>0, <6>1, <6>2
        <5> QED BY <5>1, <5>2
      <4> QED BY <1>0, <2>8, <4>1, <4>2
    <3>3. x \in members /\ Outside(x.key) /\ rec'[x.key] = rec[x.key] /\ x \notin damaged /\ x.key \in Key
      BY <2>4, <2>5, <2>8, <3>1, <3>2 DEF Outside
    <3>4. CASE y = m
      <4>1. rec[x.key] \in Nat /\ ~(rec[x.key] <= StartTx)
        BY <1>0, <2>8, <3>3
      <4>2. x.score > Reserve
        BY <3>3, <4>1 DEF OrderInv, Placed
      <4>3. x.score <= counter.value
        BY <3>3, <4>2 DEF PositionInv
      <4> QED BY <1>0, <2>1, <3>3, <3>4, <4>2, <4>3 DEF LivePosition
    <3>5. CASE y # m
      <4>1. y \in members /\ Outside(y.key) /\ rec'[y.key] = rec[y.key]
        BY <2>4, <2>5, <2>8, <3>1, <3>5 DEF Outside
      <4> QED BY <2>8, <3>3, <4>1 DEF OrderInv
    <3> QED BY <3>4, <3>5
  <2> QED BY <2>6, <2>7, <2>8 DEF OrderInv
<1>2. ASSUME NEW row \in pending, Placing(row) PROVE OrderInv'
  <2>1. PICK m \in Member : m.key = row[1] /\ m.score = row[2] /\ Added(m)
    BY <1>2 DEF Placing
  <2>2. /\ members' = members \cup {m} /\ UNCHANGED <<damaged, rec, inside, raced>>
        /\ pc = "zadd" /\ row[1] \in Key /\ row[2] \in Nat
    BY <1>2, <2>1 DEF Placing, Added
  <2>3. rec[m.key] = m.score /\ m.score < Reserve
    BY <2>1, <2>2 DEF PassInv, CounterInv
  <2>4. Settled(m.key) => rec[m.key] <= StartTx /\ m.key \notin inside
    BY <2>1, <2>2 DEF WalkInv, Running
  <2>5. \A j : (Settled(j)' <=> Settled(j)) /\ (Outside(j)' <=> Outside(j))
    BY <2>2 DEF Outside, Settled, Unsettled
  <2>6. \A x : Placed(x)' <=> Placed(x)
    BY <2>2 DEF Placed
  <2>7. Placed(m) \/ ~Settled(m.key)
    BY <2>3, <2>4 DEF Placed
  <2>8. \A x \in members : x.key = m.key /\ Settled(m.key) => x.score = m.score
    BY <2>3, <2>4 DEF OrderInv, Placed, Outside
  <2>9. OnePosition'
    <3> SUFFICES ASSUME NEW x \in members', NEW y \in members', x.key = y.key, Settled(x.key)
                 PROVE  x.score = y.score
      BY <2>5 DEF OnePosition, Settled
    <3> QED BY <2>2, <2>8 DEF OrderInv, OnePosition, Settled
  <2>10. \A x \in members' : Outside(x.key)' => Placed(x)'
    BY <2>2, <2>5, <2>6, <2>7 DEF OrderInv, Outside
  <2>11. ASSUME NEW x \in members', NEW y \in members', Outside(x.key), Outside(y.key),
                StartTx < rec[x.key], rec[x.key] < rec[y.key]
         PROVE  x.score < y.score
    <3>1. x # m
      BY <1>0, <2>1, <2>2, <2>3, <2>4, <2>11 DEF Outside
    <3>2. x \in members /\ rec[x.key] \in Nat
      BY <1>0, <1>a, <2>2, <2>11, <3>1 DEF Outside
    <3>3. y # m
      BY <1>0, <2>1, <2>2, <2>3, <2>4, <2>11, <3>2 DEF Outside
    <3> QED BY <2>2, <2>11, <3>2, <3>3 DEF OrderInv
  <2> QED BY <2>2, <2>5, <2>9, <2>10, <2>11 DEF OrderInv
<1>3. CASE LoseMember \/ AddStray
  <2>1. /\ \A k : Settled(k)' => Settled(k)
        /\ \A x \in members' : Settled(x.key)' => x \in members
        /\ UNCHANGED <<rec, inside>>
    BY <1>3, DamageIs
  <2>2. \A k : Outside(k)' => Outside(k) /\ Settled(k)'
    BY <2>1 DEF Outside
  <2>3. OnePosition'
    BY <2>1 DEF OrderInv, OnePosition, Settled
  <2>4. \A x \in members' : Outside(x.key)' => Placed(x)'
    BY <2>1, <2>2 DEF OrderInv, Placed
  <2>5. \A m, n \in members' : Outside(m.key)' /\ Outside(n.key)' /\ StartTx < rec[m.key] =>
          (rec[m.key] < rec[n.key] => m.score < n.score)
    BY <2>1, <2>2 DEF OrderInv
  <2> QED BY <2>1, <2>3, <2>4, <2>5 DEF OrderInv
<1>4. CASE Quietly
  <2>1. Quiet
    BY <1>4, QuietlyIsQuiet
  <2> QED BY <2>1 DEF Quiet, OrderInv, OnePosition, Placed, Outside, Settled, Unsettled
<1> QED BY <1>1, <1>2, <1>3, <1>4, Kinds

LEMMA WalkStep ==
    ASSUME Types, LedgerInv, PassInv, WalkInv, Next, ~stalled'
    PROVE  WalkInv'
<1>0. /\ head \in Nat /\ minScore \in Nat /\ ScanPage \in Nat \ {0}
      /\ \A m \in members : m.score \in Nat
      /\ rec \in [Key -> Nat]
      /\ \A row \in pending : row[1] \in Key /\ row[2] > 0
      /\ \A row \in rows : row[1] \in Key /\ row[2] > 0
  <2>1. rec \in [Key -> 0 .. limits.txs] /\ rows \cup pending \subseteq Key \X (1 .. head)
    BY DEF Types, TypeOK
  <2>2. \A i \in 1 .. head : i > 0
    BY LimitFacts
  <2> QED BY <2>1, <2>2, LimitFacts, Constants, MemberTypes DEF Types, TypeOK
<1>1. ASSUME NEW k \in Key, NEW m, Recording(k, m) PROVE WalkInv'
  <2>1. /\ m.key = k
        /\ members' = members \cup {m} /\ damaged' = damaged
        /\ rec' = [rec EXCEPT ![k] = head + 1] /\ rec[k] = 0
        /\ inside' \subseteq inside \cup {k}
        /\ raced \subseteq raced'
        /\ UNCHANGED <<pc, view, already, minScore, pending, before>>
    BY <1>1 DEF Recording, Added, LiveWrite
  <2>2. \A j : Settled(j)' => Settled(j)
    BY <2>1, StillSettled
  <2>3. m.key \notin before
    BY <1>0, <2>1 DEF PassInv
  <2>4. \A row \in pending : row[1] # k /\ rec'[row[1]] = rec[row[1]]
    BY <1>0, <2>1 DEF PassInv
  <2> QED BY <2>1, <2>2, <2>3, <2>4 DEF WalkInv, Running
<1>2. ASSUME NEW row \in pending, Placing(row) PROVE WalkInv'
  <2>1. /\ pc = "zadd" /\ pending' \subseteq pending /\ UNCHANGED <<pc, rec, inside, raced, damaged>>
    BY <1>2 DEF Placing, Added
  <2> QED BY <2>1 DEF WalkInv, Running, Settled, Unsettled
<1>3. CASE LoseMember \/ AddStray
  <2>1. /\ \A k : Settled(k)' => Settled(k)
        /\ \A x \in members' : Settled(x.key)' => x \in members
        /\ UNCHANGED <<rec, pc, view, already, minScore, pending, before, inside>>
    BY <1>3, DamageIs
  <2> QED BY <2>1 DEF WalkInv, Running
<1>4. CASE StartPass
  <2>1. pc' \in {"index", "refused"} /\ minScore' = 0 /\ pending' = {} /\ members' = members
    BY <1>4 DEF StartPass, ledger
  <2>2. \A m \in members' : ~(m.score < minScore')
    BY <1>0, <2>1
  <2> QED BY <2>1, <2>2 DEF WalkInv
<1>5. CASE ReadIndex
  <2>1. PICK page : page = IndexPage
    OBVIOUS
  <2>2. /\ pc = "index" /\ pc' \in {"index", "scan"}
        /\ already' = already \cup {m.key : m \in page}
        /\ minScore' = IF page = {} THEN minScore ELSE LastScore(page)
        /\ pc' = "scan" => LastIndexPage(page, already')
        /\ ~(Cardinality(page) >= ScanPage /\ already' = already)
        /\ UNCHANGED <<members, rec, view, pending, before, inside, raced, damaged>>
    BY <1>5, <2>1 DEF ReadIndex, ledger
  <2>3. /\ page \subseteq members /\ Cardinality(page) \in Nat
        /\ page # {} => LastScore(page) \in Nat
        /\ \A m \in members : m.view = Views[view] /\ m.score >= minScore =>
              \/ m \in page
              \/ Cardinality(page) >= ScanPage /\ (page # {} => m.score >= LastScore(page))
    BY <2>1, IndexPageFacts
  <2>4. Cardinality(page) >= ScanPage => page # {} /\ pc' # "scan"
    BY <1>0, <2>2, <2>3, FS_EmptySet DEF LastIndexPage
  <2>5. ASSUME NEW m \in members, m.view = Views[view], m.key \in before, Settled(m.key),
               pc' = "scan" \/ m.score < minScore'
        PROVE  m.key \in already'
    <3>1. CASE m.score < minScore
      BY <2>2, <2>5, <3>1 DEF WalkInv
    <3>2. CASE ~(m.score < minScore) /\ m \notin page
      <4>1. Cardinality(page) >= ScanPage /\ (page # {} => m.score >= LastScore(page))
        BY <1>0, <2>3, <2>5, <3>2
      <4>2. m.score >= minScore' /\ minScore' \in Nat
        BY <2>2, <2>3, <2>4, <4>1
      <4> QED BY <1>0, <2>4, <2>5, <4>1, <4>2
    <3>3. CASE m \in page
      BY <2>2, <3>3
    <3> QED BY <3>1, <3>2, <3>3
  <2>6. \A k : Settled(k)' <=> Settled(k)
    BY <2>2 DEF Settled, Unsettled
  <2> QED BY <2>2, <2>5, <2>6 DEF WalkInv, Running
<1>6. CASE ReadRecords
  <2>1. PICK page : page = RecordPage
    OBVIOUS
  <2>2. pc = "scan" /\ UNCHANGED <<members, damaged, raced, inside, rec, before>>
    BY <1>6 DEF ReadRecords, ledger
  <2>3. \A k : Settled(k)' <=> Settled(k)
    BY <2>2 DEF Settled, Unsettled
  <2>4. CASE MoreRecords(page)
    <3>1. UNCHANGED <<pc, view, already, minScore, pending>>
      BY <1>6, <2>1, <2>4 DEF ReadRecords
    <3> QED BY <2>2, <2>3, <3>1 DEF WalkInv, Running
  <2>5. CASE ~MoreRecords(page)
    <3>1. PICK found : found = Found(rows \cup page)
      OBVIOUS
    <3>2. minScore' = 0 /\ pending' = found /\ pc' \in {"index", "counter", "refused"}
      BY <1>6, <2>1, <2>5, <3>1 DEF ReadRecords
    <3>3. \A m \in members' : ~(m.score < minScore')
      BY <1>0, <2>2, <3>2
    <3>4. ASSUME NEW row \in found, Settled(row[1]) PROVE rec[row[1]] <= StartTx /\ row[1] \notin inside
      <4>1. CASE row \in pending
        BY <2>2, <3>4, <4>1 DEF WalkInv, Running
      <4>2. CASE row \notin pending
        <5>1. row \in rows \cup page /\ row[1] \notin already
          BY <3>1, <3>4, <4>2 DEF Found, Missing
        <5>2. row[1] \in Key /\ InView(row[1]) /\ rec[row[1]] > 0
          BY <1>0, <2>1, <5>1, RecordPageFacts DEF PassInv
        <5>3. row[1] \in before
          BY <2>2, <3>4, <5>2 DEF PassInv, Running, Settled, Unsettled
        <5>4. ~ \E m \in members : m.key = row[1]
          <6> SUFFICES ASSUME NEW m \in members, m.key = row[1] PROVE FALSE
            OBVIOUS
          <6>1. m \notin damaged
            BY <3>4, SettledMember
          <6>2. m.view = Views[view]
            BY <5>2, <6>1 DEF LedgerInv, InView
          <6> QED BY <2>2, <3>4, <5>1, <5>3, <6>2 DEF WalkInv
        <5>5. ~(rec[row[1]] > StartTx) /\ row[1] \notin inside
          BY <3>4, <5>2, <5>4 DEF LedgerInv
        <5>6. rec[row[1]] \in Nat /\ StartTx \in Nat
          BY <1>0, <5>2, Constants
        <5> QED BY ONLY <5>5, <5>6
      <4> QED BY <4>1, <4>2
    <3> QED BY <2>2, <2>3, <3>2, <3>3, <3>4 DEF WalkInv
  <2> QED BY <2>4, <2>5
<1>7. CASE ReadCounter \/ ReadCounterFails \/ Seed \/ EndPass \/ Interrupt
  <2>1. /\ pc' \notin {"index", "scan"} /\ Running
        /\ UNCHANGED <<rec, pending, inside, raced, damaged>>
    BY <1>7 DEF ReadCounter, ReadCounterFails, Seed, EndPass, Interrupt, ledger, Running
  <2> QED BY <2>1 DEF WalkInv, Settled, Unsettled
<1> QED BY <1>1, <1>2, <1>3, <1>4, <1>5, <1>6, <1>7, Kinds DEF Quietly

LEMMA IndexStep ==
    ASSUME ToolReserve = Reserve, Types, LedgerInv, PassInv, CounterInv, PositionInv, IndexInv, Next
    PROVE  IndexInv'
<1> SUFFICES ASSUME ~stalled' PROVE OrderInv' /\ WalkInv'
  BY DEF IndexInv
<1>1. OrderInv /\ WalkInv
  BY StillUnstalled DEF IndexInv
<1> QED BY <1>1, OrderStep, WalkStep

-----------------------------------------------------------------------------
(* It holds at the start: what a deployment brings is the positions it has *)
(* handed out, and no pass has begun.                                      *)

LEMMA StartsAs ==
    ASSUME Init
    PROVE  /\ \A m \in members : m.key \in Key /\ rec[m.key] > 0 /\ m.view = ViewOf[m.key]
           /\ \A m \in members : m.score \in 1 .. counter.value
           /\ \A n \in 1 .. counter.value : \E m \in members : m.score = n
           /\ \A m, n \in members : m.key = n.key \/ m.score = n.score => m = n
           /\ inside = {m.key : m \in members}
           /\ \A k \in Key : rec[k] <= StartTx
           /\ \A f \in Fractions : Reserve + limits.txs < f /\ counter.value + limits.txs < f
           /\ counter.value \in Nat /\ counter.tx = IF counter.value = 0 THEN 0 ELSE StartTx
<1>1. PICK d \in Deployments :
         /\ members = d.positions
         /\ counter = [value |-> d.counter, tx |-> IF d.counter = 0 THEN 0 ELSE StartTx]
         /\ inside = {m.key : m \in d.positions}
  BY DEF Init
<1>2. Allocating(d) /\ rec = History /\ limits \in Bounds
  BY BackfillAssumption DEF Init
<1>3. counter.value = d.counter /\ counter.tx = IF d.counter = 0 THEN 0 ELSE StartTx
  BY <1>1
<1>4. \A f \in Fractions : Reserve + limits.txs < f /\ counter.value + limits.txs < f
  BY <1>2, <1>3, ReconcileAssumption
<1>5. \A k \in Key : rec[k] <= StartTx
  BY <1>2, BackfillAssumption
<1>6. \A m, n \in members : m.key = n.key \/ m.score = n.score => m = n
  BY <1>1, <1>2 DEF Allocating
<1> QED BY <1>1, <1>2, <1>3, <1>4, <1>5, <1>6 DEF Allocating

LEMMA InvInit == Init => Inv
<1> SUFFICES ASSUME Init PROVE Inv
  OBVIOUS
<1>1. Types
  BY TypesInit
<1>2. /\ damaged = {} /\ raced = {} /\ pc = "idle" /\ rows = {} /\ pending = {} /\ before = {}
      /\ already = {} /\ observed = None /\ head = StartTx
  BY DEF Init
<1>a. Reserve \in Nat /\ StartTx \in Nat /\ limits.txs \in Nat /\ StartTx <= limits.txs
  BY <1>1, LimitFacts, Constants
<1>3. LedgerInv
  <2>1. \A k \in inside : rec[k] > 0
    BY StartsAs
  <2>2. \A k \in Key : ~(rec[k] > StartTx)
    <3> SUFFICES ASSUME NEW k \in Key PROVE ~(rec[k] > StartTx)
      OBVIOUS
    <3>1. rec[k] \in Nat
      BY <1>1, <1>a DEF Types, TypeOK
    <3> QED BY <1>a, <3>1, StartsAs
  <2> QED BY <2>1, <2>2, StartsAs DEF LedgerInv
<1>4. PassInv
  BY <1>2 DEF PassInv, Running
<1>5. CoverInv
  BY <1>2 DEF CoverInv, Passed
<1>6. CounterInv
  BY <1>2, <1>a, StartsAs DEF CounterInv
<1>7. PositionInv
  <2>1. counter.value \in Nat /\ \A f \in Fractions : f \in Nat
    BY StartsAs, ReconcileAssumption
  <2>2. \A m \in members : m.score \in Nat /\ m.score <= counter.value
    BY <2>1, StartsAs
  <2>3. \A m, n \in members : m.score = n.score => m = n
    BY StartsAs
  <2>4. \A p \in Reserve + 1 .. counter.value : p \in 1 .. counter.value
    BY <1>a, <2>1
  <2>5. \A p \in Reserve + 1 .. counter.value : \E m \in members : m.score = p
    BY <2>4, StartsAs
  <2>6. \A f \in Fractions : /\ counter.value + (limits.txs - head) < f
                             /\ Reserve + (limits.txs - head) < f
    <3>1. \A f \in Fractions : Reserve + limits.txs < f /\ counter.value + limits.txs < f
      BY StartsAs
    <3> QED BY <1>2, <1>a, <2>1, <3>1
  <2> QED BY <2>2, <2>3, <2>5, <2>6 DEF PositionInv
<1>8. IndexInv
  <2>1. \A m \in members : ~Outside(m.key)
    BY StartsAs DEF Outside
  <2>2. OnePosition
    BY StartsAs DEF OnePosition
  <2> QED BY <1>2, <2>1, <2>2 DEF IndexInv, OrderInv, WalkInv, Running
<1> QED BY <1>1, <1>3, <1>4, <1>5, <1>6, <1>7, <1>8 DEF Inv

-----------------------------------------------------------------------------
(* The passes.                                                             *)

\* What holds of a ledger whatever reserve the tool was built with.
BaseInv == Types /\ LedgerInv /\ PassInv /\ CoverInv /\ CounterInv

LEMMA BaseStep ==
    ASSUME BaseInv, [Next]_vars
    PROVE  BaseInv'
<1>1. CASE Next
  BY <1>1, TypesStep, LedgerStep, PassStep, CoverStep, CounterStep DEF BaseInv
<1>2. CASE UNCHANGED vars
  <2>1. Types'
    BY <1>2 DEF vars, ledger, BaseInv, Types, TypeOK
  <2>2. LedgerInv'
    BY <1>2 DEF vars, ledger, BaseInv, LedgerInv, Settled, Unsettled
  <2>3. PassInv'
    BY <1>2 DEF vars, ledger, BaseInv, PassInv, Running, InView
  <2>4. CoverInv'
    BY <1>2 DEF vars, ledger, BaseInv, CoverInv, Present, Passed, InView, LastKey
  <2>5. CounterInv'
    BY <1>2 DEF vars, ledger, BaseInv, CounterInv
  <2> QED BY <2>1, <2>2, <2>3, <2>4, <2>5 DEF BaseInv
<1> QED BY <1>1, <1>2

LEMMA InvStep ==
    ASSUME ToolReserve = Reserve, Inv, [Next]_vars
    PROVE  Inv'
<1>1. BaseInv'
  BY BaseStep DEF Inv, BaseInv
<1>2. PositionInv' /\ IndexInv'
  <2>1. CASE Next
    BY <2>1, PositionStep, IndexStep DEF Inv
  <2>2. CASE UNCHANGED vars
    <3>1. PositionInv'
      BY <2>2 DEF vars, ledger, Inv, PositionInv
    <3>2. IndexInv'
      BY <2>2 DEF vars, ledger, Inv, IndexInv, OrderInv, WalkInv, OnePosition, Placed, Outside,
                  Settled, Unsettled, Running
    <3> QED BY <3>1, <3>2
  <2> QED BY <2>1, <2>2
<1> QED BY <1>1, <1>2 DEF Inv, BaseInv

\* The reconciliation only reads: what it does is no step of the ledger.
LEMMA ReaderOnlyReads ==
    ASSUME [ReconcileNext]_allVars
    PROVE  [Next]_vars
BY DEF ReconcileNext, allVars, BeginReconcile, ReconcileReadsCounter, ReconcileReadsPage, ZscanFails,
       Judge, ReconcileRaises

LEMMA BaseInvariant == ReconcileSpec => []BaseInv
<1>1. ReconcileInit => BaseInv
  BY InvInit DEF ReconcileInit, Inv, BaseInv
<1>2. BaseInv /\ [ReconcileNext]_allVars => BaseInv'
  BY BaseStep, ReaderOnlyReads
<1> QED BY <1>1, <1>2, PTL DEF ReconcileSpec

LEMMA Invariant ==
    ASSUME ToolReserve = Reserve
    PROVE  ReconcileSpec => []Inv
<1>1. ReconcileInit => Inv
  BY InvInit DEF ReconcileInit
<1>2. Inv /\ [ReconcileNext]_allVars => Inv'
  BY InvStep, ReaderOnlyReads
<1> QED BY <1>1, <1>2, PTL DEF ReconcileSpec

\* Beside live writes, damage and reconciliation a pass keeps the types of the
\* ledger, and every position that a writer gives is positive.
THEOREM PassTypes == ReconcileSpec => []TypeOK
<1>1. BaseInv => TypeOK
  BY DEF BaseInv, Types
<1> QED BY <1>1, BaseInvariant, PTL

\* A pass that ends has indexed every record it started with, however large
\* the views are against a page of zscan or scan, and whatever was written,
\* lost or added meanwhile.
THEOREM PassIsComplete == ReconcileSpec => []PassLeavesNoHole
<1>1. BaseInv => PassLeavesNoHole
  BY DEF BaseInv, CoverInv, PassLeavesNoHole, Present
<1> QED BY <1>1, BaseInvariant, PTL

\* Past seed_counter_above_reserve no live write is given a position inside the
\* reserve, if the tool has the reserve of the writers.
THEOREM SeamKept ==
    ASSUME ToolReserve = Reserve
    PROVE  ReconcileSpec => SeamHolds
<1> DEFINE Above == \A m \in members' \ members :
          counter' # counter /\ pc \in {"zadd", "done"} /\ observed # None => m.score > Reserve
<1>1. ASSUME BaseInv, [ReconcileNext]_allVars PROVE [Above]_vars
  <2>0. SUFFICES ASSUME Next PROVE Above
    BY <1>1, ReaderOnlyReads
  <2>1. SUFFICES ASSUME NEW m \in members' \ members, counter' # counter,
                        pc \in {"zadd", "done"}, observed # None
                 PROVE  m.score > Reserve
    OBVIOUS
  <2>2. Types /\ CounterInv
    BY <1>1 DEF BaseInv
  <2>3. counter.value >= Reserve /\ counter.value \in Nat /\ Reserve \in Nat \ {0}
    BY <2>1, <2>2, Constants DEF CounterInv, Types, TypeOK
  <2>4. ASSUME NEW k \in Key, NEW x, Recording(k, x) PROVE m.score > Reserve
    <3>1. m = x /\ m.score = LivePosition
      BY <2>1, <2>4 DEF Recording, Added
    <3> QED BY <2>3, <3>1 DEF LivePosition
  <2>5. ASSUME NEW row \in pending, Placing(row) PROVE FALSE
    BY <2>1, <2>5 DEF Placing
  <2>6. CASE LoseMember \/ AddStray
    BY <2>1, <2>6 DEF LoseMember, AddStray
  <2>7. CASE Quietly
    <3>1. members' = members
      BY <2>7, QuietlyIsQuiet DEF Quiet
    <3> QED BY <2>1, <3>1
  <2> QED BY <2>0, <2>2, <2>4, <2>5, <2>6, <2>7, Kinds
<1>2. BaseInv /\ [ReconcileNext]_allVars => [Above]_vars
  BY <1>1
<1> QED BY <1>2, BaseInvariant, PTL DEF ReconcileSpec, SeamHolds

\* The index is the commit order, one place per record, across history, live
\* traffic, damage to other keys and any number of partial passes, if the tool
\* has the reserve of the writers.
THEOREM IndexOrdered ==
    ASSUME ToolReserve = Reserve
    PROVE  ReconcileSpec => []IndexIsCommitOrder
<1>1. ASSUME Inv PROVE IndexIsCommitOrder
  <2>1. SUFFICES ASSUME ~stalled PROVE OnePosition /\ PageMonotone
    BY DEF IndexIsCommitOrder
  <2>2. OrderInv /\ Types
    BY <1>1, <2>1 DEF Inv, IndexInv
  <2>3. ASSUME NEW m \in members, NEW n \in members,
               {m.key, n.key} \cap (Unsettled \cup inside) = {}, rec[m.key] < rec[n.key]
        PROVE  m.score < n.score
    <3>1. Outside(m.key) /\ Outside(n.key) /\ m.key \in Key /\ n.key \in Key
      BY <2>2, <2>3, SettledMember DEF Outside, Settled, Types, TypeOK
    <3>2. Placed(m) /\ Placed(n)
      BY <2>2, <3>1 DEF OrderInv
    <3>3. /\ rec[m.key] \in Nat /\ rec[n.key] \in Nat /\ StartTx \in Nat /\ Reserve \in Nat
          /\ m.score \in Nat /\ n.score \in Nat
      BY <2>2, <3>1, LimitFacts, MemberTypes, Constants DEF Types, TypeOK
    <3>4. CASE StartTx < rec[m.key]
      BY <2>2, <2>3, <3>1, <3>4 DEF OrderInv
    <3>5. CASE ~(StartTx < rec[m.key])
      BY <2>3, <3>2, <3>3, <3>5 DEF Placed
    <3> QED BY <3>4, <3>5
  <2> QED BY <2>2, <2>3 DEF OrderInv, PageMonotone
<1>2. Inv => IndexIsCommitOrder
  BY <1>1
<1> QED BY <1>2, Invariant, PTL

-----------------------------------------------------------------------------
(* The inductive invariant of the reconciliation.                          *)

Reading == step \in {"positions", "judge"}

\* The walk is past the place of x.
Walked(x) ==
    \/ step = "judge"
    \/ at = 2 /\ x.view = "decision"
    \/ x.view = Views[at] /\ x.score < cursor

\* Every page so far was answered, and none was full of known scores.
Complete == Reading /\ ~cut /\ "zscan_failed" \notin malformed

Noticed(x) == (x.key # 0 => x \in got) /\ (Unreadable(x) => malformed # {})

\* Members that a fault which stands is about.
Involved(x) ==
    \/ \E kind \in {"surplus", "foreign", "unreadable"} : <<kind, x>> \in standing
    \/ \E kind \in {"shared", "twice"}, y \in members :
          <<kind, <<x, y>>>> \in standing \/ <<kind, <<y, x>>>> \in standing

WalkTypes ==
    /\ step \in {"sleep", "counter", "positions", "judge"}
    /\ allocated \in Nat
    /\ at \in {1, 2}
    /\ cursor \in Nat \cup {NoScore}
    /\ got \subseteq Member /\ again \subseteq got
    /\ \A row \in got : row.key # 0
    /\ cut \in BOOLEAN

\* What stands was there when the counter was read, and the walk notices it
\* where it comes by.
StandingInv ==
    /\ step # "sleep" => standing \subseteq Faults
    /\ step \in {"sleep", "counter"} => at = 1 /\ cursor = NoScore /\ got = {} /\ malformed = {}
    /\ Reading => allocated <= counter.value
    /\ Reading => \A n : <<"hole", n>> \in standing => n <= allocated /\ \A row \in got : row.score # n
    /\ Reading => \A x \in members : <<"surplus", x>> \in standing =>
          x.score > allocated \/ x.score \in Fractions
    /\ Complete => \A x \in members : Involved(x) /\ Walked(x) => Noticed(x)

\* With nothing damaged, what was read is there to stay, and the positions
\* that were handed out when the counter was read are found.
HandedInv ==
    damaged = {} =>
        /\ got \subseteq members
        /\ Complete => \A x \in members :
              Reserve < x.score /\ x.score <= allocated /\ Walked(x) => x \in got

\* The kinds of faults.
LEMMA FaultKinds ==
    /\ \A n : <<"hole", n>> \in Faults => n \in Reserve + 1 .. counter.value /\ Hole(n)
    /\ \A x : <<"surplus", x>> \in Faults => x \in members /\ Surplus(x)
    /\ \A x : <<"foreign", x>> \in Faults => x \in members /\ Astray(x)
    /\ \A x : <<"unreadable", x>> \in Faults => x \in members /\ Unreadable(x)
    /\ \A x, y : <<"shared", <<x, y>>>> \in Faults => x \in members /\ y \in members /\ Collide(x, y)
    /\ \A x, y : <<"twice", <<x, y>>>> \in Faults => x \in members /\ y \in members /\ Repeat(x, y)
    /\ \A f \in Faults :
          \/ \E n : f = <<"hole", n>>
          \/ \E x : f \in {<<"surplus", x>>, <<"foreign", x>>, <<"unreadable", x>>}
          \/ \E x \in members, y \in members : f \in {<<"shared", <<x, y>>>>, <<"twice", <<x, y>>>>}
<1>1. ASSUME NEW f \in Faults
      PROVE  \/ \E n \in Reserve + 1 .. counter.value : f = <<"hole", n>> /\ Hole(n)
             \/ \E x \in members : f = <<"surplus", x>> /\ Surplus(x)
             \/ \E x \in members : f = <<"foreign", x>> /\ Astray(x)
             \/ \E x \in members : f = <<"unreadable", x>> /\ Unreadable(x)
             \/ \E x, y \in members : f = <<"shared", <<x, y>>>> /\ Collide(x, y)
             \/ \E x, y \in members : f = <<"twice", <<x, y>>>> /\ Repeat(x, y)
  <2>1. CASE f \in {<<"shared", p>> : p \in {q \in members \X members : Collide(q[1], q[2])}}
    BY <2>1
  <2>2. CASE f \in {<<"twice", p>> : p \in {q \in members \X members : Repeat(q[1], q[2])}}
    BY <2>2
  <2> QED BY <1>1, <2>1, <2>2 DEF Faults
<1>2. \A n : <<"hole", n>> \in Faults => n \in Reserve + 1 .. counter.value /\ Hole(n)
  BY <1>1
<1>3. \A x : <<"surplus", x>> \in Faults => x \in members /\ Surplus(x)
  BY <1>1
<1>4. \A x : <<"foreign", x>> \in Faults => x \in members /\ Astray(x)
  BY <1>1
<1>5. \A x : <<"unreadable", x>> \in Faults => x \in members /\ Unreadable(x)
  BY <1>1
<1>6. \A x, y : <<"shared", <<x, y>>>> \in Faults => x \in members /\ y \in members /\ Collide(x, y)
  BY <1>1
<1>7. \A x, y : <<"twice", <<x, y>>>> \in Faults => x \in members /\ y \in members /\ Repeat(x, y)
  BY <1>1
<1>8. ASSUME NEW f \in Faults
      PROVE  \/ \E n : f = <<"hole", n>>
             \/ \E x : f \in {<<"surplus", x>>, <<"foreign", x>>, <<"unreadable", x>>}
             \/ \E x \in members, y \in members : f \in {<<"shared", <<x, y>>>>, <<"twice", <<x, y>>>>}
  BY <1>1, <1>8
<1> QED BY <1>2, <1>3, <1>4, <1>5, <1>6, <1>7, <1>8

\* A page of the walk, as IndexPageFacts.
LEMMA PositionPageFacts ==
    ASSUME Types, WalkTypes, NEW page, page = PositionPage
    PROVE  /\ page \subseteq members
           /\ Cardinality(page) \in Nat
           /\ Cardinality(page) >= ZscanPage => page # {}
           /\ page # {} => LastScore(page) \in Nat
           /\ \A m \in members : m.view = Views[at] /\ ~(m.score < cursor) =>
                 \/ m \in page
                 \/ Cardinality(page) >= ZscanPage /\ (page # {} => ~(m.score < LastScore(page)))
<1>1. PICK S : S = {m \in Held(Views[at]) : m.score >= cursor}
  OBVIOUS
<1>2. S \subseteq members
  BY <1>1 DEF Held
<1>3. Scored(S)
  <2>1. IsFiniteSet(S)
    BY <1>2, FS_Subset DEF Types
  <2> QED BY <1>2, <2>1, MemberTypes DEF Scored
<1>4. page = ScorePage(S, ZscanPage)
  BY <1>1 DEF PositionPage
<1>a. ZscanPage \in Nat \ {0}
  BY ReconcileAssumption
<1>5. /\ Cardinality(page) \in Nat /\ page \subseteq S
      /\ Cardinality(page) < ZscanPage => page = S
      /\ page # {} => /\ LastScore(page) \in {m.score : m \in page}
                      /\ \A m \in S : m.score < LastScore(page) => m \in page
  BY <1>3, <1>4, <1>a, ScorePageFacts
<1>6. page # {} => LastScore(page) \in Nat
  BY <1>3, <1>5 DEF Scored
<1>7. Cardinality(page) >= ZscanPage => page # {}
  <2>1. Cardinality({}) = 0
    BY FS_EmptySet
  <2> QED BY ONLY <1>5, <1>a, <2>1
<1>8. ASSUME NEW m \in members, m.view = Views[at], ~(m.score < cursor), m \notin page
      PROVE  Cardinality(page) >= ZscanPage /\ (page # {} => ~(m.score < LastScore(page)))
  <2>1. m.score \in Nat /\ cursor \in Int
    BY MemberTypes DEF WalkTypes, NoScore
  <2>2. m \in S
    BY <1>1, <1>8, <2>1 DEF Held
  <2> QED BY <1>5, <1>8, <1>a, <2>2
<1> QED BY <1>2, <1>5, <1>6, <1>7, <1>8

\* What a page does to the walk: whoever it passes is in it.
LEMMA PagePasses ==
    ASSUME Types, WalkTypes, ReconcileReadsPage, NEW page, page = PositionPage, ~cut'
    PROVE  /\ \A x \in members : Walked(x)' => Walked(x) \/ x \in page
           /\ got' = got \cup Kept(page) /\ got \subseteq got'
           /\ again' = again \cup (got \cap page)
           /\ malformed' = malformed \cup UNION {RowReasons(row) : row \in page}
           /\ step = "positions" /\ step' \in {"positions", "judge"} /\ ~cut
           /\ UNCHANGED <<vars, allocated, standing>>
<1>1. PICK kept : kept = got \cup Kept(page)
  OBVIOUS
<1>2. /\ step = "positions" /\ got' = kept
      /\ again' = again \cup (got \cap page)
      /\ malformed' = malformed \cup UNION {RowReasons(row) : row \in page}
      /\ cut' = (cut \/ (Cardinality(page) >= ZscanPage /\ ScoresIn(kept) = ScoresIn(got)))
      /\ IF WalkEnds(page, kept)
         THEN EndView
         ELSE /\ cursor' = LastScore(page)
              /\ UNCHANGED <<at, step>>
      /\ UNCHANGED <<vars, allocated, standing>>
  BY <1>1 DEF ReconcileReadsPage
<1>3. step' \in {"positions", "judge"} /\ ~cut
  BY <1>2 DEF EndView
<1>4. /\ Cardinality(page) >= ZscanPage => page # {}
      /\ \A m \in members : m.view = Views[at] /\ ~(m.score < cursor) =>
            \/ m \in page
            \/ Cardinality(page) >= ZscanPage /\ (page # {} => ~(m.score < LastScore(page)))
  BY PositionPageFacts
<1>5. at \in {1, 2} /\ Views[1] = "decision" /\ Views[2] = "intent"
  BY DEF WalkTypes, Views
<1>6. \A m \in members : m.score \in Nat /\ m.view \in View
  BY MemberTypes
<1>7. ASSUME NEW x \in members, Walked(x)', x \notin page PROVE Walked(x)
  <2>1. CASE WalkEnds(page, kept)
    <3>1. ~(Cardinality(page) >= ZscanPage)
      <4>1. Cardinality(page) \in Nat /\ ZscanPage \in Nat
        BY PositionPageFacts, ReconcileAssumption
      <4>2. ~(Cardinality(page) >= ZscanPage /\ ScoresIn(kept) = ScoresIn(got))
        BY ONLY <1>2, ~cut'
      <4> QED BY ONLY <2>1, <4>1, <4>2 DEF WalkEnds
    <3>2. x.view = Views[at] => x.score < cursor
      BY <1>4, <1>7, <3>1
    <3>3. CASE at = 1
      <4>1. at' = 2 /\ cursor' = -1 /\ step' = "positions"
        BY <1>2, <2>1, <3>3 DEF EndView, NoScore
      <4>2. ~(x.score < cursor')
        BY <1>6, <4>1
      <4>3. x.view = "decision"
        BY <1>7, <4>1, <4>2 DEF Walked
      <4> QED BY <1>5, <3>2, <3>3, <4>3 DEF Walked
    <3>4. CASE at = 2
      BY <1>5, <1>6, <3>2, <3>4 DEF Walked, View
    <3> QED BY <1>5, <3>3, <3>4
  <2>2. CASE ~WalkEnds(page, kept)
    <3>1. cursor' = LastScore(page) /\ UNCHANGED <<at, step>>
      BY <1>2, <2>2
    <3>2. Cardinality(page) >= ZscanPage
      <4>1. Cardinality(page) \in Nat /\ ZscanPage \in Nat
        BY PositionPageFacts, ReconcileAssumption
      <4> QED BY <2>2, <4>1 DEF WalkEnds
    <3>3. x.view = Views[at] /\ ~(x.score < cursor) => ~(x.score < cursor')
      BY <1>4, <1>7, <3>1, <3>2
    <3> QED BY <1>2, <1>7, <3>1, <3>3 DEF Walked
  <2> QED BY <2>1, <2>2
<1> QED BY <1>1, <1>2, <1>3, <1>7

\* Who is in a page is noticed.
LEMMA PageNotices ==
    ASSUME NEW page, NEW x \in page, x.key # 0 => x \in got',
           malformed' = malformed \cup UNION {RowReasons(row) : row \in page}
    PROVE  Noticed(x)'
<1>1. Unreadable(x) => RowReasons(x) # {}
  BY DEF Unreadable, RowReasons
<1>2. Unreadable(x) => malformed' # {}
  BY <1>1
<1> QED BY <1>2 DEF Noticed, Unreadable

LEMMA WalkTypesStep ==
    ASSUME Types, WalkTypes, [ReconcileNext]_allVars
    PROVE  WalkTypes'
<1> USE DEF WalkTypes
<1>1. CASE UNCHANGED walk
  BY <1>1 DEF walk
<1>2. CASE Sleep
  BY <1>2 DEF Sleep, NoScore
<1>3. CASE BeginReconcile /\ ~Sleep
  BY <1>3 DEF BeginReconcile
<1>4. CASE ReconcileReadsCounter /\ ~Sleep
  <2>1. counter.value \in Nat
    BY DEF Types, TypeOK
  <2> QED BY <1>4, <2>1 DEF ReconcileReadsCounter
<1>5. CASE ReconcileReadsPage
  <2>1. PICK page : page = PositionPage
    OBVIOUS
  <2>2. PICK kept : kept = got \cup Kept(page)
    OBVIOUS
  <2>3. /\ step = "positions" /\ got' = kept
        /\ again' = again \cup (got \cap page) /\ allocated' = allocated
        /\ cut' = (cut \/ (Cardinality(page) >= ZscanPage /\ ScoresIn(kept) = ScoresIn(got)))
        /\ IF WalkEnds(page, kept)
           THEN EndView
           ELSE /\ cursor' = LastScore(page)
                /\ UNCHANGED <<at, step>>
    BY <1>5, <2>1, <2>2 DEF ReconcileReadsPage
  <2>4. page \subseteq members /\ (Cardinality(page) >= ZscanPage => page # {}) /\ (page # {} => LastScore(page) \in Nat)
    BY <2>1, PositionPageFacts
  <2>5. got' \subseteq Member /\ again' \subseteq got' /\ \A row \in got' : row.key # 0
    BY <2>2, <2>3, <2>4 DEF Kept, Types, TypeOK
  <2>6. ~WalkEnds(page, kept) => LastScore(page) \in Nat
    <3>1. Cardinality(page) \in Nat /\ ZscanPage \in Nat
      BY <2>1, PositionPageFacts, ReconcileAssumption
    <3> QED BY <2>4, <3>1 DEF WalkEnds
  <2>7. step' \in {"positions", "judge"} /\ at' \in {1, 2} /\ cursor' \in Nat \cup {NoScore}
    BY <2>3, <2>6 DEF EndView
  <2> QED BY <2>3, <2>5, <2>7
<1>6. CASE ZscanFails
  BY <1>6 DEF ZscanFails, EndView
<1> QED BY <1>1, <1>2, <1>3, <1>4, <1>5, <1>6
        DEF ReconcileNext, Judge, ReconcileRaises, allVars, reader, walk

\* A step of the ledger leaves the walk where it is, and what still stands
\* is about members that were there.
LEMMA StandingLedger ==
    ASSUME Types, CounterInv, WalkTypes, StandingInv, Next, Mended, UNCHANGED walk
    PROVE  StandingInv'
<1>0. /\ UNCHANGED <<step, allocated, at, cursor, got, again, malformed, cut>>
      /\ standing' \subseteq standing /\ standing' \subseteq Faults'
  BY DEF walk, Mended
<1>1. counter.value <= counter'.value /\ counter.value \in Nat /\ counter'.value \in Nat /\ allocated \in Nat
  <2>1. Types'
    BY TypesStep
  <2> QED BY <2>1, CounterRises DEF Types, TypeOK, WalkTypes
<1>2. (Reading' <=> Reading) /\ (Complete' <=> Complete)
  BY <1>0 DEF Reading, Complete
<1>3. ASSUME Reading, NEW x, Involved(x)' PROVE x \in members /\ Involved(x)
  <2>1. standing \subseteq Faults
    BY <1>3 DEF Reading, StandingInv
  <2>2. CASE \E kind \in {"surplus", "foreign", "unreadable"} : <<kind, x>> \in standing'
    BY <1>0, <2>1, <2>2, FaultKinds DEF Involved
  <2>3. CASE \E kind \in {"shared", "twice"}, y \in members' :
                <<kind, <<x, y>>>> \in standing' \/ <<kind, <<y, x>>>> \in standing'
    <3>1. PICK kind \in {"shared", "twice"}, y \in members' :
                <<kind, <<x, y>>>> \in standing' \/ <<kind, <<y, x>>>> \in standing'
      BY <2>3
    <3>2. <<kind, <<x, y>>>> \in standing \/ <<kind, <<y, x>>>> \in standing
      BY <1>0, <3>1
    <3>3. x \in members /\ y \in members
      BY <2>1, <3>1, <3>2, FaultKinds
    <3> QED BY <3>2, <3>3 DEF Involved
  <2> QED BY <1>3, <2>2, <2>3 DEF Involved
<1>4. Reading => allocated <= counter'.value
  BY <1>1 DEF StandingInv
<1>5. Complete => \A x \in members' : Involved(x)' /\ Walked(x)' => Noticed(x)'
  <2>1. \A x : (Walked(x)' <=> Walked(x)) /\ (Noticed(x)' <=> Noticed(x))
    BY <1>0 DEF Walked, Noticed, Unreadable
  <2> QED BY <1>3, <2>1 DEF StandingInv, Complete
<1>6. Reading => \A x \in members' : <<"surplus", x>> \in standing' => x.score > allocated \/ x.score \in Fractions
  <2> SUFFICES ASSUME Reading, NEW x, <<"surplus", x>> \in standing' PROVE x.score > allocated \/ x.score \in Fractions
    OBVIOUS
  <2>1. standing \subseteq Faults
    BY DEF Reading, StandingInv
  <2>2. x \in members
    BY <1>0, <2>1, FaultKinds
  <2> QED BY <1>0, <2>2 DEF StandingInv
<1> QED BY <1>0, <1>2, <1>4, <1>5, <1>6 DEF StandingInv

LEMMA StandingStep ==
    ASSUME Types, CounterInv, WalkTypes, StandingInv, [ReconcileNext]_allVars
    PROVE  StandingInv'
<1>1. CASE Next /\ Mended /\ UNCHANGED walk
  BY <1>1, StandingLedger
<1>2. CASE Sleep
  BY <1>2 DEF Sleep, StandingInv, Reading, Complete
<1>3. CASE BeginReconcile /\ ~Sleep
  <2>1. /\ step = "sleep" /\ step' = "counter" /\ standing' = Faults
        /\ UNCHANGED <<at, cursor, got, malformed, members, counter>>
    BY <1>3 DEF BeginReconcile, vars, ledger
  <2>2. Faults' = Faults
    BY <2>1 DEF Faults, Hole, Surplus, Astray, Collide, Repeat, Unreadable
  <2> QED BY <2>1, <2>2 DEF StandingInv, Reading, Complete
<1>4. CASE ReconcileReadsCounter /\ ~Sleep
  <2>1. /\ step = "counter" /\ step' = "positions" /\ allocated' = counter.value
        /\ UNCHANGED <<at, cursor, got, malformed, standing, members, counter>>
    BY <1>4 DEF ReconcileReadsCounter, vars, ledger
  <2>2. Faults' = Faults /\ standing \subseteq Faults
    BY <2>1 DEF Faults, Hole, Surplus, Astray, Collide, Repeat, Unreadable, StandingInv
  <2>3. counter.value \in Nat /\ Reserve \in Nat
    BY Constants DEF Types, TypeOK
  <2>4. at = 1 /\ cursor = -1 /\ got = {}
    BY <2>1 DEF StandingInv, NoScore
  <2>5. \A n : <<"hole", n>> \in standing => n <= counter.value
    BY <2>2, <2>3, FaultKinds
  <2>6. \A x : <<"surplus", x>> \in standing => x.score > counter.value \/ x.score \in Fractions
    BY <2>2, FaultKinds DEF Surplus
  <2>7. \A x \in members : ~Walked(x)'
    <3>1. \A x \in members : x.score \in Nat
      BY MemberTypes
    <3>2. \A x \in members : ~(x.score < -1)
      BY <3>1
    <3> QED BY <2>1, <2>4, <3>2 DEF Walked
  <2>8. counter.value <= counter.value
    BY <2>3
  <2> QED BY <2>1, <2>2, <2>4, <2>5, <2>6, <2>7, <2>8 DEF StandingInv
<1>5. CASE ReconcileReadsPage
  <2>1. PICK page : page = PositionPage
    OBVIOUS
  <2>2. /\ step = "positions" /\ step' \in {"positions", "judge"} /\ UNCHANGED <<vars, allocated, standing>>
        /\ got' = got \cup Kept(page)
    BY <1>5, <2>1 DEF ReconcileReadsPage, EndView
  <2>3. UNCHANGED <<members, counter>>
    BY <2>2 DEF vars, ledger
  <2>4. Faults' = Faults /\ standing \subseteq Faults
    BY <2>2, <2>3 DEF Faults, Hole, Surplus, Astray, Collide, Repeat, Unreadable, StandingInv
  <2>5. page \subseteq members
    BY <2>1, PositionPageFacts
  <2>6. Reading
    BY <2>2 DEF Reading
  <2>7. ASSUME NEW n, <<"hole", n>> \in standing PROVE \A row \in got' : row.score # n
    <3>1. \A row \in page : row.score # n
      BY <2>4, <2>5, <2>7, FaultKinds DEF Hole
    <3> QED BY <2>2, <2>6, <2>7, <3>1 DEF StandingInv, Kept
  <2>8. ASSUME Complete', NEW x \in members, Involved(x)', Walked(x)' PROVE Noticed(x)'
    <3>1. ~cut'
      BY <2>8 DEF Complete
    <3>2. /\ Walked(x) \/ x \in page
          /\ got \subseteq got'
          /\ malformed' = malformed \cup UNION {RowReasons(row) : row \in page}
          /\ ~cut
      BY <1>5, <2>1, <2>8, <3>1, PagePasses
    <3>3. CASE x \in page
      <4>1. x.key # 0 => x \in got'
        BY <2>2, <3>3 DEF Kept
      <4> QED BY <3>2, <3>3, <4>1, PageNotices
    <3>4. CASE Walked(x)
      <4>1. Complete
        BY <2>6, <2>8, <3>2 DEF Complete
      <4>2. Involved(x)
        BY <2>2, <2>3, <2>8 DEF Involved
      <4>3. Noticed(x)
        BY <3>4, <4>1, <4>2 DEF StandingInv
      <4> QED BY <3>2, <4>3 DEF Noticed, Unreadable
    <3> QED BY <3>2, <3>3, <3>4
  <2> QED BY <2>2, <2>3, <2>4, <2>6, <2>7, <2>8 DEF StandingInv
<1>6. CASE ZscanFails
  <2>1. /\ step = "positions" /\ step' \in {"positions", "judge"} /\ "zscan_failed" \in malformed'
        /\ UNCHANGED <<vars, allocated, got, standing>>
    BY <1>6 DEF ZscanFails, EndView
  <2>2. UNCHANGED <<members, counter>>
    BY <2>1 DEF vars, ledger
  <2>3. Faults' = Faults
    BY <2>2 DEF Faults, Hole, Surplus, Astray, Collide, Repeat, Unreadable
  <2> QED BY <2>1, <2>2, <2>3 DEF StandingInv, Reading, Complete
<1>7. CASE UNCHANGED allVars
  <2>1. UNCHANGED <<members, counter>> /\ UNCHANGED reader /\ UNCHANGED walk
    BY <1>7 DEF allVars, vars, ledger, reader
  <2>2. Faults' = Faults
    BY <2>1 DEF Faults, Hole, Surplus, Astray, Collide, Repeat, Unreadable
  <2>3. UNCHANGED <<step, allocated, at, cursor, got, malformed, cut, standing>>
    BY <2>1 DEF reader, walk
  <2>4. \A x : /\ Involved(x)' <=> Involved(x)
               /\ Walked(x)' <=> Walked(x)
               /\ Noticed(x)' <=> Noticed(x)
    BY <2>1, <2>3 DEF Involved, Walked, Noticed, Unreadable
  <2>5. (Complete' <=> Complete) /\ (Reading' <=> Reading)
    BY <2>3 DEF Complete, Reading
  <2> QED BY <2>1, <2>2, <2>3, <2>4, <2>5 DEF StandingInv
<1> QED BY <1>1, <1>2, <1>3, <1>4, <1>5, <1>6, <1>7 DEF ReconcileNext, Judge, ReconcileRaises

\* With nothing damaged, members stay, and a new one is in history or at a
\* position that was not handed out.
LEMMA Undamaged ==
    ASSUME ToolReserve = Reserve, Types, CounterInv, Next, damaged' = {}
    PROVE  /\ damaged = {} /\ members \subseteq members'
           /\ \A x \in members' \ members : x.score > Reserve => x.score > counter.value
<1>0. counter.value \in Nat /\ Reserve \in Nat
  BY Constants DEF Types, TypeOK
<1>1. ASSUME NEW k \in Key, NEW m, Recording(k, m)
      PROVE  damaged = {} /\ members' = members \cup {m} /\ m.score > counter.value
  <2>1. m.score = LivePosition /\ members' = members \cup {m} /\ damaged' = damaged
    BY <1>1 DEF Recording, Added
  <2> QED BY <1>0, <2>1 DEF LivePosition
<1>2. ASSUME NEW row \in pending, Placing(row)
      PROVE  damaged = {} /\ \E m : members' = members \cup {m} /\ ~(m.score > Reserve)
  <2>1. PICK m \in Member : m.score = row[2] /\ Added(m)
    BY <1>2 DEF Placing
  <2>2. row[2] \in Nat /\ row[2] < Reserve
    BY <1>2 DEF Placing, CounterInv
  <2>3. ~(m.score > Reserve)
    BY <1>0, <2>1, <2>2
  <2> QED BY <2>1, <2>3 DEF Added
<1>3. CASE LoseMember \/ AddStray
  BY <1>3 DEF LoseMember, AddStray
<1>4. CASE Quietly
  BY <1>4, QuietlyIsQuiet DEF Quiet
<1> QED BY <1>1, <1>2, <1>3, <1>4, Kinds

LEMMA HandedStep ==
    ASSUME ToolReserve = Reserve, Types, CounterInv, WalkTypes, StandingInv, HandedInv,
           [ReconcileNext]_allVars
    PROVE  HandedInv'
<1> SUFFICES ASSUME damaged' = {}
             PROVE  /\ got' \subseteq members'
                    /\ Complete' => \A x \in members' :
                          Reserve < x.score /\ x.score <= allocated' /\ Walked(x)' => x \in got'
  BY DEF HandedInv
<1>0. counter.value \in Nat /\ Reserve \in Nat /\ allocated \in Nat
  BY Constants DEF Types, TypeOK, WalkTypes
<1>1. CASE Next /\ Mended /\ UNCHANGED walk
  <2>1. UNCHANGED <<step, allocated, at, cursor, got, malformed, cut>>
    BY <1>1 DEF walk
  <2>2. /\ damaged = {} /\ members \subseteq members'
        /\ \A x \in members' \ members : x.score > Reserve => x.score > counter.value
    BY <1>1, Undamaged
  <2>3. (Complete' <=> Complete) /\ \A x : Walked(x)' <=> Walked(x)
    BY <2>1 DEF Complete, Reading, Walked
  <2>4. ASSUME Complete, NEW x \in members', Reserve < x.score, x.score <= allocated PROVE x \in members
    <3>1. allocated <= counter.value
      BY <2>4 DEF Complete, StandingInv
    <3>2. x.score \in Nat
      <4>1. Types'
        BY <1>1, TypesStep
      <4>2. x \in Member
        BY <4>1 DEF Types, TypeOK
      <4> QED BY <4>2, MemberFields
    <3> QED BY <1>0, <2>2, <2>4, <3>1, <3>2
  <2> QED BY <2>1, <2>2, <2>3, <2>4 DEF HandedInv
<1>2. CASE Sleep
  BY <1>2 DEF Sleep, Complete, Reading
<1>3. CASE ~(Next /\ Mended /\ UNCHANGED walk) /\ ~Sleep
  <2>1. UNCHANGED <<members, damaged>>
    BY <1>3 DEF ReconcileNext, allVars, vars, ledger, BeginReconcile, ReconcileReadsCounter,
                ReconcileReadsPage, ZscanFails, Judge, ReconcileRaises
  <2>2. CASE BeginReconcile
    <3>1. step' = "counter" /\ got' = got
      BY <1>3, <2>2 DEF BeginReconcile
    <3> QED BY <2>1, <3>1 DEF HandedInv, Complete, Reading
  <2>3. CASE ReconcileReadsCounter
    <3>1. step = "counter" /\ step' = "positions" /\ UNCHANGED <<at, cursor, got>>
      BY <1>3, <2>3 DEF ReconcileReadsCounter
    <3>2. at = 1 /\ cursor = -1
      BY <3>1 DEF StandingInv, NoScore
    <3>3. \A x \in members : ~(x.score < -1)
      <4>1. \A x \in members : x.score \in Nat
        BY MemberTypes
      <4> QED BY <4>1
    <3> QED BY <2>1, <3>1, <3>2, <3>3 DEF HandedInv, Walked
  <2>4. CASE ReconcileReadsPage
    <3>1. PICK page : page = PositionPage
      OBVIOUS
    <3>2. page \subseteq members
      BY <3>1, PositionPageFacts
    <3>3. step = "positions" /\ got' = got \cup Kept(page) /\ allocated' = allocated
      BY <2>4, <3>1 DEF ReconcileReadsPage
    <3>4. got' \subseteq members'
      BY <2>1, <3>2, <3>3 DEF HandedInv, Kept
    <3>5. ASSUME Complete', NEW x \in members, Reserve < x.score, x.score <= allocated, Walked(x)'
          PROVE  x \in got'
      <4>1. ~cut'
        BY <3>5 DEF Complete
      <4>2. /\ Walked(x) \/ x \in page
            /\ malformed \subseteq malformed'
            /\ ~cut
        BY <2>4, <3>1, <3>5, <4>1, PagePasses
      <4>3. CASE x \in page
        <5>1. x.key \in Key /\ 0 \notin Key
          BY <2>1, Constants DEF Types, TypeOK
        <5> QED BY <3>3, <4>3, <5>1 DEF Kept
      <4>4. CASE Walked(x)
        <5>1. Complete
          BY <3>3, <3>5, <4>2 DEF Complete, Reading
        <5> QED BY <2>1, <3>3, <3>5, <4>4, <5>1 DEF HandedInv
      <4> QED BY <4>2, <4>3, <4>4
    <3> QED BY <2>1, <3>3, <3>4, <3>5
  <2>5. CASE ZscanFails
    BY <2>1, <2>5 DEF ZscanFails, HandedInv, Complete
  <2>6. CASE UNCHANGED allVars
    <3>1. UNCHANGED <<step, allocated, at, cursor, got, malformed, cut>>
      BY <2>6 DEF allVars, reader, walk
    <3> QED BY <2>1, <3>1 DEF HandedInv, Complete, Reading, Walked
  <2> QED BY <1>3, <2>2, <2>3, <2>4, <2>5, <2>6 DEF ReconcileNext, Judge, ReconcileRaises
<1> QED BY <1>1, <1>2, <1>3

LEMMA ReaderInit == ReconcileInit => WalkTypes /\ StandingInv /\ HandedInv
<1> SUFFICES ASSUME ReconcileInit PROVE WalkTypes /\ StandingInv /\ HandedInv
  OBVIOUS
<1>1. /\ step = "sleep" /\ allocated = 0 /\ at = 1 /\ cursor = NoScore
      /\ got = {} /\ again = {} /\ malformed = {} /\ cut = FALSE
  BY DEF ReconcileInit
<1>2. WalkTypes
  BY <1>1 DEF WalkTypes
<1>3. ~Reading /\ ~Complete
  BY <1>1 DEF Reading, Complete
<1> QED BY <1>1, <1>2, <1>3 DEF StandingInv, HandedInv

LEMMA StandingInvariant == ReconcileSpec => [](BaseInv /\ WalkTypes /\ StandingInv)
<1>1. ReconcileInit => BaseInv /\ WalkTypes /\ StandingInv
  BY InvInit, ReaderInit DEF ReconcileInit, Inv, BaseInv
<1>2. BaseInv /\ WalkTypes /\ StandingInv /\ [ReconcileNext]_allVars => (BaseInv /\ WalkTypes /\ StandingInv)'
  BY BaseStep, ReaderOnlyReads, WalkTypesStep, StandingStep DEF BaseInv
<1> QED BY <1>1, <1>2, PTL DEF ReconcileSpec

LEMMA HandedInvariant ==
    ASSUME ToolReserve = Reserve
    PROVE  ReconcileSpec => [](Inv /\ WalkTypes /\ StandingInv /\ HandedInv)
<1>1. ReconcileInit => Inv /\ WalkTypes /\ StandingInv /\ HandedInv
  BY InvInit, ReaderInit DEF ReconcileInit
<1>2. Inv /\ WalkTypes /\ StandingInv /\ HandedInv /\ [ReconcileNext]_allVars =>
          (Inv /\ WalkTypes /\ StandingInv /\ HandedInv)'
  BY InvStep, ReaderOnlyReads, WalkTypesStep, StandingStep, HandedStep DEF Inv
<1> QED BY <1>1, <1>2, PTL DEF ReconcileSpec

-----------------------------------------------------------------------------
(* The verdicts.                                                           *)

\* A reconciliation that reports clean has missed nothing that was wrong
\* throughout: whatever the size of the views, the damage and the writes and
\* passes beside it, and whatever reserve the backfill tool has.
THEOREM CleanReportsTrue == ReconcileSpec => []CleanIsTrue
<1>1. ASSUME BaseInv, WalkTypes, StandingInv PROVE CleanIsTrue
  <2>1. SUFFICES ASSUME step = "judge", ~HasFindings, mine = Reserve, ~cut, NEW f \in standing
                 PROVE  FALSE
    BY DEF CleanIsTrue
  <2>2. Reading /\ Complete /\ \A x : Walked(x)
    BY <2>1 DEF Reading, Complete, Walked, HasFindings
  <2>3. standing \subseteq Faults
    BY <1>1, <2>1 DEF StandingInv
  <2>4. malformed = {} /\ MissingPositions = {} /\ Unallocated = {} /\ Foreign = {} /\ Shared = {} /\ Duplicated = {}
    BY <2>1 DEF HasFindings
  <2>5. \A x \in members : Involved(x) => x \in got /\ x.key # 0 /\ ~Unreadable(x)
    BY <1>1, <2>2, <2>4 DEF StandingInv, Noticed, Unreadable
  <2>6. allocated \in Nat /\ Reserve \in Nat /\ \A x \in members : x.score \in Nat
    BY <1>1, Constants, MemberTypes DEF WalkTypes, BaseInv
  <2>7. ASSUME NEW x \in got, x.score > Reserve PROVE x \in LiveRows
    BY <2>1, <2>4, <2>7 DEF LiveRows, AboveReserve, Unallocated
  <2>8. ASSUME NEW n, f = <<"hole", n>> PROVE FALSE
    <3>1. n \in Reserve + 1 .. counter.value /\ n <= allocated /\ \A row \in got : row.score # n
      BY <1>1, <2>2, <2>3, <2>8, FaultKinds DEF StandingInv
    <3>2. n \in HandedOut
      <4>1. counter.value \in Nat
        BY <1>1 DEF BaseInv, Types, TypeOK
      <4> QED BY <2>1, <2>6, <3>1, <4>1 DEF HandedOut
    <3>3. n \in Live
      BY <2>4, <3>2 DEF MissingPositions
    <3> QED BY <3>1, <3>3 DEF Live, LiveRows, AboveReserve
  <2>9. ASSUME NEW x, f = <<"surplus", x>> PROVE FALSE
    <3>1. x \in members /\ Surplus(x)
      BY <2>3, <2>9, FaultKinds
    <3>2. x \in got
      BY <2>5, <2>9, <3>1 DEF Involved
    <3>3. x \in LiveRows
      BY <2>7, <3>1, <3>2 DEF Surplus, InLiveRange
    <3>4. x.score > allocated
      BY <1>1, <2>2, <2>9, <3>1, <3>3 DEF StandingInv, LiveRows
    <3>5. x.score \notin HandedOut /\ x.score \in Live
      BY <2>1, <2>6, <3>1, <3>3, <3>4 DEF HandedOut, Live
    <3> QED BY <2>4, <3>5 DEF Unallocated
  <2>10. ASSUME NEW x, f = <<"foreign", x>> PROVE FALSE
    <3>1. x \in members /\ Astray(x)
      BY <2>3, <2>10, FaultKinds
    <3>2. x \in got
      BY <2>5, <2>10, <3>1 DEF Involved
    <3> QED BY <2>4, <3>1, <3>2 DEF Foreign, Astray
  <2>11. ASSUME NEW x, f = <<"unreadable", x>> PROVE FALSE
    <3>1. x \in members /\ Unreadable(x)
      BY <2>3, <2>11, FaultKinds
    <3> QED BY <2>5, <2>11, <3>1 DEF Involved
  <2>12. ASSUME NEW x \in members, NEW y \in members, f = <<"shared", <<x, y>>>> PROVE FALSE
    <3>1. Collide(x, y)
      BY <2>3, <2>12, FaultKinds
    <3>2. x \in got /\ y \in got
      BY <2>5, <2>12 DEF Involved
    <3>3. x \in LiveRows /\ y \in LiveRows
      BY <2>7, <3>1, <3>2 DEF Collide, InLiveRange
    <3>4. x.score \in Shared
      BY <3>1, <3>3 DEF Shared, Live, Collide
    <3> QED BY <2>4, <3>4
  <2>13. ASSUME NEW x \in members, NEW y \in members, f = <<"twice", <<x, y>>>> PROVE FALSE
    <3>1. Repeat(x, y)
      BY <2>3, <2>13, FaultKinds
    <3>2. x \in got /\ y \in got
      BY <2>5, <2>13 DEF Involved
    <3>3. x.key \in Duplicated
      BY <3>1, <3>2 DEF Duplicated
    <3> QED BY <2>4, <3>3
  <2> QED BY <2>1, <2>3, <2>8, <2>9, <2>10, <2>11, <2>12, <2>13, FaultKinds
<1>2. BaseInv /\ WalkTypes /\ StandingInv => CleanIsTrue
  BY <1>1
<1> QED BY <1>2, StandingInvariant, PTL

\* What a reconciliation reports on an undamaged ledger is what the write paths
\* cannot avoid, if the backfill tool has the reserve of the writers.
THEOREM FindingsReal ==
    ASSUME ToolReserve = Reserve
    PROVE  ReconcileSpec => []FindingsAreReal
<1>1. ASSUME Inv, WalkTypes, StandingInv, HandedInv PROVE FindingsAreReal
  <2>1. SUFFICES ASSUME step = "judge", damaged = {}, malformed = {}, mine = Reserve, ~cut, ~stalled
                 PROVE  /\ MissingPositions = {}
                        /\ Foreign = {}
                        /\ Shared = {}
                        /\ Unallocated \subseteq allocated + 1 .. counter.value
                        /\ Duplicated \subseteq raced \cup {row.key : row \in again}
    BY DEF FindingsAreReal
  <2>2. Complete /\ \A x : Walked(x)
    BY <2>1 DEF Complete, Reading, Walked
  <2>3. Types /\ LedgerInv /\ PositionInv /\ OnePosition
    BY <1>1, <2>1 DEF Inv, IndexInv, OrderInv
  <2>4. /\ got \subseteq members
        /\ \A x \in members : Reserve < x.score /\ x.score <= allocated => x \in got
    BY <1>1, <2>1, <2>2 DEF HandedInv
  <2>5. allocated <= counter.value
    BY <1>1, <2>2 DEF StandingInv, Complete
  <2>6. /\ allocated \in Nat /\ Reserve \in Nat /\ counter.value \in Nat
        /\ \A x \in members : x.score \in Nat
    BY <1>1, <2>3, Constants, MemberTypes DEF WalkTypes, Types, TypeOK
  <2>7. \A f \in Fractions : ~(f <= counter.value)
    <3>1. limits.txs - head \in Nat
      BY <2>3, LimitFacts DEF Types, TypeOK
    <3>2. \A f \in Fractions : f \in Nat /\ counter.value + (limits.txs - head) < f
      BY <2>3, ReconcileAssumption DEF PositionInv
    <3> QED BY ONLY <2>6, <3>1, <3>2
  <2>8. \A x \in members : x.score > Reserve => x.score <= counter.value
    BY <2>1, <2>3 DEF PositionInv
  <2>9. \A x \in members : x.score > Reserve => x.score \notin Fractions
    BY <2>7, <2>8
  <2>10. MissingPositions = {}
    <3> SUFFICES ASSUME NEW n \in HandedOut PROVE n \in Live
      BY DEF MissingPositions
    <3>1. n \in Reserve + 1 .. counter.value /\ n <= allocated /\ n > Reserve
      BY <2>1, <2>5, <2>6 DEF HandedOut
    <3>2. PICK m \in members : m.score = n
      BY <2>1, <2>3, <3>1 DEF PositionInv
    <3>3. m \in got
      BY <2>4, <2>6, <3>1, <3>2
    <3> QED BY <2>1, <2>9, <3>1, <3>2, <3>3 DEF Live, LiveRows, AboveReserve
  <2>11. Foreign = {}
    BY <2>1, <2>3, <2>4 DEF LedgerInv, Foreign
  <2>12. Shared = {}
    <3> SUFFICES ASSUME NEW r \in LiveRows, NEW s \in LiveRows, r.score = s.score PROVE r = s
      BY DEF Shared
    <3> QED BY <2>1, <2>3, <2>4 DEF PositionInv, LiveRows, AboveReserve
  <2>13. Unallocated \subseteq allocated + 1 .. counter.value
    <3>1. AboveReserve \ LiveRows = {}
      BY <2>1, <2>4, <2>9 DEF AboveReserve, LiveRows
    <3>2. ASSUME NEW n \in Live \ HandedOut PROVE n \in allocated + 1 .. counter.value
      <4>1. PICK row \in LiveRows : n = row.score
        BY <3>2 DEF Live
      <4>2. row \in members /\ n > Reserve
        BY <2>1, <2>4, <4>1 DEF LiveRows, AboveReserve
      <4>3. n \in Nat /\ n <= counter.value
        BY <2>6, <2>8, <4>1, <4>2
      <4> QED BY <2>1, <2>6, <3>2, <4>2, <4>3 DEF HandedOut
    <3> QED BY <3>1, <3>2 DEF Unallocated
  <2>14. ASSUME NEW k \in Duplicated, k \notin raced PROVE k \in {row.key : row \in again}
    <3>1. PICK r \in got : k = r.key /\ (r \in again \/ \E o \in got : Repeat(r, o))
      BY <2>14 DEF Duplicated
    <3>2. ASSUME NEW o \in got, Repeat(r, o) PROVE FALSE
      <4>1. r.score = o.score
        BY <2>1, <2>3, <2>4, <2>14, <3>1, <3>2 DEF OnePosition, Unsettled, Repeat
      <4>2. r \in Member /\ o \in Member
        BY <1>1 DEF WalkTypes
      <4> QED BY ONLY <3>2, <4>1, <4>2 DEF Repeat, Member
    <3> QED BY <3>1, <3>2
  <2> QED BY <2>10, <2>11, <2>12, <2>13, <2>14
<1>2. Inv /\ WalkTypes /\ StandingInv /\ HandedInv => FindingsAreReal
  BY <1>1
<1> QED BY <1>2, HandedInvariant, PTL

=============================================================================
