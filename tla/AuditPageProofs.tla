-------------------------- MODULE AuditPageProofs ---------------------------
(***************************************************************************)
(* Proofs about AuditPage, for any number of calls and records, any limit  *)
(* and any page size.                                                      *)
(*                                                                         *)
(* The page is put together from reads of different moments, so the        *)
(* inductive invariant says of each what it still owes to the ledger as    *)
(* the request found it (BeforeInv), which only grows: the scans of the    *)
(* views (PageInv, ScanInv), the tombstones and the fault records          *)
(* (ReadInv), and the rows made of them (EntriesInv).  Of the ledger it    *)
(* says what ordered writes make of it (LedgerInv, PositionInv, FaultInv). *)
(***************************************************************************)
EXTENDS AuditPage, HistoryLemmas, FiniteSetTheorems, TLAPS

Rec == [view : View, call : Call, score : Nat]
FaultRec == [view : View, call : Call, keyTx : Nat, tx : Nat, form : FaultForm]
Labels == {"idle", "scan1", "scan2", "count", "tombstones", "faults", "rows", "served", "refused"}

Types ==
    /\ head \in 0 .. MaxTx
    /\ txOf \in [View -> [Call -> 0 .. MaxTx]]
    /\ index \subseteq Rec /\ IsFiniteSet(index)
    /\ counter \in Nat
    /\ tomb \cup rows \cup absent \cup deleted \cup tombs \subseteq Call
    /\ faults \subseteq FaultRec /\ IsFiniteSet(faults)
    /\ pc \in Labels
    /\ limit \in Int /\ mine \in Nat \ {0}
    /\ page \in [View -> Seq(Rec)]
    /\ total \in 0 .. NumCalls
    /\ seek \in Nat \X Nat
    /\ found \in Seq(FaultRec)

\* A record is in the ledger and in its view, or in neither; a completion has
\* its intent; and a recorded call had its payload stored, or none to store.
LedgerInv ==
    /\ \A c \in Old : txOf["decision"][c] > 0
    /\ \A c \in Call : txOf["intent"][c] > 0 => c \in Mediated
    /\ \A c \in Mediated : txOf["decision"][c] > 0 => txOf["intent"][c] > 0
    /\ \A v \in View, c \in Call : txOf[v][c] <= head
    /\ \A v \in View, c \in Call :
          txOf[v][c] > 0 <=> \E m \in index : m.view = v /\ m.call = c
    /\ \A v \in View, c \in Call : txOf[v][c] > 0 => c \in rows \cup absent \cup deleted \cup tomb

\* Positions are handed out above the reserve, in the order of the commits.
PositionInv ==
    /\ counter >= Reserve
    /\ displaced \subseteq index
    /\ \A m \in index : IF m.call \in Old THEN m.score = 1 ELSE m.score > Reserve
    /\ displaced = {} =>
          /\ \A m \in index : m.call \notin Old => m.score <= counter
          /\ \A m, n \in index : m.view = n.view /\ m.call = n.call => m = n
          /\ \A m, n \in index :
                m.view = n.view /\ m.call \notin Old /\ n.call \notin Old =>
                   /\ m.score > n.score => TxOfRow(m) > TxOfRow(n)
                   /\ m.score = n.score => m = n

\* A fault record is keyed by its record's transaction and has one of its own.
FaultInv ==
    /\ \A f \in faults : f.tx <= head /\ f.keyTx = txOf[f.view][f.call] /\ f.keyTx > 0
    /\ \A f, g \in faults : f.tx = g.tx => f = g

BeforeInv ==
    /\ before.index \subseteq index
    /\ before.tomb \subseteq tomb
    /\ before.faults \subseteq faults
    /\ \A c \in before.done : \E m \in before.index : m.view = "decision" /\ m.call = c

\* Highest score first; of one score, the later key first.
Descends(a, b) == a.score > b.score \/ (a.score = b.score /\ a.call > b.call)

\* The rows of a scan are the view's, in its order.
IsScan(p, v) ==
    /\ Len(p) <= MaxScanLimit
    /\ \A i \in 1 .. Len(p) : p[i] \in index /\ p[i].view = v
    /\ \A i, j \in 1 .. Len(p) : i < j => Descends(p[i], p[j])

PageInv == \A v \in View : IsScan(page[v], v)

\* A scan holds what its view held when the request began.
Whole(p, v) == \A m \in before.index : m.view = v => \E i \in 1 .. Len(p) : p[i] = m

\* Its allocated rows are in the order of their transactions.
InOrder(p) ==
    \A i, j \in 1 .. Len(p) :
       i < j /\ p[j].score > Reserve => p[i].score > p[j].score /\ TxOfRow(p[i]) > TxOfRow(p[j])

Scanned == {"count", "tombstones", "faults", "rows", "served"}

ScanInv ==
    /\ pc = "scan2" /\ Len(page["decision"]) < ScanLimit => Whole(page["decision"], "decision")
    /\ pc \in Scanned /\ ~hasMore =>
          /\ \A v \in View : Whole(page[v], v)
          /\ \A c \in CallsOf("decision") : txOf["intent"][c] > 0 => c \in CallsOf("intent")
          /\ mine = Reserve => \A v \in View : InOrder(page[v])
    /\ pc \in Scanned \ {"count"} /\ displaced = {} => Len(page["decision"]) <= total

\* The scan of the fault records has everything up to where it is.
ReadInv ==
    /\ pc \in {"faults", "rows", "served"} => before.tomb \cap PageCallIds \subseteq tombs
    /\ tombs \subseteq tomb
    /\ pc \notin {"faults", "rows", "served", "refused"} => seek = <<0, 0>> /\ found = <<>>
    /\ \A i \in 1 .. Len(found) : found[i] \in faults
    /\ \A i, j \in 1 .. Len(found) : found[i] = found[j] => i = j
    /\ pc = "faults" =>
          /\ \A i \in 1 .. Len(found) : ~Past(found[i])
          /\ \A f \in before.faults :
                f.keyTx \in PageTxs /\ ~Past(f) => \E i \in 1 .. Len(found) : found[i] = f
    /\ pc \in {"rows", "served"} =>
          \A f \in before.faults : f.keyTx \in PageTxs => \E i \in 1 .. Len(found) : found[i] = f

\* What a row of the response says.
EntryTrue(e) ==
    /\ e.execution \in {"completed", "unknown", "n/a"}
    /\ e.payload \in PayloadStates
    /\ e.verification \in Verifications \cup {"asserted"}
    /\ e.payload = "present" => e.call \notin before.tomb
    /\ e.payload = "lost" => e.call \in deleted \/ e.call \in tomb \ before.tomb
    /\ e.fault.count \in
          Cardinality(Genuine(before.faults, e)) .. Cardinality(Genuine(faults, e))
    /\ \A f \in Genuine(before.faults, e) : f.tx <= e.fault.newest

Response == [view : View, call : Call, execution : {"completed", "unknown", "n/a"},
             payload : PayloadStates, fault : [count : Nat, newest : Nat],
             verification : Verifications \cup {"asserted"}]

\* Decisions in page order, then orphans.
EntryOf(e, i) ==
    LET n == Len(page["decision"])
    IN  /\ i <= n => /\ e.call = page["decision"][i].call
                     /\ e.execution = "unknown" => FALSE
                     /\ e.execution = "n/a" => e.call \notin CallsOf("intent")
        /\ i > n => /\ i - n \in 1 .. Len(Orphans)
                    /\ e.call = Orphans[i - n].call
                    /\ e.execution = "unknown"

EntriesInv ==
    /\ pc \notin {"rows", "served"} => entries = <<>>
    /\ entries \in Seq(Response)
    /\ \A i \in 1 .. Len(entries) : EntryTrue(entries[i]) /\ EntryOf(entries[i], i)
    /\ pc = "served" => Len(entries) = Len(page["decision"]) + Len(Orphans)

IInv ==
    /\ Types
    /\ LedgerInv
    /\ PositionInv
    /\ FaultInv
    /\ BeforeInv
    /\ PageInv
    /\ ScanInv
    /\ ReadInv
    /\ EntriesInv

-----------------------------------------------------------------------------
(* Scans.                                                                  *)

\* The types of the constants.
LEMMA ConstantFacts ==
    /\ NumCalls \in Nat /\ MaxTx \in Nat \ {0} /\ Reserve \in Nat \ {0}
    /\ MaxScanLimit \in Nat \ {0} /\ FaultScan \in Nat \ {0}
    /\ Mediated \subseteq Call /\ Old \subseteq Call \ Mediated
    /\ \A c \in Call : c \in Nat
    /\ View = {"decision", "intent"}
    /\ \A r \in Requests : r.limit \in Int /\ r.reserve \in Nat \ {0}
BY AuditAssumption DEF Call, View

\* The first n rows.
LEMMA AtMostFacts ==
    ASSUME NEW S, NEW s \in Seq(S), NEW n \in Nat
    PROVE  /\ AtMost(s, n) \in Seq(S) /\ Len(AtMost(s, n)) \in Nat /\ Len(s) \in Nat
           /\ Len(AtMost(s, n)) <= n /\ Len(AtMost(s, n)) <= Len(s)
           /\ \A i \in 1 .. Len(AtMost(s, n)) : AtMost(s, n)[i] = s[i]
           /\ Len(AtMost(s, n)) < n => Len(AtMost(s, n)) = Len(s)
           /\ Len(AtMost(s, n)) < Len(s) => Len(AtMost(s, n)) = n
<1>1. PICK k : k = IF Len(s) < n THEN Len(s) ELSE n
  OBVIOUS
<1>2. k \in 0 .. Len(s) /\ k <= n /\ (k < n => k = Len(s)) /\ (k < Len(s) => k = n)
  BY <1>1
<1>3. AtMost(s, n) = SubSeq(s, 1, k)
  BY <1>1 DEF AtMost
<1>4. /\ SubSeq(s, 1, k) \in Seq(S) /\ Len(SubSeq(s, 1, k)) = k
      /\ \A i \in 1 .. k : SubSeq(s, 1, k)[i] = s[i]
  BY <1>2, CutFacts
<1> QED BY <1>2, <1>3, <1>4

\* One view in zscan's order.
LEMMA NewestFirstFacts ==
    ASSUME NEW S, IsFiniteSet(S), S \subseteq Rec, NEW v, \A m \in S : m.view = v
    PROVE  /\ NewestFirst(S) \in Seq(S) /\ Len(NewestFirst(S)) = Cardinality(S)
           /\ \A m \in S : \E i \in 1 .. Len(NewestFirst(S)) : NewestFirst(S)[i] = m
           /\ \A i, j \in 1 .. Len(NewestFirst(S)) :
                 i < j => Descends(NewestFirst(S)[i], NewestFirst(S)[j])
<1>1. PICK R : R = {p \in S \X S : Descends(p[1], p[2])}
  OBVIOUS
<1>2. \A x, y \in S : <<x, y>> \in R <=> Descends(x, y)
  BY <1>1
<1>3. \A x \in S : x.score \in Nat /\ x.call \in Nat /\ x \in Rec
  BY ConstantFacts DEF Rec
<1>4. \A x, y \in S : x # y => x.score # y.score \/ x.call # y.call
  BY DEF Rec
<1>5. StrictOrder(S, R)
  BY <1>2, <1>3, <1>4 DEF StrictOrder, Descends
<1>6. \A x \in S : {y \in S : Descends(y, x)} = {y \in S : <<y, x>> \in R}
  BY <1>2
<1>7. PICK s : s = SortedBy(S, R)
  OBVIOUS
<1>8. NewestFirst(S) = s
  <2>1. NewestFirst(S) = [n \in 1 .. Cardinality(S) |->
                       CHOOSE x \in S : Cardinality({y \in S : Descends(y, x)}) = n - 1]
    BY DEF NewestFirst, Sorted, Descends
  <2>2. \A n \in 1 .. Cardinality(S) :
           (CHOOSE x \in S : Cardinality({y \in S : Descends(y, x)}) = n - 1)
           = (CHOOSE x \in S : Cardinality({y \in S : <<y, x>> \in R}) = n - 1)
    BY <1>6
  <2> QED BY <1>7, <2>1, <2>2 DEF SortedBy
<1>9. /\ s \in Seq(S) /\ Len(s) = Cardinality(S)
      /\ \A x \in S : \E i \in 1 .. Len(s) : s[i] = x
      /\ \A i, j \in 1 .. Len(s) : i < j => <<s[i], s[j]>> \in R
  BY ONLY <1>5, <1>7, IsFiniteSet(S), SortedFacts
<1>10. \A i, j \in 1 .. Len(s) : i < j => Descends(s[i], s[j])
  BY <1>1, <1>9
<1> QED BY <1>8, <1>9, <1>10

\* The limits of a scan and of the page cut from it.
LEMMA LimitFacts ==
    ASSUME Types
    PROVE  /\ ScanLimit \in Nat /\ PageLimit \in Nat
           /\ PageLimit < ScanLimit /\ ScanLimit <= MaxScanLimit
BY ConstantFacts DEF Types, ScanLimit, PageLimit

\* A scan of a view, and what it holds if it was not cut.
LEMMA ZscanFacts ==
    ASSUME Types, NEW v \in View
    PROVE  /\ ZscanView(v) \in Seq(Rec) /\ IsScan(ZscanView(v), v)
           /\ Len(ZscanView(v)) <= ScanLimit
           /\ Len(ZscanView(v)) < ScanLimit =>
                 \A m \in index : m.view = v => \E i \in 1 .. Len(ZscanView(v)) : ZscanView(v)[i] = m
<1>1. PICK S : S = {m \in index : m.view = v}
  OBVIOUS
<1>2. IsFiniteSet(S) /\ S \subseteq Rec /\ S \subseteq index /\ \A m \in S : m.view = v
  BY <1>1, FS_Subset DEF Types
<1>3. PICK s : s = NewestFirst(S)
  OBVIOUS
<1>4. /\ s \in Seq(S) /\ Len(s) \in Nat
      /\ \A m \in S : \E i \in 1 .. Len(s) : s[i] = m
      /\ \A i, j \in 1 .. Len(s) : i < j => Descends(s[i], s[j])
  <2>1. IsFiniteSet(S) /\ S \subseteq Rec /\ \A m \in S : m.view = v
    BY <1>2
  <2>2. /\ NewestFirst(S) \in Seq(S)
        /\ \A m \in S : \E i \in 1 .. Len(NewestFirst(S)) : NewestFirst(S)[i] = m
        /\ \A i, j \in 1 .. Len(NewestFirst(S)) :
              i < j => Descends(NewestFirst(S)[i], NewestFirst(S)[j])
    BY ONLY <2>1, NewestFirstFacts
  <2> QED BY ONLY <1>3, <2>2
<1>5. PICK k, p : k = ScanLimit /\ p = AtMost(s, k)
  OBVIOUS
<1>6. ZscanView(v) = p
  BY <1>1, <1>3, <1>5 DEF ZscanView
<1>7. k = ScanLimit /\ k \in Nat /\ k <= MaxScanLimit /\ MaxScanLimit \in Nat
  BY <1>5, LimitFacts, ConstantFacts
<1>8. /\ p \in Seq(S) /\ Len(p) \in Nat /\ Len(p) <= k /\ Len(p) <= Len(s)
      /\ \A i \in 1 .. Len(p) : p[i] = s[i]
      /\ Len(p) < k => Len(p) = Len(s)
  <2>1. s \in Seq(S) /\ k \in Nat /\ p = AtMost(s, k)
    BY ONLY <1>4, <1>5, <1>7
  <2> QED BY ONLY <2>1, AtMostFacts
<1>9. \A i \in 1 .. Len(p) : i \in 1 .. Len(s) /\ p[i] \in S
  <2>1. \A i \in 1 .. Len(p) : i \in 1 .. Len(s)
    BY ONLY <1>4, <1>8
  <2>2. \A i \in 1 .. Len(p) : p[i] \in S
    BY ONLY <1>8, Members
  <2> QED BY ONLY <2>1, <2>2
<1>10. p \in Seq(Rec)
  BY <1>2, <1>8, <1>9
<1>11. IsScan(p, v)
  BY <1>2, <1>4, <1>7, <1>8, <1>9 DEF IsScan
<1>12. Len(p) < k => \A m \in index : m.view = v => \E i \in 1 .. Len(p) : p[i] = m
  BY <1>1, <1>4, <1>8
<1> QED BY <1>6, <1>7, <1>8, <1>10, <1>11, <1>12

\* A page is the beginning of a scan.
LEMMA CutScan ==
    ASSUME NEW v, NEW p \in Seq(Rec), IsScan(p, v), NEW n \in Nat
    PROVE  AtMost(p, n) \in Seq(Rec) /\ IsScan(AtMost(p, n), v)
<1>1. PICK q : q = AtMost(p, n)
  OBVIOUS
<1>2. /\ q \in Seq(Rec) /\ Len(q) \in Nat /\ Len(p) \in Nat /\ Len(q) <= Len(p)
      /\ \A i \in 1 .. Len(q) : q[i] = p[i] /\ i \in 1 .. Len(p)
  BY <1>1, AtMostFacts
<1> QED BY <1>1, <1>2, ConstantFacts DEF IsScan

\* The rows of a scan differ.
LEMMA ScanDistinct ==
    ASSUME NEW v, NEW p \in Seq(Rec), IsScan(p, v), NEW i \in 1 .. Len(p), NEW j \in 1 .. Len(p),
           p[i] = p[j]
    PROVE  i = j
<1>1. p[i].score \in Nat /\ p[i].call \in Nat
  <2>1. p[i] \in Rec
    BY Members
  <2> QED BY <2>1, ConstantFacts DEF Rec
<1>2. ~Descends(p[i], p[j]) /\ ~Descends(p[j], p[i])
  BY <1>1 DEF Descends
<1>3. i \in Nat /\ j \in Nat
  OBVIOUS
<1> QED BY <1>2, <1>3 DEF IsScan

-----------------------------------------------------------------------------
(* What happens to the ledger.                                             *)

\* What the environment leaves of the ledger, and that it is not the request.
Grows ==
    /\ index \subseteq index' /\ tomb \subseteq tomb' /\ faults \subseteq faults'
    /\ deleted \subseteq deleted'
    /\ \A v \in View, c \in Call : txOf[v][c] > 0 => txOf'[v][c] = txOf[v][c]
    /\ \A c \in Call : txOf["decision"][c] > 0 /\ txOf'["intent"][c] > 0 => txOf["intent"][c] > 0
    /\ displaced' = {} => displaced = {}
    /\ UNCHANGED <<pc, limit, mine, before, page, hasMore, total, tombs, seek, found, entries>>

WorldInv == Types /\ LedgerInv /\ PositionInv /\ FaultInv

\* A transaction is a number.
LEMMA TxTypes ==
    ASSUME Types
    PROVE  \A v \in View, c \in Call : txOf[v][c] \in Nat
<1>1. txOf \in [View -> [Call -> 0 .. MaxTx]] /\ MaxTx \in Nat
  BY ConstantFacts DEF Types
<1> QED BY <1>1

\* An ordered write.
LEMMA WriteRecordFacts ==
    ASSUME WorldInv, NEW v \in View, NEW c \in Call \ Old, WriteRecord(v, c),
           v = "intent" <=> (c \in Mediated /\ txOf["intent"][c] = 0),
           UNCHANGED <<displaced, faults, tomb, deleted>>,
           rows \subseteq rows', absent \subseteq absent',
           c \in rows' \cup absent' \cup deleted \cup tomb
    PROVE  /\ head' \in 0 .. MaxTx /\ counter' \in Nat
           /\ txOf' \in [View -> [Call -> 0 .. MaxTx]]
           /\ index' \subseteq Rec /\ IsFiniteSet(index') /\ index \subseteq index'
           /\ \A w \in View, d \in Call : txOf[w][d] > 0 => txOf'[w][d] = txOf[w][d]
           /\ \A d \in Call : txOf["decision"][d] > 0 /\ txOf'["intent"][d] > 0
                                 => txOf["intent"][d] > 0
           /\ LedgerInv' /\ PositionInv' /\ FaultInv'
<1>1. PICK m : m = Member(v, c, counter + 1)
  OBVIOUS
<1>2. /\ head \in Nat /\ head < MaxTx /\ head' = head + 1 /\ counter' = counter + 1
      /\ index' = index \cup {m} /\ txOf[v][c] = 0
      /\ txOf' = [txOf EXCEPT ![v][c] = head + 1]
  BY <1>1, ConstantFacts DEF WriteRecord, Commit, WorldInv, Types
<1>3. /\ txOf \in [View -> [Call -> 0 .. MaxTx]] /\ counter \in Nat /\ index \subseteq Rec
      /\ IsFiniteSet(index) /\ MaxTx \in Nat
  BY ConstantFacts DEF WorldInv, Types
<1>4. m \in Rec /\ m.view = v /\ m.call = c /\ m.score = counter + 1
  BY <1>1, <1>3 DEF Member, Rec
<1>5. /\ head' \in 0 .. MaxTx /\ counter' \in Nat
      /\ index' \subseteq Rec /\ IsFiniteSet(index') /\ index \subseteq index'
  BY <1>2, <1>3, <1>4, FS_AddElement
<1>6. txOf' \in [View -> [Call -> 0 .. MaxTx]]
  BY <1>2, <1>3
<1>7. \A w \in View, d \in Call : txOf'[w][d] = IF w = v /\ d = c THEN head + 1 ELSE txOf[w][d]
  BY <1>2, <1>3
<1>8. \A w \in View, d \in Call : txOf[w][d] \in Nat /\ (txOf[w][d] > 0 => txOf'[w][d] = txOf[w][d])
  BY <1>2, <1>3, <1>7
<1>9. "decision" \in View /\ "intent" \in View /\ Mediated \subseteq Call /\ Old \subseteq Call
  BY ConstantFacts
<1>10. ASSUME NEW d \in Call
       PROVE  /\ txOf["decision"][d] > 0 /\ txOf'["intent"][d] > 0 => txOf["intent"][d] > 0
              /\ txOf'["intent"][d] > 0 => d \in Mediated
              /\ d \in Mediated /\ txOf'["decision"][d] > 0 => txOf'["intent"][d] > 0
  <2>1. /\ txOf["intent"][d] > 0 => d \in Mediated
        /\ d \in Mediated /\ txOf["decision"][d] > 0 => txOf["intent"][d] > 0
    BY DEF WorldInv, LedgerInv
  <2>2. v \in {"decision", "intent"} /\ "decision" # "intent"
    BY ConstantFacts
  <2> QED BY <1>2, <1>7, <1>8, <1>9, <2>1, <2>2
<1>11. \A w \in View, d \in Call : txOf'[w][d] > 0 <=> \E n \in index' : n.view = w /\ n.call = d
  BY <1>2, <1>4, <1>7 DEF WorldInv, LedgerInv
<1>12. \A w \in View, d \in Call : txOf'[w][d] <= head'
  BY <1>2, <1>3, <1>7, <1>8 DEF WorldInv, LedgerInv
<1>13. \A w \in View, d \in Call : txOf'[w][d] > 0 => d \in rows' \cup absent' \cup deleted' \cup tomb'
  BY <1>7 DEF WorldInv, LedgerInv
<1>14. \A d \in Old : txOf'["decision"][d] > 0
  BY <1>8, <1>9 DEF WorldInv, LedgerInv
<1>15. LedgerInv'
  BY <1>9, <1>10, <1>11, <1>12, <1>13, <1>14 DEF LedgerInv
<1>16. \A n \in index : /\ n.view \in View /\ n.call \in Call /\ n.score \in Nat
                        /\ txOf[n.view][n.call] > 0 /\ TxOfRow(n)' = TxOfRow(n)
                        /\ TxOfRow(n) <= head /\ TxOfRow(n) \in Nat
  <2>1. SUFFICES ASSUME NEW n \in index
                 PROVE  /\ n.view \in View /\ n.call \in Call /\ n.score \in Nat
                        /\ txOf[n.view][n.call] > 0 /\ TxOfRow(n)' = TxOfRow(n)
                        /\ TxOfRow(n) <= head /\ TxOfRow(n) \in Nat
    OBVIOUS
  <2>2. n.view \in View /\ n.call \in Call /\ n.score \in Nat
    BY <1>3 DEF Rec
  <2>3. txOf[n.view][n.call] > 0 /\ txOf[n.view][n.call] <= head
    BY <2>2 DEF WorldInv, LedgerInv
  <2> QED BY <1>8, <2>2, <2>3 DEF TxOfRow
<1>17. TxOfRow(m)' = head + 1
  BY <1>4, <1>7 DEF TxOfRow
<1>18. PositionInv'
  <2>1. counter' >= Reserve /\ counter >= Reserve
    BY <1>2, <1>3, ConstantFacts DEF WorldInv, PositionInv
  <2>2. \A n \in index' : IF n.call \in Old THEN n.score = 1 ELSE n.score > Reserve
    BY <1>2, <1>3, <1>4, <2>1, ConstantFacts DEF WorldInv, PositionInv
  <2>3. ASSUME displaced' = {}
        PROVE  /\ \A n \in index' : n.call \notin Old => n.score <= counter'
               /\ \A n, o \in index' : n.view = o.view /\ n.call = o.call => n = o
               /\ \A n, o \in index' :
                     n.view = o.view /\ n.call \notin Old /\ o.call \notin Old =>
                        /\ n.score > o.score => TxOfRow(n)' > TxOfRow(o)'
                        /\ n.score = o.score => n = o
    <3>1. /\ \A n \in index : n.call \notin Old => n.score <= counter
          /\ \A n, o \in index : n.view = o.view /\ n.call = o.call => n = o
          /\ \A n, o \in index :
                n.view = o.view /\ n.call \notin Old /\ o.call \notin Old =>
                   /\ n.score > o.score => TxOfRow(n) > TxOfRow(o)
                   /\ n.score = o.score => n = o
      BY <2>3 DEF WorldInv, PositionInv
    <3>2. \A n \in index : ~(n.view = v /\ n.call = c)
      BY <1>2, <1>16
    <3>3. \A n \in index : n.call \notin Old => n.score < m.score /\ TxOfRow(n)' < TxOfRow(m)'
      BY <1>2, <1>3, <1>4, <1>16, <1>17, <3>1
    <3>4. \A n \in index' : n.call \notin Old => n.score <= counter'
      BY <1>2, <1>3, <1>4, <1>16, <3>1
    <3>5. \A n, o \in index' : n.view = o.view /\ n.call = o.call => n = o
      BY <1>2, <1>4, <3>1, <3>2
    <3>6. ASSUME NEW n \in index', NEW o \in index', n.view = o.view, n.call \notin Old,
                 o.call \notin Old
          PROVE  /\ n.score > o.score => TxOfRow(n)' > TxOfRow(o)'
                 /\ n.score = o.score => n = o
      <4>1. CASE n \in index /\ o \in index
        BY <1>16, <3>1, <3>6, <4>1
      <4>2. CASE n = m /\ o \in index
        BY <1>3, <1>4, <1>16, <1>17, <3>3, <3>6, <4>2
      <4>3. CASE n \in index /\ o = m
        BY <1>3, <1>4, <1>16, <1>17, <3>3, <3>6, <4>3
      <4>4. CASE n = m /\ o = m
        BY <1>3, <1>4, <4>4
      <4> QED BY <1>2, <4>1, <4>2, <4>3, <4>4
    <3> QED BY <3>4, <3>5, <3>6
  <2>4. displaced' \subseteq index'
    BY <1>2 DEF WorldInv, PositionInv
  <2> QED BY <2>1, <2>2, <2>3, <2>4 DEF PositionInv
<1>19. FaultInv'
  <2>1. \A f \in faults : f.view \in View /\ f.call \in Call /\ f.tx \in Nat
    BY DEF WorldInv, Types, FaultRec
  <2> QED BY <1>2, <1>8, <2>1 DEF WorldInv, FaultInv
<1> QED BY <1>5, <1>6, <1>8, <1>10, <1>15, <1>18, <1>19

\* A call is recorded.
LEMMA RecordStep ==
    ASSUME WorldInv, NEW c \in Call, FirstRecord(c) \/ Completion(c)
    PROVE  WorldInv' /\ Grows
<1>1. UNCHANGED <<displaced, faults, tomb, deleted, pc, limit, mine, before, page, hasMore, total,
                  tombs, seek, found, entries>>
  BY DEF FirstRecord, Completion, content, request, reads
<1>2. txOf["intent"][c] \in Nat /\ Mediated \subseteq Call /\ Old \cap Mediated = {}
      /\ "intent" \in View /\ "decision" \in View
  <2>1. "intent" \in View /\ "decision" \in View
    BY ConstantFacts
  <2> QED BY <2>1, ConstantFacts, TxTypes DEF WorldInv
<1>3. PICK v \in View :
         /\ WriteRecord(v, c) /\ c \notin Old
         /\ v = "intent" <=> (c \in Mediated /\ txOf["intent"][c] = 0)
         /\ rows \subseteq rows' /\ absent \subseteq absent' /\ rows' \cup absent' \subseteq Call
         /\ c \in rows' \cup absent' \cup deleted \cup tomb
  <2>1. rows \cup absent \subseteq Call
    BY DEF WorldInv, Types
  <2>2. CASE FirstRecord(c) /\ c \in Mediated
    <3>1. WriteRecord("intent", c) /\ txOf["intent"][c] = 0
      BY <2>2 DEF FirstRecord, WriteRecord
    <3> QED BY <1>2, <2>1, <2>2, <3>1 DEF FirstRecord
  <2>3. CASE FirstRecord(c) /\ c \notin Mediated
    <3>1. WriteRecord("decision", c)
      BY <2>3 DEF FirstRecord
    <3> QED BY <1>2, <2>1, <2>3, <3>1 DEF FirstRecord
  <2>4. CASE Completion(c)
    <3>1. WriteRecord("decision", c) /\ txOf["intent"][c] > 0 /\ c \in Mediated
          /\ UNCHANGED <<rows, absent>>
      BY <2>4 DEF Completion, content
    <3>2. c \in rows \cup absent \cup deleted \cup tomb
      BY <1>2, <3>1 DEF WorldInv, LedgerInv
    <3> QED BY <1>2, <2>1, <3>1, <3>2
  <2> QED BY <2>2, <2>3, <2>4
<1>4. c \in Call \ Old
  BY <1>3
<1>5. /\ head' \in 0 .. MaxTx /\ counter' \in Nat
      /\ txOf' \in [View -> [Call -> 0 .. MaxTx]]
      /\ index' \subseteq Rec /\ IsFiniteSet(index') /\ index \subseteq index'
      /\ \A w \in View, d \in Call : txOf[w][d] > 0 => txOf'[w][d] = txOf[w][d]
      /\ \A d \in Call : txOf["decision"][d] > 0 /\ txOf'["intent"][d] > 0
                            => txOf["intent"][d] > 0
      /\ LedgerInv' /\ PositionInv' /\ FaultInv'
  BY <1>1, <1>3, <1>4, WriteRecordFacts
<1>6. Types'
  BY <1>1, <1>3, <1>5 DEF WorldInv, Types
<1> QED BY <1>1, <1>5, <1>6 DEF WorldInv, Grows

\* A payload is erased, or its row goes some other way.
LEMMA ErasureStep ==
    ASSUME WorldInv, NEW c \in Call, WriteTombstone(c) \/ DeleteRow(c) \/ DeleteByHand(c)
    PROVE  WorldInv' /\ Grows
<1>1. UNCHANGED <<txOf, index, counter, faults, absent, displaced, pc, limit, mine, before, page,
                  hasMore, total, tombs, seek, found, entries>>
  BY DEF WriteTombstone, DeleteRow, DeleteByHand, ledger, content, request, reads
<1>2. /\ head' \in 0 .. MaxTx /\ head <= head' /\ head \in Nat
      /\ tomb \subseteq tomb' /\ deleted \subseteq deleted'
      /\ tomb' \cup rows' \cup deleted' \subseteq Call
      /\ rows \subseteq rows' \cup deleted' \cup tomb'
  BY ConstantFacts DEF WriteTombstone, DeleteRow, DeleteByHand, Commit, ledger, content, WorldInv, Types
<1>3. Types'
  BY <1>1, <1>2 DEF WorldInv, Types
<1>4. LedgerInv'
  <2>1. \A v \in View, d \in Call : txOf[v][d] \in Nat /\ txOf[v][d] <= head'
    BY <1>2 DEF WorldInv, LedgerInv, Types
  <2>2. \A v \in View, d \in Call :
           txOf[v][d] > 0 => d \in rows' \cup absent' \cup deleted' \cup tomb'
    BY <1>1, <1>2 DEF WorldInv, LedgerInv
  <2> QED BY <1>1, <2>1, <2>2 DEF WorldInv, LedgerInv
<1>5. PositionInv'
  BY <1>1 DEF WorldInv, PositionInv, TxOfRow
<1>6. FaultInv'
  <2>1. \A f \in faults : f.tx \in Nat
    BY DEF WorldInv, Types, FaultRec
  <2> QED BY <1>1, <1>2, <2>1 DEF WorldInv, FaultInv
<1> QED BY <1>1, <1>2, <1>3, <1>4, <1>5, <1>6 DEF WorldInv, Grows

\* A fault record is written.
LEMMA FaultStep ==
    ASSUME WorldInv, NEW v \in View, NEW c \in Call, WriteFault(v, c)
    PROVE  WorldInv' /\ Grows
<1>1. UNCHANGED <<txOf, index, counter, tomb, rows, absent, deleted, displaced, pc, limit, mine,
                  before, page, hasMore, total, tombs, seek, found, entries>>
  BY DEF WriteFault, content, request, reads
<1>2. head \in Nat /\ head' = head + 1 /\ head' \in 0 .. MaxTx /\ txOf[v][c] \in Nat /\ txOf[v][c] > 0
  <2>1. txOf[v][c] \in Nat
    BY TxTypes DEF WorldInv
  <2> QED BY <2>1, ConstantFacts DEF WriteFault, Commit, WorldInv, Types
<1>3. PICK form \in FaultForm : faults' = faults \cup {FaultRecord(v, c, txOf[v][c], head + 1, form)}
  BY <1>2 DEF WriteFault
<1>4. PICK f : f = FaultRecord(v, c, txOf[v][c], head + 1, form)
  OBVIOUS
<1>5. /\ f \in FaultRec /\ f.view = v /\ f.call = c /\ f.keyTx = txOf[v][c] /\ f.tx = head + 1
  BY <1>2, <1>4 DEF FaultRecord, FaultRec
<1>6. faults' = faults \cup {f}
  BY <1>3, <1>4
<1>7. faults' \subseteq FaultRec /\ IsFiniteSet(faults')
  BY <1>5, <1>6, FS_AddElement DEF WorldInv, Types
<1>8. Types'
  BY <1>1, <1>2, <1>7 DEF WorldInv, Types
<1>9. LedgerInv'
  <2>1. \A w \in View, d \in Call : txOf[w][d] \in Nat /\ txOf[w][d] <= head'
    BY <1>2 DEF WorldInv, LedgerInv, Types
  <2> QED BY <1>1, <2>1 DEF WorldInv, LedgerInv
<1>10. PositionInv'
  BY <1>1 DEF WorldInv, PositionInv, TxOfRow
<1>11. FaultInv'
  <2>1. \A g \in faults : g.tx \in Nat /\ g.tx <= head
    BY DEF WorldInv, Types, FaultRec, FaultInv
  <2>2. \A g \in faults' : g.tx <= head' /\ g.keyTx = txOf'[g.view][g.call] /\ g.keyTx > 0
    BY <1>1, <1>2, <1>5, <1>6, <2>1 DEF WorldInv, FaultInv
  <2>3. \A g, h \in faults' : g.tx = h.tx => g = h
    BY <1>2, <1>5, <1>6, <2>1 DEF WorldInv, FaultInv
  <2> QED BY <2>2, <2>3 DEF FaultInv
<1> QED BY <1>1, <1>6, <1>8, <1>9, <1>10, <1>11 DEF WorldInv, Grows

\* A record is given a second position.
LEMMA DisplaceStep ==
    ASSUME WorldInv, Displace
    PROVE  WorldInv' /\ Grows
<1>1. UNCHANGED <<head, txOf, counter, tomb, faults, rows, absent, deleted, pc, limit, mine,
                  before, page, hasMore, total, tombs, seek, found, entries>>
  BY DEF Displace, content, request, reads
<1>2. PICK m \in index : /\ m.score > Reserve
                         /\ displaced' = displaced \cup {[m EXCEPT !.score = counter + 1]}
                         /\ index' = index \cup displaced'
  BY DEF Displace
<1>3. PICK n : n = [m EXCEPT !.score = counter + 1]
  OBVIOUS
<1>4. counter \in Nat /\ m \in Rec /\ index \subseteq Rec /\ IsFiniteSet(index)
  BY DEF WorldInv, Types
<1>5. n \in Rec /\ n.view = m.view /\ n.call = m.call /\ n.score = counter + 1
  BY <1>3, <1>4 DEF Rec
<1>6. index' = index \cup {n} /\ displaced' # {} /\ displaced' \subseteq index'
  BY <1>2, <1>3 DEF WorldInv, PositionInv
<1>7. index' \subseteq Rec /\ IsFiniteSet(index')
  BY <1>4, <1>5, <1>6, FS_AddElement
<1>8. Types'
  BY <1>1, <1>7 DEF WorldInv, Types
<1>9. LedgerInv'
  <2>1. \A v \in View, c \in Call :
           (\E o \in index' : o.view = v /\ o.call = c) <=> \E o \in index : o.view = v /\ o.call = c
    BY <1>5, <1>6
  <2> QED BY <1>1, <2>1 DEF WorldInv, LedgerInv
<1>10. PositionInv'
  <2>1. m.call \notin Old
    BY <1>2, ConstantFacts DEF WorldInv, PositionInv
  <2>2. n.score > Reserve
    BY <1>4, <1>5, ConstantFacts DEF WorldInv, PositionInv
  <2> QED BY <1>1, <1>5, <1>6, <2>1, <2>2 DEF WorldInv, PositionInv
<1>11. FaultInv'
  BY <1>1 DEF WorldInv, FaultInv
<1> QED BY <1>1, <1>6, <1>8, <1>9, <1>10, <1>11 DEF WorldInv, Grows

-----------------------------------------------------------------------------
(* What the request has read outlives what happens beside it.              *)

\* The members of two histories, one after the other.
LEMMA JoinFacts ==
    ASSUME NEW S, NEW d \in Seq(S), NEW e \in Seq(S)
    PROVE  /\ d \o e \in Seq(S) /\ Len(d \o e) = Len(d) + Len(e)
           /\ Len(d) \in Nat /\ Len(e) \in Nat
           /\ \A i \in 1 .. Len(d) : (d \o e)[i] = d[i]
           /\ \A i \in 1 .. Len(e) : (d \o e)[Len(d) + i] = e[i]
           /\ \A i \in 1 .. Len(d) + Len(e) :
                 i \in 1 .. Len(d) \/ \E j \in 1 .. Len(e) : i = Len(d) + j
<1>1. Len(d) \in Nat /\ Len(e) \in Nat
  OBVIOUS
<1>2. d \o e \in Seq(S) /\ Len(d \o e) = Len(d) + Len(e)
  OBVIOUS
<1>3. \A i \in 1 .. Len(d) : (d \o e)[i] = d[i]
  OBVIOUS
<1>4. \A i \in 1 .. Len(e) : (d \o e)[Len(d) + i] = e[i]
  OBVIOUS
<1>5. ASSUME NEW i \in 1 .. Len(d) + Len(e), i \notin 1 .. Len(d)
      PROVE  \E j \in 1 .. Len(e) : i = Len(d) + j
  <2>1. i - Len(d) \in 1 .. Len(e) /\ i = Len(d) + (i - Len(d))
    BY <1>1, <1>5
  <2> QED BY <2>1
<1> QED BY <1>1, <1>2, <1>3, <1>4, <1>5

\* The calls of a page, by place.
LEMMA PlacesOfCalls ==
    ASSUME NEW p \in Seq(Rec)
    PROVE  \A c : c \in {m.call : m \in ToSet(p)} <=> \E i \in 1 .. Len(p) : p[i].call = c
<1>1. DOMAIN p = 1 .. Len(p)
  OBVIOUS
<1> QED BY <1>1 DEF ToSet

\* CallsOf, by place.
LEMMA CallsFacts ==
    ASSUME Types, NEW v \in View
    PROVE  \A c : c \in CallsOf(v) <=> \E i \in 1 .. Len(page[v]) : page[v][i].call = c
<1>1. page[v] \in Seq(Rec)
  BY DEF Types
<1> QED BY <1>1, PlacesOfCalls DEF CallsOf

\* The transactions of a page, by place.
TxsOf(T, P) == {T[m.view][m.call] : m \in ToSet(P["decision"] \o P["intent"])}

\* Those that are at one of its rows.
LEMMA PlacesOfTxs ==
    ASSUME NEW T, NEW P \in [View -> Seq(Rec)],
           NEW U, U = TxsOf(T, P)
    PROVE  \A t : t \in U <=>
                  \E v \in View : \E i \in 1 .. Len(P[v]) : T[P[v][i].view][P[v][i].call] = t
<1>1. PICK d \in Seq(Rec), e \in Seq(Rec) : d = P["decision"] /\ e = P["intent"]
  <2>1. P["decision"] \in Seq(Rec) /\ P["intent"] \in Seq(Rec)
    BY ConstantFacts
  <2> QED BY <2>1
<1>2. PICK s : s = d \o e
  OBVIOUS
<1>3. /\ s \in Seq(Rec) /\ Len(s) = Len(d) + Len(e)
      /\ Len(d) \in Nat /\ Len(e) \in Nat
      /\ \A i \in 1 .. Len(d) : s[i] = d[i]
      /\ \A i \in 1 .. Len(e) : s[Len(d) + i] = e[i]
      /\ \A i \in 1 .. Len(d) + Len(e) :
            i \in 1 .. Len(d) \/ \E j \in 1 .. Len(e) : i = Len(d) + j
  BY ONLY <1>2, d \in Seq(Rec), e \in Seq(Rec), JoinFacts
<1>4. \A x : x \in ToSet(s) <=> \/ \E i \in 1 .. Len(d) : d[i] = x
                                \/ \E i \in 1 .. Len(e) : e[i] = x
  <2>1. DOMAIN s = 1 .. Len(d) + Len(e)
    BY ONLY <1>3
  <2>2. ToSet(s) = {s[i] : i \in 1 .. Len(d) + Len(e)}
    BY ONLY <2>1 DEF ToSet
  <2>3. ASSUME NEW i \in 1 .. Len(d) + Len(e)
        PROVE  \/ \E j \in 1 .. Len(d) : d[j] = s[i]
               \/ \E j \in 1 .. Len(e) : e[j] = s[i]
    BY ONLY <1>3, i \in 1 .. Len(d) + Len(e)
  <2>4. ASSUME NEW i \in 1 .. Len(d) PROVE d[i] \in ToSet(s)
    <3>1. i \in 1 .. Len(d) + Len(e)
      BY ONLY <1>3, i \in 1 .. Len(d)
    <3> QED BY ONLY <1>3, <2>2, <3>1, i \in 1 .. Len(d)
  <2>5. ASSUME NEW i \in 1 .. Len(e) PROVE e[i] \in ToSet(s)
    <3>1. Len(d) + i \in 1 .. Len(d) + Len(e) /\ s[Len(d) + i] = e[i]
      BY ONLY <1>3, i \in 1 .. Len(e)
    <3> QED BY ONLY <2>2, <3>1
  <2> QED BY ONLY <2>2, <2>3, <2>4, <2>5
<1>5. \A t : (\E v \in View : \E i \in 1 .. Len(P[v]) : T[P[v][i].view][P[v][i].call] = t)
             <=> \/ \E i \in 1 .. Len(d) : T[d[i].view][d[i].call] = t
                 \/ \E i \in 1 .. Len(e) : T[e[i].view][e[i].call] = t
  BY <1>1, ConstantFacts
<1>6. \A t : t \in U
             <=> \/ \E i \in 1 .. Len(d) : T[d[i].view][d[i].call] = t
                 \/ \E i \in 1 .. Len(e) : T[e[i].view][e[i].call] = t
  <2>1. PICK M : M = ToSet(s)
    OBVIOUS
  <2>2. \A x : x \in M <=> \/ \E i \in 1 .. Len(d) : d[i] = x
                           \/ \E i \in 1 .. Len(e) : e[i] = x
    BY ONLY <1>4, <2>1
  <2>3. U = {T[m.view][m.call] : m \in M}
    BY <1>1, <1>2, <2>1 DEF TxsOf
  <2>4. \A t : t \in U <=> \E m \in M : T[m.view][m.call] = t
    BY ONLY <2>3
  <2>5. ASSUME NEW t \in U
        PROVE  \/ \E i \in 1 .. Len(d) : T[d[i].view][d[i].call] = t
               \/ \E i \in 1 .. Len(e) : T[e[i].view][e[i].call] = t
    <3>1. PICK m \in M : T[m.view][m.call] = t
      BY <2>4
    <3> QED BY ONLY <2>2, <3>1, m \in M
  <2>6. ASSUME NEW i \in 1 .. Len(d) PROVE T[d[i].view][d[i].call] \in U
    BY ONLY <2>2, <2>4, i \in 1 .. Len(d)
  <2>7. ASSUME NEW i \in 1 .. Len(e) PROVE T[e[i].view][e[i].call] \in U
    BY ONLY <2>2, <2>4, i \in 1 .. Len(e)
  <2> QED BY ONLY <2>5, <2>6, <2>7
<1> QED BY ONLY <1>5, <1>6

\* PageTxs, by place.
LEMMA PageTxsFacts ==
    ASSUME Types
    PROVE  \A t : t \in PageTxs <=> \E v \in View : \E i \in 1 .. Len(page[v]) : TxOfRow(page[v][i]) = t
<1>1. PICK T, U : T = txOf /\ U = PageTxs
  OBVIOUS
<1>5. PICK P \in [View -> Seq(Rec)] : P = page
  BY DEF Types
<1>2. U = TxsOf(T, P)
  BY <1>1, <1>5 DEF PageTxs, TxOfRow, TxsOf
<1>3. \A t : t \in U <=>
         \E v \in View : \E i \in 1 .. Len(P[v]) : T[P[v][i].view][P[v][i].call] = t
  BY ONLY <1>2, P \in [View -> Seq(Rec)], PlacesOfTxs
<1> QED BY <1>1, <1>3, <1>5 DEF TxOfRow

\* The rows of a page are records of the ledger.
LEMMA RowFacts ==
    ASSUME WorldInv, PageInv, NEW v \in View, NEW i \in 1 .. Len(page[v])
    PROVE  /\ page[v][i] \in Rec /\ page[v][i] \in index /\ page[v][i].view = v
           /\ page[v][i].call \in Call /\ page[v][i].score \in Nat
           /\ TxOfRow(page[v][i]) = txOf[v][page[v][i].call]
           /\ TxOfRow(page[v][i]) \in Nat /\ TxOfRow(page[v][i]) > 0
<1>1. page[v][i] \in index /\ page[v][i].view = v
  BY DEF PageInv, IsScan
<1>2. page[v][i] \in Rec /\ page[v][i].call \in Call /\ page[v][i].score \in Nat
  BY <1>1 DEF WorldInv, Types, Rec
<1>3. txOf[v][page[v][i].call] \in Nat
  BY <1>2, TxTypes DEF WorldInv
<1>4. txOf[v][page[v][i].call] > 0
  BY <1>1, <1>2 DEF WorldInv, LedgerInv
<1> QED BY <1>1, <1>2, <1>3, <1>4 DEF TxOfRow

\* They keep their transactions.
LEMMA RowsKept ==
    ASSUME WorldInv, PageInv, Grows, NEW v \in View, NEW i \in 1 .. Len(page[v])
    PROVE  TxOfRow(page[v][i])' = TxOfRow(page[v][i])
<1>1. /\ page[v][i].call \in Call /\ page[v][i].view = v
      /\ TxOfRow(page[v][i]) = txOf[v][page[v][i].call] /\ TxOfRow(page[v][i]) > 0
  BY RowFacts
<1>2. txOf'[v][page[v][i].call] = txOf[v][page[v][i].call] /\ page' = page
  BY <1>1 DEF Grows
<1> QED BY <1>1, <1>2 DEF TxOfRow

\* The page stays a page of the ledger's rows, at their transactions.
LEMMA GrowPage ==
    ASSUME WorldInv, WorldInv', PageInv, Grows
    PROVE  PageInv' /\ PageTxs' = PageTxs
<1>1. PageInv'
  BY DEF PageInv, IsScan, Grows
<1>2. \A t : t \in PageTxs' <=> t \in PageTxs
  <2>1. page \in [View -> Seq(Rec)] /\ page' = page
    BY DEF Grows, WorldInv, Types
  <2>2. \A t : t \in PageTxs' <=> \E v \in View : \E i \in 1 .. Len(page[v]) :
                                     txOf'[page[v][i].view][page[v][i].call] = t
    <3>1. PICK T, U : T = txOf' /\ U = PageTxs'
      OBVIOUS
    <3>2. PICK P \in [View -> Seq(Rec)] : P = page
      BY <2>1
    <3>3. U = TxsOf(T, P)
      BY <2>1, <3>1, <3>2 DEF PageTxs, TxOfRow, TxsOf
    <3>4. \A t : t \in U <=>
             \E v \in View : \E i \in 1 .. Len(P[v]) : T[P[v][i].view][P[v][i].call] = t
      BY ONLY <3>3, P \in [View -> Seq(Rec)], PlacesOfTxs
    <3> QED BY <3>1, <3>2, <3>4
  <2>3. \A v \in View : \A i \in 1 .. Len(page[v]) :
           txOf'[page[v][i].view][page[v][i].call] = TxOfRow(page[v][i])
    BY <2>1, RowsKept DEF TxOfRow
  <2>4. \A t : t \in PageTxs <=> \E v \in View : \E i \in 1 .. Len(page[v]) :
                                    TxOfRow(page[v][i]) = t
    BY PageTxsFacts DEF WorldInv
  <2> QED BY ONLY <2>2, <2>3, <2>4
<1>3. PageTxs' = PageTxs
  <2>1. PageTxs = {t \in PageTxs : TRUE} /\ PageTxs' = {t \in PageTxs' : TRUE}
    BY DEF PageTxs
  <2> QED BY <1>2, <2>1
<1> QED BY <1>1, <1>3

\* Nor does it disturb what is known of its rows.
LEMMA GrowReads ==
    ASSUME IInv, WorldInv', Grows
    PROVE  BeforeInv' /\ ScanInv' /\ ReadInv'
<1>1. PageTxs' = PageTxs
  BY GrowPage DEF IInv, WorldInv
<1>2. UNCHANGED <<pc, limit, mine, before, page, hasMore, total, tombs, seek, found, entries>>
  BY DEF Grows
<1>3. BeforeInv'
  BY <1>2 DEF IInv, BeforeInv, Grows
<1>4. ASSUME NEW c \in CallsOf("decision"), txOf'["intent"][c] > 0 PROVE txOf["intent"][c] > 0
  <2>1. PICK i \in 1 .. Len(page["decision"]) : page["decision"][i].call = c
    BY CallsFacts, ConstantFacts DEF IInv
  <2>2. c \in Call /\ txOf["decision"][c] > 0
    BY <2>1, RowFacts, ConstantFacts DEF IInv, WorldInv
  <2> QED BY <1>4, <2>2 DEF Grows
<1>5. ASSUME NEW v \in View, InOrder(page[v]) PROVE InOrder(page[v])'
  <2>1. \A i \in 1 .. Len(page[v]) : TxOfRow(page[v][i])' = TxOfRow(page[v][i])
    BY RowsKept DEF IInv, WorldInv
  <2> QED BY <1>2, <1>5, <2>1 DEF InOrder
<1>6. ScanInv'
  <2>1. ScanLimit' = ScanLimit /\ \A v : CallsOf(v)' = CallsOf(v)
    BY <1>2 DEF ScanLimit, CallsOf
  <2>2. displaced' = {} => displaced = {}
    BY DEF Grows
  <2>3. \A v \in View : Whole(page[v], v) => Whole(page[v], v)'
    BY <1>2 DEF Whole
  <2>4. ScanInv
    BY DEF IInv
  <2>5. pc' = "scan2" /\ Len(page'["decision"]) < ScanLimit' => Whole(page["decision"], "decision")'
    BY <1>2, <2>1, <2>3, <2>4, ConstantFacts DEF ScanInv
  <2>6. ASSUME pc' \in Scanned, ~hasMore'
        PROVE  /\ \A v \in View : Whole(page[v], v)'
               /\ \A c \in CallsOf("decision") : txOf'["intent"][c] > 0 => c \in CallsOf("intent")
               /\ mine' = Reserve => \A v \in View : InOrder(page[v])'
    BY <1>2, <1>4, <1>5, <2>3, <2>4, <2>6 DEF ScanInv
  <2>7. pc' \in Scanned \ {"count"} /\ displaced' = {} => Len(page'["decision"]) <= total'
    BY <1>2, <2>2, <2>4 DEF ScanInv
  <2> QED BY <2>1, <2>5, <2>6, <2>7 DEF ScanInv, Scanned
<1>7. ReadInv'
  <2>1. PageCallIds' = PageCallIds
    BY <1>2 DEF PageCallIds, CallsOf
  <2>2. \A f : Past(f)' <=> Past(f)
    BY <1>2 DEF Past
  <2>3. tomb \subseteq tomb' /\ faults \subseteq faults'
    BY DEF Grows
  <2>4. ReadInv
    BY DEF IInv
  <2> QED BY <1>1, <1>2, <2>1, <2>2, <2>3, <2>4 DEF ReadInv
<1> QED BY <1>3, <1>6, <1>7

\* The orphans of a page.
OrphansOf(P) ==
    LET at == Sorted({i \in DOMAIN P["intent"] :
                         P["intent"][i].call \notin {m.call : m \in ToSet(P["decision"])}},
                     LAMBDA i, j : i < j)
    IN  [n \in DOMAIN at |-> P["intent"][at[n]]]

\* A row of the response stays true.
LEMMA GrowEntries ==
    ASSUME IInv, WorldInv', Grows
    PROVE  EntriesInv'
<1>1. UNCHANGED <<pc, before, page, entries>>
  BY DEF Grows
<1>2. Orphans' = Orphans /\ \A v : CallsOf(v)' = CallsOf(v)
  <2>1. \A v : CallsOf(v)' = CallsOf(v)
    BY <1>1 DEF CallsOf
  <2>2. Orphans' = OrphansOf(page') /\ Orphans = OrphansOf(page)
    BY DEF Orphans, OrphansOf, CallsOf, Sorted
  <2> QED BY <1>1, <2>1, <2>2
<1>3. EntriesInv
  BY DEF IInv
<1>4. ASSUME NEW e, EntryTrue(e), e.fault.count \in Nat PROVE EntryTrue(e)'
  <2>1. before' = before /\ deleted \subseteq deleted' /\ tomb \subseteq tomb'
    BY DEF Grows
  <2>2. PICK A, B : A = Genuine(faults, e) /\ B = Genuine(faults', e)
    OBVIOUS
  <2>3. A \in SUBSET B /\ IsFiniteSet(B) /\ B \in SUBSET faults'
    <3>1. A \in SUBSET B /\ B \in SUBSET faults'
      BY <2>2 DEF Genuine, Grows
    <3>2. IsFiniteSet(faults')
      BY DEF WorldInv, Types
    <3> QED BY ONLY <3>1, <3>2, FS_Subset
  <2>4. Cardinality(A) <= Cardinality(B) /\ Cardinality(A) \in Nat /\ Cardinality(B) \in Nat
    <3>1. IsFiniteSet(A) /\ Cardinality(A) <= Cardinality(B)
      BY ONLY <2>3, FS_Subset
    <3> QED BY ONLY <2>3, <3>1, FS_CardinalityType
  <2>5. PICK b : b = Cardinality(Genuine(before.faults, e))
    OBVIOUS
  <2>6. e.fault.count \in b .. Cardinality(A)
    BY <1>4, <2>2, <2>5 DEF EntryTrue
  <2>7. e.fault.count \in b .. Cardinality(B)
    BY <1>4, <2>4, <2>6
  <2>8. e.fault.count \in Cardinality(Genuine(before.faults, e)) .. Cardinality(Genuine(faults, e)')
    <3>1. B = Genuine(faults, e)'
      BY <2>2 DEF Genuine
    <3> QED BY <2>5, <2>7, <3>1
  <2>9. e.payload = "lost" => e.call \in deleted' \/ e.call \in tomb' \ before.tomb
    BY <1>4, <2>1 DEF EntryTrue
  <2>10. /\ e.execution \in {"completed", "unknown", "n/a"}
         /\ e.payload \in PayloadStates
         /\ e.verification \in Verifications \cup {"asserted"}
         /\ e.payload = "present" => e.call \notin before.tomb
         /\ \A f \in Genuine(before.faults, e) : f.tx <= e.fault.newest
    BY <1>4 DEF EntryTrue
  <2>11. Genuine(before.faults, e)' = Genuine(before.faults, e)
    BY <2>1 DEF Genuine
  <2> QED BY <2>1, <2>8, <2>9, <2>10, <2>11 DEF EntryTrue
<1>5. ASSUME NEW i \in 1 .. Len(entries) PROVE EntryTrue(entries[i])' /\ EntryOf(entries[i], i)'
  <2>1. PICK e : e = entries[i]
    OBVIOUS
  <2>2. EntryTrue(e) /\ EntryOf(e, i) /\ e.fault.count \in Nat
    <3>1. entries \in Seq(Response)
      BY <1>3 DEF EntriesInv
    <3>2. e \in Response
      BY <2>1, <3>1, Members
    <3>3. e.fault.count \in Nat
      BY <3>2 DEF Response
    <3> QED BY <1>3, <2>1, <3>3 DEF EntriesInv
  <2>3. EntryTrue(e)'
    BY <1>4, <2>2
  <2>4. EntryOf(e, i)'
    BY <1>1, <1>2, <2>2 DEF EntryOf
  <2> QED BY <1>1, <2>1, <2>3, <2>4
<1> QED BY <1>1, <1>2, <1>3, <1>5 DEF EntriesInv

-----------------------------------------------------------------------------
(* The steps of the request.                                               *)

\* What a step of the request leaves of the ledger.
LEMMA WorldKept ==
    ASSUME WorldInv, UNCHANGED world
    PROVE  /\ LedgerInv' /\ PositionInv' /\ FaultInv'
           /\ \A v \in View, c \in Call : txOf'[v][c] = txOf[v][c]
           /\ UNCHANGED <<head, txOf, index, counter, tomb, faults, rows, absent, deleted, displaced>>
<1>1. UNCHANGED <<head, txOf, index, counter, tomb, faults, rows, absent, deleted, displaced>>
  BY DEF world, ledger, content
<1>2. LedgerInv'
  BY <1>1 DEF WorldInv, LedgerInv
<1>3. PositionInv'
  BY <1>1 DEF WorldInv, PositionInv, TxOfRow
<1>4. FaultInv'
  BY <1>1 DEF WorldInv, FaultInv
<1> QED BY <1>1, <1>2, <1>3, <1>4

\* A step that reads no view.
LEMMA PageKept ==
    ASSUME IInv, UNCHANGED <<world, limit, mine, before, page, hasMore>>, pc' # "scan2",
           pc' \in Scanned => pc \in Scanned,
           pc' \in Scanned \ {"count"} /\ displaced = {} => Len(page["decision"]) <= total'
    PROVE  /\ LedgerInv' /\ PositionInv' /\ FaultInv' /\ BeforeInv' /\ PageInv' /\ ScanInv'
           /\ PageTxs' = PageTxs /\ PageCallIds' = PageCallIds /\ Orphans' = Orphans
           /\ \A v : CallsOf(v)' = CallsOf(v)
<1>1. LedgerInv' /\ PositionInv' /\ FaultInv'
      /\ UNCHANGED <<head, txOf, index, counter, tomb, faults, rows, absent, deleted, displaced>>
  BY WorldKept DEF IInv, WorldInv
<1>2. BeforeInv'
  BY <1>1 DEF IInv, BeforeInv
<1>3. PageInv'
  BY <1>1 DEF IInv, PageInv, IsScan
<1>4. PageTxs' = PageTxs /\ PageCallIds' = PageCallIds /\ \A v : CallsOf(v)' = CallsOf(v)
  BY <1>1 DEF PageTxs, PageCallIds, CallsOf, TxOfRow
<1>5. Orphans' = Orphans
  <2>1. Orphans' = OrphansOf(page') /\ Orphans = OrphansOf(page)
    BY DEF Orphans, OrphansOf, CallsOf, Sorted
  <2> QED BY <2>1
<1>6. ScanInv'
  <2>1. \A v \in View : (Whole(page[v], v) => Whole(page[v], v)') /\ (InOrder(page[v]) => InOrder(page[v])')
    BY <1>1 DEF Whole, InOrder, TxOfRow
  <2>2. ScanInv
    BY DEF IInv
  <2>3. ASSUME pc' \in Scanned, ~hasMore'
        PROVE  /\ \A v \in View : Whole(page[v], v)'
               /\ \A c \in CallsOf("decision") : txOf'["intent"][c] > 0 => c \in CallsOf("intent")
               /\ mine' = Reserve => \A v \in View : InOrder(page[v])'
    BY <1>1, <2>1, <2>2, <2>3 DEF ScanInv
  <2> QED BY <1>1, <1>4, <2>3 DEF ScanInv, Scanned
<1> QED BY <1>1, <1>2, <1>3, <1>4, <1>5, <1>6

\* The request arrives.
LEMMA BeginStep ==
    ASSUME IInv, Begin
    PROVE  IInv'
<1>1. UNCHANGED <<world, page, hasMore, total, tombs, seek, found, entries>> /\ pc = "idle"
      /\ pc' \in {"refused", "scan1"}
  BY DEF Begin, Goto, reads
<1>2. LedgerInv' /\ PositionInv' /\ FaultInv'
      /\ UNCHANGED <<head, txOf, index, counter, tomb, faults, rows, absent, deleted, displaced>>
  BY <1>1, WorldKept DEF IInv, WorldInv
<1>3. limit' \in Int /\ mine' \in Nat \ {0}
  BY ConstantFacts DEF Begin
<1>4. Types'
  BY <1>1, <1>2, <1>3 DEF IInv, Types, Labels
<1>5. BeforeInv'
  <2>1. /\ before'.index = index /\ before'.tomb = tomb /\ before'.faults = faults
        /\ before'.done = {c \in Call : txOf["decision"][c] > 0}
    BY DEF Begin
  <2>2. \A c \in before'.done : \E m \in index : m.view = "decision" /\ m.call = c
    BY <2>1, ConstantFacts DEF IInv, LedgerInv
  <2> QED BY <1>2, <2>1, <2>2 DEF BeforeInv
<1>6. PageInv'
  BY <1>1, <1>2 DEF IInv, PageInv, IsScan
<1>7. ScanInv'
  BY <1>1 DEF ScanInv, Scanned
<1>8. ReadInv'
  BY <1>1, <1>2 DEF IInv, ReadInv
<1>9. EntriesInv'
  <2>1. entries' = <<>>
    BY <1>1 DEF IInv, EntriesInv
  <2> QED BY <1>1, <2>1 DEF EntriesInv
<1> QED BY <1>2, <1>4, <1>5, <1>6, <1>7, <1>8, <1>9 DEF IInv

\* A request to the ledger fails.
LEMMA FailStep ==
    ASSUME IInv, LedgerFails
    PROVE  IInv'
<1>1. UNCHANGED <<world, limit, mine, before, page, hasMore, total, tombs, seek, found, entries>>
      /\ pc' = "refused" /\ pc \notin {"rows", "served"}
  BY DEF LedgerFails, Goto, reads, request
<1>2. /\ LedgerInv' /\ PositionInv' /\ FaultInv' /\ BeforeInv' /\ PageInv' /\ ScanInv'
  BY <1>1, PageKept DEF Scanned
<1>3. UNCHANGED <<head, txOf, index, counter, tomb, faults, rows, absent, deleted, displaced>>
  BY <1>1 DEF world, ledger, content
<1>4. Types'
  BY <1>1, <1>3 DEF IInv, Types, Labels
<1>5. ReadInv'
  BY <1>1, <1>3 DEF IInv, ReadInv
<1>6. EntriesInv'
  <2>1. entries' = <<>>
    BY <1>1 DEF IInv, EntriesInv
  <2> QED BY <1>1, <2>1 DEF EntriesInv
<1> QED BY <1>2, <1>4, <1>5, <1>6 DEF IInv

\* The decision view is read.
LEMMA Scan1Step ==
    ASSUME IInv, Scan1
    PROVE  IInv'
<1>1. UNCHANGED <<world, limit, mine, before, hasMore, total, tombs, seek, found, entries>>
      /\ pc = "scan1" /\ pc' = "scan2"
  BY DEF Scan1, Goto, request
<1>2. LedgerInv' /\ PositionInv' /\ FaultInv'
      /\ UNCHANGED <<head, txOf, index, counter, tomb, faults, rows, absent, deleted, displaced>>
  BY <1>1, WorldKept DEF IInv, WorldInv
<1>3. PICK z : z = ZscanView("decision")
  OBVIOUS
<1>4. page' = [page EXCEPT !["decision"] = z]
  BY <1>3 DEF Scan1, ScanOrder
<1>5. "decision" \in View /\ "intent" \in View
  BY ConstantFacts
<1>6. /\ z \in Seq(Rec) /\ IsScan(z, "decision") /\ Len(z) <= ScanLimit
      /\ Len(z) < ScanLimit =>
            \A m \in index : m.view = "decision" => \E i \in 1 .. Len(z) : z[i] = m
  BY <1>3, <1>5, ZscanFacts DEF IInv
<1>7. /\ page \in [View -> Seq(Rec)] /\ page' \in [View -> Seq(Rec)]
      /\ page'["decision"] = z /\ \A v \in View \ {"decision"} : page'[v] = page[v]
  BY <1>4, <1>5, <1>6 DEF IInv, Types
<1>8. Types'
  BY <1>1, <1>2, <1>7 DEF IInv, Types, Labels
<1>9. PageInv'
  <2>1. ASSUME NEW v \in View PROVE IsScan(page'[v], v)
    BY <1>6, <1>7 DEF IInv, PageInv
  <2> QED BY <1>2, <2>1 DEF PageInv, IsScan
<1>10. BeforeInv'
  BY <1>1, <1>2 DEF IInv, BeforeInv
<1>11. ScanInv'
  <2>1. ScanLimit' = ScanLimit
    BY <1>1 DEF ScanLimit
  <2>2. Len(z) < ScanLimit => Whole(z, "decision")
    BY <1>6 DEF Whole, IInv, BeforeInv
  <2>3. Whole(z, "decision") => Whole(page["decision"], "decision")'
    BY <1>1, <1>7 DEF Whole
  <2> QED BY <1>1, <1>7, <2>1, <2>2, <2>3 DEF ScanInv, Scanned
<1>12. ReadInv'
  BY <1>1, <1>2 DEF IInv, ReadInv
<1>13. EntriesInv'
  <2>1. entries' = <<>>
    BY <1>1 DEF IInv, EntriesInv
  <2> QED BY <1>1, <2>1 DEF EntriesInv
<1> QED BY <1>2, <1>8, <1>9, <1>10, <1>11, <1>12, <1>13 DEF IInv

\* A scan whose neighbours agree is in order throughout: where a row is
\* allocated, every row above it is.
LEMMA AgreedIsInOrder ==
    ASSUME WorldInv, mine = Reserve, NEW v \in View, NEW p \in Seq(Rec), IsScan(p, v), ~Disagrees(p)
    PROVE  InOrder(p)
<1>1. Reserve \in Nat /\ Len(p) \in Nat /\ DOMAIN p = 1 .. Len(p)
  BY ConstantFacts
<1>2. \A i \in 1 .. Len(p) : p[i].score \in Nat /\ p[i].call \in Nat /\ TxOfRow(p[i]) \in Nat
  <2>1. SUFFICES ASSUME NEW i \in 1 .. Len(p)
                 PROVE  p[i].score \in Nat /\ p[i].call \in Nat /\ TxOfRow(p[i]) \in Nat
    OBVIOUS
  <2>2. p[i] \in Rec
    BY Members
  <2>3. p[i].score \in Nat /\ p[i].call \in Call /\ p[i].view \in View
    BY <2>2 DEF Rec
  <2> QED BY <2>3, ConstantFacts, TxTypes DEF TxOfRow, WorldInv
<1>3. Allocated(p) = {i \in 1 .. Len(p) : p[i].score >= Reserve + 1}
  BY <1>1 DEF Allocated, FirstAllocated
<1>4. SUFFICES ASSUME NEW i \in 1 .. Len(p), NEW j \in 1 .. Len(p), i < j, p[j].score > Reserve
               PROVE  p[i].score > p[j].score /\ TxOfRow(p[i]) > TxOfRow(p[j])
  BY DEF InOrder
<1>5. ASSUME NEW k \in 1 .. j PROVE k \in Allocated(p)
  <2>1. k \in 1 .. Len(p) /\ (k < j \/ k = j)
    BY <1>1
  <2>2. k < j => Descends(p[k], p[j])
    BY <2>1 DEF IsScan
  <2>3. p[k].score >= p[j].score
    BY <1>2, <2>1, <2>2 DEF Descends
  <2> QED BY <1>1, <1>2, <1>3, <1>4, <2>1, <2>3
<1>6. ASSUME NEW k \in 1 .. j, k + 1 <= j
      PROVE  p[k].score > p[k + 1].score /\ TxOfRow(p[k]) > TxOfRow(p[k + 1])
  <2>1. k \in Allocated(p) /\ k + 1 \in Allocated(p)
    BY <1>1, <1>5, <1>6
  <2>2. Neighbours(k, k + 1, p)
    BY <1>1, <1>3 DEF Neighbours
  <2> QED BY <2>1, <2>2 DEF Disagrees
<1>7. PICK B : B = {k \in i + 1 .. j : ~(p[i].score > p[k].score /\ TxOfRow(p[i]) > TxOfRow(p[k]))}
  OBVIOUS
<1>8. B = {}
  <2>1. SUFFICES ASSUME B # {} PROVE FALSE
    OBVIOUS
  <2>2. B \subseteq Nat
    BY <1>1, <1>7
  <2>3. PICK k \in B : \A y \in B : k <= y
    BY ONLY <2>1, <2>2, Least
  <2>4. k \in i + 1 .. j /\ i \in 1 .. j /\ i + 1 <= j
    BY <1>1, <1>4, <1>7
  <2>5. CASE k = i + 1
    BY <1>6, <1>7, <2>4, <2>5
  <2>6. CASE k # i + 1
    <3>1. PICK h : h = k - 1
      OBVIOUS
    <3>2. h \in i + 1 .. j /\ h \in 1 .. j /\ h + 1 = k /\ ~(k <= h) /\ h \in 1 .. Len(p) /\ k \in 1 .. Len(p)
      BY <1>1, <2>4, <2>6, <3>1
    <3>3. h \notin B
      BY <2>3, <3>2
    <3>4. p[i].score > p[h].score /\ TxOfRow(p[i]) > TxOfRow(p[h])
      BY <1>7, <3>2, <3>3
    <3>5. p[h].score > p[k].score /\ TxOfRow(p[h]) > TxOfRow(p[k])
      <4>1. h + 1 <= j
        BY <2>4, <3>2
      <4> QED BY <1>6, <3>2, <4>1
    <3>6. p[i].score > p[k].score /\ TxOfRow(p[i]) > TxOfRow(p[k])
      BY <1>2, <3>2, <3>4, <3>5
    <3> QED BY <1>7, <3>6
  <2> QED BY <2>5, <2>6
<1>9. j \in i + 1 .. j
  BY <1>1, <1>4
<1> QED BY <1>7, <1>8, <1>9

\* A scan no longer than the page is the page.
LEMMA UncutPage ==
    ASSUME NEW p \in Seq(Rec), NEW n \in Nat, Len(p) <= n
    PROVE  AtMost(p, n) = p
<1>1. PICK q : q = AtMost(p, n)
  OBVIOUS
<1>2. /\ q \in Seq(Rec) /\ Len(q) \in Nat /\ Len(p) \in Nat /\ Len(q) <= n /\ Len(q) <= Len(p)
      /\ \A i \in 1 .. Len(q) : q[i] = p[i]
      /\ Len(q) < n => Len(q) = Len(p)
  BY <1>1, AtMostFacts
<1>3. Len(q) = Len(p)
  BY <1>2
<1>4. p = q
  BY ONLY <1>2, <1>3, p \in Seq(Rec), Equal
<1> QED BY <1>1, <1>4

\* The intent view is read, and the page cut from the two.
LEMMA Scan2Step ==
    ASSUME IInv, Scan2
    PROVE  IInv'
<1>1. UNCHANGED <<world, limit, mine, before, total, tombs, seek, found, entries>>
      /\ pc = "scan2" /\ pc' \in {"refused", "count"}
  BY DEF Scan2, Goto, request
<1>2. LedgerInv' /\ PositionInv' /\ FaultInv'
      /\ UNCHANGED <<head, txOf, index, counter, tomb, faults, rows, absent, deleted, displaced>>
  BY <1>1, WorldKept DEF IInv, WorldInv
<1>3. PICK z : z = ZscanView("intent")
  OBVIOUS
<1>4. PICK scans : scans = [page EXCEPT !["intent"] = z]
  OBVIOUS
<1>5. "decision" \in View /\ "intent" \in View
  BY ConstantFacts
<1>6. /\ z \in Seq(Rec) /\ IsScan(z, "intent") /\ Len(z) <= ScanLimit
      /\ Len(z) < ScanLimit =>
            \A m \in index : m.view = "intent" => \E i \in 1 .. Len(z) : z[i] = m
  BY <1>3, <1>5, ZscanFacts DEF IInv
<1>7. /\ page \in [View -> Seq(Rec)] /\ scans \in [View -> Seq(Rec)]
      /\ scans["intent"] = z /\ \A v \in View \ {"intent"} : scans[v] = page[v]
  BY <1>4, <1>5, <1>6 DEF IInv, Types
<1>8. \A v \in View : scans[v] \in Seq(Rec) /\ IsScan(scans[v], v)
  BY <1>6, <1>7 DEF IInv, PageInv
<1>9. \/ /\ pc' = "refused" /\ UNCHANGED <<page, hasMore>>
      \/ /\ pc' = "count" /\ \A v \in View : ~Disagrees(scans[v])
         /\ hasMore' = (\E v \in View : Len(scans[v]) > PageLimit)
         /\ page' = [v \in View |-> AtMost(scans[v], PageLimit)]
  BY <1>3, <1>4 DEF Scan2, ScanOrder, Goto
<1>10. PageLimit \in Nat /\ ScanLimit \in Nat /\ PageLimit < ScanLimit
  BY LimitFacts DEF IInv
<1>11. page' \in [View -> Seq(Rec)] /\ \A v \in View : IsScan(page'[v], v)
  <2>1. CASE page' = page
    BY <1>7, <2>1 DEF IInv, PageInv
  <2>2. CASE page' = [v \in View |-> AtMost(scans[v], PageLimit)]
    <3>1. \A v \in View : AtMost(scans[v], PageLimit) \in Seq(Rec) /\ IsScan(AtMost(scans[v], PageLimit), v)
      BY <1>8, <1>10, CutScan
    <3> QED BY <2>2, <3>1
  <2> QED BY <1>9, <2>1, <2>2
<1>12. Types'
  BY <1>1, <1>2, <1>11 DEF IInv, Types, Labels
<1>13. PageInv'
  BY <1>2, <1>11 DEF PageInv, IsScan
<1>14. BeforeInv'
  BY <1>1, <1>2 DEF IInv, BeforeInv
<1>15. ASSUME pc' = "count", ~hasMore'
       PROVE  /\ \A v \in View : Whole(page[v], v)'
              /\ \A c \in CallsOf("decision")' : txOf'["intent"][c] > 0 => c \in CallsOf("intent")'
              /\ mine' = Reserve => \A v \in View : InOrder(page[v])'
  <2>1. \A v \in View : ~Disagrees(scans[v]) /\ Len(scans[v]) <= PageLimit /\ page'[v] = scans[v]
                        /\ Len(scans[v]) \in Nat
    <3>1. /\ \A v \in View : ~Disagrees(scans[v])
          /\ \A v \in View : ~(Len(scans[v]) > PageLimit)
          /\ page' = [v \in View |-> AtMost(scans[v], PageLimit)]
      BY <1>9, <1>15
    <3>2. \A v \in View : Len(scans[v]) \in Nat
      BY <1>8
    <3>3. \A v \in View : Len(scans[v]) <= PageLimit
      BY <1>10, <3>1, <3>2
    <3>4. \A v \in View : AtMost(scans[v], PageLimit) = scans[v]
      BY <1>8, <1>10, <3>3, UncutPage
    <3> QED BY <3>1, <3>2, <3>3, <3>4
  <2>2. \A v \in View : Len(scans[v]) < ScanLimit
    BY <1>10, <2>1
  <2>3. Whole(scans["decision"], "decision")
    <3>1. scans["decision"] = page["decision"]
      BY <1>5, <1>7
    <3> QED BY <1>1, <1>5, <2>2, <3>1 DEF IInv, ScanInv
  <2>4. \A m \in index : m.view = "intent" => \E i \in 1 .. Len(scans["intent"]) : scans["intent"][i] = m
    BY <1>5, <1>6, <1>7, <2>2
  <2>5. Whole(scans["intent"], "intent")
    BY <2>4 DEF Whole, IInv, BeforeInv
  <2>6. ASSUME NEW v \in View PROVE Whole(page[v], v)'
    <3>1. v = "decision" \/ v = "intent"
      BY ConstantFacts
    <3>2. Whole(scans[v], v)
      BY <2>3, <2>5, <3>1
    <3> QED BY <1>1, <2>1, <3>2 DEF Whole
  <2>7. ASSUME mine' = Reserve, NEW v \in View PROVE InOrder(page[v])'
    <3>1. InOrder(scans[v])
      <4>1. mine = Reserve /\ WorldInv
        BY <1>1, <2>7 DEF IInv, WorldInv
      <4>2. scans[v] \in Seq(Rec) /\ IsScan(scans[v], v) /\ ~Disagrees(scans[v])
        BY <1>8, <2>1
      <4> QED BY <4>1, <4>2, AgreedIsInOrder
    <3> QED BY <1>2, <2>1, <3>1 DEF InOrder, TxOfRow
  <2>8. ASSUME NEW c \in CallsOf("decision")', txOf'["intent"][c] > 0
        PROVE  c \in CallsOf("intent")'
    <3>1. PICK P : P = page'
      OBVIOUS
    <3>2. P["decision"] = scans["decision"] /\ P["intent"] = scans["intent"]
          /\ P["decision"] \in Seq(Rec) /\ P["intent"] \in Seq(Rec)
      BY <1>5, <1>8, <2>1, <3>1
    <3>3. c \in {m.call : m \in ToSet(P["decision"])}
      BY <2>8, <3>1 DEF CallsOf
    <3>4. PICK i \in 1 .. Len(P["decision"]) : P["decision"][i].call = c
      BY <3>2, <3>3, PlacesOfCalls
    <3>5. P["decision"][i] \in Rec
      BY <3>2, Members
    <3>6. c \in Call
      BY <3>4, <3>5 DEF Rec
    <3>7. txOf["intent"][c] > 0
      BY <1>2, <2>8
    <3>8. PICK m \in index : m.view = "intent" /\ m.call = c
      BY <1>5, <3>6, <3>7 DEF IInv, LedgerInv
    <3>9. PICK k \in 1 .. Len(P["intent"]) : P["intent"][k].call = c
      BY <2>4, <3>2, <3>8
    <3>10. c \in {r.call : r \in ToSet(P["intent"])}
      BY <3>2, <3>9, PlacesOfCalls
    <3> QED BY <3>1, <3>10 DEF CallsOf
  <2> QED BY <2>6, <2>7, <2>8
<1>16. ScanInv'
  BY <1>1, <1>15 DEF ScanInv, Scanned
<1>17. ReadInv'
  BY <1>1, <1>2 DEF IInv, ReadInv
<1>18. EntriesInv'
  <2>1. entries' = <<>>
    BY <1>1 DEF IInv, EntriesInv
  <2> QED BY <1>1, <2>1 DEF EntriesInv
<1> QED BY <1>2, <1>12, <1>13, <1>14, <1>16, <1>17, <1>18 DEF IInv

\* The decisions are counted.
LEMMA CountStep ==
    ASSUME IInv, Count
    PROVE  IInv'
<1>1. UNCHANGED <<world, limit, mine, before, page, hasMore, tombs, seek, found, entries>>
      /\ pc = "count" /\ pc' = "tombstones" /\ total' = DecisionCount
  BY DEF Count, Goto, request
<1>2. PICK D : D = {c \in Call : txOf["decision"][c] > 0}
  OBVIOUS
<1>3. PICK d \in Seq(Rec) : d = page["decision"]
  BY ConstantFacts DEF IInv, Types
<1>4. IsFiniteSet(D) /\ Cardinality(D) \in 0 .. NumCalls
  <2>1. D \in SUBSET Call
    BY <1>2
  <2>2. IsFiniteSet(Call) /\ Cardinality(Call) = NumCalls /\ NumCalls \in Nat
    BY ConstantFacts, Counting DEF Call
  <2>3. IsFiniteSet(D) /\ Cardinality(D) <= Cardinality(Call)
    BY ONLY <2>1, <2>2, FS_Subset
  <2>4. Cardinality(D) \in Nat
    BY ONLY <2>3, FS_CardinalityType
  <2> QED BY <2>2, <2>3, <2>4
<1>5. ASSUME displaced = {} PROVE Len(d) <= Cardinality(D)
  <2>1. PICK f : f = [i \in 1 .. Len(d) |-> d[i].call]
    OBVIOUS
  <2>2. \A i \in 1 .. Len(d) : d[i].call \in D /\ d[i] \in index /\ d[i].view = "decision"
    <3>1. SUFFICES ASSUME NEW i \in 1 .. Len(d)
                   PROVE  d[i].call \in D /\ d[i] \in index /\ d[i].view = "decision"
      OBVIOUS
    <3>2. i \in 1 .. Len(page["decision"])
      BY <1>3
    <3>3. /\ d[i] \in index /\ d[i].view = "decision" /\ d[i].call \in Call
          /\ txOf["decision"][d[i].call] > 0
      BY <1>3, <3>2, RowFacts, ConstantFacts DEF IInv, WorldInv
    <3> QED BY <1>2, <3>3
  <2>3. \A i, j \in 1 .. Len(d) : d[i].call = d[j].call => i = j
    <3>1. SUFFICES ASSUME NEW i \in 1 .. Len(d), NEW j \in 1 .. Len(d), d[i].call = d[j].call
                   PROVE  i = j
      OBVIOUS
    <3>2. d[i] = d[j]
      BY <1>5, <2>2, <3>1 DEF IInv, PositionInv
    <3>3. IsScan(d, "decision")
      BY <1>3, ConstantFacts DEF IInv, PageInv
    <3> QED BY <3>2, <3>3, ScanDistinct
  <2>4. f \in Injection(1 .. Len(d), D)
    BY <2>1, <2>2, <2>3 DEF Injection, IsInjective
  <2>5. Cardinality(1 .. Len(d)) <= Cardinality(D)
    BY ONLY <1>4, <2>4, FS_Injection
  <2>6. Len(d) \in Nat
    OBVIOUS
  <2>7. Cardinality(1 .. Len(d)) = Len(d)
    BY ONLY <2>6, Counting
  <2> QED BY <2>5, <2>7
<1>6. total' = Cardinality(D)
  BY <1>1, <1>2 DEF DecisionCount
<1>7. LedgerInv' /\ PositionInv' /\ FaultInv' /\ BeforeInv' /\ PageInv' /\ ScanInv'
      /\ PageTxs' = PageTxs /\ PageCallIds' = PageCallIds
  <2>1. displaced = {} => Len(page["decision"]) <= total'
    BY <1>3, <1>5, <1>6
  <2> QED BY <1>1, <2>1, PageKept DEF Scanned
<1>8. UNCHANGED <<head, txOf, index, counter, tomb, faults, rows, absent, deleted, displaced>>
  BY <1>1 DEF world, ledger, content
<1>9. Types'
  BY <1>1, <1>4, <1>6, <1>8 DEF IInv, Types, Labels
<1>10. ReadInv'
  BY <1>1, <1>8 DEF IInv, ReadInv
<1>11. EntriesInv'
  <2>1. entries' = <<>>
    BY <1>1 DEF IInv, EntriesInv
  <2> QED BY <1>1, <2>1 DEF EntriesInv
<1> QED BY <1>7, <1>9, <1>10, <1>11 DEF IInv

\* The tombstones of the page's calls are read.
LEMMA TombstonesStep ==
    ASSUME IInv, Tombstones
    PROVE  IInv'
<1>1. UNCHANGED <<world, limit, mine, before, page, hasMore, total, seek, found, entries>>
      /\ pc = "tombstones" /\ pc' = "faults" /\ tombs' = tomb \cap PageCallIds
  BY DEF Tombstones, Goto, request
<1>2. LedgerInv' /\ PositionInv' /\ FaultInv' /\ BeforeInv' /\ PageInv' /\ ScanInv'
      /\ PageTxs' = PageTxs /\ PageCallIds' = PageCallIds
  <2>1. displaced = {} => Len(page["decision"]) <= total'
    BY <1>1 DEF IInv, ScanInv, Scanned
  <2> QED BY <1>1, <2>1, PageKept DEF Scanned
<1>3. UNCHANGED <<head, txOf, index, counter, tomb, faults, rows, absent, deleted, displaced>>
  BY <1>1 DEF world, ledger, content
<1>4. Types'
  BY <1>1, <1>3 DEF IInv, Types, Labels
<1>5. ReadInv'
  <2>1. seek = <<0, 0>> /\ found = <<>> /\ seek' = seek /\ found' = found
    BY <1>1 DEF IInv, ReadInv
  <2>2. \A f \in before.faults : Past(f)'
    <3>1. \A f \in before.faults : f.keyTx > 0
      BY DEF IInv, BeforeInv, FaultInv
    <3> QED BY <2>1, <3>1 DEF Past, KeyBefore, FaultKey
  <2>3. before.tomb \cap PageCallIds \subseteq tombs' /\ tombs' \subseteq tomb'
    BY <1>1, <1>3 DEF IInv, BeforeInv
  <2> QED BY <1>1, <1>2, <1>3, <2>1, <2>2, <2>3 DEF ReadInv
<1>6. EntriesInv'
  <2>1. entries' = <<>>
    BY <1>1 DEF IInv, EntriesInv
  <2> QED BY <1>1, <2>1 DEF EntriesInv
<1> QED BY <1>2, <1>4, <1>5, <1>6 DEF IInv

\* The window of the fault scan holds the page's transactions.
LEMMA WindowFacts ==
    ASSUME IInv, PageTxs # {}
    PROVE  \A t \in PageTxs : t >= Min(PageTxs) /\ t < WindowEnd
<1>1. PICK U : U = PageTxs
  OBVIOUS
<1>2. PICK n \in Nat : n = MaxTx
  BY ConstantFacts
<1>3. U \subseteq 0 .. n
  <2>1. SUFFICES ASSUME NEW t \in PageTxs PROVE t \in 0 .. n
    BY <1>1
  <2>2. PICK v \in View : \E i \in 1 .. Len(page[v]) : TxOfRow(page[v][i]) = t
    BY PageTxsFacts DEF IInv
  <2>3. PICK i \in 1 .. Len(page[v]) : TxOfRow(page[v][i]) = t
    BY <2>2
  <2>4. page[v][i].call \in Call /\ t = txOf[v][page[v][i].call]
    BY <2>3, RowFacts DEF IInv, WorldInv
  <2>5. txOf \in [View -> [Call -> 0 .. n]]
    BY <1>2 DEF IInv, Types
  <2> QED BY <2>4, <2>5
<1>4. PICK x \in U : \A y \in U : y <= x
  BY ONLY <1>1, <1>3, PageTxs # {}, Greatest
<1>5. PICK w \in U : \A y \in U : w <= y
  <2>1. U \subseteq Nat
    BY <1>3
  <2> QED BY ONLY <1>1, <2>1, PageTxs # {}, Least
<1>6. \A y \in U : y \in Nat
  BY <1>3
<1>7. Max(U) \in U /\ \A y \in U : Max(U) >= y
  BY <1>4, <1>6 DEF Max
<1>8. Min(U) \in U /\ \A y \in U : Min(U) <= y
  BY <1>5, <1>6 DEF Min
<1> QED BY <1>1, <1>6, <1>7, <1>8 DEF WindowEnd

\* Fault records as the scan reads them: of one transaction's key, the
\* earlier record first.
LEMMA FaultPageFacts ==
    ASSUME IInv, PageTxs # {}, NEW q, q = FaultPage
    PROVE  /\ q \in Seq(FaultRec) /\ Len(q) \in Nat /\ Len(q) <= FaultScan
           /\ \A i \in 1 .. Len(q) : q[i] \in faults /\ Past(q[i])
           /\ \A i, j \in 1 .. Len(q) : i < j => KeyBefore(FaultKey(q[i]), FaultKey(q[j]))
           /\ \A f \in faults : f.keyTx \in PageTxs /\ Past(f) =>
                 \/ \E i \in 1 .. Len(q) : q[i] = f
                 \/ /\ Len(q) = FaultScan
                    /\ \A i \in 1 .. Len(q) : KeyBefore(FaultKey(q[i]), FaultKey(f))
<1>1. PICK W : W = {f \in faults : f.keyTx >= Min(PageTxs) /\ f.keyTx < WindowEnd /\ Past(f)}
  OBVIOUS
<1>2. PICK R : R = {p \in W \X W : KeyBefore(FaultKey(p[1]), FaultKey(p[2]))}
  OBVIOUS
<1>3. \A x, y \in W : <<x, y>> \in R <=> KeyBefore(FaultKey(x), FaultKey(y))
  BY <1>2
<1>4. \A x \in W : x \in faults /\ x \in FaultRec /\ x.keyTx \in Nat /\ x.tx \in Nat
  BY <1>1 DEF IInv, Types, FaultRec
<1>5. \A x, y \in W : x # y => x.tx # y.tx
  BY <1>4 DEF IInv, FaultInv
<1>6. StrictOrder(W, R)
  BY <1>3, <1>4, <1>5 DEF StrictOrder, KeyBefore, FaultKey
<1>7. IsFiniteSet(W)
  <2>1. IsFiniteSet(faults) /\ W \in SUBSET faults
    BY <1>1 DEF IInv, Types
  <2> QED BY ONLY <2>1, FS_Subset
<1>8. PICK s : s = SortedBy(W, R)
  OBVIOUS
<1>9. PICK k \in Nat : k = FaultScan
  BY ConstantFacts
<1>10. q = AtMost(s, k)
  <2>1. FaultPage = AtMost([n \in 1 .. Cardinality(W) |->
                              CHOOSE x \in W : Cardinality({y \in W : KeyBefore(FaultKey(y), FaultKey(x))})
                                                  = n - 1], FaultScan)
    BY <1>1 DEF FaultPage, Sorted
  <2>2. \A x \in W : {y \in W : KeyBefore(FaultKey(y), FaultKey(x))} = {y \in W : <<y, x>> \in R}
    BY <1>3
  <2>3. \A n \in 1 .. Cardinality(W) :
           (CHOOSE x \in W : Cardinality({y \in W : KeyBefore(FaultKey(y), FaultKey(x))}) = n - 1)
           = (CHOOSE x \in W : Cardinality({y \in W : <<y, x>> \in R}) = n - 1)
    BY ONLY <2>2
  <2>4. s = [n \in 1 .. Cardinality(W) |->
               CHOOSE x \in W : Cardinality({y \in W : KeyBefore(FaultKey(y), FaultKey(x))}) = n - 1]
    BY ONLY <1>8, <2>3 DEF SortedBy
  <2> QED BY <1>9, <2>1, <2>4
<1>11. /\ s \in Seq(W) /\ Len(s) \in Nat
       /\ \A x \in W : \E i \in 1 .. Len(s) : s[i] = x
       /\ \A i, j \in 1 .. Len(s) : i < j => <<s[i], s[j]>> \in R
  BY ONLY <1>6, <1>7, <1>8, SortedFacts
<1>12. /\ q \in Seq(W) /\ Len(q) \in Nat /\ Len(q) <= k /\ Len(q) <= Len(s)
       /\ \A i \in 1 .. Len(q) : q[i] = s[i]
       /\ Len(q) < Len(s) => Len(q) = k
  <2>1. s \in Seq(W)
    BY <1>11
  <2> QED BY ONLY <1>10, <2>1, k \in Nat, AtMostFacts
<1>13. \A i \in 1 .. Len(s) : s[i] \in W
  BY ONLY <1>11, Members
<1>14. \A i \in 1 .. Len(q) : i \in 1 .. Len(s) /\ q[i] = s[i] /\ q[i] \in W
  <2>1. SUFFICES ASSUME NEW i \in 1 .. Len(q)
                 PROVE  i \in 1 .. Len(s) /\ q[i] = s[i] /\ q[i] \in W
    OBVIOUS
  <2>2. i \in 1 .. Len(s)
    BY ONLY <1>11, <1>12, i \in 1 .. Len(q)
  <2> QED BY ONLY <1>12, <1>13, <2>2, i \in 1 .. Len(q)
<1>15. q \in Seq(FaultRec)
  BY <1>4, <1>12, <1>14
<1>16. \A i \in 1 .. Len(q) : q[i] \in faults /\ Past(q[i])
  BY <1>1, <1>14
<1>17. \A i, j \in 1 .. Len(s) : i < j => KeyBefore(FaultKey(s[i]), FaultKey(s[j]))
  BY ONLY <1>3, <1>11, <1>13
<1>18. \A i, j \in 1 .. Len(q) : i < j => KeyBefore(FaultKey(q[i]), FaultKey(q[j]))
  BY ONLY <1>14, <1>17
<1>19. ASSUME NEW f \in faults, f.keyTx \in PageTxs, Past(f)
       PROVE  \/ \E i \in 1 .. Len(q) : q[i] = f
              \/ /\ Len(q) = FaultScan
                 /\ \A i \in 1 .. Len(q) : KeyBefore(FaultKey(q[i]), FaultKey(f))
  <2>1. f \in W
    BY <1>1, <1>19, WindowFacts
  <2>2. PICK j \in 1 .. Len(s) : s[j] = f
    BY <1>11, <2>1
  <2>3. CASE j <= Len(q)
    <3>1. j \in 1 .. Len(q)
      BY <1>11, <1>12, <2>3
    <3> QED BY <1>14, <2>2, <3>1
  <2>4. CASE ~(j <= Len(q))
    <3>1. Len(q) = k /\ \A i \in 1 .. Len(q) : i < j
      BY <1>11, <1>12, <2>4
    <3>2. \A i \in 1 .. Len(q) : KeyBefore(FaultKey(q[i]), FaultKey(f))
      BY ONLY <1>14, <1>17, <2>2, <3>1, j \in 1 .. Len(s)
    <3> QED BY <1>9, <3>1, <3>2
  <2> QED BY <2>3, <2>4
<1> QED BY <1>9, <1>12, <1>15, <1>16, <1>18, <1>19

\* The order of the keys.
LEMMA KeyOrder ==
    ASSUME NEW a \in Nat \X Nat, NEW b \in Nat \X Nat, NEW c \in Nat \X Nat
    PROVE  /\ ~KeyBefore(a, a)
           /\ KeyBefore(a, b) /\ KeyBefore(b, c) => KeyBefore(a, c)
           /\ KeyBefore(a, b) /\ ~KeyBefore(a, c) => ~KeyBefore(b, c)
<1>1. a[1] \in Nat /\ a[2] \in Nat /\ b[1] \in Nat /\ b[2] \in Nat /\ c[1] \in Nat /\ c[2] \in Nat
  OBVIOUS
<1> QED BY <1>1 DEF KeyBefore

\* A page of the fault scan is read.
LEMMA ReadFaultsStep ==
    ASSUME IInv, ReadFaults
    PROVE  IInv'
<1>1. UNCHANGED <<world, limit, mine, before, page, hasMore, total, tombs, entries>>
      /\ pc = "faults" /\ pc' \in {"faults", "rows"}
  BY DEF ReadFaults, Goto, request
<1>2. LedgerInv' /\ PositionInv' /\ FaultInv' /\ BeforeInv' /\ PageInv' /\ ScanInv'
      /\ PageTxs' = PageTxs /\ PageCallIds' = PageCallIds
  <2>1. displaced = {} => Len(page["decision"]) <= total'
    BY <1>1 DEF IInv, ScanInv, Scanned
  <2> QED BY <1>1, <2>1, PageKept DEF Scanned
<1>3. UNCHANGED <<head, txOf, index, counter, tomb, faults, rows, absent, deleted, displaced>>
  BY <1>1 DEF world, ledger, content
<1>4. EntriesInv'
  <2>1. entries' = <<>>
    BY <1>1 DEF IInv, EntriesInv
  <2> QED BY <1>1, <2>1 DEF EntriesInv
<1>5. ReadInv
  BY DEF IInv
<1>6. CASE PageTxs = {}
  <2>1. pc' = "rows" /\ seek' = seek /\ found' = found
    BY <1>6 DEF ReadFaults, Goto
  <2>2. Types'
    BY <1>1, <1>3, <2>1 DEF IInv, Types, Labels
  <2>3. ReadInv'
    BY <1>1, <1>2, <1>3, <1>5, <1>6, <2>1 DEF ReadInv
  <2> QED BY <1>2, <1>4, <2>2, <2>3 DEF IInv
<1>7. CASE PageTxs # {}
  <2>1. PICK q : q = FaultPage
    OBVIOUS
  <2>2. /\ q \in Seq(FaultRec) /\ Len(q) \in Nat /\ Len(q) <= FaultScan
        /\ \A i \in 1 .. Len(q) : q[i] \in faults /\ Past(q[i])
        /\ \A i, j \in 1 .. Len(q) : i < j => KeyBefore(FaultKey(q[i]), FaultKey(q[j]))
        /\ \A f \in faults : f.keyTx \in PageTxs /\ Past(f) =>
              \/ \E i \in 1 .. Len(q) : q[i] = f
              \/ /\ Len(q) = FaultScan
                 /\ \A i \in 1 .. Len(q) : KeyBefore(FaultKey(q[i]), FaultKey(f))
    BY <1>7, <2>1, FaultPageFacts
  <2>3. found' = found \o q
    BY <1>7, <2>1 DEF ReadFaults
  <2>4. \/ Len(q) < FaultScan /\ pc' = "rows" /\ seek' = seek
        \/ ~(Len(q) < FaultScan) /\ pc' = "faults" /\ seek' = FaultKey(q[Len(q)])
    BY <1>1, <1>7, <2>1 DEF ReadFaults, Goto, Last
  <2>5. PICK old \in Seq(FaultRec) : old = found
    BY DEF IInv, Types
  <2>6. PICK new : new = found'
    OBVIOUS
  <2>7. /\ new \in Seq(FaultRec) /\ Len(new) = Len(old) + Len(q)
        /\ Len(old) \in Nat
        /\ \A i \in 1 .. Len(old) : new[i] = old[i]
        /\ \A i \in 1 .. Len(q) : new[Len(old) + i] = q[i]
        /\ \A i \in 1 .. Len(old) + Len(q) :
              i \in 1 .. Len(old) \/ \E j \in 1 .. Len(q) : i = Len(old) + j
    <3>1. new = old \o q /\ q \in Seq(FaultRec)
      BY <2>2, <2>3, <2>5, <2>6
    <3> QED BY ONLY <3>1, old \in Seq(FaultRec), JoinFacts
  <2>8. \A f \in faults : FaultKey(f) \in Nat \X Nat
    BY DEF IInv, Types, FaultRec, FaultKey
  <2>9. seek \in Nat \X Nat
    BY DEF IInv, Types
  <2>10. seek' \in Nat \X Nat
    <3>1. CASE Len(q) < FaultScan
      BY <2>4, <2>9, <3>1
    <3>2. CASE ~(Len(q) < FaultScan)
      <4>1. Len(q) \in 1 .. Len(q)
        BY <2>2, <3>2, ConstantFacts
      <4> QED BY <2>2, <2>4, <2>8, <3>2, <4>1
    <3> QED BY <3>1, <3>2
  <2>11. Types'
    BY <1>1, <1>3, <2>6, <2>7, <2>10 DEF IInv, Types, Labels
  <2>12. \A i \in 1 .. Len(old) : old[i] \in faults /\ ~Past(old[i])
    BY <1>1, <1>5, <2>5 DEF ReadInv
  <2>13. \A i \in 1 .. Len(new) :
            \/ i \in 1 .. Len(old) /\ new[i] = old[i]
            \/ \E j \in 1 .. Len(q) : i = Len(old) + j /\ new[i] = q[j]
    <3>1. SUFFICES ASSUME NEW i \in 1 .. Len(new)
                   PROVE  \/ i \in 1 .. Len(old) /\ new[i] = old[i]
                          \/ \E j \in 1 .. Len(q) : i = Len(old) + j /\ new[i] = q[j]
      OBVIOUS
    <3>2. i \in 1 .. Len(old) + Len(q)
      BY <2>7
    <3>3. CASE i \in 1 .. Len(old)
      BY <2>7, <3>3
    <3>4. CASE \E j \in 1 .. Len(q) : i = Len(old) + j
      <4>1. PICK j \in 1 .. Len(q) : i = Len(old) + j
        BY <3>4
      <4> QED BY <2>7, <4>1
    <3> QED BY <2>7, <3>2, <3>3, <3>4
  <2>14. \A i \in 1 .. Len(new) : new[i] \in faults
    BY ONLY <2>2, <2>12, <2>13
  <2>15. \A i, j \in 1 .. Len(new) : new[i] = new[j] => i = j
    <3>1. SUFFICES ASSUME NEW i \in 1 .. Len(new), NEW j \in 1 .. Len(new), new[i] = new[j]
                   PROVE  i = j
      OBVIOUS
    <3>2. CASE i \in 1 .. Len(old) /\ j \in 1 .. Len(old)
      BY <1>5, <2>5, <2>7, <3>1, <3>2 DEF ReadInv
    <3>3. ASSUME NEW a \in 1 .. Len(q), NEW b \in 1 .. Len(q), q[a] = q[b] PROVE a = b
      <4>1. a \in Nat /\ b \in Nat
        OBVIOUS
      <4>2. ~KeyBefore(FaultKey(q[a]), FaultKey(q[b])) /\ ~KeyBefore(FaultKey(q[b]), FaultKey(q[a]))
        BY <2>2, <2>8, <3>3, KeyOrder
      <4> QED BY <2>2, <4>1, <4>2
    <3>4. \A a \in 1 .. Len(old), b \in 1 .. Len(q) : old[a] # q[b]
      BY <2>2, <2>12
    <3>5. CASE i \in 1 .. Len(old) /\ j \notin 1 .. Len(old)
      <4>1. PICK b \in 1 .. Len(q) : new[j] = q[b]
        BY <2>13, <3>5
      <4> QED BY <2>7, <3>1, <3>4, <3>5, <4>1
    <3>6. CASE i \notin 1 .. Len(old) /\ j \in 1 .. Len(old)
      <4>1. PICK b \in 1 .. Len(q) : new[i] = q[b]
        BY <2>13, <3>6
      <4> QED BY <2>7, <3>1, <3>4, <3>6, <4>1
    <3>7. CASE i \notin 1 .. Len(old) /\ j \notin 1 .. Len(old)
      <4>1. PICK a \in 1 .. Len(q) : new[i] = q[a] /\ i = Len(old) + a
        BY <2>13, <3>7
      <4>2. PICK b \in 1 .. Len(q) : new[j] = q[b] /\ j = Len(old) + b
        BY <2>13, <3>7
      <4>3. a = b
        BY <3>1, <3>3, <4>1, <4>2
      <4> QED BY <4>1, <4>2, <4>3
    <3> QED BY <3>2, <3>5, <3>6, <3>7
  <2>16. \A f : (\E i \in 1 .. Len(old) : old[i] = f) \/ (\E i \in 1 .. Len(q) : q[i] = f)
                => \E i \in 1 .. Len(new) : new[i] = f
    <3>1. \A i \in 1 .. Len(old) : i \in 1 .. Len(new) /\ new[i] = old[i]
      BY ONLY <2>2, <2>7
    <3>2. \A i \in 1 .. Len(q) : Len(old) + i \in 1 .. Len(new) /\ new[Len(old) + i] = q[i]
      BY ONLY <2>2, <2>7
    <3> QED BY ONLY <3>1, <3>2
  <2>17. ASSUME NEW f \in before.faults, f.keyTx \in PageTxs
         PROVE  \/ \E i \in 1 .. Len(new) : new[i] = f
                \/ /\ Len(q) = FaultScan
                   /\ \A i \in 1 .. Len(q) : KeyBefore(FaultKey(q[i]), FaultKey(f))
    <3>1. f \in faults
      BY DEF IInv, BeforeInv
    <3>2. CASE Past(f)
      BY <2>2, <2>16, <2>17, <3>1, <3>2
    <3>3. CASE ~Past(f)
      <4>1. \E i \in 1 .. Len(old) : old[i] = f
        BY <1>1, <1>5, <2>5, <2>17, <3>3 DEF ReadInv
      <4> QED BY <2>16, <4>1
    <3> QED BY <3>2, <3>3
  <2>18. CASE Len(q) < FaultScan
    <3>1. pc' = "rows" /\ Len(q) # FaultScan
      BY <2>2, <2>4, <2>18, ConstantFacts
    <3>2. \A f \in before.faults : f.keyTx \in PageTxs => \E i \in 1 .. Len(new) : new[i] = f
      BY <2>17, <3>1
    <3>3. ReadInv'
      BY <1>1, <1>2, <1>3, <1>5, <2>6, <2>14, <2>15, <3>1, <3>2 DEF ReadInv
    <3> QED BY <1>2, <1>4, <2>11, <3>3 DEF IInv
  <2>19. CASE ~(Len(q) < FaultScan)
    <3>1. pc' = "faults" /\ Len(q) \in 1 .. Len(q)
      BY <2>2, <2>4, <2>19, ConstantFacts
    <3>2. PICK l : l = FaultKey(q[Len(q)])
      OBVIOUS
    <3>3. seek' = l /\ l \in Nat \X Nat /\ KeyBefore(seek, l)
      BY <2>2, <2>4, <2>8, <2>19, <3>1, <3>2 DEF Past
    <3>4. \A f : Past(f)' <=> KeyBefore(l, FaultKey(f))
      BY <3>3 DEF Past, FaultKey
    <3>5. \A i \in 1 .. Len(q) : ~KeyBefore(l, FaultKey(q[i]))
      <4>1. SUFFICES ASSUME NEW i \in 1 .. Len(q), KeyBefore(l, FaultKey(q[i])) PROVE FALSE
        OBVIOUS
      <4>2. FaultKey(q[i]) \in Nat \X Nat
        BY <2>2, <2>8
      <4>3. i < Len(q) \/ i = Len(q)
        BY <2>2
      <4>4. CASE i < Len(q)
        <5>1. KeyBefore(FaultKey(q[i]), l)
          BY <2>2, <3>1, <3>2, <4>4
        <5> QED BY <3>3, <4>1, <4>2, <5>1, KeyOrder
      <4>5. CASE i = Len(q)
        BY <3>2, <3>3, <4>1, <4>5, KeyOrder
      <4> QED BY <4>3, <4>4, <4>5
    <3>6. \A i \in 1 .. Len(old) : ~KeyBefore(l, FaultKey(old[i]))
      <4>1. SUFFICES ASSUME NEW i \in 1 .. Len(old) PROVE ~KeyBefore(l, FaultKey(old[i]))
        OBVIOUS
      <4>2. FaultKey(old[i]) \in Nat \X Nat /\ ~KeyBefore(seek, FaultKey(old[i]))
        BY <2>8, <2>12 DEF Past
      <4> QED BY <2>9, <3>3, <4>2, KeyOrder
    <3>7. \A i \in 1 .. Len(new) : ~Past(new[i])'
      BY <2>13, <3>4, <3>5, <3>6
    <3>8. ASSUME NEW f \in before.faults, f.keyTx \in PageTxs, ~Past(f)'
          PROVE  \E i \in 1 .. Len(new) : new[i] = f
      <4>1. ~KeyBefore(l, FaultKey(f))
        BY <3>4, <3>8
      <4> QED BY <2>17, <3>1, <3>2, <3>8, <4>1
    <3>9. ReadInv'
      BY <1>1, <1>2, <1>3, <1>5, <2>6, <2>14, <2>15, <3>1, <3>7, <3>8 DEF ReadInv
    <3> QED BY <1>2, <1>4, <2>11, <3>9 DEF IInv
  <2> QED BY <2>18, <2>19
<1> QED BY <1>6, <1>7

\* The faults counted on a row: all that the request found in the ledger, and
\* none that are not there now.
LEMMA FaultOfFacts ==
    ASSUME IInv, pc = "rows", NEW v \in View, NEW k \in 1 .. Len(page[v]), NEW m, m = page[v][k],
           NEW e, e.view = m.view, e.call = m.call, NEW F, F = FaultOf(m)
    PROVE  /\ F \in [count : Nat, newest : Nat]
           /\ F.count \in Cardinality(Genuine(before.faults, e)) .. Cardinality(Genuine(faults, e))
           /\ \A f \in Genuine(before.faults, e) : f.tx <= F.newest
<1>1. PICK I : I = {i \in DOMAIN found :
                      Rendered(found[i]) /\ found[i].view = m.view /\ found[i].call = m.call}
  OBVIOUS
<1>2. PICK X : X = {0} \cup {found[i].tx : i \in I}
  OBVIOUS
<1>3. F = [count |-> Cardinality(I), newest |-> Max(X)]
  BY <1>1, <1>2 DEF FaultOf
<1>4. found \in Seq(FaultRec) /\ DOMAIN found = 1 .. Len(found) /\ Len(found) \in Nat
  BY DEF IInv, Types
<1>5. I \subseteq 1 .. Len(found) /\ IsFiniteSet(I)
  <2>1. I \in SUBSET (1 .. Len(found))
    BY <1>1, <1>4
  <2>2. IsFiniteSet(1 .. Len(found))
    BY <1>4, Counting
  <2> QED BY ONLY <2>1, <2>2, FS_Subset
<1>6. PICK G : G = {found[i] : i \in I}
  OBVIOUS
<1>7. IsFiniteSet(G) /\ Cardinality(G) = Cardinality(I) /\ Cardinality(G) \in Nat
  <2>1. PICK s : s = found
    OBVIOUS
  <2>2. \A i, j \in I : s[i] = s[j] => i = j
    BY <1>5, <2>1 DEF IInv, ReadInv
  <2>3. G = {s[i] : i \in I}
    BY <1>6, <2>1
  <2>4. IsFiniteSet(I)
    BY <1>5
  <2> QED BY ONLY <2>2, <2>3, <2>4, PlacesCounted
<1>8. \A i \in I : found[i] \in faults /\ found[i].tx \in Nat /\ found[i].tx <= head
  <2>1. \A i \in I : found[i] \in faults
    BY <1>5 DEF IInv, ReadInv
  <2>2. \A f \in faults : f.tx \in Nat /\ f.tx <= head
    BY DEF IInv, Types, FaultRec, FaultInv
  <2> QED BY <2>1, <2>2
<1>9. G \subseteq Genuine(faults, e)
  BY <1>1, <1>6, <1>8 DEF Genuine, Rendered
<1>10. \A f \in Genuine(before.faults, e) : \E i \in I : found[i] = f
  <2>1. SUFFICES ASSUME NEW f \in Genuine(before.faults, e) PROVE \E i \in I : found[i] = f
    OBVIOUS
  <2>2. f \in before.faults /\ f.form = "valid" /\ f.view = m.view /\ f.call = m.call
    BY DEF Genuine
  <2>3. f.keyTx = TxOfRow(page[v][k])
    BY <2>2 DEF IInv, BeforeInv, FaultInv, TxOfRow
  <2>4. f.keyTx \in PageTxs
    BY <2>3, PageTxsFacts DEF IInv
  <2>5. PICK i \in 1 .. Len(found) : found[i] = f
    BY <2>2, <2>4 DEF IInv, ReadInv
  <2> QED BY <1>1, <1>4, <2>2, <2>5 DEF Rendered
<1>11. Genuine(before.faults, e) \subseteq G
  BY <1>6, <1>10
<1>12. PICK A, B : A = Genuine(before.faults, e) /\ B = Genuine(faults, e)
  OBVIOUS
<1>13. A \in SUBSET G /\ G \in SUBSET B /\ IsFiniteSet(B)
  <2>1. IsFiniteSet(faults) /\ B \in SUBSET faults
    BY <1>12 DEF IInv, Types, Genuine
  <2>2. IsFiniteSet(B)
    BY ONLY <2>1, FS_Subset
  <2> QED BY <1>9, <1>11, <1>12, <2>2
<1>14. Cardinality(I) \in Cardinality(A) .. Cardinality(B) /\ Cardinality(I) \in Nat
  <2>1. IsFiniteSet(A) /\ Cardinality(A) <= Cardinality(G)
    BY ONLY <1>7, <1>13, FS_Subset
  <2>2. Cardinality(G) <= Cardinality(B)
    BY ONLY <1>13, FS_Subset
  <2>3. Cardinality(A) \in Nat /\ Cardinality(B) \in Nat
    BY ONLY <1>13, <2>1, FS_CardinalityType
  <2> QED BY ONLY <1>7, <2>1, <2>2, <2>3
<1>15. Max(X) \in X /\ \A x \in X : x <= Max(X) /\ x \in Nat
  <2>1. head \in Nat
    BY ConstantFacts DEF IInv, Types
  <2>2. X \subseteq 0 .. head /\ X # {}
    BY <1>2, <1>8, <2>1
  <2>3. PICK n \in Nat : n = head
    BY <2>1
  <2>4. X \subseteq 0 .. n
    BY <2>2, <2>3
  <2>5. PICK x \in X : \A y \in X : y <= x
    BY ONLY <2>2, <2>4, n \in Nat, Greatest
  <2>6. \A y \in X : y \in Nat
    BY <2>4
  <2> QED BY <2>5, <2>6 DEF Max
<1>16. \A f \in Genuine(before.faults, e) : f.tx <= Max(X)
  BY <1>2, <1>10, <1>15
<1> QED BY <1>3, <1>12, <1>14, <1>15, <1>16

\* A row of the page becomes a row of the response.
LEMMA EntryFacts ==
    ASSUME IInv, pc = "rows", NEW v \in View, NEW k \in 1 .. Len(page[v]), NEW m, m = page[v][k],
           NEW x \in {"completed", "unknown", "n/a"}, NEW w \in Verifications \cup {"asserted"},
           NEW e, e = Entry(m, x, w)
    PROVE  e \in Response /\ EntryTrue(e) /\ e.call = m.call /\ e.execution = x
<1>1. /\ m.view = v /\ m.call \in Call /\ m \in index /\ txOf[v][m.call] > 0
  BY RowFacts DEF IInv, WorldInv
<1>2. PICK F, s : F = FaultOf(m) /\ s = PayloadState(m.call)
  OBVIOUS
<1>3. /\ e.view = v /\ e.call = m.call /\ e.execution = x /\ e.payload = s /\ e.fault = F
      /\ e.verification = w
      /\ e = [view |-> v, call |-> m.call, execution |-> x, payload |-> s, fault |-> F,
              verification |-> w]
  BY <1>1, <1>2 DEF Entry
<1>4. /\ F \in [count : Nat, newest : Nat]
      /\ F.count \in Cardinality(Genuine(before.faults, e)) .. Cardinality(Genuine(faults, e))
      /\ \A f \in Genuine(before.faults, e) : f.tx <= F.newest
  BY <1>1, <1>2, <1>3, FaultOfFacts
<1>5. s \in PayloadStates
  BY <1>2 DEF PayloadState, PayloadStates
<1>6. m.call \in PageCallIds
  <2>1. m.call \in CallsOf(v)
    BY CallsFacts DEF IInv
  <2> QED BY <2>1, ConstantFacts DEF PageCallIds
<1>7. m.call \in before.tomb => m.call \in tombs
  BY <1>6 DEF IInv, ReadInv
<1>8. m.call \in rows \cup absent \cup deleted \cup tomb
  BY <1>1 DEF IInv, LedgerInv
<1>9. s = "present" => m.call \notin before.tomb
  BY <1>2, <1>7 DEF PayloadState
<1>10. s = "lost" => m.call \in deleted \/ m.call \in tomb \ before.tomb
  BY <1>2, <1>7, <1>8 DEF PayloadState
<1>11. e \in Response
  BY <1>1, <1>3, <1>4, <1>5 DEF Response
<1>12. EntryTrue(e)
  BY <1>3, <1>4, <1>5, <1>9, <1>10 DEF EntryTrue
<1> QED BY <1>3, <1>11, <1>12

\* The orphans: the intents of the page that no decision of the page answers.
LEMMA OrphansFacts ==
    ASSUME Types
    PROVE  /\ Len(Orphans) \in Nat
           /\ \A n \in 1 .. Len(Orphans) : \E k \in 1 .. Len(page["intent"]) :
                 Orphans[n] = page["intent"][k] /\ page["intent"][k].call \notin CallsOf("decision")
           /\ \A k \in 1 .. Len(page["intent"]) : page["intent"][k].call \notin CallsOf("decision") =>
                 \E n \in 1 .. Len(Orphans) : Orphans[n] = page["intent"][k]
<1>1. PICK p \in Seq(Rec) : p = page["intent"]
  BY ConstantFacts DEF Types
<1>2. PICK W : W = {i \in DOMAIN p : p[i].call \notin CallsOf("decision")}
  OBVIOUS
<1>3. PICK R : R = {q \in W \X W : q[1] < q[2]}
  OBVIOUS
<1>4. DOMAIN p = 1 .. Len(p) /\ Len(p) \in Nat
  OBVIOUS
<1>5. \A i \in W : i \in Nat /\ i \in 1 .. Len(p)
  BY <1>2, <1>4
<1>6. \A i, j \in W : <<i, j>> \in R <=> i < j
  BY <1>3
<1>7. StrictOrder(W, R)
  BY <1>5, <1>6 DEF StrictOrder
<1>8. IsFiniteSet(W)
  <2>1. W \in SUBSET (1 .. Len(p)) /\ IsFiniteSet(1 .. Len(p))
    BY <1>4, <1>5, Counting
  <2> QED BY ONLY <2>1, FS_Subset
<1>9. PICK at : at = SortedBy(W, R)
  OBVIOUS
<1>10. /\ at \in Seq(W) /\ Len(at) \in Nat
       /\ \A x \in W : \E i \in 1 .. Len(at) : at[i] = x
  BY ONLY <1>7, <1>8, <1>9, SortedFacts
<1>11. Orphans = [n \in DOMAIN at |-> p[at[n]]]
  <2>1. Orphans = LET a == [n \in 1 .. Cardinality(W) |->
                              CHOOSE x \in W : Cardinality({y \in W : y < x}) = n - 1]
                  IN  [n \in DOMAIN a |-> p[a[n]]]
    BY <1>1, <1>2 DEF Orphans, Sorted
  <2>2. \A x \in W : {y \in W : y < x} = {y \in W : <<y, x>> \in R}
    BY <1>6
  <2>3. \A n \in 1 .. Cardinality(W) :
           (CHOOSE x \in W : Cardinality({y \in W : y < x}) = n - 1)
           = (CHOOSE x \in W : Cardinality({y \in W : <<y, x>> \in R}) = n - 1)
    BY ONLY <2>2
  <2>4. at = [n \in 1 .. Cardinality(W) |-> CHOOSE x \in W : Cardinality({y \in W : y < x}) = n - 1]
    BY ONLY <1>9, <2>3 DEF SortedBy
  <2> QED BY ONLY <2>1, <2>4
<1>12. PICK o : o = Orphans
  OBVIOUS
<1>13. DOMAIN at = 1 .. Len(at) /\ \A n \in 1 .. Len(at) : at[n] \in W
  BY ONLY <1>10, Members
<1>14. o \in [1 .. Len(at) -> Rec]
  <2>1. \A n \in 1 .. Len(at) : p[at[n]] \in Rec
    BY <1>5, <1>13, Members
  <2> QED BY <1>11, <1>12, <1>13, <2>1
<1>15. Len(o) = Len(at) /\ Len(o) \in Nat
  BY ONLY <1>10, <1>14
<1>16. \A n \in 1 .. Len(o) : o[n] = p[at[n]] /\ at[n] \in W
  BY <1>11, <1>12, <1>13, <1>15
<1>17. ASSUME NEW n \in 1 .. Len(o)
       PROVE  \E k \in 1 .. Len(p) : o[n] = p[k] /\ p[k].call \notin CallsOf("decision")
  <2>1. at[n] \in W /\ o[n] = p[at[n]]
    BY <1>16
  <2> QED BY <1>2, <1>5, <2>1
<1>18. ASSUME NEW k \in 1 .. Len(p), p[k].call \notin CallsOf("decision")
       PROVE  \E n \in 1 .. Len(o) : o[n] = p[k]
  <2>1. k \in W
    BY <1>2, <1>4, <1>18
  <2>2. PICK n \in 1 .. Len(at) : at[n] = k
    BY <1>10, <2>1
  <2> QED BY <1>15, <1>16, <2>2
<1>19. Len(Orphans) \in Nat
  BY <1>12, <1>15
<1>20. ASSUME NEW n \in 1 .. Len(Orphans)
       PROVE  \E k \in 1 .. Len(page["intent"]) :
                 Orphans[n] = page["intent"][k] /\ page["intent"][k].call \notin CallsOf("decision")
  BY <1>1, <1>12, <1>17
<1>21. ASSUME NEW k \in 1 .. Len(page["intent"]), page["intent"][k].call \notin CallsOf("decision")
       PROVE  \E n \in 1 .. Len(Orphans) : Orphans[n] = page["intent"][k]
  BY <1>1, <1>12, <1>18, <1>21
<1> QED BY <1>19, <1>20, <1>21

\* What a step that touches neither the ledger nor the reads leaves.
LEMMA RowsKeep ==
    ASSUME IInv, pc = "rows", pc' \in {"rows", "served"}, UNCHANGED <<world, request, reads>>
    PROVE  /\ Types' /\ LedgerInv' /\ PositionInv' /\ FaultInv' /\ BeforeInv' /\ PageInv'
           /\ ScanInv' /\ ReadInv'
           /\ page' = page /\ Orphans' = Orphans
           /\ \A e : EntryTrue(e) => EntryTrue(e)'
           /\ \A e, i : EntryOf(e, i) => EntryOf(e, i)'
<1>1. UNCHANGED <<limit, mine, before, page, hasMore, total, tombs, seek, found>>
  BY DEF request, reads
<1>2. LedgerInv' /\ PositionInv' /\ FaultInv' /\ BeforeInv' /\ PageInv' /\ ScanInv'
      /\ PageTxs' = PageTxs /\ PageCallIds' = PageCallIds /\ Orphans' = Orphans
      /\ \A v : CallsOf(v)' = CallsOf(v)
  <2>1. displaced = {} => Len(page["decision"]) <= total'
    BY <1>1 DEF IInv, ScanInv, Scanned
  <2>2. pc' # "scan2" /\ (pc' \in Scanned => pc \in Scanned)
    BY DEF Scanned
  <2> QED BY <1>1, <2>1, <2>2, PageKept
<1>3. UNCHANGED <<head, txOf, index, counter, tomb, faults, rows, absent, deleted, displaced>>
  BY DEF world, ledger, content
<1>4. Types'
  BY <1>1, <1>3 DEF IInv, Types, Labels
<1>5. ReadInv'
  BY <1>1, <1>2, <1>3 DEF IInv, ReadInv, Past
<1>6. \A e : EntryTrue(e) => EntryTrue(e)'
  BY <1>1, <1>3 DEF EntryTrue, Genuine
<1>7. \A e, i : EntryOf(e, i) => EntryOf(e, i)'
  BY <1>1, <1>2 DEF EntryOf
<1> QED BY <1>1, <1>2, <1>4, <1>5, <1>6, <1>7

\* A row is added to the response.
LEMMA AddRow ==
    ASSUME IInv, pc = "rows", pc' = pc, UNCHANGED <<world, request, reads>>,
           NEW e \in Response, EntryTrue(e), EntryOf(e, Len(entries) + 1),
           entries' = Append(entries, e)
    PROVE  IInv'
<1>1. /\ Types' /\ LedgerInv' /\ PositionInv' /\ FaultInv' /\ BeforeInv' /\ PageInv'
      /\ ScanInv' /\ ReadInv'
      /\ \A d : EntryTrue(d) => EntryTrue(d)'
      /\ \A d, i : EntryOf(d, i) => EntryOf(d, i)'
  BY RowsKeep
<1>2. PICK s \in Seq(Response) : s = entries
  BY DEF IInv, EntriesInv
<1>3. PICK t : t = entries'
  OBVIOUS
<1>4. /\ t \in Seq(Response) /\ Len(t) = Len(s) + 1 /\ t[Len(s) + 1] = e /\ Len(s) \in Nat
      /\ \A i \in 1 .. Len(s) : t[i] = s[i]
  BY <1>2, <1>3
<1>5. ASSUME NEW i \in 1 .. Len(t) PROVE EntryTrue(t[i])' /\ EntryOf(t[i], i)'
  <2>1. CASE i \in 1 .. Len(s)
    <3>1. EntryTrue(s[i]) /\ EntryOf(s[i], i)
      BY <1>2, <2>1 DEF IInv, EntriesInv
    <3> QED BY <1>1, <1>4, <2>1, <3>1
  <2>2. CASE i = Len(s) + 1
    BY <1>1, <1>2, <1>4, <2>2
  <2> QED BY <1>4, <2>1, <2>2
<1>6. EntriesInv'
  <2>1. entries' \in Seq(Response) /\ pc' = "rows"
    BY <1>3, <1>4
  <2>2. \A i \in 1 .. Len(entries') : EntryTrue(entries[i])' /\ EntryOf(entries[i], i)'
    BY <1>3, <1>5
  <2> QED BY <2>1, <2>2 DEF EntriesInv
<1> QED BY <1>1, <1>6 DEF IInv

\* A decision of the page.
LEMMA DecisionRowStep ==
    ASSUME IInv, DecisionRow
    PROVE  IInv'
<1>1. pc = "rows" /\ pc' = pc /\ UNCHANGED <<world, request, reads>>
      /\ Len(entries) < Len(page["decision"])
  BY DEF DecisionRow
<1>2. PICK k : k = Len(entries) + 1
  OBVIOUS
<1>3. "decision" \in View /\ page["decision"] \in Seq(Rec) /\ entries \in Seq(Response)
  BY ConstantFacts DEF IInv, Types, EntriesInv
<1>4. k \in 1 .. Len(page["decision"])
  BY <1>1, <1>2, <1>3
<1>5. PICK m, x : m = page["decision"][k] /\ x = IF m.call \in CallsOf("intent") THEN "completed" ELSE "n/a"
  OBVIOUS
<1>6. PICK w \in IF verify /\ up THEN Verifications ELSE {"asserted"} :
         entries' = Append(entries, Entry(m, x, w))
  BY <1>2, <1>5 DEF DecisionRow
<1>7. PICK e : e = Entry(m, x, w)
  OBVIOUS
<1>8. x \in {"completed", "unknown", "n/a"} /\ x # "unknown" /\ w \in Verifications \cup {"asserted"}
  BY <1>5, <1>6
<1>9. e \in Response /\ EntryTrue(e) /\ e.call = m.call /\ e.execution = x
  <2>1. pc = "rows" /\ "decision" \in View /\ m = page["decision"][k]
    BY <1>1, <1>3, <1>5
  <2>2. x \in {"completed", "unknown", "n/a"} /\ w \in Verifications \cup {"asserted"}
    BY <1>8
  <2> QED BY ONLY IInv, <1>4, <1>7, <2>1, <2>2, EntryFacts
<1>10. EntryOf(e, k)
  <2>1. Len(page["decision"]) \in Nat /\ k <= Len(page["decision"]) /\ ~(k > Len(page["decision"]))
    BY <1>3, <1>4
  <2>2. x = "n/a" => m.call \notin CallsOf("intent")
    BY <1>5
  <2> QED BY <1>5, <1>8, <1>9, <2>1, <2>2 DEF EntryOf
<1> QED BY <1>1, <1>2, <1>6, <1>7, <1>9, <1>10, AddRow

\* An intent of the page with no decision on it.
LEMMA OrphanRowStep ==
    ASSUME IInv, OrphanRow
    PROVE  IInv'
<1>1. pc = "rows" /\ pc' = pc /\ UNCHANGED <<world, request, reads>>
      /\ Len(entries) >= Len(page["decision"])
  BY DEF OrphanRow
<1>2. PICK n, o : n = Len(entries) - Len(page["decision"]) + 1 /\ o = Orphans
  OBVIOUS
<1>3. /\ "intent" \in View /\ "decision" \in View
      /\ page["decision"] \in Seq(Rec) /\ entries \in Seq(Response)
      /\ Len(page["decision"]) \in Nat /\ Len(entries) \in Nat
  <2>1. "intent" \in View /\ "decision" \in View
    BY ConstantFacts
  <2>2. page["decision"] \in Seq(Rec) /\ entries \in Seq(Response)
    BY <2>1 DEF IInv, Types, EntriesInv
  <2> QED BY <2>1, <2>2
<1>4. n <= Len(o)
  BY <1>2 DEF OrphanRow
<1>5. PICK w \in IF verify THEN Verifications ELSE {"asserted"} :
         entries' = Append(entries, Entry(o[n], "unknown", w))
  BY <1>2 DEF OrphanRow
<1>6. /\ Len(o) \in Nat
      /\ \A j \in 1 .. Len(o) : \E k \in 1 .. Len(page["intent"]) : o[j] = page["intent"][k]
  BY <1>2, OrphansFacts DEF IInv
<1>7. n \in 1 .. Len(o)
  BY <1>1, <1>2, <1>3, <1>4, <1>6
<1>8. PICK k \in 1 .. Len(page["intent"]) : o[n] = page["intent"][k]
  BY <1>6, <1>7
<1>9. PICK m, x, e : m = o[n] /\ x = "unknown" /\ e = Entry(m, x, w)
  OBVIOUS
<1>10. x \in {"completed", "unknown", "n/a"} /\ w \in Verifications \cup {"asserted"}
       /\ m = page["intent"][k]
  BY <1>5, <1>8, <1>9
<1>11. e \in Response /\ EntryTrue(e) /\ e.call = m.call /\ e.execution = x
  <2>1. pc = "rows" /\ "intent" \in View /\ e = Entry(m, x, w)
    BY <1>1, <1>3, <1>9
  <2> QED BY ONLY IInv, k \in 1 .. Len(page["intent"]), <1>10, <2>1, EntryFacts
<1>12. EntryOf(e, Len(entries) + 1)
  <2>1. ~(Len(entries) + 1 <= Len(page["decision"])) /\ Len(entries) + 1 - Len(page["decision"]) = n
    BY <1>1, <1>2, <1>3
  <2>2. Len(entries) + 1 - Len(page["decision"]) \in 1 .. Len(Orphans)
    BY <1>2, <1>7, <2>1
  <2>3. e.call = Orphans[Len(entries) + 1 - Len(page["decision"])].call
    BY <1>2, <1>9, <1>11, <2>1
  <2>4. e.execution = "unknown"
    BY <1>9, <1>11
  <2> QED BY <2>1, <2>2, <2>3, <2>4 DEF EntryOf
<1> QED BY <1>1, <1>5, <1>9, <1>11, <1>12, AddRow

\* The page is served.
LEMMA RespondStep ==
    ASSUME IInv, Respond
    PROVE  IInv'
<1>1. /\ pc = "rows" /\ pc' = "served" /\ UNCHANGED <<world, request, reads>> /\ entries' = entries
      /\ Len(entries) = Len(page["decision"]) + Len(Orphans)
  BY DEF Respond, Goto
<1>2. /\ Types' /\ LedgerInv' /\ PositionInv' /\ FaultInv' /\ BeforeInv' /\ PageInv'
      /\ ScanInv' /\ ReadInv'
      /\ page' = page /\ Orphans' = Orphans
      /\ \A d : EntryTrue(d) => EntryTrue(d)'
      /\ \A d, i : EntryOf(d, i) => EntryOf(d, i)'
  BY <1>1, RowsKeep
<1>3. EntriesInv
  BY DEF IInv
<1>4. \A i \in 1 .. Len(entries) : EntryTrue(entries[i])' /\ EntryOf(entries[i], i)'
  <2>1. SUFFICES ASSUME NEW i \in 1 .. Len(entries)
                 PROVE  EntryTrue(entries[i])' /\ EntryOf(entries[i], i)'
    OBVIOUS
  <2>2. PICK e : e = entries[i]
    OBVIOUS
  <2>3. EntryTrue(e)' /\ EntryOf(e, i)'
    BY <1>2, <1>3, <2>2 DEF EntriesInv
  <2> QED BY <1>1, <2>2, <2>3
<1>5. EntriesInv'
  BY <1>1, <1>2, <1>3, <1>4 DEF EntriesInv
<1> QED BY <1>2, <1>5 DEF IInv

-----------------------------------------------------------------------------
(* The invariant.                                                          *)

\* It holds before the request.
LEMMA Initial == Init => IInv
<1>1. SUFFICES ASSUME Init PROVE IInv
  OBVIOUS
<1>2. PICK T : T = txOf
  OBVIOUS
<1>3. /\ T \in [View -> [Call -> 0 .. MaxTx]]
      /\ \A v \in View, c \in Call : T[v][c] = IF v = "decision" /\ c \in Old THEN 1 ELSE 0
  BY <1>1, <1>2, ConstantFacts DEF Init
<1>4. head = OldTx /\ OldTx \in {0, 1} /\ (Old # {} => OldTx = 1)
  BY <1>1 DEF Init, OldTx
<1>5. Old \subseteq Call /\ Call \subseteq Nat /\ Old \cap Mediated = {} /\ "decision" \in View /\ "intent" \in View
  <2>1. "intent" \in View /\ "decision" \in View
    BY ConstantFacts
  <2> QED BY <2>1, ConstantFacts
<1>6. /\ \A m : m \in index <=> \E c \in Old : m = Member("decision", c, 1)
      /\ \A m \in index : m.view = "decision" /\ m.call \in Old /\ m.score = 1
      /\ index \subseteq Rec
  <2>1. index = {Member("decision", c, 1) : c \in Old}
    BY <1>1 DEF Init
  <2>2. \A c \in Old : /\ Member("decision", c, 1) \in Rec /\ Member("decision", c, 1).view = "decision"
                       /\ Member("decision", c, 1).call = c /\ Member("decision", c, 1).score = 1
    BY <1>5 DEF Member, Rec
  <2> QED BY <2>1, <2>2
<1>7. IsFiniteSet(index)
  <2>1. PICK f : f = [c \in Old |-> Member("decision", c, 1)]
    OBVIOUS
  <2>2. f \in Surjection(Old, index)
    BY <1>6, <2>1 DEF Surjection
  <2>3. IsFiniteSet(Old)
    <3>1. IsFiniteSet(Call) /\ Old \in SUBSET Call
      BY <1>5, ConstantFacts, Counting DEF Call
    <3> QED BY ONLY <3>1, FS_Subset
  <2> QED BY ONLY <2>2, <2>3, FS_Surjection
<1>8. Types
  <2>1. IsFiniteSet({})
    BY FS_EmptySet
  <2>2. page \in [View -> Seq(Rec)]
    BY <1>1 DEF Init, EmptyView
  <2>3. head \in 0 .. MaxTx /\ counter \in Nat /\ mine \in Nat \ {0} /\ total \in 0 .. NumCalls /\ limit \in Int
    BY <1>1, <1>4, ConstantFacts DEF Init
  <2>4. pc \in Labels
    BY <1>1 DEF Init, Labels
  <2>5. faults \subseteq FaultRec /\ IsFiniteSet(faults) /\ seek \in Nat \X Nat /\ found \in Seq(FaultRec)
    BY <1>1, <2>1 DEF Init
  <2>6. tomb \cup rows \cup absent \cup deleted \cup tombs \subseteq Call
    BY <1>1, <1>5 DEF Init
  <2> QED BY <1>2, <1>3, <1>6, <1>7, <2>2, <2>3, <2>4, <2>5, <2>6 DEF Types
<1>9. LedgerInv
  <2>1. \A v \in View, c \in Call : txOf[v][c] > 0 <=> v = "decision" /\ c \in Old
    BY <1>2, <1>3
  <2>2. \A v \in View, c \in Call : txOf[v][c] <= head
    BY <1>2, <1>3, <1>4
  <2>3. \A v \in View, c \in Call :
           (v = "decision" /\ c \in Old) <=> \E m \in index : m.view = v /\ m.call = c
    <3>1. \A c \in Old : Member("decision", c, 1) \in index /\ Member("decision", c, 1).view = "decision"
                         /\ Member("decision", c, 1).call = c
      BY <1>6 DEF Member
    <3> QED BY <1>6, <3>1
  <2>4. rows = Old
    BY <1>1 DEF Init
  <2>5. \A c \in Old : txOf["decision"][c] > 0
    BY <1>5, <2>1
  <2>6. \A c \in Call : ~(txOf["intent"][c] > 0)
    BY <1>5, <2>1
  <2>7. \A c \in Mediated : ~(txOf["decision"][c] > 0)
    BY <1>5, <2>1, ConstantFacts
  <2>8. \A v \in View, c \in Call :
           txOf[v][c] > 0 <=> \E m \in index : m.view = v /\ m.call = c
    BY <2>1, <2>3
  <2>9. \A v \in View, c \in Call : txOf[v][c] > 0 => c \in rows
    BY <2>1, <2>4
  <2> QED BY <2>2, <2>5, <2>6, <2>7, <2>8, <2>9 DEF LedgerInv
<1>10. PositionInv
  <2>1. counter = Reserve /\ Reserve \in Nat /\ displaced = {}
    BY <1>1, ConstantFacts DEF Init
  <2>2. \A m \in index, n \in index : m.call = n.call => m = n
    BY <1>6 DEF Member
  <2> QED BY <1>6, <2>1, <2>2 DEF PositionInv
<1>11. FaultInv /\ BeforeInv
  BY <1>1 DEF Init, FaultInv, BeforeInv, Nothing
<1>12. PageInv
  BY <1>1, ConstantFacts DEF Init, PageInv, IsScan, EmptyView
<1>13. ScanInv /\ ReadInv
  BY <1>1 DEF Init, ScanInv, ReadInv, Scanned
<1>14. EntriesInv
  BY <1>1 DEF Init, EntriesInv
<1> QED BY <1>8, <1>9, <1>10, <1>11, <1>12, <1>13, <1>14 DEF IInv

\* What goes on beside the request keeps it.
LEMMA EnvironmentStep ==
    ASSUME IInv, Environment
    PROVE  IInv'
<1>1. WorldInv
  BY DEF IInv, WorldInv
<1>2. WorldInv' /\ Grows
  BY <1>1, RecordStep, ErasureStep, FaultStep, DisplaceStep DEF Environment
<1>3. PageInv' /\ BeforeInv' /\ ScanInv' /\ ReadInv' /\ EntriesInv'
  BY <1>1, <1>2, GrowPage, GrowReads, GrowEntries DEF IInv
<1> QED BY <1>2, <1>3 DEF IInv, WorldInv

\* Every step keeps it.
LEMMA Inductive == IInv /\ [Next]_vars => IInv'
<1>1. SUFFICES ASSUME IInv, [Next]_vars PROVE IInv'
  OBVIOUS
<1>2. CASE UNCHANGED vars
  <2>1. UNCHANGED <<head, txOf, index, counter, tomb, faults, rows, absent, deleted, displaced,
                    pc, limit, mine, before, page, hasMore, total, tombs, seek, found, entries>>
    BY <1>2 DEF vars, world, ledger, content, request, reads
  <2>2. WorldInv'
    BY <1>1, <2>1 DEF IInv, WorldInv, Types, LedgerInv, PositionInv, FaultInv, TxOfRow
  <2>3. Grows
    BY <2>1 DEF Grows
  <2>4. WorldInv
    BY <1>1 DEF IInv, WorldInv
  <2>5. PageInv' /\ BeforeInv' /\ ScanInv' /\ ReadInv' /\ EntriesInv'
    BY <1>1, <2>2, <2>3, <2>4, GrowPage, GrowReads, GrowEntries DEF IInv
  <2> QED BY <2>2, <2>5 DEF IInv, WorldInv
<1>3. CASE Environment
  BY <1>1, <1>3, EnvironmentStep
<1>4. CASE Begin
  BY <1>1, <1>4, BeginStep
<1>5. CASE Scan1
  BY <1>1, <1>5, Scan1Step
<1>6. CASE Scan2
  BY <1>1, <1>6, Scan2Step
<1>7. CASE Count
  BY <1>1, <1>7, CountStep
<1>8. CASE Tombstones
  BY <1>1, <1>8, TombstonesStep
<1>9. CASE ReadFaults
  BY <1>1, <1>9, ReadFaultsStep
<1>10. CASE LedgerFails
  BY <1>1, <1>10, FailStep
<1>11. CASE DecisionRow
  BY <1>1, <1>11, DecisionRowStep
<1>12. CASE OrphanRow
  BY <1>1, <1>12, OrphanRowStep
<1>13. CASE Respond
  BY <1>1, <1>13, RespondStep
<1> QED
  BY <1>1, <1>2, <1>3, <1>4, <1>5, <1>6, <1>7, <1>8, <1>9, <1>10, <1>11, <1>12, <1>13 DEF Next

-----------------------------------------------------------------------------
(* The theorems.                                                           *)

\* IInv holds of every behaviour.
LEMMA Always == Spec => []IInv
BY Initial, Inductive, PTL DEF Spec

\* The rows of the response, by place.
LEMMA ShownFacts ==
    ASSUME IInv, NEW e \in Shown
    PROVE  \E i \in 1 .. Len(entries) : entries[i] = e /\ EntryTrue(e) /\ EntryOf(e, i) /\ e \in Response
<1>1. entries \in Seq(Response) /\ DOMAIN entries = 1 .. Len(entries)
  BY DEF IInv, EntriesInv
<1>2. PICK i \in 1 .. Len(entries) : entries[i] = e
  BY <1>1 DEF Shown, ToSet
<1>3. e \in Response
  BY <1>1, <1>2, Members
<1> QED BY <1>2, <1>3 DEF IInv, EntriesInv

\* The calls on a whole page.
LEMMA WholeFacts ==
    ASSUME IInv, Complete, NEW m \in before.index
    PROVE  m.view \in View /\ m.call \in CallsOf(m.view)
<1>1. m.view \in View
  BY DEF IInv, BeforeInv, Types, Rec
<1>2. Whole(page[m.view], m.view)
  BY <1>1 DEF IInv, ScanInv, Complete, Scanned
<1>3. PICK i \in 1 .. Len(page[m.view]) : page[m.view][i] = m
  BY <1>2 DEF Whole
<1> QED BY <1>1, <1>3, CallsFacts DEF IInv

\* The variables keep their types, for every value of the constants.
THEOREM TypeCorrect == Spec => []TypeOK
<1>1. IInv => TypeOK
  <2>1. SUFFICES ASSUME IInv PROVE TypeOK
    OBVIOUS
  <2>2. \A v \in View : Len(page[v]) <= MaxScanLimit
    BY <2>1 DEF IInv, PageInv, IsScan
  <2>3. \A i \in DOMAIN entries :
          /\ entries[i].execution \in {"completed", "unknown", "n/a"}
          /\ entries[i].payload \in PayloadStates
          /\ entries[i].verification \in Verifications \cup {"asserted"}
    <3>1. entries \in Seq(Response) /\ DOMAIN entries = 1 .. Len(entries)
      BY <2>1 DEF IInv, EntriesInv
    <3>2. \A i \in 1 .. Len(entries) : entries[i] \in Response
      BY <3>1, Members
    <3> QED BY <3>1, <3>2 DEF Response
  <2> QED BY <2>1, <2>2, <2>3 DEF IInv, Types, TypeOK, Rec, Labels
<1> QED BY <1>1, Always, PTL

\* A whole page calls unknown no call that was completed when the request
\* began, and n/a none that has an intent: the decision view was read first,
\* so an intent that has come since is on the page with its completion.
THEOREM ExecutionStatesAreTrue == Spec => []ExecutionStateIsTrue
<1>1. IInv => ExecutionStateIsTrue
  <2>1. SUFFICES ASSUME IInv, Complete, NEW e \in Shown
                 PROVE  /\ e.execution = "unknown" => e.call \notin before.done
                        /\ e.execution = "n/a" => txOf["intent"][e.call] = 0
    BY DEF ExecutionStateIsTrue
  <2>2. PICK i \in 1 .. Len(entries) : EntryOf(e, i) /\ e \in Response
    BY <2>1, ShownFacts
  <2>3. "decision" \in View /\ "intent" \in View
    BY ConstantFacts
  <2>4. PICK d \in Seq(Rec) : d = page["decision"]
    BY <2>1, <2>3 DEF IInv, Types
  <2>5. Len(d) \in Nat
    OBVIOUS
  <2>6. CASE i <= Len(d)
    <3>1. e.call = d[i].call /\ e.execution # "unknown"
          /\ (e.execution = "n/a" => e.call \notin CallsOf("intent"))
      BY <2>2, <2>4, <2>6 DEF EntryOf
    <3>2. e.call \in CallsOf("decision")
      <4>1. i \in 1 .. Len(page["decision"])
        BY <2>4, <2>5, <2>6
      <4> QED BY <2>1, <2>3, <2>4, <3>1, <4>1, CallsFacts DEF IInv
    <3>3. e.call \notin CallsOf("intent") => ~(txOf["intent"][e.call] > 0)
      BY <2>1, <3>2 DEF IInv, ScanInv, Complete, Scanned
    <3>4. txOf["intent"][e.call] \in Nat
      BY <2>1, <2>2, <2>3, TxTypes DEF IInv, Response
    <3> QED BY <3>1, <3>3, <3>4
  <2>7. CASE ~(i <= Len(d))
    <3>1. PICK n : n = i - Len(d)
      OBVIOUS
    <3>2. n \in 1 .. Len(Orphans) /\ e.call = Orphans[n].call /\ e.execution = "unknown"
      BY <2>2, <2>4, <2>5, <2>7, <3>1 DEF EntryOf
    <3>3. e.call \notin CallsOf("decision")
      BY <2>1, <3>2, OrphansFacts DEF IInv
    <3>4. e.call \notin before.done
      <4>1. SUFFICES ASSUME e.call \in before.done PROVE FALSE
        OBVIOUS
      <4>2. PICK m \in before.index : m.view = "decision" /\ m.call = e.call
        BY <2>1, <4>1 DEF IInv, BeforeInv
      <4> QED BY <2>1, <3>3, <4>2, WholeFacts
    <3> QED BY <3>2, <3>4
  <2> QED BY <2>6, <2>7
<1> QED BY <1>1, Always, PTL

\* A page without has_more shows every record the views held when the request
\* began, at every limit, and no more decisions than the total.
THEOREM NothingIsHidden == Spec => []NothingHidden
<1>1. IInv => NothingHidden
  <2>1. SUFFICES ASSUME IInv, Complete
                 PROVE  /\ \A m \in before.index : \E e \in Shown : e.call = m.call
                        /\ displaced = {} => Len(page["decision"]) <= total
    BY DEF NothingHidden
  <2>2. displaced = {} => Len(page["decision"]) <= total
    BY <2>1 DEF IInv, ScanInv, Complete, Scanned
  <2>3. "decision" \in View /\ "intent" \in View
    BY ConstantFacts
  <2>4. PICK d \in Seq(Rec) : d = page["decision"]
    BY <2>1, <2>3 DEF IInv, Types
  <2>5. PICK s \in Seq(Response) : s = entries
    BY <2>1 DEF IInv, EntriesInv
  <2>6. PICK o : o = Orphans
    OBVIOUS
  <2>7. Len(d) \in Nat /\ Len(s) \in Nat /\ Len(o) \in Nat /\ Len(s) = Len(d) + Len(o)
    <3>1. Len(o) \in Nat
      BY <2>1, <2>6, OrphansFacts DEF IInv
    <3> QED BY <2>1, <2>4, <2>5, <2>6, <3>1 DEF IInv, EntriesInv, Complete
  <2>8. \A i \in 1 .. Len(s) : s[i] \in Shown /\ EntryOf(s[i], i)
    <3>1. DOMAIN s = 1 .. Len(s)
      OBVIOUS
    <3> QED BY <2>1, <2>5, <3>1 DEF IInv, EntriesInv, Shown, ToSet
  <2>9. ASSUME NEW c \in CallsOf("decision") PROVE \E e \in Shown : e.call = c
    <3>1. PICK i \in 1 .. Len(page["decision"]) : page["decision"][i].call = c
      BY <2>1, <2>3, CallsFacts DEF IInv
    <3>2. i \in 1 .. Len(s) /\ i <= Len(d)
      BY <2>4, <2>7
    <3>3. s[i].call = c
      BY <2>4, <2>8, <3>1, <3>2 DEF EntryOf
    <3> QED BY <2>8, <3>2, <3>3
  <2>10. ASSUME NEW c \in CallsOf("intent"), c \notin CallsOf("decision")
         PROVE  \E e \in Shown : e.call = c
    <3>1. PICK k \in 1 .. Len(page["intent"]) : page["intent"][k].call = c
      BY <2>1, <2>3, CallsFacts DEF IInv
    <3>2. PICK n \in 1 .. Len(o) : o[n] = page["intent"][k]
      BY <2>1, <2>6, <2>10, <3>1, OrphansFacts DEF IInv
    <3>3. PICK i : i = Len(d) + n
      OBVIOUS
    <3>4. i \in 1 .. Len(s) /\ i > Len(d) /\ i - Len(d) = n
      BY <2>7, <3>3
    <3>5. s[i].call = o[n].call
      BY <2>4, <2>6, <2>8, <3>4 DEF EntryOf
    <3> QED BY <2>8, <3>1, <3>2, <3>4, <3>5
  <2>11. ASSUME NEW m \in before.index PROVE \E e \in Shown : e.call = m.call
    <3>1. m.view \in View /\ m.call \in CallsOf(m.view)
      BY <2>1, WholeFacts
    <3>2. m.view = "decision" \/ m.view = "intent"
      BY <3>1, ConstantFacts
    <3> QED BY <2>9, <2>10, <3>1, <3>2
  <2> QED BY <2>2, <2>11
<1> QED BY <1>1, Always, PTL

\* What a row says of its payload is so: nothing erased when the request began
\* is shown as present or called lost.
THEOREM PayloadsAreTrue == Spec => []PayloadIsTrue
<1>1. IInv => PayloadIsTrue
  BY ShownFacts DEF PayloadIsTrue, EntryTrue
<1> QED BY <1>1, Always, PTL

\* Every fault record that was in the ledger when the request began is counted
\* on its row, once, whatever the page size of the scan, and nothing else is.
THEOREM FaultsCounted == Spec => []FaultsAreCounted
<1>1. IInv => FaultsAreCounted
  BY ShownFacts DEF FaultsAreCounted, EntryTrue
<1> QED BY <1>1, Always, PTL

\* D33: a damaged order is never served as a whole page, and an undamaged one
\* is never refused.
THEOREM OrderVouchedFor == Spec => []OrderIsVouchedFor
<1>1. IInv => OrderIsVouchedFor
  <2>1. ASSUME IInv, Complete, mine = Reserve, NEW m \in before.index, NEW n \in before.index,
               Contradicts(m, n)
        PROVE  FALSE
    <3>1. /\ m # n /\ m.view = n.view /\ m.score > Reserve /\ n.score > Reserve
          /\ m.score >= n.score /\ TxOfRow(m) <= TxOfRow(n)
      BY <2>1 DEF Contradicts
    <3>2. PICK v \in View : v = m.view
      BY <2>1, WholeFacts
    <3>3. PICK p \in Seq(Rec) : p = page[v]
      BY <2>1, <3>2 DEF IInv, Types
    <3>4. Whole(p, v) /\ InOrder(p)
      BY <2>1, <3>2, <3>3 DEF IInv, ScanInv, Complete, Scanned
    <3>5. PICK i \in 1 .. Len(p) : p[i] = m
      BY <3>2, <3>4 DEF Whole
    <3>6. PICK j \in 1 .. Len(p) : p[j] = n
      BY <3>1, <3>2, <3>4 DEF Whole
    <3>7. /\ m.score \in Nat /\ n.score \in Nat /\ TxOfRow(m) \in Nat /\ TxOfRow(n) \in Nat
      <4>1. m \in Rec /\ n \in Rec
        BY <3>5, <3>6, Members
      <4> QED BY <2>1, <4>1, TxTypes DEF IInv, Rec, TxOfRow
    <3>8. i < j \/ j < i \/ i = j
      OBVIOUS
    <3>9. CASE i < j
      BY <3>1, <3>4, <3>5, <3>6, <3>7, <3>9 DEF InOrder
    <3>10. CASE j < i
      BY <3>1, <3>4, <3>5, <3>6, <3>7, <3>10 DEF InOrder
    <3> QED BY <3>1, <3>5, <3>6, <3>8, <3>9, <3>10
  <2>2. ASSUME IInv, displaced = {}, NEW v \in View, Disagrees(ZscanView(v))
        PROVE  FALSE
    <3>1. PICK z : z = ZscanView(v)
      OBVIOUS
    <3>2. z \in Seq(Rec) /\ IsScan(z, v) /\ DOMAIN z = 1 .. Len(z)
      BY <2>2, <3>1, ZscanFacts DEF IInv
    <3>3. PICK i \in 1 .. Len(z), j \in 1 .. Len(z) :
             /\ i < j /\ z[i].score >= mine + 1 /\ z[j].score >= mine + 1
             /\ ~(z[i].score > z[j].score /\ TxOfRow(z[i]) > TxOfRow(z[j]))
      BY <2>2, <3>1, <3>2 DEF Disagrees, Neighbours, Allocated, FirstAllocated
    <3>4. /\ z[i] \in index /\ z[j] \in index /\ z[i].view = z[j].view /\ Descends(z[i], z[j])
      BY <3>2, <3>3 DEF IsScan
    <3>5. mine \in Nat \ {0} /\ z[i].score \in Nat /\ z[j].score \in Nat /\ z[i].call \in Nat
      BY <2>2, <3>4, ConstantFacts DEF IInv, Types, Rec
    <3>6. z[i].call \notin Old /\ z[j].call \notin Old
      <4>1. z[i].score # 1 /\ z[j].score # 1
        BY <3>3, <3>5
      <4> QED BY <2>2, <3>4, <4>1 DEF IInv, PositionInv
    <3>7. /\ z[i].score > z[j].score => TxOfRow(z[i]) > TxOfRow(z[j])
          /\ z[i].score = z[j].score => z[i] = z[j]
      BY <2>2, <3>4, <3>6 DEF IInv, PositionInv
    <3> QED BY <3>3, <3>4, <3>5, <3>7 DEF Descends
  <2> QED BY <2>1, <2>2 DEF OrderIsVouchedFor
<1> QED BY <1>1, Always, PTL

=============================================================================
