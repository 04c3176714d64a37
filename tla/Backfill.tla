------------------------------ MODULE Backfill ------------------------------
(***************************************************************************)
(* tools/ail_backfill_index.py: one pass indexes, in both views, the       *)
(* records written before the view index existed, each at the score of its *)
(* own transaction, and raises a counter that still runs below the reserve.*)
(* A pass may be interrupted anywhere and run again.  Live ordered writes  *)
(* go on beside it; one of them is a single step here, as OrderedWrite     *)
(* shows it to be.                                                         *)
(***************************************************************************)
EXTENDS Integers, FiniteSets, FiniteSetsExt

CONSTANTS NumKeys,        \* record keys are 1 .. NumKeys, in key order
          ViewOf,         \* ViewOf[k]: the view of key k
          History,        \* History[k]: transaction of k at the start, 0 for none
          StartTx,        \* transactions in the ledger at the start
          Deployments,    \* at the start: index members from before the reserve
                          \* existed, and the counter, 0 for none
          Reserve,        \* RESERVED_POSITIONS of the writers
          ToolReserve,    \* RESERVED_POSITIONS of the tool
          ScanPage,       \* SCAN_PAGE
          Strays,         \* index members that damage may add
          Bounds          \* bounds: of the passes started, of the index members
                          \* lost or added by damage, of the transactions in the
                          \* ledger, and the reserve of the service that
                          \* also reads the index, 0 for none

Key == 1 .. NumKeys
Views == <<"decision", "intent">>
View == {"decision", "intent"}

\* A member of a view's zset.  Key 0 is a key that does not decode; only
\* damage makes one, or a score of zero.
Member == [view : View, key : Key \cup {0}, score : Nat]

\* Ordered writes from before the reserve existed: positions 1 .. counter, each
\* of one record, and no record at two.
Allocating(d) ==
    /\ IsFiniteSet(d.positions)
    /\ d.positions \subseteq Member
    /\ d.counter \in Nat
    /\ \A m \in d.positions :
          /\ m.key \in Key /\ History[m.key] > 0 /\ m.view = ViewOf[m.key]
          /\ m.score \in 1 .. d.counter
    /\ \A n \in 1 .. d.counter : \E m \in d.positions : m.score = n
    /\ \A m, n \in d.positions : m.key = n.key \/ m.score = n.score => m = n

ASSUME BackfillAssumption ==
    /\ NumKeys \in Nat
    /\ ViewOf \in [Key -> View]
    /\ History \in [Key -> Nat]
    /\ \A k \in Key : History[k] <= StartTx
    /\ \A d \in Deployments : Allocating(d)
    /\ Strays \subseteq Member
    /\ {StartTx, Reserve, ToolReserve, ScanPage} \subseteq Nat \ {0}
    /\ Bounds \subseteq [passes : Nat, damage : Nat, txs : Nat, readers : Nat]
    /\ \A b \in Bounds : StartTx <= b.txs

VARIABLES head,     \* ImmuDB: transactions committed
          rec,      \* ImmuDB: rec[k] is the transaction of record k, 0 for none
          members,  \* ImmuDB: the zset members of both views
          counter,  \* ImmuDB: SEQUENCE_KEY, value 0 for none
          bound,    \* ImmuDB: RESERVE_KEY, 0 for none
          pc,       \* the pass: what it does next
          view,     \* the pass: index in Views
          already,  \* indexed_keys so far
          minScore, \* the bound of the next zscan page
          rows,     \* scan_all so far, as <<key, tx>>
          pending,  \* <<key, tx>> still to index
          observed, \* _counter_with_tx, value 0 for None
          passes,   \* passes started
          limits,   \* one of Bounds
          before,   \* records in the ledger when the pass started
          raced,    \* records written live while a pass was running
          inside,   \* records the counter placed inside the reserve
          stalled,  \* indexed_keys has ended at a full page that brought nothing new
          damaged   \* index members that no writer added or removed

ledger == <<head, rec, members, counter, bound>>
vars == <<ledger, pc, view, already, minScore, rows, pending, observed, passes, limits, before, raced, inside, stalled, damaged>>

None == [value |-> 0, tx |-> 0]

Init ==
    /\ rec = History
    /\ \E d \in Deployments :
          /\ members = d.positions
          /\ counter = [value |-> d.counter, tx |-> IF d.counter = 0 THEN 0 ELSE StartTx]
          /\ inside = {m.key : m \in d.positions}
    /\ bound = 0
    /\ head = StartTx
    /\ pc = "idle"
    /\ view = 1
    /\ already = {}
    /\ minScore = 0
    /\ rows = {}
    /\ pending = {}
    /\ observed = None
    /\ passes = 0
    /\ limits \in Bounds
    /\ before = {}
    /\ raced = {}
    /\ stalled = FALSE
    /\ damaged = {}

Running == pc \notin {"idle", "done", "refused"}

\* A transaction is committed; its id is head'.
Commit == head < limits.txs /\ head' = head + 1

-----------------------------------------------------------------------------
(* A live ordered write: the record, its position, the counter and, the    *)
(* first time, the reserve, in one transaction.                            *)

LivePosition == IF counter.value = 0 THEN Reserve + 1 ELSE counter.value + 1

LiveWrite(k) ==
    /\ rec[k] = 0
    /\ bound \in {0, Reserve}
    /\ Commit
    /\ rec' = [rec EXCEPT ![k] = head']
    /\ members' = members \cup {[view |-> ViewOf[k], key |-> k, score |-> LivePosition]}
    /\ counter' = [value |-> LivePosition, tx |-> head']
    /\ bound' = Reserve
    /\ raced' = IF Running THEN raced \cup {k} ELSE raced
    /\ inside' = IF LivePosition <= Reserve THEN inside \cup {k} ELSE inside
    /\ UNCHANGED <<pc, view, already, minScore, rows, pending, observed, passes, limits, before, stalled, damaged>>

-----------------------------------------------------------------------------
(* Reads of the pass, a page at a time.                                    *)

InView(k) == ViewOf[k] = Views[view]
Held(v) == {m \in members : m.view = v}

\* A page of at most n of the members S, by score, then key, as zscan orders
\* them, and the score of its last row.
Precedes(a, b) == a.score < b.score \/ (a.score = b.score /\ a.key < b.key)
ScorePage(S, n) == {m \in S : Cardinality({x \in S : Precedes(x, m)}) < n}
LastScore(page) == Max({m.score : m \in page})

\* zscan of the view from minScore, that score included.
IndexPage == ScorePage({m \in Held(Views[view]) : m.score >= minScore}, ScanPage)

\* scan of the view's prefix past the last key read, in key order.
LastKey == IF rows = {} THEN 0 ELSE Max({row[1] : row \in rows})
KeyPage(S, n) == {k \in S : Cardinality({j \in S : j < k}) < n}
RecordPage ==
    {<<k, rec[k]>> : k \in KeyPage({j \in Key : InView(j) /\ rec[j] > 0 /\ j > LastKey}, ScanPage)}

\* login, and the reserve the ledger has bound, which must be the tool's.
StartPass ==
    /\ ~Running
    /\ passes < limits.passes
    /\ passes' = passes + 1
    /\ pc' = IF bound # 0 /\ bound # ToolReserve THEN "refused" ELSE "index"
    /\ view' = 1
    /\ already' = {}
    /\ minScore' = 0
    /\ rows' = {}
    /\ pending' = {}
    /\ observed' = None
    /\ before' = {k \in Key : rec[k] > 0}
    /\ UNCHANGED <<ledger, limits, raced, inside, stalled, damaged>>

\* One page of indexed_keys: the last page is short, or brings nothing new.
LastIndexPage_First(page, seen) == TRUE
LastIndexPage(page, seen) == Cardinality(page) < ScanPage \/ seen = already

ReadIndex ==
    /\ pc = "index"
    /\ LET page == IndexPage
           seen == already \cup {m.key : m \in page}
       IN  /\ already' = seen
           /\ minScore' = IF page = {} THEN minScore ELSE LastScore(page)
           /\ pc' = IF LastIndexPage(page, seen) THEN "scan" ELSE "index"
           /\ stalled' = (stalled \/ (Cardinality(page) >= ScanPage /\ seen = already))
    /\ UNCHANGED <<ledger, view, rows, pending, observed, passes, limits, before, raced, inside, damaged>>

\* What this view adds to pending once it is read: the rows not indexed.
Missing(read) == {row \in read : row[1] \notin already}
Found_LastView(read) == Missing(read)
Found(read) == pending \cup Missing(read)

\* One page of scan_all; after the last one the rows that the index does not
\* hold are kept, and the next view follows.  A transaction at or above the
\* reserve refuses the pass.
OverReserve(found) == \E row \in found : row[2] >= ToolReserve

MoreRecords(page) == Cardinality(page) >= ScanPage

ReadRecords ==
    /\ pc = "scan"
    /\ LET page == RecordPage
           read == rows \cup page
           found == Found(read)
       IN  IF MoreRecords(page)
           THEN /\ rows' = read
                /\ UNCHANGED <<pc, view, already, minScore, pending>>
           ELSE /\ rows' = {}
                /\ already' = {}
                /\ minScore' = 0
                /\ pending' = found
                /\ IF view = 1
                   THEN view' = 2 /\ pc' = "index"
                   ELSE /\ view' = view
                        /\ pc' = IF OverReserve(found) THEN "refused" ELSE "counter"
    /\ UNCHANGED <<ledger, observed, passes, limits, before, raced, inside, stalled, damaged>>

-----------------------------------------------------------------------------
(* The seam, and the writes.                                               *)

\* _counter_with_tx: no counter is None, and so is an answer other than 200.
ReadCounter ==
    /\ pc = "counter"
    /\ observed' = counter
    /\ pc' = IF counter.value = 0 \/ counter.value >= ToolReserve THEN "zadd" ELSE "seed"
    /\ UNCHANGED <<ledger, view, already, minScore, rows, pending, passes, limits, before, raced, inside, stalled, damaged>>

ReadCounterFails ==
    /\ pc = "counter"
    /\ observed' = None
    /\ pc' = "zadd"
    /\ UNCHANGED <<ledger, view, already, minScore, rows, pending, passes, limits, before, raced, inside, stalled, damaged>>

\* seed_counter_above_reserve: raised under KeyNotModifiedAfterTX; a refusal
\* ends the pass.
CounterUnmoved == counter.tx = observed.tx
Seed_Skipped ==
    /\ pc = "seed"
    /\ pc' = "zadd"
    /\ UNCHANGED <<ledger, view, already, minScore, rows, pending, observed, passes, limits, before, raced, inside, stalled, damaged>>

Seed ==
    /\ pc = "seed"
    /\ IF CounterUnmoved
       THEN /\ Commit
            /\ counter' = [value |-> ToolReserve, tx |-> head']
            /\ pc' = "zadd"
       ELSE pc' = "idle" /\ UNCHANGED <<head, counter>>
    /\ UNCHANGED <<rec, members, bound, view, already, minScore, rows, pending,
                   observed, passes, limits, before, raced, inside, stalled, damaged>>

\* pending in the order of the zadds: by transaction, and records of one
\* transaction as they were found, by view and then by key.
ViewIndex(v) == IF v = "decision" THEN 1 ELSE 2
Earlier(a, b) ==
    \/ a[2] < b[2]
    \/ a[2] = b[2] /\ ViewIndex(ViewOf[a[1]]) < ViewIndex(ViewOf[b[1]])
    \/ a[2] = b[2] /\ ViewOf[a[1]] = ViewOf[b[1]] /\ a[1] < b[1]

\* The score of a row is its own transaction.
Score_KeyOrder(row) == row[1]
Score_NoTx(row) == 0
Score(row) == row[2]

\* One zadd.
ZAdd ==
    /\ pc = "zadd"
    /\ Commit
    /\ \E row \in pending :
          /\ \A other \in pending : ~Earlier(other, row)
          /\ members' = members \cup {[view |-> ViewOf[row[1]], key |-> row[1], score |-> Score(row)]}
          /\ pending' = pending \ {row}
    /\ UNCHANGED <<rec, counter, bound, pc, view, already, minScore, rows,
                   observed, passes, limits, before, raced, inside, stalled, damaged>>

EndPass ==
    /\ pc = "zadd"
    /\ pending = {}
    /\ pc' = "done"
    /\ UNCHANGED <<ledger, view, already, minScore, rows, pending, observed,
                   passes, limits, before, raced, inside, stalled, damaged>>

\* A failed request, a signal, or the end of a dry run.
Interrupt ==
    /\ Running
    /\ pc' = "idle"
    /\ UNCHANGED <<ledger, view, already, minScore, rows, pending, observed,
                   passes, limits, before, raced, inside, stalled, damaged>>

\* The index is damaged: a member is gone, or one is there that nobody wrote.
LoseMember ==
    /\ \E m \in members \ damaged :
          /\ members' = members \ {m}
          /\ damaged' = damaged \cup {m}
    /\ Cardinality(damaged') <= limits.damage
    /\ UNCHANGED <<head, rec, counter, bound, pc, view, already, minScore, rows, pending,
                   observed, passes, limits, before, raced, inside, stalled>>

AddStray ==
    /\ \E m \in Strays \ (members \cup damaged) :
          /\ members' = members \cup {m}
          /\ damaged' = damaged \cup {m}
    /\ Cardinality(damaged') <= limits.damage
    /\ UNCHANGED <<head, rec, counter, bound, pc, view, already, minScore, rows, pending,
                   observed, passes, limits, before, raced, inside, stalled>>

Next ==
    \/ \E k \in Key : LiveWrite(k)
    \/ StartPass
    \/ ReadIndex
    \/ ReadRecords
    \/ ReadCounter
    \/ ReadCounterFails
    \/ Seed
    \/ ZAdd
    \/ EndPass
    \/ Interrupt
    \/ LoseMember
    \/ AddStray

Spec == Init /\ [][Next]_vars

-----------------------------------------------------------------------------
(* Properties.                                                             *)

\* The variables keep their types; every score a writer gives is a positive
\* number, which zscan needs, and a pass is at one of its steps.
TypeOK ==
    /\ head \in 1 .. limits.txs
    /\ rec \in [Key -> 0 .. limits.txs]
    /\ members \subseteq Member
    /\ \A m \in members \ damaged : m.key \in Key /\ m.score > 0
    /\ counter \in [value : Nat, tx : 0 .. limits.txs]
    /\ bound \in {0, Reserve}
    /\ pc \in {"idle", "index", "scan", "counter", "seed", "zadd", "done", "refused"}
    /\ view \in {1, 2}
    /\ already \subseteq Key \cup {0}
    /\ minScore \in Nat
    /\ rows \cup pending \subseteq Key \X (1 .. head)

\* Keys whose place in the index the writers do not answer for: written
\* while a pass was running, or damaged.  "Idempotent: a record already in
\* the view is skipped" fails for the first: a write that commits between
\* indexed_keys and scan_all is indexed a second time, at its transaction.
Unsettled == raced \cup {m.key : m \in damaged}

\* A record never holds two positions, however passes are cut and repeated
\* and however a view larger than a page is read.
OnePosition ==
    \A m, n \in members : m.key = n.key /\ m.key \notin Unsettled => m.score = n.score

\* The page order is the commit order, across history, live traffic and any
\* number of partial passes; only records of one transaction share a score.
\* What a counter from before the reserve placed inside it stays there.
PageMonotone ==
    \A m, n \in members :
        {m.key, n.key} \cap (Unsettled \cup inside) = {} =>
            (rec[m.key] < rec[n.key] => m.score < n.score)

\* The index is the commit order: one place per record, and records in the
\* order of their transactions, as long as no read of the index stopped at a
\* full page of keys it knew: there the tool does not look further.
IndexIsCommitOrder == ~stalled => OnePosition /\ PageMonotone

\* A pass that ends has left no hole: every record that was in the ledger
\* when it started is in its view, although live writes ran beside it.
PassLeavesNoHole ==
    pc = "done" =>
        \A k \in before : (\E m \in members : m.key = k) \/ \E m \in damaged : m.key = k

\* "Raising it first means a writer racing this backfill cannot take a
\* position inside the reserve": once a pass that saw the counter has reached
\* its zadds, no live write is given a position that history may hold.
SeamHolds ==
    [][\A m \in members' \ members :
          counter' # counter /\ pc \in {"zadd", "done"} /\ observed # None => m.score > Reserve]_vars
=============================================================================
