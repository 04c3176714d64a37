----------------------------- MODULE AuditPage -----------------------------
(***************************************************************************)
(* control_plane/main.py, GET /audit: a page put together from five reads  *)
(* of the ledger, the content store and the verifier, each at a moment of  *)
(* its own, while calls are recorded, payloads are erased and fault        *)
(* records are written.  One request; everything else is its environment,  *)
(* in the steps the other modules show it to take.                         *)
(***************************************************************************)
EXTENDS Integers, Sequences, SequencesExt, FiniteSets, FiniteSetsExt, Sorting

CONSTANTS NumCalls,       \* calls are 1 .. NumCalls
          Mediated,       \* calls that write an intent before they execute
          Old,            \* calls of one transaction before the view index, backfilled
          Reserve,        \* RESERVED_POSITIONS of the writers
          Requests,       \* limit and verify of a request, and the
                          \* _RESERVED_POSITIONS of the process that serves it
          MaxScanLimit,   \* _MAX_SCAN_LIMIT as the bound of a page
          FaultScan,      \* _MAX_SCAN_LIMIT as the page of the fault scan
          MaxTx,          \* bound: transactions in the ledger
          MaxFaults,      \* bound: fault records
          MaxErasures,    \* bound: erasures started
          MaxDeleted,     \* bound: rows deleted by hand
          MaxDisplaced    \* bound: index members at a second position

Call == 1 .. NumCalls
View == {"decision", "intent"}
FaultForm == {"valid", "forged"}

ASSUME AuditAssumption ==
    /\ NumCalls \in Nat
    /\ Mediated \subseteq Call
    /\ Old \subseteq Call \ Mediated
    /\ {Reserve, MaxScanLimit, FaultScan, MaxTx} \subseteq Nat \ {0}
    /\ Requests \subseteq [limit : Int, verify : BOOLEAN, reserve : Nat \ {0}]
    /\ {MaxFaults, MaxErasures, MaxDeleted, MaxDisplaced} \subseteq Nat

VARIABLES head,      \* ImmuDB: transactions committed
          txOf,      \* ImmuDB: txOf[v][c] is the transaction of that record, 0 for none
          index,     \* ImmuDB: the zset members of both views
          counter,   \* ImmuDB: the last position, the reserve before the first
          tomb,      \* ImmuDB: calls with a content_erasure tombstone
          faults,    \* ImmuDB: fault records
          rows,      \* content store: calls with a row
          absent,    \* calls recorded with content_state "unavailable"
          deleted,   \* calls whose row was deleted by hand
          displaced, \* index members at a second position
          pc,        \* the request: what it does next
          limit,     \* its parameters
          verify,
          mine,      \* _RESERVED_POSITIONS of the process that serves it
          before,    \* the ledger as the request found it
          page,      \* page[v]: the rows of the view's scan
          hasMore,   \* has_more
          total,     \* ledger_decision_count
          tombs,     \* tombstoned_call_ids
          seek,      \* the fault scan: the last key read
          found,     \* the fault scan: the entries so far
          up,        \* verifier_up
          entries    \* the rows of the response

ledger == <<head, txOf, index, counter, tomb, faults>>
content == <<rows, absent, deleted>>
world == <<ledger, content, displaced>>
request == <<limit, verify, mine, before>>
reads == <<page, hasMore, total, tombs, seek, found>>
vars == <<world, pc, request, reads, up, entries>>

-----------------------------------------------------------------------------
(* The ledger, and what happens to it.                                     *)

Member(v, c, s) == [view |-> v, call |-> c, score |-> s]

\* committed_key, the key's transaction, the entry's own transaction and
\* whether the body and the signature are what they should be.
FaultRecord(v, c, k, t, f) == [view |-> v, call |-> c, keyTx |-> k, tx |-> t, form |-> f]

OldTx == IF Old = {} THEN 0 ELSE 1

EmptyView == [v \in View |-> <<>>]
Nothing == [index |-> {}, done |-> {}, tomb |-> {}, faults |-> {}]

Init ==
    /\ head = OldTx
    /\ txOf = [v \in View |-> [c \in Call |-> IF v = "decision" /\ c \in Old THEN 1 ELSE 0]]
    /\ index = {Member("decision", c, 1) : c \in Old}
    /\ counter = Reserve
    /\ tomb = {}
    /\ faults = {}
    /\ rows = Old
    /\ absent = {}
    /\ deleted = {}
    /\ displaced = {}
    /\ pc = "idle"
    /\ limit = 0
    /\ verify = FALSE
    /\ mine = Reserve
    /\ before = Nothing
    /\ page = EmptyView
    /\ hasMore = FALSE
    /\ total = 0
    /\ tombs = {}
    /\ seek = <<0, 0>>
    /\ found = <<>>
    /\ up = TRUE
    /\ entries = <<>>

Commit == head < MaxTx /\ head' = head + 1

\* An ordered write: the record, and its position in the view.
WriteRecord(v, c) ==
    /\ txOf[v][c] = 0
    /\ Commit
    /\ txOf' = [txOf EXCEPT ![v][c] = head']
    /\ counter' = counter + 1
    /\ index' = index \cup {Member(v, c, counter')}

\* The first record of a call, after its payload was stored; some calls have
\* none to store.
FirstRecord(c) ==
    /\ c \notin Old
    /\ WriteRecord(IF c \in Mediated THEN "intent" ELSE "decision", c)
    /\ \/ rows' = rows \cup {c} /\ UNCHANGED absent
       \/ absent' = absent \cup {c} /\ UNCHANGED rows
    /\ UNCHANGED <<tomb, faults, deleted, displaced, pc, request, reads, up, entries>>

\* The completion of a mediated call.
Completion(c) ==
    /\ c \in Mediated
    /\ txOf["intent"][c] > 0
    /\ WriteRecord("decision", c)
    /\ UNCHANGED <<tomb, faults, content, displaced, pc, request, reads, up, entries>>

\* DELETE /content: the tombstone, then the row.
WriteTombstone(c) ==
    /\ c \in rows \ tomb
    /\ Cardinality(tomb) < MaxErasures
    /\ Commit
    /\ tomb' = tomb \cup {c}
    /\ UNCHANGED <<txOf, index, counter, faults, content, displaced, pc, request,
                   reads, up, entries>>

DeleteRow(c) ==
    /\ c \in rows \cap tomb
    /\ rows' = rows \ {c}
    /\ UNCHANGED <<ledger, absent, deleted, displaced, pc, request, reads, up, entries>>

\* A row goes some other way.
DeleteByHand(c) ==
    /\ c \in rows \ tomb
    /\ Cardinality(deleted) < MaxDeleted
    /\ rows' = rows \ {c}
    /\ deleted' = deleted \cup {c}
    /\ UNCHANGED <<ledger, absent, displaced, pc, request, reads, up, entries>>

\* A fault record about a record of the ledger, keyed by that record's
\* transaction, or an entry under such a key that is not one: another
\* record_type, a body that names another transaction, no valid signature.
WriteFault(v, c) ==
    /\ txOf[v][c] > 0
    /\ Cardinality(faults) < MaxFaults
    /\ Commit
    /\ \E f \in FaultForm :
          faults' = faults \cup {FaultRecord(v, c, txOf[v][c], head', f)}
    /\ UNCHANGED <<txOf, index, counter, tomb, content, displaced, pc, request, reads,
                   up, entries>>

\* Index damage: an allocated record is given a second position.
Displace ==
    /\ Cardinality(displaced) < MaxDisplaced
    /\ \E m \in index :
          /\ m.score > Reserve
          /\ displaced' = displaced \cup {[m EXCEPT !.score = counter + 1]}
          /\ index' = index \cup displaced'
    /\ UNCHANGED <<head, txOf, counter, tomb, faults, content, pc, request, reads, up,
                   entries>>

-----------------------------------------------------------------------------
(* The reads of the request.                                               *)

Goto(label) == pc' = label

\* One row more than the page is asked for, and never more than the ledger
\* serves; the page shrinks with it.
ScanLimit_NoExtra == IF limit < 1 THEN 1 ELSE IF limit > MaxScanLimit THEN MaxScanLimit ELSE limit
ScanLimit ==
    IF limit + 1 < 1 THEN 1 ELSE IF limit + 1 > MaxScanLimit THEN MaxScanLimit ELSE limit + 1
PageLimit == IF limit + 1 > MaxScanLimit THEN MaxScanLimit - 1 ELSE IF limit < 0 THEN 0 ELSE limit

\* Highest score first; of one score, the later key first.
NewestFirst(S) ==
    Sorted(S, LAMBDA a, b : a.score > b.score \/ (a.score = b.score /\ a.call > b.call))

AtMost(s, n) == SubSeq(s, 1, IF Len(s) < n THEN Len(s) ELSE n)

ZscanView(v) == AtMost(NewestFirst({m \in index : m.view = v}), ScanLimit)

TxOfRow(m) == txOf[m.view][m.call]

\* The places of a scan's allocated rows, and that two neighbours among them
\* disagree about order.
FirstAllocated == mine + 1
Allocated_All(scan) == DOMAIN scan
Allocated(scan) == {i \in DOMAIN scan : scan[i].score >= FirstAllocated}
Neighbours(i, j, scan) ==
    i < j /\ \A n \in Allocated(scan) : n <= i \/ n >= j
Disagrees(scan) ==
    \E i, j \in Allocated(scan) :
        /\ Neighbours(i, j, scan)
        /\ ~(scan[i].score > scan[j].score /\ TxOfRow(scan[i]) > TxOfRow(scan[j]))

\* The request arrives, and the bound reserve must be the control plane's; it
\* never changes, so the cached value and a fresh read agree.
Begin ==
    /\ pc = "idle"
    /\ \E r \in Requests : limit' = r.limit /\ verify' = r.verify /\ mine' = r.reserve
    /\ before' = [index |-> index, done |-> {c \in Call : txOf["decision"][c] > 0},
                  tomb |-> tomb, faults |-> faults]
    /\ Goto(IF counter > Reserve /\ mine' # Reserve THEN "refused" ELSE "scan1")
    /\ UNCHANGED <<world, reads, up, entries>>

\* The decision view, then the intent view.
ScanOrder_IntentsFirst == <<"intent", "decision">>
ScanOrder == <<"decision", "intent">>

Scan1 ==
    /\ pc = "scan1"
    /\ page' = [page EXCEPT ![ScanOrder[1]] = ZscanView(ScanOrder[1])]
    /\ Goto("scan2")
    /\ UNCHANGED <<world, request, hasMore, total, tombs, seek, found, up, entries>>

\* The second view; then, on both, the order check, has_more and the cut.
Scan2 ==
    /\ pc = "scan2"
    /\ LET scans == [page EXCEPT ![ScanOrder[2]] = ZscanView(ScanOrder[2])]
       IN  IF \E v \in View : Disagrees(scans[v])
           THEN /\ Goto("refused")
                /\ UNCHANGED <<page, hasMore>>
           ELSE /\ Goto("count")
                /\ hasMore' = (\E v \in View : Len(scans[v]) > PageLimit)
                /\ page' = [v \in View |-> AtMost(scans[v], PageLimit)]
    /\ UNCHANGED <<world, request, total, tombs, seek, found, up, entries>>

\* The ledger's own count of decision records: an empty prefix would count
\* everything.
DecisionCount_LedgerWide == head
DecisionCount == Cardinality({c \in Call : txOf["decision"][c] > 0})

Count ==
    /\ pc = "count"
    /\ total' = DecisionCount
    /\ Goto("tombstones")
    /\ UNCHANGED <<world, request, page, hasMore, tombs, seek, found, up, entries>>

CallsOf(v) == {m.call : m \in ToSet(page[v])}

\* One getall for the calls of the page.
PageCallIds_Decisions == CallsOf("decision")
PageCallIds == CallsOf("decision") \cup CallsOf("intent")

Tombstones ==
    /\ pc = "tombstones"
    /\ tombs' = tomb \cap PageCallIds
    /\ Goto("faults")
    /\ UNCHANGED <<world, request, page, hasMore, total, seek, found, up, entries>>

\* The fault records of the page's transactions: a key is its padded
\* transaction, then the identity of the record.
PageTxs == {TxOfRow(m) : m \in ToSet(page["decision"] \o page["intent"])}
FaultKey(f) == <<f.keyTx, f.tx>>
KeyBefore(a, b) == a[1] < b[1] \/ (a[1] = b[1] /\ a[2] < b[2])

Past(f) == KeyBefore(seek, FaultKey(f))

WindowEnd_Exclusive == Max(PageTxs)
WindowEnd == Max(PageTxs) + 1

FaultPage ==
    LET window == {f \in faults : f.keyTx >= Min(PageTxs) /\ f.keyTx < WindowEnd /\ Past(f)}
    IN  AtMost(Sorted(window, LAMBDA a, b : KeyBefore(FaultKey(a), FaultKey(b))), FaultScan)

ReadFaults ==
    /\ pc = "faults"
    /\ IF PageTxs = {}
       THEN Goto("rows") /\ UNCHANGED <<seek, found>>
       ELSE /\ found' = found \o FaultPage
            /\ IF Len(FaultPage) < FaultScan
               THEN Goto("rows") /\ UNCHANGED seek
               ELSE seek' = FaultKey(Last(FaultPage)) /\ UNCHANGED pc
    /\ UNCHANGED <<world, request, page, hasMore, total, tombs, up, entries>>

\* A request to the ledger fails, or answers outside the bound it was given:
\* no page.
LedgerFails ==
    /\ pc \in {"scan1", "scan2", "count", "tombstones", "faults"}
    /\ Goto("refused")
    /\ UNCHANGED <<world, request, reads, up, entries>>

-----------------------------------------------------------------------------
(* The rows of the response.                                               *)

\* A fault entry is shown only if it is what it claims to be.
Rendered(f) == f.form = "valid"

\* _merge_fault: how many there are, and the newest.
FaultOf(m) ==
    LET its == {i \in DOMAIN found :
                  Rendered(found[i]) /\ found[i].view = m.view /\ found[i].call = m.call}
    IN  [count |-> Cardinality(its), newest |-> Max({0} \cup {found[i].tx : i \in its})]

\* The content row is read now, the tombstones were read before.
PayloadState_RowFirst(c) ==
    IF c \in absent THEN "unavailable"
    ELSE IF c \in rows THEN "present"
    ELSE IF c \in tombs THEN "erased" ELSE "lost"
PayloadState(c) ==
    IF c \in absent THEN "unavailable"
    ELSE IF c \in tombs THEN (IF c \in rows THEN "erasure_conflict" ELSE "erased")
    ELSE IF c \in rows THEN "present" ELSE "lost"

\* _verify_one_key: the verifier answers, or the request to it fails.
Verifications == {"answered", "unreachable"}

Entry(m, execution, verification) ==
    [view |-> m.view, call |-> m.call, execution |-> execution,
     payload |-> PayloadState(m.call), fault |-> FaultOf(m), verification |-> verification]

\* The breaker: after a failed request the remaining rows are not checked.
Breaker(v) == v # "unreachable"

\* Decision rows in page order.
DecisionRow ==
    /\ pc = "rows"
    /\ Len(entries) < Len(page["decision"])
    /\ LET m == page["decision"][Len(entries) + 1]
           execution == IF m.call \in CallsOf("intent") THEN "completed" ELSE "n/a"
       IN  \E v \in IF verify /\ up THEN Verifications ELSE {"asserted"} :
              /\ entries' = Append(entries, Entry(m, execution, v))
              /\ up' = (up /\ Breaker(v))
    /\ UNCHANGED <<world, pc, request, reads>>

\* Intents of the page with no decision on the page, which no breaker stops.
Orphans ==
    LET at == Sorted({i \in DOMAIN page["intent"] : page["intent"][i].call \notin CallsOf("decision")},
                     LAMBDA i, j : i < j)
    IN  [n \in DOMAIN at |-> page["intent"][at[n]]]

OrphanRow ==
    /\ pc = "rows"
    /\ Len(entries) >= Len(page["decision"])
    /\ LET n == Len(entries) - Len(page["decision"]) + 1
       IN  /\ n <= Len(Orphans)
           /\ \E v \in IF verify THEN Verifications ELSE {"asserted"} :
                 entries' = Append(entries, Entry(Orphans[n], "unknown", v))
    /\ UNCHANGED <<world, pc, request, reads, up>>

Respond ==
    /\ pc = "rows"
    /\ Len(entries) = Len(page["decision"]) + Len(Orphans)
    /\ Goto("served")
    /\ UNCHANGED <<world, request, reads, up, entries>>

\* What goes on beside the request; what happens after it is over no longer
\* matters to it.
Environment ==
    /\ pc \notin {"served", "refused"}
    /\ \/ \E c \in Call : \/ FirstRecord(c)
                          \/ Completion(c)
                          \/ WriteTombstone(c)
                          \/ DeleteRow(c)
                          \/ DeleteByHand(c)
                          \/ \E v \in View : WriteFault(v, c)
       \/ Displace

Next ==
    \/ Environment
    \/ Begin
    \/ Scan1
    \/ Scan2
    \/ Count
    \/ Tombstones
    \/ ReadFaults
    \/ LedgerFails
    \/ DecisionRow
    \/ OrphanRow
    \/ Respond

Spec == Init /\ [][Next]_vars

-----------------------------------------------------------------------------
(* Properties.                                                             *)

PayloadStates == {"present", "unavailable", "erased", "lost", "erasure_conflict"}

\* The variables keep their types; the fields of a row are of the closed sets
\* the route documents.
TypeOK ==
    /\ head \in 0 .. MaxTx
    /\ txOf \in [View -> [Call -> 0 .. MaxTx]]
    /\ index \subseteq [view : View, call : Call, score : Nat]
    /\ counter \in Nat
    /\ tomb \cup rows \cup absent \cup deleted \cup tombs \subseteq Call
    /\ pc \in {"idle", "scan1", "scan2", "count", "tombstones", "faults", "rows", "served",
               "refused"}
    /\ \A v \in View : Len(page[v]) <= MaxScanLimit
    /\ total \in 0 .. NumCalls
    /\ \A i \in DOMAIN entries :
          /\ entries[i].execution \in {"completed", "unknown", "n/a"}
          /\ entries[i].payload \in PayloadStates
          /\ entries[i].verification \in Verifications \cup {"asserted"}

Shown == ToSet(entries)
Complete == pc = "served" /\ ~hasMore

\* execution_state tells the truth on a page that holds everything: a call it
\* calls unknown had no completion when the request began, and one it calls
\* n/a has no intent, although the two views were read at two moments.
ExecutionStateIsTrue ==
    Complete =>
        \A e \in Shown :
            /\ e.execution = "unknown" => e.call \notin before.done
            /\ e.execution = "n/a" => txOf["intent"][e.call] = 0

\* has_more is exact at every limit: without it the page shows every record
\* the views held when the request began, and no more decisions than the total.
NothingHidden ==
    Complete =>
        /\ \A m \in before.index : \E e \in Shown : e.call = m.call
        /\ displaced = {} => Len(page["decision"]) <= total

\* What a row says of its payload is so although the tombstones were read
\* before the content rows: no payload is shown for a call whose tombstone
\* was in the ledger when the request began, on a decision row or on an
\* orphan, even where the row came back; and "lost - some other way the row
\* disappeared" is said of no erased call, unless it was erased meanwhile.
PayloadIsTrue ==
    \A e \in Shown :
        /\ e.payload = "present" => e.call \notin before.tomb
        /\ e.payload = "lost" => e.call \in deleted \/ e.call \in tomb \ before.tomb

Genuine(S, e) == {f \in S : f.form = "valid" /\ f.view = e.view /\ f.call = e.call}

\* Every fault record that was in the ledger when the request began is counted
\* on its row, once, however many pages the scan takes and wherever the row's
\* transaction lies in the window, and nothing forged is.
FaultsAreCounted ==
    \A e \in Shown :
        /\ e.fault.count \in Cardinality(Genuine(before.faults, e)) .. Cardinality(Genuine(faults, e))
        /\ \A f \in Genuine(before.faults, e) : f.tx <= e.fault.newest

\* D33: an index that disagreed with the ledger when the request began is
\* never served as a whole page; an undamaged one, backfilled history with
\* shared scores included, is never refused for it.
Contradicts(m, n) ==
    m # n /\ m.view = n.view /\ m.score > Reserve /\ n.score > Reserve
        /\ m.score >= n.score /\ TxOfRow(m) <= TxOfRow(n)

OrderIsVouchedFor ==
    /\ Complete /\ mine = Reserve => ~ \E m, n \in before.index : Contradicts(m, n)
    /\ pc = "scan2" /\ displaced = {} => \A v \in View : ~Disagrees(ZscanView(v))

\* "any intent record whose call_id never showed up as a completion entry above
\* executed but never got a durable outcome recorded": no page, whole or not,
\* calls unknown a call that was completed when the request began.
UnknownIsUnrecorded ==
    pc = "served" => \A e \in Shown : e.execution = "unknown" => e.call \notin before.done
=============================================================================
