----------------------------- MODULE Reconcile -----------------------------
(***************************************************************************)
(* anchor_service/main.py, reconcile_once(): a periodic pass that compares *)
(* the sequence counter with the positions the views hold.  It reads the   *)
(* ledger in several requests, a page of a view at a time, while ordered   *)
(* writes and a backfill pass go on, so the module extends Backfill, whose *)
(* index damage is what the pass is there to find.                         *)
(***************************************************************************)
EXTENDS Backfill

CONSTANTS ZscanPage,      \* _ZSCAN_PAGE
          Fractions       \* scores that stand for numbers that are not integers

ASSUME ReconcileAssumption ==
    /\ ZscanPage \in Nat \ {0}
    \* no position that is handed out
    /\ Fractions \subseteq Nat
    /\ \A f \in Fractions, d \in Deployments, b \in Bounds :
          Reserve + b.txs < f /\ d.counter + b.txs < f

VARIABLES step,       \* the reconciliation: what it does next
          allocated,  \* the counter as read
          at,         \* collect_positions: index of the view in Views
          cursor,     \* collect_positions: min_score, NoScore for None
          got,        \* collect_positions: rows kept, of both views
          again,      \* collect_positions: rows kept more than once
          malformed,  \* collect_positions: reasons of the rows reported
          cut,        \* a walk has ended at a full page that brought no new score
          standing    \* what has been wrong with the ledger since the pass began

walk == <<step, allocated, at, cursor, got, again, malformed, cut>>
reader == <<walk, standing>>
allVars == <<vars, reader>>

\* RESERVED_POSITIONS of the service.
mine == limits.readers

NoScore == -1

ReconcileInit ==
    /\ Init
    /\ step = "sleep"
    /\ allocated = 0
    /\ at = 1
    /\ cursor = NoScore
    /\ got = {}
    /\ again = {}
    /\ malformed = {}
    /\ cut = FALSE
    /\ standing = {}

\* The pass is over: its result goes to the log and to the report file, which
\* is replaced as a whole and which nothing here reads again.
Sleep ==
    /\ step' = "sleep"
    /\ allocated' = 0
    /\ at' = 1
    /\ cursor' = NoScore
    /\ got' = {}
    /\ again' = {}
    /\ malformed' = {}
    /\ cut' = FALSE
    /\ standing' = {}

-----------------------------------------------------------------------------
(* What is wrong with an index, as a set of facts about it.                *)

InLiveRange(n) == n > Reserve

\* By the writers' reserve and the ledger as it is now.
Hole(n) ==
    n \in Reserve + 1 .. counter.value /\ ~ \E m \in members : m.score = n
Surplus(x) ==
    InLiveRange(x.score) /\ (x.score > counter.value \/ x.score \in Fractions)
Astray(x) == x.key # 0 /\ ViewOf[x.key] # x.view
Collide(x, y) == InLiveRange(x.score) /\ y.score = x.score /\ y.view # x.view
Repeat(x, y) == x.key # 0 /\ y.key = x.key /\ y.view = x.view /\ y # x
Unreadable(x) == x.key = 0 \/ x.score = 0

Faults ==
    {<<"hole", n>> : n \in {p \in Reserve + 1 .. counter.value : Hole(p)}}
    \cup {<<"surplus", x>> : x \in {m \in members : Surplus(m)}}
    \cup {<<"foreign", x>> : x \in {m \in members : Astray(m)}}
    \cup {<<"shared", p>> : p \in {q \in members \X members : Collide(q[1], q[2])}}
    \cup {<<"twice", p>> : p \in {q \in members \X members : Repeat(q[1], q[2])}}
    \cup {<<"unreadable", x>> : x \in {m \in members : Unreadable(m)}}

\* A step of the ledger: a fault that is mended is not one the pass must find.
Mended == standing' = standing \cap Faults'

-----------------------------------------------------------------------------
(* The pass.                                                               *)

\* Login, and _bound_reserve: no entry is None, and so is any answer but 200.
\* A reserve that is not the service's own refuses the pass.
Disagrees(read) == read # 0 /\ read # mine

BeginReconcile ==
    /\ step = "sleep"
    /\ mine # 0
    /\ \E read \in {bound, 0} :
          IF Disagrees(read)
          THEN Sleep
          ELSE /\ step' = "counter"
               /\ standing' = Faults
               /\ UNCHANGED <<allocated, at, cursor, got, again, malformed, cut>>
    /\ UNCHANGED vars

\* The counter; with no entry, or any answer but 200, the pass ends as
\* no_sequence.
ReconcileReadsCounter ==
    /\ step = "counter"
    /\ \E read \in {counter.value, 0} :
          IF read = 0
          THEN Sleep
          ELSE /\ step' = "positions"
               /\ allocated' = read
               /\ UNCHANGED <<at, cursor, got, again, malformed, cut, standing>>
    /\ UNCHANGED vars

\* The next view, or the verdict once every view has been walked.
EndView ==
    IF at = 1
    THEN /\ at' = 2
         /\ cursor' = NoScore
         /\ UNCHANGED step
    ELSE /\ step' = "judge"
         /\ UNCHANGED <<at, cursor>>

\* One page, ascending from the cursor, that score included.
PositionPage == ScorePage({m \in Held(Views[at]) : m.score >= cursor}, ZscanPage)

\* What is wrong with a row: no score (proto3 leaves a zero out), or a key that
\* does not decode.
RowReasons(row) ==
    (IF row.score = 0 THEN {"score_absent_or_zero"} ELSE {})
    \cup (IF row.key = 0 THEN {"unreadable_key"} ELSE {})

\* A row whose key decodes is kept, once for every time it is read.
Kept(page) == {row \in page : row.key # 0}

ScoresIn(kept) == {row.score : row \in {r \in kept : r.view = Views[at]}}

\* The walk ends at a short page, or at one that brings no new score.
WalkEnds_AnyPage(page, kept) == TRUE
WalkEnds(page, kept) ==
    Cardinality(page) < ZscanPage \/ ScoresIn(kept) = ScoresIn(got)

ReconcileReadsPage ==
    /\ step = "positions"
    /\ LET page == PositionPage
           kept == got \cup Kept(page)
       IN  /\ got' = kept
           /\ again' = again \cup (got \cap page)
           /\ malformed' = malformed \cup UNION {RowReasons(row) : row \in page}
           /\ cut' = (cut \/ (Cardinality(page) >= ZscanPage /\ ScoresIn(kept) = ScoresIn(got)))
           /\ IF WalkEnds(page, kept)
              THEN EndView
              ELSE /\ cursor' = LastScore(page)
                   /\ UNCHANGED <<at, step>>
    /\ UNCHANGED <<vars, allocated, standing>>

\* zscan answers anything but 200: reported, and the view is left there.
ZscanFails ==
    /\ step = "positions"
    /\ malformed' = malformed \cup {"zscan_failed"}
    /\ EndView
    /\ UNCHANGED <<vars, allocated, got, again, cut, standing>>

-----------------------------------------------------------------------------
(* The arithmetic over what was read.                                      *)

\* Scores above the reserve, and those of them that are whole numbers.
AboveReserve == {row \in got : row.score > mine}
LiveRows == {row \in AboveReserve : row.score \notin Fractions}
Live == {row.score : row \in LiveRows}

HandedOut == mine + 1 .. allocated

MissingPositions == HandedOut \ Live

Unallocated_OneWay == {}
Unallocated ==
    (Live \ HandedOut) \cup {row.score : row \in AboveReserve \ LiveRows}

Foreign == {row \in got : ViewOf[row.key] # row.view}

Shared == {n \in Live : \E r, s \in LiveRows : r.score = n /\ s.score = n /\ r.view # s.view}

\* Keys kept more than once in a view: at two scores, or at one score read
\* twice.
Duplicated ==
    {row.key : row \in {r \in got : r \in again \/ \E o \in got : Repeat(r, o)}}

HasFindings ==
    \/ MissingPositions # {}
    \/ Unallocated # {}
    \/ Foreign # {}
    \/ Shared # {}
    \/ malformed # {}
    \/ Duplicated # {}

\* The verdict is reported; the pass may also end early with an exception,
\* which the loop logs.
Judge == step = "judge" /\ Sleep /\ UNCHANGED vars

ReconcileRaises == step # "sleep" /\ Sleep /\ UNCHANGED vars

ReconcileNext ==
    \/ Next /\ Mended /\ UNCHANGED walk
    \/ BeginReconcile
    \/ ReconcileReadsCounter
    \/ ReconcileReadsPage
    \/ ZscanFails
    \/ Judge
    \/ ReconcileRaises

ReconcileSpec == ReconcileInit /\ [][ReconcileNext]_allVars

-----------------------------------------------------------------------------
(* Properties.                                                             *)

\* D37, "nothing is outside its window": a pass about to report clean has
\* missed nothing that was wrong with the ledger throughout, although the
\* counter and the pages were read at different moments, beside live writes
\* and a backfill.
CleanIsTrue ==
    step = "judge" /\ ~HasFindings /\ mine = Reserve /\ ~cut => standing = {}

\* "no legitimate write path can produce" what a pass reports: with nothing
\* damaged and every page read, a pass against the writers' reserve finds no
\* hole, no foreign and no shared member; what it calls unallocated was
\* allocated after it read the counter, and what it calls duplicated is at two
\* positions or was read twice at a page's edge.
FindingsAreReal ==
    step = "judge" /\ damaged = {} /\ malformed = {} /\ mine = Reserve /\ ~cut /\ ~stalled =>
        /\ MissingPositions = {}
        /\ Foreign = {}
        /\ Shared = {}
        /\ Unallocated \subseteq allocated + 1 .. counter.value
        /\ Duplicated \subseteq raced \cup {row.key : row \in again}

\* "this is one key holding two scores": a key reported as duplicated holds
\* two positions.
DuplicatedIsTwice ==
    step = "judge" =>
        \A k \in Duplicated : \E r, s \in got : r.key = k /\ s.key = k /\ r.score # s.score
=============================================================================
