---------------------------- MODULE OrderedWrite ----------------------------
(***************************************************************************)
(* POST /write-ordered of the verifier (src/verifier/main.py): a record,   *)
(* its commit position, the counter and the view entry are written by one  *)
(* ExecAll guarded by preconditions, and retried while the ledger refuses. *)
(*                                                                         *)
(* ImmuDB is external: a sequence of transactions, the id of a transaction *)
(* being its index.  A precondition is judged against the whole sequence;  *)
(* a get or a zscan is answered from the asynchronous index, which covers  *)
(* only the first `indexed` transactions.  Requests are threads of one of  *)
(* several verifier processes; the two caches belong to the process.       *)
(***************************************************************************)
EXTENDS Integers, Sequences

CONSTANTS Writer,             \* requests, each one POST /write-ordered
          NoWriter,           \* written by no ordered request
          Process,            \* verifier processes
          ProcOf,             \* ProcOf[w]: the process that serves request w
          ReservedPositions,  \* ReservedPositions[p]: AIL_RESERVED_POSITIONS
          Key, KeyOf,         \* KeyOf[w]: the record key of request w
          ValueOf,            \* ValueOf[w]: stands for the bytes of request w
          MaxCasAttempts,     \* MAX_CAS_ATTEMPTS
          MaxPosition,        \* MAX_POSITION, 2^53 in the code
          MaxTx               \* bound: other routes write only a ledger shorter than this

ASSUME ParameterAssumption ==
    /\ NoWriter \notin Writer
    /\ ProcOf \in [Writer -> Process]
    /\ KeyOf \in [Writer -> Key]
    /\ MaxCasAttempts \in Nat \ {0}
    /\ MaxPosition \in Nat
    /\ MaxTx \in Nat

\* validate_reserve refuses a configured reserve outside this range.
ASSUME ReserveAssumption ==
    ReservedPositions \in [Process -> {r \in Nat : 1 <= r /\ r < MaxPosition}]

VARIABLES log,           \* ImmuDB: the committed transactions
          indexed,       \* ImmuDB: how many of them reads can see
          inflight,      \* the ExecAll of each request, as the server has it
          seqCache,      \* _seq_cache of each process
          reserveCache,  \* _reserve_cache of each process, 0 for None
          pc,            \* where each request is
          attempts,      \* attempts of _ordered_commit
          issued,        \* issued of _ordered_commit
          bound,         \* bound_reserve of the current attempt, 0 for None
          observed,      \* observed of the current attempt
          reply          \* the response of each request

ledger == <<log, indexed>>
caches == <<seqCache, reserveCache>>
locals == <<attempts, issued, bound, observed>>
vars == <<ledger, inflight, caches, pc, locals, reply>>

-----------------------------------------------------------------------------
(* The ledger: what a transaction is and what a read as of transaction i   *)
(* answers.                                                                *)

\* One transaction: an ordered record at position seq, which may bind the
\* reserve; a fault record about the transaction it names; or anything else.
Transaction ==
    [kind : {"ordered", "fault", "other"}, by : Writer \cup {NoWriter},
     seq : Nat, binds : Nat, names : Nat]

Other == [kind |-> "other", by |-> NoWriter, seq |-> 0, binds |-> 0, names |-> 0]

NoCounter == [seq |-> 0, tx |-> 0]

Ordered(i) == log[i].kind = "ordered"

\* _read_counter: the last ordered transaction among the first i, with its id.
CounterAt(c, i) ==
    \/ /\ c = NoCounter
       /\ \A j \in 1..i : ~Ordered(j)
    \/ \E t \in 1..i :
          /\ Ordered(t)
          /\ \A j \in 1..i : Ordered(j) => j <= t
          /\ c = [seq |-> log[t].seq, tx |-> t]

\* client.get(RESERVE_KEY) among the first i transactions; 0 when there is none.
ReserveAt(r, i) ==
    \/ /\ r = 0
       /\ \A j \in 1..i : log[j].binds = 0
    \/ \E j \in 1..i : log[j].binds # 0 /\ r = log[j].binds

\* Transaction j wrote the record key of request w.
HoldsKey(j, w) == Ordered(j) /\ KeyOf[log[j].by] = KeyOf[w]

\* client.get(key) finds something.
KeyPresentAt(w, i) == \E j \in 1..i : HoldsKey(j, w)

\* _committed_tx_for_value: where exactly these bytes are, among the first i.
BytesAt(w, j) == HoldsKey(j, w) /\ ValueOf[log[j].by] = ValueOf[w]

-----------------------------------------------------------------------------
Reserve(w) == ReservedPositions[ProcOf[w]]

NextSeq_SkipsOne(o, w) == IF o = NoCounter THEN Reserve(w) + 2 ELSE o.seq + 1

\* The position this attempt would allocate.
NextSeq(o, w) == IF o = NoCounter THEN Reserve(w) + 1 ELSE o.seq + 1

NoReply == [committed |-> "none", tx |-> 0, seq |-> 0]
Reply(c) == [committed |-> c, tx |-> 0, seq |-> 0]

Init ==
    /\ log = << >>
    /\ indexed = 0
    /\ inflight = [w \in Writer |-> "none"]
    /\ seqCache = [p \in Process |-> NoCounter]
    /\ reserveCache = [p \in Process |-> 0]
    /\ pc = [w \in Writer |-> "idle"]
    /\ attempts = [w \in Writer |-> 0]
    /\ issued = [w \in Writer |-> FALSE]
    /\ bound = [w \in Writer |-> 0]
    /\ observed = [w \in Writer |-> NoCounter]
    /\ reply = [w \in Writer |-> NoReply]

Goto(w, l) == pc' = [pc EXCEPT ![w] = l]

Respond(w, r) ==
    /\ Goto(w, "done")
    /\ reply' = [reply EXCEPT ![w] = r]

\* An unknown view, a refused record or no ledger client: answered before
\* _ordered_commit is entered.
Refuse(w) ==
    /\ pc[w] = "idle"
    /\ Respond(w, Reply("false"))
    /\ UNCHANGED <<ledger, inflight, caches, locals>>

Begin(w) ==
    /\ pc[w] = "idle"
    /\ Goto(w, "reserve")
    /\ UNCHANGED <<ledger, inflight, caches, locals, reply>>

\* An exception inside _ordered_commit: uncertain once an ExecAll was issued.
Raise(w) ==
    IF issued[w] THEN Goto(w, "readback") /\ UNCHANGED reply
                 ELSE Respond(w, Reply("false"))

BudgetLeft_Unbounded(w) == TRUE

\* while attempts < MAX_CAS_ATTEMPTS
BudgetLeft(w) == attempts[w] < MaxCasAttempts

CountAttempt_Forgotten(w) == UNCHANGED attempts

CountAttempt(w) == attempts' = [attempts EXCEPT ![w] = @ + 1]

\* The head of the retry loop: the bound reserve, from the cache or the ledger.
ReadReserve(w) ==
    LET p == ProcOf[w] IN
    /\ pc[w] = "reserve"
    /\ BudgetLeft(w)
    /\ CountAttempt(w)
    /\ \E r \in {reserveCache[p]} \cup {log[j].binds : j \in 1..indexed} \cup {0} :
          /\ IF reserveCache[p] # 0 THEN r = reserveCache[p] ELSE ReserveAt(r, indexed)
          /\ bound' = [bound EXCEPT ![w] = r]
          /\ reserveCache' = [reserveCache EXCEPT ![p] = r]
          /\ IF r # 0 /\ r # Reserve(w)
                THEN Raise(w)
                ELSE Goto(w, "counter") /\ UNCHANGED reply
    /\ UNCHANGED <<ledger, inflight, seqCache, issued, observed>>

\* The read of the reserve, which nothing guards, fails.
ReadReserveFails(w) ==
    /\ pc[w] = "reserve"
    /\ BudgetLeft(w)
    /\ reserveCache[ProcOf[w]] = 0
    /\ CountAttempt(w)
    /\ Raise(w)
    /\ UNCHANGED <<ledger, inflight, caches, issued, bound, observed>>

\* The counter, from the cache or the ledger; then the ExecAll is sent, unless
\* the position it would take is not a distinct float64.
ReadCounter(w) ==
    LET p == ProcOf[w] IN
    /\ pc[w] = "counter"
    /\ \E o \in {seqCache[p], NoCounter} \cup
                {[seq |-> log[t].seq, tx |-> t] : t \in 1..indexed} :
          /\ IF seqCache[p] # NoCounter THEN o = seqCache[p] ELSE CounterAt(o, indexed)
          /\ observed' = [observed EXCEPT ![w] = o]
          /\ IF NextSeq(o, w) >= MaxPosition
                THEN Raise(w) /\ UNCHANGED <<inflight, issued>>
                ELSE /\ Goto(w, "exec")
                     /\ inflight' = [inflight EXCEPT ![w] = "sent"]
                     /\ issued' = [issued EXCEPT ![w] = TRUE]
                     /\ UNCHANGED reply
    /\ UNCHANGED <<ledger, caches, attempts, bound>>

ReadCounterFails(w) ==
    /\ pc[w] = "counter"
    /\ seqCache[ProcOf[w]] = NoCounter
    /\ Raise(w)
    /\ UNCHANGED <<ledger, inflight, caches, locals>>

-----------------------------------------------------------------------------
(* The server's half of an ExecAll.  It is decided at a moment of its own, *)
(* which may come after the request gave up waiting for it.                *)

\* KeyNotModifiedAfterTX on the counter, or KeyMustNotExist when none was seen.
CounterUnmoved(w) ==
    \A j \in 1..Len(log) : Ordered(j) => j <= observed[w].tx

RecordKeyFree_Unchecked(w) == TRUE

\* KeyMustNotExist on the record key.
RecordKeyFree(w) == ~KeyPresentAt(w, Len(log))

ReserveUnbound_Unchecked(w) == TRUE

\* KeyMustNotExist on the reserve key, when this attempt binds it.
ReserveUnbound(w) ==
    bound[w] = 0 => \A j \in 1..Len(log) : log[j].binds = 0

Preconditions_RecordOnly(w) == RecordKeyFree(w)

Preconditions(w) == CounterUnmoved(w) /\ RecordKeyFree(w) /\ ReserveUnbound(w)

\* The transaction a request asks for: record, counter, view entry, reserve.
OrderedTx(w) ==
    [kind |-> "ordered", by |-> w, seq |-> NextSeq(observed[w], w),
     binds |-> IF bound[w] = 0 THEN Reserve(w) ELSE 0, names |-> 0]

ServerCommits(w) ==
    /\ inflight[w] = "sent"
    /\ Preconditions(w)
    /\ log' = Append(log, OrderedTx(w))
    /\ inflight' = [inflight EXCEPT ![w] = "committed"]
    /\ UNCHANGED <<indexed, caches, pc, locals, reply>>

ServerRejects(w) ==
    /\ inflight[w] = "sent"
    /\ ~Preconditions(w)
    /\ inflight' = [inflight EXCEPT ![w] = "rejected"]
    /\ UNCHANGED <<ledger, caches, pc, locals, reply>>

IndexAdvances ==
    /\ indexed < Len(log)
    /\ indexed' = indexed + 1
    /\ UNCHANGED <<log, inflight, caches, pc, locals, reply>>

\* Another route commits: a tombstone, an anchor.
OtherCommits ==
    /\ Len(log) < MaxTx
    /\ log' = Append(log, Other)
    /\ UNCHANGED <<indexed, inflight, caches, pc, locals, reply>>

-----------------------------------------------------------------------------
(* What the request does with the outcome.                                 *)

\* ExecAll returned: the caches take the committed pair and the reserve.
Accept(w) ==
    /\ pc[w] = "exec"
    /\ inflight[w] = "committed"
    /\ \E t \in 1..Len(log) :
          /\ Ordered(t) /\ log[t].by = w
          /\ seqCache' = [seqCache EXCEPT ![ProcOf[w]] = [seq |-> log[t].seq, tx |-> t]]
    /\ reserveCache' = IF bound[w] = 0
                          THEN [reserveCache EXCEPT ![ProcOf[w]] = Reserve(w)]
                          ELSE reserveCache
    /\ Goto(w, "verify")
    /\ UNCHANGED <<ledger, inflight, locals, reply>>

\* ExecAll raised "precondition failed".  _record_key_present tells the
\* refusal that cannot be retried; a read of it that fails answers False.
Rejected(w) ==
    /\ pc[w] = "exec"
    /\ inflight[w] = "rejected"
    /\ \/ /\ KeyPresentAt(w, indexed)
          /\ Respond(w, Reply("exists"))
          /\ UNCHANGED <<inflight, caches>>
       \/ /\ seqCache' = [seqCache EXCEPT ![ProcOf[w]] = NoCounter]
          /\ reserveCache' = [reserveCache EXCEPT ![ProcOf[w]] = 0]
          /\ inflight' = [inflight EXCEPT ![w] = "none"]
          /\ Goto(w, "reserve")
          /\ UNCHANGED reply
    /\ UNCHANGED <<ledger, locals>>

\* The retry budget is spent: SequenceBudgetExhausted, after an ExecAll.
BudgetExhausted(w) ==
    /\ pc[w] = "reserve"
    /\ attempts[w] = MaxCasAttempts
    /\ Goto(w, "exhausted")
    /\ UNCHANGED <<ledger, inflight, caches, locals, reply>>

\* A lost response taken for a refusal, and retried.
TransportFails_Retried(w) ==
    /\ pc[w] = "exec"
    /\ inflight' = [inflight EXCEPT ![w] = "none"]
    /\ Goto(w, "reserve")
    /\ UNCHANGED <<ledger, caches, locals, reply>>

\* ExecAll raised anything else: a lost response, a deadline, a dead channel.
TransportFails(w) ==
    /\ pc[w] = "exec"
    /\ Goto(w, "readback")
    /\ UNCHANGED <<ledger, inflight, caches, locals, reply>>

\* _committed_tx_for_value after OrderedCommitUncertain, and what is answered.
ReadBackFails(w) ==
    /\ pc[w] \in {"readback", "exhausted"}
    /\ Respond(w, Reply("null"))
    /\ UNCHANGED <<ledger, inflight, caches, locals>>

NotFoundMeans_Absent(w) == "false"

\* Nothing under the key is evidence only if every attempt was refused.
NotFoundMeans(w) == IF pc[w] = "exhausted" THEN "false" ELSE "null"

ReadBackNotFound(w) ==
    /\ pc[w] \in {"readback", "exhausted"}
    /\ ~KeyPresentAt(w, indexed)
    /\ Respond(w, Reply(NotFoundMeans(w)))
    /\ UNCHANGED <<ledger, inflight, caches, locals>>

ReadBackAbsent(w) ==
    /\ pc[w] \in {"readback", "exhausted"}
    /\ \E j \in 1..indexed : HoldsKey(j, w) /\ ~BytesAt(w, j)
    /\ Respond(w, Reply("false"))
    /\ UNCHANGED <<ledger, inflight, caches, locals>>

\* _committed_position_for: the attempted position if the view holds the key
\* there, and otherwise none; its zscan may also fail.
PositionsConfirmed(w, j) == {0} \cup {q \in {NextSeq(observed[w], w)} : log[j].seq = q}

ReadBackPresent(w) ==
    /\ pc[w] \in {"readback", "exhausted"}
    /\ \E j \in 1..indexed :
          /\ BytesAt(w, j)
          /\ \E s \in PositionsConfirmed(w, j) :
                Respond(w, [committed |-> "true", tx |-> j, seq |-> s])
    /\ UNCHANGED <<ledger, inflight, caches, locals>>

\* verifiedGet of the committed key: it checks out, or it could not be
\* attempted; either way the record is reported committed.
Committed(w, t) ==
    /\ Ordered(t)
    /\ log[t].by = w
    /\ Respond(w, [committed |-> "true", tx |-> t, seq |-> log[t].seq])

VerifyDone(w) ==
    /\ pc[w] = "verify"
    /\ \E t \in 1..Len(log) : Committed(w, t)
    /\ UNCHANGED <<ledger, inflight, caches, locals>>

FaultTx_NamesHead(w, t) ==
    [kind |-> "fault", by |-> w, seq |-> 0, binds |-> 0, names |-> Len(log)]

\* The fault record about the record of w at transaction t.
FaultTx(w, t) == [kind |-> "fault", by |-> w, seq |-> 0, binds |-> 0, names |-> t]

\* The proof fails.  _write_fault_record derives the transaction by reading
\* the record back, and writes no fault when that read does not agree.
VerifyProofFails(w) ==
    /\ pc[w] = "verify"
    /\ \E t \in 1..Len(log) :
          /\ Committed(w, t)
          /\ \/ /\ t <= indexed
                /\ BytesAt(w, t)
                /\ log' = Append(log, FaultTx(w, t))
             \/ UNCHANGED log
    /\ UNCHANGED <<indexed, inflight, caches, locals>>

\* The process dies with its requests unanswered and comes back with cold
\* caches; what its requests had sent is still the server's to decide.
Restart(p) ==
    /\ \/ seqCache[p] # NoCounter
       \/ reserveCache[p] # 0
       \/ \E w \in Writer : ProcOf[w] = p /\ pc[w] \notin {"idle", "done", "dead"}
    /\ seqCache' = [seqCache EXCEPT ![p] = NoCounter]
    /\ reserveCache' = [reserveCache EXCEPT ![p] = 0]
    /\ pc' = [w \in Writer |-> IF ProcOf[w] = p /\ pc[w] \notin {"idle", "done"}
                                  THEN "dead" ELSE pc[w]]
    /\ UNCHANGED <<ledger, inflight, locals, reply>>

-----------------------------------------------------------------------------
Step(w) ==
    \/ Refuse(w) \/ Begin(w)
    \/ ReadReserve(w) \/ ReadReserveFails(w)
    \/ ReadCounter(w) \/ ReadCounterFails(w)
    \/ Accept(w) \/ Rejected(w) \/ BudgetExhausted(w) \/ TransportFails(w)
    \/ ReadBackFails(w) \/ ReadBackNotFound(w) \/ ReadBackAbsent(w)
    \/ ReadBackPresent(w) \/ VerifyDone(w) \/ VerifyProofFails(w)

Server(w) == ServerCommits(w) \/ ServerRejects(w)

Next ==
    \/ \E w \in Writer : Step(w) \/ Server(w)
    \/ IndexAdvances
    \/ OtherCommits
    \/ \E p \in Process : Restart(p)

Spec == Init /\ [][Next]_vars

\* A thread that can run does run.  The gRPC call has a deadline, so a request
\* that waits for its ExecAll is answered or times out: that is Step(w) too.
Fairness == \A w \in Writer : WF_vars(Step(w))

FairSpec == Spec /\ Fairness

-----------------------------------------------------------------------------
(* Properties.                                                             *)

Steps == {"idle", "reserve", "counter", "exec", "verify", "readback",
          "exhausted", "done", "dead"}

Pair == [seq : Nat, tx : Nat]

\* The type of every variable: the ledger is a sequence of transactions, reads
\* see a prefix of it, and each request is at one point of write_ordered.
TypeOK ==
    /\ log \in Seq(Transaction)
    /\ indexed \in 0..Len(log)
    /\ inflight \in [Writer -> {"none", "sent", "committed", "rejected"}]
    /\ seqCache \in [Process -> Pair]
    /\ reserveCache \in [Process -> Nat]
    /\ pc \in [Writer -> Steps]
    /\ attempts \in [Writer -> 0..MaxCasAttempts]
    /\ issued \in [Writer -> BOOLEAN]
    /\ bound \in [Writer -> Nat]
    /\ observed \in [Writer -> Pair]
    /\ reply \in [Writer -> [committed : {"none", "true", "false", "null", "exists"},
                             tx : Nat, seq : Nat]]

\* Commit position order is the ledger's commit order, across processes, cold
\* caches and stale reads: of two ordered records the later transaction holds
\* the higher position.  (_ordered_commit; the order check of /audit rests on it.)
PositionsFollowCommits ==
    \A i, j \in 1..Len(log) :
        Ordered(i) /\ Ordered(j) /\ i < j => log[i].seq < log[j].seq

\* No position is skipped: every position above the bound reserve and up to an
\* allocated one is held by some record, whatever attempts were refused, lost
\* or abandoned in between.  (_ordered_commit; reconciliation rests on it.)
PositionsGapless ==
    \A i, j \in 1..Len(log) :
        log[i].binds # 0 /\ Ordered(j) =>
            \A q \in (log[i].binds + 1)..log[j].seq :
                \E k \in 1..Len(log) : Ordered(k) /\ log[k].seq = q

\* A position is a record's place in the commit order, counted from the
\* reserve: _ordered_commit hands out no number twice, late or in vain.
PositionsAreCommitOrder == PositionsFollowCommits /\ PositionsGapless

\* One reserve per ledger: it is bound once, by the first ordered record, and
\* no process configured with another value ever allocates, even when it read
\* "nothing bound" from a lagging index.  (_read_bound_reserve, D36.)
OneReserve ==
    \A i, j \in 1..Len(log) :
        log[i].binds # 0 =>
            /\ Ordered(i)
            /\ log[j].binds # 0 => i = j
            /\ Ordered(j) => i <= j /\ Reserve(log[j].by) = log[i].binds

\* A record key is written once by the ordered route, so it holds one position
\* and /audit is never refused for a key at two of them.  (D39.)
OneRecordPerKey ==
    \A i, j \in 1..Len(log) :
        Ordered(i) /\ Ordered(j) /\ KeyOf[log[i].by] = KeyOf[log[j].by] => i = j

\* What the ledger takes once it never takes again, from whichever process and
\* by whichever retry: the reserve and the record of a key.
TakenOnce == OneReserve /\ OneRecordPerKey

\* What write_ordered answers is a fact about the ledger and stays one: "true"
\* names a transaction that holds exactly these bytes, and the position it
\* names; after "false" or a 409 this request is not in the ledger, although
\* its ExecAll may still be undecided when the answer is given.  (D40, D45, D49.)
AnswersAreFacts ==
    \A w \in Writer :
        /\ reply[w].committed = "true" =>
              /\ reply[w].tx \in 1..Len(log)
              /\ BytesAt(w, reply[w].tx)
              /\ reply[w].seq \in {0, log[reply[w].tx].seq}
        /\ reply[w].committed \in {"false", "exists"} =>
              \A j \in 1..Len(log) : Ordered(j) => log[j].by # w

\* A fault record names the transaction that holds the record it qualifies, so
\* the audit page that shows the record finds it.  (_write_fault_record.)
FaultsQualifyTheirRecord ==
    \A i \in 1..Len(log) :
        log[i].kind = "fault" =>
            /\ log[i].names \in 1..i - 1
            /\ Ordered(log[i].names)
            /\ log[log[i].names].by = log[i].by

\* Every request that entered the loop is answered unless its process dies,
\* however often the ledger refuses it and however far its index lags.
EveryRequestAnswered ==
    \A w \in Writer : pc[w] = "reserve" ~> pc[w] \in {"done", "dead"}

-----------------------------------------------------------------------------
(* What the route promises, and the mapping under which it keeps it.       *)

told == [w \in Writer |-> IF reply[w].committed = "exists" THEN "false"
                                                           ELSE reply[w].committed]

boundReserve ==
    IF \E i \in 1..Len(log) : log[i].binds # 0
       THEN log[CHOOSE i \in 1..Len(log) : log[i].binds # 0].binds
       ELSE 0

held == {<<log[i].seq, log[i].by>> : i \in {j \in 1..Len(log) : Ordered(j)}}

Abstract == INSTANCE OrderedLog
    WITH Base <- {ReservedPositions[p] : p \in Process}, base <- boundReserve

\* The ordered route implements the positioned log: each commit takes the next
\* position, and every answer agrees with the log from then on.
ImplementsOrderedLog == Abstract!Spec
=============================================================================
