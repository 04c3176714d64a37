------------------------- MODULE OrderedWriteProofs -------------------------
(***************************************************************************)
(* Proofs about OrderedWrite, for any set of requests and processes, any   *)
(* configured reserves and any retry budget.                               *)
(*                                                                         *)
(* The argument: a pair (position, transaction) that a process holds, in   *)
(* its cache or as the observation of an attempt, is a pair of the ledger, *)
(* however old (PairInLog).  The precondition on the counter then lets an  *)
(* attempt through only if that pair is the latest one, so the position it *)
(* takes is the one after the highest.                                     *)
(***************************************************************************)
EXTENDS OrderedWrite, TLAPS

-----------------------------------------------------------------------------
(* The inductive invariant.                                                *)

\* A counter pair is "none" or is that of an ordered transaction of the log.
PairInLog(c) ==
    \/ c = NoCounter
    \/ /\ c.tx \in 1..Len(log)
       /\ Ordered(c.tx)
       /\ c.seq = log[c.tx].seq

\* What is in the log: ordered records have a writer and lie above a bound
\* reserve, and only ordered records bind one.
LogShape ==
    \A j \in 1..Len(log) :
        /\ Ordered(j) => /\ log[j].by \in Writer
                         /\ \E i \in 1..j : log[i].binds # 0
        /\ log[j].binds # 0 => Ordered(j) /\ log[j].seq = log[j].binds + 1

\* What the processes and the attempts remember is in the log.
Remembered ==
    /\ \A p \in Process :
          /\ PairInLog(seqCache[p])
          /\ reserveCache[p] # 0 =>
                \E i \in 1..Len(log) : log[i].binds = reserveCache[p]
    /\ \A w \in Writer :
          /\ PairInLog(observed[w])
          /\ bound[w] # 0 => \E i \in 1..Len(log) : log[i].binds = bound[w]

\* Where a request is, and what the server has of it.
OutcomeOf(w) ==
    /\ pc[w] \in {"idle", "reserve", "counter", "exhausted"} => inflight[w] = "none"
    /\ pc[w] = "verify" => inflight[w] = "committed"
    /\ pc[w] = "counter" \/ inflight[w] = "sent" => bound[w] \in {0, Reserve(w)}
    /\ inflight[w] = "committed" =>
          \E j \in 1..Len(log) :
              /\ Ordered(j)
              /\ log[j].by = w
              /\ bound[w] = 0 => log[j].binds = Reserve(w)
    /\ reply[w].committed # "none" => pc[w] = "done"

\* A request that was told "false" cannot commit any more: if its ExecAll is
\* still undecided, its key is already taken.
SettledOf(w) ==
    reply[w].committed \in {"false", "exists"} =>
        /\ inflight[w] # "committed"
        /\ inflight[w] = "sent" => KeyPresentAt(w, Len(log))

\* A request that was told "true" was told where its bytes are.
TruthOf(w) ==
    reply[w].committed = "true" =>
        /\ reply[w].tx \in 1..Len(log)
        /\ BytesAt(w, reply[w].tx)
        /\ reply[w].seq \in {0, log[reply[w].tx].seq}

PerRequest(w) == OutcomeOf(w) /\ SettledOf(w) /\ TruthOf(w)

\* An ordered transaction is the committed request of its writer.
Attributed ==
    \A j \in 1..Len(log) : Ordered(j) => inflight[log[j].by] = "committed"

LogInv ==
    /\ LogShape
    /\ PositionsFollowCommits
    /\ PositionsGapless
    /\ OneReserve
    /\ OneRecordPerKey
    /\ FaultsQualifyTheirRecord

RequestInv ==
    /\ Remembered
    /\ Attributed
    /\ \A w \in Writer : PerRequest(w)

IInv == TypeOK /\ LogInv /\ RequestInv

-----------------------------------------------------------------------------
(* The ledger only grows.                                                  *)

Grows ==
    /\ Len(log') \in Nat
    /\ Len(log) <= Len(log')
    /\ \A j \in 1..Len(log) : log'[j] = log[j]

\* Appending one transaction keeps the earlier ones where they are.
LEMMA AppendOne ==
    ASSUME TypeOK, NEW e \in Transaction, log' = Append(log, e)
    PROVE  /\ log' \in Seq(Transaction)
           /\ Len(log) \in Nat
           /\ Len(log') = Len(log) + 1
           /\ log'[Len(log')] = e
           /\ Grows
BY DEF TypeOK, Grows

\* An unchanged ledger grows too, by nothing.
LEMMA SameLogGrows ==
    ASSUME TypeOK, UNCHANGED log
    PROVE  Grows
BY DEF TypeOK, Grows

\* The transactions a step may append are transactions.
LEMMA OtherIsTransaction == Other \in Transaction
BY DEF Other, Transaction

\* A configured reserve is positive, and the position an attempt takes a number.
LEMMA NextSeqIsNat ==
    ASSUME NEW w \in Writer, NEW o \in Pair
    PROVE  /\ Reserve(w) \in Nat
           /\ Reserve(w) # 0
           /\ NextSeq(o, w) \in Nat
BY ParameterAssumption, ReserveAssumption DEF NextSeq, Reserve, Pair

\* What a request asks the server to commit is a transaction.
LEMMA OrderedTxIsTransaction ==
    ASSUME TypeOK, NEW w \in Writer
    PROVE  OrderedTx(w) \in Transaction
<1>1. observed[w] \in Pair /\ bound[w] \in Nat
  BY DEF TypeOK
<1> QED
  BY <1>1, NextSeqIsNat DEF OrderedTx, Transaction

\* The initial state has the type.
LEMMA InitTypeOK == Init => TypeOK
BY ParameterAssumption DEF Init, TypeOK, Pair, NoCounter, NoReply, Steps, Transaction


\* Every entry of the ledger is a transaction, field by field.
LEMMA LogEntry ==
    ASSUME TypeOK
    PROVE  \A j \in 1..Len(log) :
              /\ log[j] \in Transaction
              /\ log[j].by \in Writer \cup {NoWriter}
              /\ log[j].seq \in Nat
              /\ log[j].binds \in Nat
              /\ log[j].names \in Nat
<1>1. \A j \in 1..Len(log) : log[j] \in Transaction
  BY DEF TypeOK
<1> QED
  BY <1>1 DEF Transaction

\* Raise and Respond, the two endings of a step, keep the types.
LEMMA RespondType ==
    ASSUME TypeOK, NEW w \in Writer,
           NEW r \in [committed : {"none", "true", "false", "null", "exists"},
                      tx : Nat, seq : Nat],
           Respond(w, r)
    PROVE  /\ pc' \in [Writer -> Steps]
           /\ reply' \in [Writer -> [committed : {"none", "true", "false", "null", "exists"},
                                     tx : Nat, seq : Nat]]
BY DEF TypeOK, Respond, Goto, Steps

\* The exception path keeps the types.
LEMMA RaiseType ==
    ASSUME TypeOK, NEW w \in Writer, Raise(w)
    PROVE  /\ pc' \in [Writer -> Steps]
           /\ reply' \in [Writer -> [committed : {"none", "true", "false", "null", "exists"},
                                     tx : Nat, seq : Nat]]
BY RespondType DEF Raise, Reply, Goto, Steps, TypeOK

\* Every step keeps the type invariant.
LEMMA TypeStep == TypeOK /\ [Next]_vars => TypeOK'
<1> SUFFICES ASSUME TypeOK, [Next]_vars PROVE TypeOK'
  OBVIOUS
<1> USE ParameterAssumption
<1>a. log \in Seq(Transaction) /\ Len(log) \in Nat /\ indexed \in Nat /\ indexed <= Len(log)
  BY DEF TypeOK
<1>b. \A j \in 1..Len(log) : log[j].seq \in Nat /\ log[j].binds \in Nat
  BY LogEntry
<1>1. ASSUME NEW w \in Writer, Refuse(w) PROVE TypeOK'
  BY <1>1, RespondType DEF Refuse, Reply, ledger, caches, locals, TypeOK
<1>2. ASSUME NEW w \in Writer, Begin(w) PROVE TypeOK'
  BY <1>2 DEF Begin, Goto, Steps, ledger, caches, locals, TypeOK
<1>3. ASSUME NEW w \in Writer, ReadReserve(w) PROVE TypeOK'
  <2>1. PICK r \in {reserveCache[ProcOf[w]]} \cup {log[j].binds : j \in 1..indexed} \cup {0} :
           /\ bound' = [bound EXCEPT ![w] = r]
           /\ reserveCache' = [reserveCache EXCEPT ![ProcOf[w]] = r]
           /\ IF r # 0 /\ r # Reserve(w)
                 THEN Raise(w)
                 ELSE Goto(w, "counter") /\ UNCHANGED reply
    BY <1>3 DEF ReadReserve
  <2>2. r \in Nat
    BY <1>a, <1>b, <2>1 DEF TypeOK
  <2>3. /\ pc' \in [Writer -> Steps]
        /\ reply' \in [Writer -> [committed : {"none", "true", "false", "null", "exists"},
                                  tx : Nat, seq : Nat]]
    BY <2>1, RaiseType DEF Goto, Steps, TypeOK
  <2>4. attempts' \in [Writer -> 0..MaxCasAttempts]
    BY <1>3 DEF ReadReserve, BudgetLeft, CountAttempt, TypeOK
  <2> QED
    BY <1>3, <2>1, <2>2, <2>3, <2>4 DEF ReadReserve, ledger, TypeOK
<1>4. ASSUME NEW w \in Writer, ReadReserveFails(w) PROVE TypeOK'
  BY <1>4, RaiseType DEF ReadReserveFails, BudgetLeft, CountAttempt, ledger, caches, TypeOK
<1>5. ASSUME NEW w \in Writer, ReadCounter(w) PROVE TypeOK'
  <2>1. PICK o \in {seqCache[ProcOf[w]], NoCounter} \cup
                   {[seq |-> log[t].seq, tx |-> t] : t \in 1..indexed} :
           /\ observed' = [observed EXCEPT ![w] = o]
           /\ IF NextSeq(o, w) >= MaxPosition
                 THEN Raise(w) /\ UNCHANGED <<inflight, issued>>
                 ELSE /\ Goto(w, "exec")
                      /\ inflight' = [inflight EXCEPT ![w] = "sent"]
                      /\ issued' = [issued EXCEPT ![w] = TRUE]
                      /\ UNCHANGED reply
    BY <1>5 DEF ReadCounter
  <2>2. o \in Pair
    BY <1>a, <1>b, <2>1 DEF TypeOK, Pair, NoCounter
  <2>3. /\ pc' \in [Writer -> Steps]
        /\ reply' \in [Writer -> [committed : {"none", "true", "false", "null", "exists"},
                                  tx : Nat, seq : Nat]]
        /\ inflight' \in [Writer -> {"none", "sent", "committed", "rejected"}]
        /\ issued' \in [Writer -> BOOLEAN]
    BY <2>1, RaiseType DEF Goto, Steps, TypeOK
  <2> QED
    BY <1>5, <2>1, <2>2, <2>3 DEF ReadCounter, ledger, caches, TypeOK
<1>6. ASSUME NEW w \in Writer, ReadCounterFails(w) PROVE TypeOK'
  BY <1>6, RaiseType DEF ReadCounterFails, ledger, caches, locals, TypeOK
<1>7. ASSUME NEW w \in Writer, Accept(w) PROVE TypeOK'
  <2>1. PICK t \in 1..Len(log) :
           seqCache' = [seqCache EXCEPT ![ProcOf[w]] = [seq |-> log[t].seq, tx |-> t]]
    BY <1>7 DEF Accept
  <2>2. [seq |-> log[t].seq, tx |-> t] \in Pair
    BY <1>a, <1>b DEF Pair
  <2>3. reserveCache' \in [Process -> Nat]
    BY <1>7, NextSeqIsNat DEF Accept, TypeOK, Reserve, Pair
  <2> QED
    BY <1>7, <2>1, <2>2, <2>3 DEF Accept, Goto, Steps, ledger, locals, TypeOK
<1>8. ASSUME NEW w \in Writer, Rejected(w) PROVE TypeOK'
  <2>1. NoCounter \in Pair
    BY DEF NoCounter, Pair
  <2>2. CASE Respond(w, Reply("exists")) /\ UNCHANGED <<inflight, caches>>
    BY <1>8, <2>2, RespondType DEF Rejected, Reply, ledger, caches, locals, TypeOK
  <2>3. CASE /\ seqCache' = [seqCache EXCEPT ![ProcOf[w]] = NoCounter]
             /\ reserveCache' = [reserveCache EXCEPT ![ProcOf[w]] = 0]
             /\ inflight' = [inflight EXCEPT ![w] = "none"]
             /\ Goto(w, "reserve")
             /\ UNCHANGED reply
    BY <1>8, <2>1, <2>3 DEF Rejected, Goto, Steps, ledger, locals, TypeOK
  <2> QED
    BY <1>8, <2>2, <2>3 DEF Rejected
<1>9. ASSUME NEW w \in Writer, BudgetExhausted(w) \/ TransportFails(w) PROVE TypeOK'
  BY <1>9 DEF BudgetExhausted, TransportFails, Goto, Steps, ledger, caches, locals, TypeOK
<1>10. ASSUME NEW w \in Writer, ReadBackFails(w) \/ ReadBackAbsent(w) PROVE TypeOK'
  BY <1>10, RespondType DEF ReadBackFails, ReadBackAbsent, Reply, ledger, caches, locals, TypeOK
<1>11. ASSUME NEW w \in Writer, ReadBackNotFound(w) PROVE TypeOK'
  BY <1>11, RespondType DEF ReadBackNotFound, NotFoundMeans, Reply, ledger, caches, locals, TypeOK
<1>12. ASSUME NEW w \in Writer, ReadBackPresent(w) PROVE TypeOK'
  <2>1. PICK j \in 1..indexed, s2 \in {0, NextSeq(observed[w], w)} :
           Respond(w, [committed |-> "true", tx |-> j, seq |-> s2])
    BY <1>12 DEF ReadBackPresent, PositionsConfirmed
  <2>2. s2 \in Nat /\ j \in Nat
    BY <1>a, NextSeqIsNat DEF TypeOK
  <2> QED
    BY <1>12, <2>1, <2>2, RespondType DEF ReadBackPresent, ledger, caches, locals, TypeOK
<1>13. ASSUME NEW w \in Writer, VerifyDone(w) PROVE TypeOK'
  <2>1. PICK t \in 1..Len(log) : Committed(w, t)
    BY <1>13 DEF VerifyDone
  <2>2. t \in Nat /\ log[t].seq \in Nat
    BY <1>a, <1>b
  <2> QED
    BY <1>13, <2>1, <2>2, RespondType DEF VerifyDone, Committed, ledger, caches, locals, TypeOK
<1>14. ASSUME NEW w \in Writer, VerifyProofFails(w) PROVE TypeOK'
  <2>1. PICK t \in 1..Len(log) :
          /\ Committed(w, t)
          /\ \/ log' = Append(log, FaultTx(w, t))
             \/ UNCHANGED log
    BY <1>14 DEF VerifyProofFails
  <2>2. FaultTx(w, t) \in Transaction
    BY <1>a DEF Transaction, FaultTx
  <2>3. log' \in Seq(Transaction) /\ indexed \in 0..Len(log')
    BY <1>a, <2>1, <2>2, AppendOne
  <2>4. /\ pc' \in [Writer -> Steps]
        /\ reply' \in [Writer -> [committed : {"none", "true", "false", "null", "exists"},
                                  tx : Nat, seq : Nat]]
    BY <1>a, <1>b, <2>1, RespondType DEF Committed
  <2> QED
    BY <1>14, <2>3, <2>4 DEF VerifyProofFails, caches, locals, TypeOK
<1>15. ASSUME NEW w \in Writer, ServerCommits(w) PROVE TypeOK'
  <2>1. log' \in Seq(Transaction) /\ indexed \in 0..Len(log')
    BY <1>a, <1>15, OrderedTxIsTransaction DEF ServerCommits
  <2> QED
    BY <1>15, <2>1 DEF ServerCommits, caches, locals, TypeOK
<1>16. ASSUME NEW w \in Writer, ServerRejects(w) PROVE TypeOK'
  BY <1>16 DEF ServerRejects, ledger, caches, locals, TypeOK
<1>17. CASE IndexAdvances
  BY <1>a, <1>17 DEF IndexAdvances, caches, locals, TypeOK
<1>18. CASE OtherCommits
  <2>1. log' \in Seq(Transaction) /\ indexed \in 0..Len(log')
    BY <1>a, <1>18, OtherIsTransaction DEF OtherCommits
  <2> QED
    BY <1>18, <2>1 DEF OtherCommits, caches, locals, TypeOK
<1>19. ASSUME NEW p \in Process, Restart(p) PROVE TypeOK'
  BY <1>19 DEF Restart, Steps, Pair, NoCounter, ledger, locals, TypeOK
<1>20. CASE UNCHANGED vars
  BY <1>20 DEF vars, ledger, caches, locals, TypeOK
<1> QED
  BY <1>1, <1>2, <1>3, <1>4, <1>5, <1>6, <1>7, <1>8, <1>9, <1>10, <1>11, <1>12, <1>13,
     <1>14, <1>15, <1>16, <1>17, <1>18, <1>19, <1>20 DEF Next, Step, Server


-----------------------------------------------------------------------------
(* The log: what appending to it preserves.                                *)

\* A step that leaves the ledger alone keeps what is said of it.
LEMMA SameLog ==
    ASSUME LogInv, UNCHANGED log
    PROVE  LogInv'
BY DEF LogInv, LogShape, PositionsFollowCommits, PositionsGapless, OneReserve,
       OneRecordPerKey, FaultsQualifyTheirRecord, Ordered

\* A transaction that is no ordered record changes nothing about positions.
LEMMA PlainAppend ==
    ASSUME TypeOK, LogInv, NEW e \in Transaction, log' = Append(log, e),
           e.kind # "ordered", e.binds = 0,
           e.kind = "fault" => /\ e.names \in 1..Len(log)
                               /\ Ordered(e.names)
                               /\ log[e.names].by = e.by
    PROVE  LogInv'
<1>0. PICK n \in Nat : n = Len(log) + 1
  BY DEF TypeOK
<1>1. /\ Len(log) \in Nat
      /\ n = Len(log) + 1
      /\ n = Len(log')
      /\ log'[n] = e
      /\ \A j \in 1..Len(log) : log'[j] = log[j]
  BY <1>0, AppendOne DEF Grows
<1>2. \A j \in 1..n : j # n => j \in 1..Len(log) /\ log'[j] = log[j]
  BY <1>1
<1>3. ~Ordered(n)' /\ log'[n].binds = 0
  BY <1>1 DEF Ordered
<1>4. \A j \in 1..n : Ordered(j)' => j # n /\ Ordered(j)
  BY <1>2, <1>3 DEF Ordered
<1>5. \A j \in 1..Len(log) : j \in 1..n /\ (Ordered(j) => Ordered(j)')
  BY <1>1 DEF Ordered
<1>6. LogShape'
  <2> SUFFICES ASSUME NEW j \in 1..n
               PROVE  /\ Ordered(j)' => /\ log'[j].by \in Writer
                                        /\ \E i \in 1..j : log'[i].binds # 0
                      /\ log'[j].binds # 0 => Ordered(j)' /\ log'[j].seq = log'[j].binds + 1
    BY <1>1 DEF LogShape
  <2>1. CASE j = n
    BY <1>3, <2>1
  <2>2. CASE j # n
    <3>1. j \in 1..Len(log) /\ \A i \in 1..j : i \in 1..Len(log)
      BY <1>1, <1>2, <2>2
    <3> QED
      BY <1>1, <1>2, <1>4, <1>5, <2>2, <3>1 DEF LogInv, LogShape
  <2> QED
    BY <2>1, <2>2
<1>7. PositionsFollowCommits'
  BY <1>1, <1>2, <1>4 DEF LogInv, PositionsFollowCommits
<1>8. PositionsGapless'
  <2> SUFFICES ASSUME NEW i \in 1..n, NEW j \in 1..n, log'[i].binds # 0, Ordered(j)',
                      NEW q \in (log'[i].binds + 1)..log'[j].seq
               PROVE  \E k \in 1..n : Ordered(k)' /\ log'[k].seq = q
    BY <1>1 DEF PositionsGapless
  <2>1. i # n /\ j # n
    BY <1>3, <1>4
  <2>2. PICK k \in 1..Len(log) : Ordered(k) /\ log[k].seq = q
    BY <1>2, <1>4, <2>1 DEF LogInv, PositionsGapless
  <2> QED
    BY <1>1, <1>5, <2>2
<1>9. OneReserve'
  BY <1>1, <1>2, <1>3, <1>4, <1>5 DEF LogInv, OneReserve
<1>10. OneRecordPerKey'
  BY <1>1, <1>2, <1>4 DEF LogInv, OneRecordPerKey
<1>11. FaultsQualifyTheirRecord'
  <2> SUFFICES ASSUME NEW i \in 1..n, log'[i].kind = "fault"
               PROVE  /\ log'[i].names \in 1..i - 1
                      /\ log'[log'[i].names].kind = "ordered"
                      /\ log'[log'[i].names].by = log'[i].by
    BY <1>1 DEF FaultsQualifyTheirRecord, Ordered
  <2>1. CASE i = n
    BY <1>1, <2>1 DEF Ordered
  <2>2. CASE i # n
    <3>1. /\ log[i].names \in 1..i - 1
          /\ Ordered(log[i].names)
          /\ log[log[i].names].by = log[i].by
      BY <1>2, <2>2 DEF LogInv, FaultsQualifyTheirRecord
    <3>2. log[i].names \in 1..Len(log) /\ log'[i] = log[i]
      BY <1>1, <1>2, <2>2, <3>1
    <3> QED
      BY <1>1, <3>1, <3>2 DEF Ordered
  <2> QED
    BY <2>1, <2>2
<1> QED
  BY <1>6, <1>7, <1>8, <1>9, <1>10, <1>11 DEF LogInv


\* The counter precondition at work: the pair the attempt observed is the last
\* one of the log, so the attempt takes the position after the highest; with no
\* pair there is no ordered record yet.
LEMMA CommitsAtTop ==
    ASSUME IInv, NEW w \in Writer, inflight[w] = "sent", Preconditions(w)
    PROVE  LET e == OrderedTx(w) IN
           /\ e \in Transaction /\ e.kind = "ordered" /\ e.by = w
           /\ \/ /\ \A j \in 1..Len(log) : ~Ordered(j) /\ log[j].binds = 0
                 /\ e.binds = Reserve(w)
                 /\ e.seq = e.binds + 1
              \/ \E t, i \in 1..Len(log) :
                    /\ Ordered(t)
                    /\ \A j \in 1..Len(log) : Ordered(j) => j <= t
                    /\ e.seq = log[t].seq + 1
                    /\ e.binds = 0
                    /\ i <= t
                    /\ log[i].binds = Reserve(w)
<1> DEFINE e == OrderedTx(w)
<1>1. /\ e \in Transaction /\ e.kind = "ordered" /\ e.by = w
      /\ e.seq = NextSeq(observed[w], w)
      /\ e.binds = IF bound[w] = 0 THEN Reserve(w) ELSE 0
  BY OrderedTxIsTransaction DEF IInv, OrderedTx
<1>2. observed[w] \in Pair /\ bound[w] \in Nat /\ Reserve(w) \in Nat \ {0}
  BY NextSeqIsNat DEF IInv, TypeOK
<1>3. \A j \in 1..Len(log) : Ordered(j) => j <= observed[w].tx
  BY DEF Preconditions, CounterUnmoved
<1>4. CASE observed[w] = NoCounter
  <2>1. \A j \in 1..Len(log) : ~Ordered(j)
    BY <1>3, <1>4 DEF NoCounter, IInv, TypeOK
  <2>2. \A j \in 1..Len(log) : log[j].binds = 0
    BY <2>1 DEF IInv, LogInv, LogShape
  <2>3. bound[w] = 0
    BY <2>2 DEF IInv, RequestInv, Remembered
  <2>4. e.seq = Reserve(w) + 1 /\ e.binds = Reserve(w)
    BY <1>1, <1>4, <2>3 DEF NextSeq
  <2> QED
    BY <1>1, <2>1, <2>2, <2>4
<1>5. CASE observed[w] # NoCounter
  <2> DEFINE t == observed[w].tx
  <2>1. t \in 1..Len(log) /\ Ordered(t) /\ observed[w].seq = log[t].seq
    BY <1>5 DEF IInv, RequestInv, Remembered, PairInLog
  <2>2. \E i \in 1..Len(log) : log[i].binds # 0
    <3>1. \E i \in 1..t : log[i].binds # 0
      BY <2>1 DEF IInv, LogInv, LogShape
    <3>2. 1..t \subseteq 1..Len(log)
      BY <2>1 DEF IInv, TypeOK
    <3> QED
      BY <3>1, <3>2
  <2>3. bound[w] # 0
    BY <2>2 DEF Preconditions, ReserveUnbound
  <2>4. bound[w] = Reserve(w)
    BY <2>3 DEF IInv, RequestInv, PerRequest, OutcomeOf
  <2>5. PICK i \in 1..Len(log) : log[i].binds = Reserve(w)
    BY <2>3, <2>4 DEF IInv, RequestInv, Remembered
  <2>6. Ordered(i)
    BY <1>2, <2>5 DEF IInv, LogInv, LogShape
  <2>7. i <= t
    BY <1>3, <2>6
  <2>8. e.seq = log[t].seq + 1 /\ e.binds = 0
    BY <1>1, <1>5, <2>1, <2>3 DEF NextSeq
  <2> QED
    BY <1>1, <1>3, <2>1, <2>5, <2>7, <2>8
<1> QED
  BY <1>4, <1>5

\* A commit keeps the log well positioned.
LEMMA CommitLog ==
    ASSUME IInv, NEW w \in Writer, ServerCommits(w)
    PROVE  LogInv'
<1>0. PICK n \in Nat, e \in Transaction : n = Len(log) + 1 /\ e = OrderedTx(w)
  BY OrderedTxIsTransaction DEF IInv, TypeOK
<1>1. /\ Len(log) \in Nat
      /\ n = Len(log) + 1
      /\ n = Len(log')
      /\ log'[n] = e
      /\ \A j \in 1..Len(log) : log'[j] = log[j]
  BY <1>0, AppendOne DEF Grows, ServerCommits, IInv
<1>2. /\ e.kind = "ordered" /\ e.by = w /\ e.seq \in Nat /\ e.binds \in Nat
      /\ Reserve(w) \in Nat \ {0}
      /\ \/ /\ \A j \in 1..Len(log) : ~Ordered(j) /\ log[j].binds = 0
            /\ e.binds = Reserve(w)
            /\ e.seq = e.binds + 1
         \/ \E t, i \in 1..Len(log) :
               /\ Ordered(t)
               /\ \A j \in 1..Len(log) : Ordered(j) => j <= t
               /\ e.seq = log[t].seq + 1
               /\ e.binds = 0
               /\ i <= t
               /\ log[i].binds = Reserve(w)
  <2>1. e.seq \in Nat /\ e.binds \in Nat
    BY DEF Transaction
  <2>2. Reserve(w) \in Nat \ {0}
    BY NextSeqIsNat DEF IInv, TypeOK
  <2> QED
    BY <1>0, <2>1, <2>2, CommitsAtTop DEF ServerCommits
<1>3. \A j \in 1..Len(log) : log[j].seq \in Nat /\ log[j].binds \in Nat
  BY LogEntry DEF IInv
<1>4. \A j \in 1..n : j # n => j \in 1..Len(log) /\ log'[j] = log[j]
  BY <1>1
<1>5. \A j \in 1..n : j # n => (Ordered(j)' <=> Ordered(j))
  BY <1>4 DEF Ordered
<1>6. Ordered(n)'
  BY <1>1, <1>2 DEF Ordered
<1>7. \A j \in 1..Len(log) : ~HoldsKey(j, w)
  BY DEF ServerCommits, Preconditions, RecordKeyFree, KeyPresentAt
<1>8. LogShape'
  <2> SUFFICES ASSUME NEW j \in 1..n
               PROVE  /\ Ordered(j)' => /\ log'[j].by \in Writer
                                        /\ \E i \in 1..j : log'[i].binds # 0
                      /\ log'[j].binds # 0 => Ordered(j)' /\ log'[j].seq = log'[j].binds + 1
    BY <1>1 DEF LogShape
  <2>1. CASE j = n
    <3>1. \E i \in 1..n : log'[i].binds # 0
      BY <1>1, <1>2
    <3> QED
      BY <1>1, <1>2, <1>6, <2>1, <3>1
  <2>2. CASE j # n
    <3>1. j \in 1..Len(log) /\ \A i \in 1..j : i \in 1..Len(log)
      BY <1>1, <1>4, <2>2
    <3> QED
      BY <1>1, <1>4, <1>5, <2>2, <3>1 DEF IInv, LogInv, LogShape
  <2> QED
    BY <2>1, <2>2
<1>9. PositionsFollowCommits'
  <2> SUFFICES ASSUME NEW i \in 1..n, NEW j \in 1..n, Ordered(i)', Ordered(j)', i < j
               PROVE  log'[i].seq < log'[j].seq
    BY <1>1 DEF PositionsFollowCommits
  <2>1. CASE j # n
    BY <1>1, <1>4, <1>5, <2>1 DEF IInv, LogInv, PositionsFollowCommits
  <2>2. CASE j = n
    <3>1. i \in 1..Len(log) /\ Ordered(i) /\ log'[i] = log[i]
      BY <1>1, <1>4, <1>5, <2>2
    <3>2. PICK t \in 1..Len(log) : /\ Ordered(t)
                                   /\ \A k \in 1..Len(log) : Ordered(k) => k <= t
                                   /\ e.seq = log[t].seq + 1
      BY <1>2, <3>1
    <3>3. i <= t /\ log[i].seq <= log[t].seq
      BY <1>1, <1>3, <3>1, <3>2 DEF IInv, LogInv, PositionsFollowCommits
    <3> QED
      BY <1>1, <1>3, <2>2, <3>1, <3>2, <3>3
  <2> QED
    BY <2>1, <2>2
<1>10. PositionsGapless'
  <2> SUFFICES ASSUME NEW i \in 1..n, NEW j \in 1..n, log'[i].binds # 0, Ordered(j)',
                      NEW q \in (log'[i].binds + 1)..log'[j].seq
               PROVE  \E k \in 1..n : Ordered(k)' /\ log'[k].seq = q
    BY <1>1 DEF PositionsGapless
  <2>1. CASE \A k \in 1..Len(log) : ~Ordered(k) /\ log[k].binds = 0
    <3>1. i = n /\ j = n
      BY <1>1, <1>4, <1>5, <2>1
    <3>2. e.binds # 0 /\ e.seq = e.binds + 1
      BY <1>1, <1>2, <2>1, <3>1
    <3>3. q = e.seq
      BY <1>1, <1>2, <3>1, <3>2
    <3> QED
      BY <1>1, <1>6, <3>3
  <2>2. CASE \E t, b \in 1..Len(log) :
               /\ Ordered(t)
               /\ e.seq = log[t].seq + 1
               /\ e.binds = 0
    <3>1. PICK t \in 1..Len(log) : Ordered(t) /\ e.seq = log[t].seq + 1 /\ e.binds = 0
      BY <2>2
    <3>2. i \in 1..Len(log) /\ log'[i] = log[i]
      BY <1>1, <1>4, <3>1
    <3>3. q \in Int /\ log[i].binds + 1 <= q /\ q <= log'[j].seq
      BY <1>3, <3>2
    <3>4. CASE q = e.seq
      BY <1>1, <1>6, <3>4
    <3>5. CASE q # e.seq
      <4>1. PICK u \in 1..Len(log) : Ordered(u) /\ q <= log[u].seq
        <5>1. CASE j = n
          BY <1>1, <1>2, <1>3, <3>1, <3>3, <3>5, <5>1
        <5>2. CASE j # n
          BY <1>4, <1>5, <3>3, <5>2
        <5> QED
          BY <5>1, <5>2
      <4>2. q \in (log[i].binds + 1)..log[u].seq
        BY <1>3, <3>2, <3>3, <4>1
      <4>3. PICK k \in 1..Len(log) : Ordered(k) /\ log[k].seq = q
        BY <3>2, <4>1, <4>2 DEF IInv, LogInv, PositionsGapless
      <4> QED
        BY <1>1, <1>5, <4>3
    <3> QED
      BY <3>4, <3>5
  <2> QED
    BY <1>2, <2>1, <2>2
<1>11. OneReserve'
  <2> SUFFICES ASSUME NEW i \in 1..n, NEW j \in 1..n, log'[i].binds # 0
               PROVE  /\ Ordered(i)'
                      /\ log'[j].binds # 0 => i = j
                      /\ Ordered(j)' => i <= j /\ Reserve(log'[j].by) = log'[i].binds
    BY <1>1 DEF OneReserve, Reserve
  <2>1. CASE \A k \in 1..Len(log) : ~Ordered(k) /\ log[k].binds = 0
    <3>1. i = n
      BY <1>1, <1>4, <2>1
    <3>2. \A k \in 1..n : k # n => log'[k].binds = 0 /\ ~Ordered(k)'
      BY <1>1, <1>4, <1>5, <2>1
    <3>3. e.binds = Reserve(w)
      BY <1>2, <1>1, <2>1, <3>1
    <3> QED
      BY <1>1, <1>2, <1>6, <3>1, <3>2, <3>3
  <2>2. CASE \E t, b \in 1..Len(log) :
               /\ e.binds = 0
               /\ b <= t
               /\ log[b].binds = Reserve(w)
    <3>1. PICK b \in 1..Len(log) : e.binds = 0 /\ log[b].binds = Reserve(w)
      BY <2>2
    <3>2. i \in 1..Len(log) /\ log'[i] = log[i] /\ i = b
      BY <1>1, <1>2, <1>4, <3>1 DEF IInv, LogInv, OneReserve
    <3>3. CASE j = n
      BY <1>1, <1>2, <1>4, <1>5, <3>1, <3>2, <3>3 DEF IInv, LogInv, OneReserve
    <3>4. CASE j # n
      BY <1>1, <1>4, <1>5, <3>2, <3>4 DEF IInv, LogInv, OneReserve
    <3> QED
      BY <3>3, <3>4
  <2> QED
    BY <1>2, <2>1, <2>2
<1>12. OneRecordPerKey'
  BY <1>1, <1>2, <1>4, <1>5, <1>7 DEF IInv, LogInv, OneRecordPerKey, HoldsKey
<1>13. FaultsQualifyTheirRecord'
  <2> SUFFICES ASSUME NEW i \in 1..n, log'[i].kind = "fault"
               PROVE  /\ log'[i].names \in 1..i - 1
                      /\ log'[log'[i].names].kind = "ordered"
                      /\ log'[log'[i].names].by = log'[i].by
    BY <1>1 DEF FaultsQualifyTheirRecord, Ordered
  <2>1. i # n
    BY <1>6 DEF Ordered
  <2>2. /\ log[i].names \in 1..i - 1
        /\ log[log[i].names].kind = "ordered"
        /\ log[log[i].names].by = log[i].by
    BY <1>4, <2>1 DEF IInv, LogInv, FaultsQualifyTheirRecord, Ordered
  <2>3. log[i].names \in 1..Len(log) /\ log'[i] = log[i]
    BY <1>1, <1>4, <2>1, <2>2
  <2> QED
    BY <1>1, <2>2, <2>3
<1> QED
  BY <1>8, <1>9, <1>10, <1>11, <1>12, <1>13 DEF LogInv


-----------------------------------------------------------------------------
(* The requests: what a growing log keeps true of them.                    *)

\* Facts about entries of the log survive its growth.
LEMMA RememberedStep ==
    ASSUME TypeOK, Grows,
           \A p \in Process :
              /\ PairInLog(seqCache'[p])
              /\ reserveCache'[p] # 0 =>
                    \E i \in 1..Len(log) : log[i].binds = reserveCache'[p],
           \A w \in Writer :
              /\ PairInLog(observed'[w])
              /\ bound'[w] # 0 => \E i \in 1..Len(log) : log[i].binds = bound'[w]
    PROVE  Remembered'
<1>1. Len(log) \in Nat /\ \A j \in 1..Len(log) : j \in 1..Len(log') /\ log'[j] = log[j]
  BY DEF Grows, TypeOK
<1>2. \A c : PairInLog(c) => \/ c = NoCounter
                             \/ /\ c.tx \in 1..Len(log')
                                /\ log'[c.tx].kind = "ordered"
                                /\ c.seq = log'[c.tx].seq
  BY <1>1 DEF PairInLog, Ordered
<1>3. \A p \in Process : PairInLog(seqCache[p])'
  BY <1>2 DEF PairInLog, Ordered
<1>4. \A w \in Writer : PairInLog(observed[w])'
  BY <1>2 DEF PairInLog, Ordered
<1> QED
  BY <1>1, <1>3, <1>4 DEF Remembered

\* Committed, Truth and KeyPresent facts of a request survive it as well.
LEMMA LogFactsStep ==
    ASSUME TypeOK, Grows, NEW w \in Writer
    PROVE  /\ \A j \in 1..Len(log) :
                 /\ j \in 1..Len(log')
                 /\ log'[j] = log[j]
                 /\ Ordered(j)' <=> Ordered(j)
                 /\ HoldsKey(j, w)' <=> HoldsKey(j, w)
                 /\ BytesAt(w, j)' <=> BytesAt(w, j)
           /\ KeyPresentAt(w, Len(log)) => KeyPresentAt(w, Len(log))'
<1>1. Len(log) \in Nat /\ \A j \in 1..Len(log) : j \in 1..Len(log') /\ log'[j] = log[j]
  BY DEF Grows, TypeOK
<1>2. \A j \in 1..Len(log) :
        /\ Ordered(j)' <=> Ordered(j)
        /\ HoldsKey(j, w)' <=> HoldsKey(j, w)
        /\ BytesAt(w, j)' <=> BytesAt(w, j)
  BY <1>1 DEF Ordered, HoldsKey, BytesAt
<1> QED
  BY <1>1, <1>2 DEF KeyPresentAt

\* A request whose own variables do not change keeps its part of the
\* invariant, unless the server decides its ExecAll.
Own(w) == <<inflight[w], pc[w], bound[w], observed[w], reply[w]>>

\* A request untouched by a step keeps its part while the ledger grows.
LEMMA BystanderStep ==
    ASSUME TypeOK, Grows, NEW w \in Writer, UNCHANGED Own(w), PerRequest(w)
    PROVE  PerRequest(w)'
<1>1. /\ inflight'[w] = inflight[w] /\ pc'[w] = pc[w] /\ bound'[w] = bound[w]
      /\ reply'[w] = reply[w]
  BY DEF Own
<1>2. OutcomeOf(w)'
  BY <1>1, LogFactsStep DEF PerRequest, OutcomeOf, Reserve
<1>3. SettledOf(w)'
  BY <1>1, LogFactsStep DEF PerRequest, SettledOf
<1>4. TruthOf(w)'
  <2>1. SUFFICES ASSUME reply[w].committed = "true"
                 PROVE  /\ reply[w].tx \in 1..Len(log')
                        /\ BytesAt(w, reply[w].tx)'
                        /\ reply[w].seq \in {0, log'[reply[w].tx].seq}
    BY <1>1 DEF TruthOf
  <2>2. PICK t \in 1..Len(log) : t = reply[w].tx
    BY <2>1 DEF PerRequest, TruthOf
  <2>3. BytesAt(w, t) /\ reply[w].seq \in {0, log[t].seq}
    BY <2>1, <2>2 DEF PerRequest, TruthOf
  <2>4. BytesAt(w, t)' /\ t \in 1..Len(log') /\ log'[t] = log[t]
    BY <2>3, LogFactsStep
  <2> QED
    BY <1>1, <2>2, <2>3, <2>4
<1> QED
  BY <1>2, <1>3, <1>4 DEF PerRequest


\* A step that is not the server's, and that of one request w at most: what is
\* left to show is that w keeps its part and that the caches hold old pairs.
LEMMA RequestStep ==
    ASSUME IInv, Grows, NEW w \in Writer,
           \A j \in 1..Len(log') : Ordered(j)' => j \in 1..Len(log),
           \A v \in Writer \ {w} : UNCHANGED Own(v),
           inflight[w] = "committed" => inflight'[w] = "committed",
           PerRequest(w)', Remembered'
    PROVE  RequestInv'
<1>1. \A v \in Writer : PerRequest(v)'
  BY BystanderStep DEF IInv, RequestInv
<1>2. \A v \in Writer : inflight[v] = "committed" => inflight'[v] = "committed"
  BY DEF Own
<1>3. Attributed'
  BY <1>2, LogFactsStep DEF Attributed, IInv, RequestInv, LogInv, LogShape
<1> QED
  BY <1>1, <1>3 DEF RequestInv

\* What Raise answers when nothing was sent is settled.
LEMMA RaisePerRequest ==
    ASSUME TypeOK, NEW w \in Writer, Raise(w), pc[w] \in {"reserve", "counter"},
           UNCHANGED <<log, inflight>>, PerRequest(w)
    PROVE  PerRequest(w)' /\ \A v \in Writer \ {w} : pc'[v] = pc[v] /\ reply'[v] = reply[v]
<1>1. inflight[w] = "none" /\ inflight'[w] = "none" /\ reply[w].committed = "none"
  BY DEF PerRequest, OutcomeOf
<1>2. /\ pc'[w] \in {"readback", "done"}
      /\ \/ reply'[w] = reply[w]
         \/ pc'[w] = "done" /\ reply'[w].committed = "false"
      /\ \A v \in Writer \ {w} : pc'[v] = pc[v] /\ reply'[v] = reply[v]
  BY DEF Raise, Respond, Goto, Reply, TypeOK
<1> QED
  BY <1>1, <1>2 DEF PerRequest, OutcomeOf, SettledOf, TruthOf


\* Steps of a request that only move it or answer it.
LEMMA QuietStep ==
    ASSUME IInv, NEW w \in Writer, UNCHANGED <<ledger, inflight, caches, bound, observed>>,
           \A v \in Writer \ {w} : pc'[v] = pc[v] /\ reply'[v] = reply[v],
           PerRequest(w)'
    PROVE  LogInv' /\ RequestInv'
<1>1. LogInv'
  BY SameLog DEF IInv, ledger
<1>2. Grows
  BY SameLogGrows DEF IInv, ledger
<1>3. Remembered'
  BY <1>2, RememberedStep DEF IInv, RequestInv, Remembered, caches
<1>4. \A v \in Writer \ {w} : UNCHANGED Own(v)
  BY DEF Own
<1>5. \A j \in 1..Len(log') : Ordered(j)' => j \in 1..Len(log)
  BY DEF ledger
<1> QED
  BY <1>1, <1>2, <1>3, <1>4, <1>5, RequestStep

\* Entering, giving up and every answer of write_ordered keep the invariant.
LEMMA AnswerStep ==
    ASSUME IInv, NEW w \in Writer,
           \/ Refuse(w) \/ Begin(w) \/ ReadCounterFails(w) \/ ReadReserveFails(w)
           \/ BudgetExhausted(w) \/ TransportFails(w) \/ ReadBackFails(w)
           \/ ReadBackNotFound(w) \/ ReadBackAbsent(w) \/ ReadBackPresent(w) \/ VerifyDone(w)
    PROVE  LogInv' /\ RequestInv'
<1>1. UNCHANGED <<ledger, inflight, caches, bound, observed>>
  BY DEF Refuse, Begin, ReadCounterFails, ReadReserveFails, BudgetExhausted, TransportFails,
         ReadBackFails, ReadBackNotFound, ReadBackAbsent, ReadBackPresent, VerifyDone, locals
<1>2. PerRequest(w) /\ TypeOK /\ log' = log /\ inflight' = inflight /\ bound' = bound
  BY <1>1 DEF IInv, RequestInv, ledger
<1> DEFINE Rest == \A v \in Writer \ {w} : pc'[v] = pc[v] /\ reply'[v] = reply[v]
<1>3. ASSUME NEW r, Respond(w, r)
      PROVE  pc'[w] = "done" /\ reply'[w] = r /\ Rest
  BY <1>2, <1>3 DEF Respond, Goto, TypeOK
<1>4. ASSUME NEW l \in Steps, Goto(w, l), UNCHANGED reply
      PROVE  pc'[w] = l /\ reply'[w] = reply[w] /\ Rest
  BY <1>2, <1>4 DEF Goto, TypeOK
<1>5. CASE Refuse(w)
  <2>1. pc'[w] = "done" /\ reply'[w] = Reply("false") /\ Rest
    BY <1>3, <1>5 DEF Refuse
  <2>2. PerRequest(w)'
    BY <1>2, <1>5, <2>1 DEF Refuse, Reply, PerRequest, OutcomeOf, SettledOf, TruthOf
  <2> QED
    BY <1>1, <2>1, <2>2, QuietStep
<1>6. CASE Begin(w)
  <2>1. pc'[w] = "reserve" /\ reply'[w] = reply[w] /\ Rest
    BY <1>4, <1>6 DEF Begin, Steps
  <2>2. PerRequest(w)'
    BY <1>2, <1>6, <2>1 DEF Begin, PerRequest, OutcomeOf, SettledOf, TruthOf
  <2> QED
    BY <1>1, <2>1, <2>2, QuietStep
<1>7. CASE ReadCounterFails(w) \/ ReadReserveFails(w)
  <2>1. PerRequest(w)' /\ Rest
    BY <1>2, <1>7, RaisePerRequest DEF ReadCounterFails, ReadReserveFails
  <2> QED
    BY <1>1, <2>1, QuietStep
<1>8. CASE BudgetExhausted(w)
  <2>1. pc'[w] = "exhausted" /\ reply'[w] = reply[w] /\ Rest
    BY <1>4, <1>8 DEF BudgetExhausted, Steps
  <2>2. PerRequest(w)'
    BY <1>2, <1>8, <2>1 DEF BudgetExhausted, PerRequest, OutcomeOf, SettledOf, TruthOf
  <2> QED
    BY <1>1, <2>1, <2>2, QuietStep
<1>9. CASE TransportFails(w)
  <2>1. pc'[w] = "readback" /\ reply'[w] = reply[w] /\ Rest
    BY <1>4, <1>9 DEF TransportFails, Steps
  <2>2. PerRequest(w)'
    BY <1>2, <1>9, <2>1
    DEF TransportFails, PerRequest, OutcomeOf, SettledOf, TruthOf, Ordered, Reserve
  <2> QED
    BY <1>1, <2>1, <2>2, QuietStep
<1>10. CASE ReadBackFails(w)
  <2>1. pc'[w] = "done" /\ reply'[w] = Reply("null") /\ Rest
    BY <1>3, <1>10 DEF ReadBackFails
  <2>2. PerRequest(w)'
    BY <1>2, <1>10, <2>1
    DEF ReadBackFails, Reply, PerRequest, OutcomeOf, SettledOf, TruthOf, Ordered, Reserve
  <2> QED
    BY <1>1, <2>1, <2>2, QuietStep
<1>11. CASE ReadBackNotFound(w)
  <2>1. /\ pc'[w] = "done" /\ Rest
        /\ reply'[w] = Reply(NotFoundMeans(w))
    BY <1>3, <1>11 DEF ReadBackNotFound
  <2>2. PerRequest(w)'
    BY <1>2, <1>11, <2>1
    DEF ReadBackNotFound, NotFoundMeans, Reply, PerRequest, OutcomeOf, SettledOf, TruthOf, Ordered, Reserve
  <2> QED
    BY <1>1, <2>1, <2>2, QuietStep
<1>12. CASE ReadBackAbsent(w)
  <2>1. pc'[w] = "done" /\ reply'[w] = Reply("false") /\ Rest
    BY <1>3, <1>12 DEF ReadBackAbsent
  <2>2. PICK j \in 1..Len(log) : HoldsKey(j, w) /\ ~BytesAt(w, j)
    BY <1>2, <1>12 DEF ReadBackAbsent, TypeOK
  <2>3. KeyPresentAt(w, Len(log)) /\ KeyPresentAt(w, Len(log))'
    BY <1>2, <2>2 DEF KeyPresentAt, HoldsKey, Ordered
  <2>4. inflight[w] # "committed"
    <3>1. SUFFICES ASSUME inflight[w] = "committed" PROVE FALSE
      OBVIOUS
    <3>2. PICK k \in 1..Len(log) : Ordered(k) /\ log[k].by = w
      BY <1>2, <3>1 DEF PerRequest, OutcomeOf
    <3>3. j = k
      BY <2>2, <3>2 DEF IInv, LogInv, OneRecordPerKey, HoldsKey
    <3> QED
      BY <2>2, <3>2, <3>3 DEF BytesAt
  <2>5. PerRequest(w)'
    BY <1>2, <2>1, <2>3, <2>4, <1>12
    DEF ReadBackAbsent, Reply, PerRequest, OutcomeOf, SettledOf, TruthOf, Ordered, Reserve
  <2> QED
    BY <1>1, <2>1, <2>5, QuietStep
<1>13. CASE ReadBackPresent(w)
  <2>1. PICK j \in 1..Len(log), q \in {0, NextSeq(observed[w], w)} :
           /\ BytesAt(w, j)
           /\ q \in {0, log[j].seq}
           /\ Respond(w, [committed |-> "true", tx |-> j, seq |-> q])
    BY <1>2, <1>13 DEF ReadBackPresent, PositionsConfirmed, TypeOK
  <2>2. pc'[w] = "done" /\ reply'[w] = [committed |-> "true", tx |-> j, seq |-> q] /\ Rest
    BY <1>3, <2>1
  <2>3. TruthOf(w)'
    BY <1>2, <2>1, <2>2 DEF TruthOf, BytesAt, HoldsKey, Ordered
  <2>4. OutcomeOf(w)' /\ SettledOf(w)'
    BY <1>2, <1>13, <2>2
    DEF ReadBackPresent, PerRequest, OutcomeOf, SettledOf, Ordered, Reserve
  <2> QED
    BY <1>1, <2>2, <2>3, <2>4, QuietStep DEF PerRequest
<1>14. CASE VerifyDone(w)
  <2>1. PICK t \in 1..Len(log) : Committed(w, t)
    BY <1>14 DEF VerifyDone
  <2>2. /\ pc'[w] = "done" /\ Rest
        /\ reply'[w] = [committed |-> "true", tx |-> t, seq |-> log[t].seq]
    BY <1>3, <2>1 DEF Committed
  <2>3. BytesAt(w, t)
    BY <2>1 DEF Committed, BytesAt, HoldsKey
  <2>4. TruthOf(w)'
    BY <1>2, <2>2, <2>3 DEF TruthOf, BytesAt, HoldsKey, Ordered
  <2>5. OutcomeOf(w)' /\ SettledOf(w)'
    BY <1>2, <1>14, <2>2 DEF VerifyDone, PerRequest, OutcomeOf, SettledOf, Ordered, Reserve
  <2> QED
    BY <1>1, <2>2, <2>4, <2>5, QuietStep DEF PerRequest
<1> QED
  BY <1>5, <1>6, <1>7, <1>8, <1>9, <1>10, <1>11, <1>12, <1>13, <1>14


\* The reads of an attempt: what it now remembers is in the log.
LEMMA ReadReserveStep ==
    ASSUME IInv, NEW w \in Writer, ReadReserve(w)
    PROVE  LogInv' /\ RequestInv'
<1> USE ParameterAssumption
<1>1. /\ log' = log /\ inflight' = inflight /\ seqCache' = seqCache /\ observed' = observed
      /\ TypeOK /\ PerRequest(w) /\ pc[w] = "reserve" /\ Remembered
  BY DEF ReadReserve, ledger, IInv, RequestInv
<1>2. PICK r : /\ IF reserveCache[ProcOf[w]] # 0
                     THEN r = reserveCache[ProcOf[w]] ELSE ReserveAt(r, indexed)
               /\ bound' = [bound EXCEPT ![w] = r]
               /\ reserveCache' = [reserveCache EXCEPT ![ProcOf[w]] = r]
               /\ IF r # 0 /\ r # Reserve(w)
                     THEN Raise(w)
                     ELSE Goto(w, "counter") /\ UNCHANGED reply
  BY DEF ReadReserve
<1>3. r # 0 => \E i \in 1..Len(log) : log[i].binds = r
  <2>1. CASE reserveCache[ProcOf[w]] # 0
    BY <1>1, <1>2, <2>1 DEF Remembered
  <2>2. CASE reserveCache[ProcOf[w]] = 0
    <3>1. 1..indexed \subseteq 1..Len(log)
      BY <1>1 DEF TypeOK
    <3> QED
      BY <1>2, <2>2, <3>1 DEF ReserveAt
  <2> QED
    BY <2>1, <2>2
<1>4. Grows
  BY <1>1, SameLogGrows
<1>5. Remembered'
  <2>1. \A p \in Process : reserveCache'[p] \in {reserveCache[p], r}
    BY <1>1, <1>2 DEF TypeOK
  <2>2. \A v \in Writer : bound'[v] \in {bound[v], r}
    BY <1>1, <1>2 DEF TypeOK
  <2>3. \A p \in Process :
              /\ PairInLog(seqCache'[p])
              /\ reserveCache'[p] # 0 =>
                    \E i \in 1..Len(log) : log[i].binds = reserveCache'[p]
    BY <1>1, <1>3, <2>1 DEF Remembered
  <2>4. \A v \in Writer :
              /\ PairInLog(observed'[v])
              /\ bound'[v] # 0 => \E i \in 1..Len(log) : log[i].binds = bound'[v]
    BY <1>1, <1>3, <2>2 DEF Remembered
  <2> QED
    BY <1>1, <1>4, <2>3, <2>4, RememberedStep
<1>6. PerRequest(w)' /\ \A v \in Writer \ {w} : pc'[v] = pc[v] /\ reply'[v] = reply[v]
  <2>1. CASE r # 0 /\ r # Reserve(w)
    BY <1>1, <1>2, <2>1, RaisePerRequest
  <2>2. CASE ~(r # 0 /\ r # Reserve(w))
    <3>1. /\ pc'[w] = "counter" /\ reply' = reply /\ bound'[w] = r
          /\ \A v \in Writer \ {w} : pc'[v] = pc[v]
      BY <1>1, <1>2, <2>2 DEF Goto, TypeOK
    <3>2. inflight'[w] = "none" /\ reply'[w].committed = "none"
      BY <1>1, <3>1 DEF PerRequest, OutcomeOf
    <3> QED
      BY <2>2, <3>1, <3>2 DEF PerRequest, OutcomeOf, SettledOf, TruthOf, Reserve
  <2> QED
    BY <2>1, <2>2
<1>7. \A v \in Writer \ {w} : UNCHANGED Own(v)
  BY <1>1, <1>2, <1>6 DEF Own, TypeOK
<1>8. RequestInv'
  BY <1>1, <1>4, <1>5, <1>6, <1>7, RequestStep
<1> QED
  BY <1>1, <1>8, SameLog DEF IInv

\* The counter read and the sending of the ExecAll keep it.
LEMMA ReadCounterStep ==
    ASSUME IInv, NEW w \in Writer, ReadCounter(w)
    PROVE  LogInv' /\ RequestInv'
<1> USE ParameterAssumption
<1>1. /\ log' = log /\ bound' = bound /\ seqCache' = seqCache /\ reserveCache' = reserveCache
      /\ TypeOK /\ PerRequest(w) /\ pc[w] = "counter" /\ Remembered
  BY DEF ReadCounter, ledger, caches, IInv, RequestInv
<1>2. PICK o : /\ IF seqCache[ProcOf[w]] # NoCounter
                     THEN o = seqCache[ProcOf[w]] ELSE CounterAt(o, indexed)
               /\ observed' = [observed EXCEPT ![w] = o]
               /\ IF NextSeq(o, w) >= MaxPosition
                     THEN Raise(w) /\ UNCHANGED <<inflight, issued>>
                     ELSE /\ Goto(w, "exec")
                          /\ inflight' = [inflight EXCEPT ![w] = "sent"]
                          /\ issued' = [issued EXCEPT ![w] = TRUE]
                          /\ UNCHANGED reply
  BY DEF ReadCounter
<1>3. PairInLog(o)
  <2>1. CASE seqCache[ProcOf[w]] # NoCounter
    BY <1>1, <1>2, <2>1 DEF Remembered
  <2>2. CASE seqCache[ProcOf[w]] = NoCounter
    <3>1. 1..indexed \subseteq 1..Len(log)
      BY <1>1 DEF TypeOK
    <3> QED
      BY <1>2, <2>2, <3>1 DEF CounterAt, PairInLog
  <2> QED
    BY <2>1, <2>2
<1>4. Grows
  BY <1>1, SameLogGrows
<1>5. Remembered'
  <2>1. \A v \in Writer : observed'[v] \in {observed[v], o}
    BY <1>1, <1>2 DEF TypeOK
  <2>2. \A v \in Writer :
              /\ PairInLog(observed'[v])
              /\ bound'[v] # 0 => \E i \in 1..Len(log) : log[i].binds = bound'[v]
    BY <1>1, <1>3, <2>1 DEF Remembered
  <2>3. \A p \in Process :
              /\ PairInLog(seqCache'[p])
              /\ reserveCache'[p] # 0 =>
                    \E i \in 1..Len(log) : log[i].binds = reserveCache'[p]
    BY <1>1 DEF Remembered
  <2> QED
    BY <1>1, <1>4, <2>2, <2>3, RememberedStep
<1>6. inflight[w] = "none" /\ reply[w].committed = "none"
  BY <1>1 DEF PerRequest, OutcomeOf
<1>7. /\ PerRequest(w)'
      /\ \A v \in Writer \ {w} : /\ pc'[v] = pc[v] /\ reply'[v] = reply[v]
                                 /\ inflight'[v] = inflight[v]
  <2>1. CASE NextSeq(o, w) >= MaxPosition
    <3>1. Raise(w) /\ UNCHANGED <<log, inflight>>
      BY <1>1, <1>2, <2>1
    <3> QED
      BY <1>1, <3>1, RaisePerRequest
  <2>2. CASE ~(NextSeq(o, w) >= MaxPosition)
    <3>1. /\ pc'[w] = "exec" /\ reply' = reply /\ inflight'[w] = "sent"
          /\ \A v \in Writer \ {w} : pc'[v] = pc[v] /\ inflight'[v] = inflight[v]
      BY <1>1, <1>2, <2>2 DEF Goto, TypeOK
    <3> QED
      BY <1>1, <1>6, <3>1 DEF PerRequest, OutcomeOf, SettledOf, TruthOf, Reserve
  <2> QED
    BY <2>1, <2>2
<1>8. \A v \in Writer \ {w} : UNCHANGED Own(v)
  BY <1>1, <1>2, <1>7 DEF Own, TypeOK
<1>9. RequestInv'
  BY <1>1, <1>4, <1>5, <1>6, <1>7, <1>8, RequestStep
<1> QED
  BY <1>1, <1>9, SameLog DEF IInv


\* The outcome of an ExecAll, as the request receives it.
LEMMA AcceptStep ==
    ASSUME IInv, NEW w \in Writer, Accept(w)
    PROVE  LogInv' /\ RequestInv'
<1> USE ParameterAssumption
<1>1. /\ log' = log /\ inflight' = inflight /\ bound' = bound /\ observed' = observed
      /\ reply' = reply
      /\ TypeOK /\ PerRequest(w) /\ pc[w] = "exec" /\ inflight[w] = "committed" /\ Remembered
  BY DEF Accept, ledger, locals, IInv, RequestInv
<1>2. PICK t \in 1..Len(log) :
          /\ Ordered(t) /\ log[t].by = w
          /\ seqCache' = [seqCache EXCEPT ![ProcOf[w]] = [seq |-> log[t].seq, tx |-> t]]
  BY DEF Accept
<1>3. \A p \in Process : PairInLog(seqCache'[p])
  <2>1. PairInLog([seq |-> log[t].seq, tx |-> t])
    BY <1>2 DEF PairInLog
  <2>2. \A p \in Process : seqCache'[p] \in {seqCache[p], [seq |-> log[t].seq, tx |-> t]}
    BY <1>1, <1>2 DEF TypeOK
  <2> QED
    BY <1>1, <2>1, <2>2 DEF Remembered
<1>4. \A p \in Process : reserveCache'[p] # 0 =>
          \E i \in 1..Len(log) : log[i].binds = reserveCache'[p]
  <2>1. CASE bound[w] = 0
    <3>1. \E i \in 1..Len(log) : log[i].binds = Reserve(w)
      BY <1>1, <2>1 DEF PerRequest, OutcomeOf
    <3>2. \A p \in Process : reserveCache'[p] \in {reserveCache[p], Reserve(w)}
      BY <1>1, <2>1 DEF Accept, TypeOK
    <3> QED
      BY <1>1, <3>1, <3>2 DEF Remembered
  <2>2. CASE bound[w] # 0
    BY <1>1, <2>2 DEF Accept, Remembered
  <2> QED
    BY <2>1, <2>2
<1>5. Grows
  BY <1>1, SameLogGrows
<1>6. Remembered'
  <2>1. \A v \in Writer :
              /\ PairInLog(observed'[v])
              /\ bound'[v] # 0 => \E i \in 1..Len(log) : log[i].binds = bound'[v]
    BY <1>1 DEF Remembered
  <2> QED
    BY <1>1, <1>3, <1>4, <1>5, <2>1, RememberedStep
<1>7. pc'[w] = "verify" /\ \A v \in Writer \ {w} : pc'[v] = pc[v]
  BY <1>1 DEF Accept, Goto, TypeOK
<1>8. PerRequest(w)'
  BY <1>1, <1>7 DEF PerRequest, OutcomeOf, SettledOf, TruthOf, Ordered, Reserve
<1>9. \A v \in Writer \ {w} : UNCHANGED Own(v)
  BY <1>1, <1>7 DEF Own
<1>10. RequestInv'
  BY <1>1, <1>5, <1>6, <1>8, <1>9, RequestStep
<1> QED
  BY <1>1, <1>10, SameLog DEF IInv

\* A refused ExecAll, answered 409 or retried with cold caches, keeps it.
LEMMA RejectedStep ==
    ASSUME IInv, NEW w \in Writer, Rejected(w)
    PROVE  LogInv' /\ RequestInv'
<1> USE ParameterAssumption
<1>1. /\ log' = log /\ bound' = bound /\ observed' = observed
      /\ TypeOK /\ PerRequest(w) /\ pc[w] = "exec" /\ inflight[w] = "rejected" /\ Remembered
      /\ reply[w].committed = "none"
  BY DEF Rejected, ledger, locals, IInv, RequestInv, PerRequest, OutcomeOf
<1>2. /\ inflight'[w] \in {"none", "rejected"}
      /\ \A v \in Writer \ {w} : /\ pc'[v] = pc[v] /\ reply'[v] = reply[v]
                                 /\ inflight'[v] = inflight[v]
      /\ \A p \in Process : /\ seqCache'[p] \in {seqCache[p], NoCounter}
                            /\ reserveCache'[p] \in {reserveCache[p], 0}
      /\ \/ pc'[w] = "done" /\ reply'[w].committed = "exists"
         \/ pc'[w] = "reserve" /\ inflight'[w] = "none" /\ reply'[w] = reply[w]
  <2>1. CASE Respond(w, Reply("exists")) /\ UNCHANGED <<inflight, caches>>
    BY <1>1, <2>1 DEF Respond, Reply, Goto, caches, TypeOK
  <2>2. CASE /\ seqCache' = [seqCache EXCEPT ![ProcOf[w]] = NoCounter]
             /\ reserveCache' = [reserveCache EXCEPT ![ProcOf[w]] = 0]
             /\ inflight' = [inflight EXCEPT ![w] = "none"]
             /\ Goto(w, "reserve")
             /\ UNCHANGED reply
    BY <1>1, <2>2 DEF Goto, TypeOK
  <2> QED
    BY <2>1, <2>2 DEF Rejected
<1>3. Grows
  BY <1>1, SameLogGrows
<1>4. Remembered'
  <2>1. \A p \in Process :
              /\ PairInLog(seqCache'[p])
              /\ reserveCache'[p] # 0 =>
                    \E i \in 1..Len(log) : log[i].binds = reserveCache'[p]
    BY <1>1, <1>2 DEF Remembered, PairInLog
  <2>2. \A v \in Writer :
              /\ PairInLog(observed'[v])
              /\ bound'[v] # 0 => \E i \in 1..Len(log) : log[i].binds = bound'[v]
    BY <1>1 DEF Remembered
  <2> QED
    BY <1>1, <1>3, <2>1, <2>2, RememberedStep
<1>5. PerRequest(w)'
  BY <1>1, <1>2 DEF PerRequest, OutcomeOf, SettledOf, TruthOf
<1>6. \A v \in Writer \ {w} : UNCHANGED Own(v)
  BY <1>1, <1>2 DEF Own
<1>7. RequestInv'
  BY <1>1, <1>2, <1>3, <1>4, <1>5, <1>6, RequestStep
<1> QED
  BY <1>1, <1>7, SameLog DEF IInv

\* The proof of a committed record fails; a fault record may follow it.
LEMMA VerifyProofFailsStep ==
    ASSUME IInv, NEW w \in Writer, VerifyProofFails(w)
    PROVE  LogInv' /\ RequestInv'
<1>1. /\ inflight' = inflight /\ bound' = bound /\ observed' = observed
      /\ seqCache' = seqCache /\ reserveCache' = reserveCache
      /\ TypeOK /\ PerRequest(w) /\ pc[w] = "verify" /\ Remembered
  BY DEF VerifyProofFails, caches, locals, IInv, RequestInv
<1>2. PICK t \in 1..Len(log), e \in Transaction :
          /\ Committed(w, t)
          /\ e = FaultTx(w, t)
          /\ log' = Append(log, e) \/ UNCHANGED log
  <2>1. PICK t \in 1..Len(log) :
          /\ Committed(w, t)
          /\ \/ log' = Append(log, FaultTx(w, t))
             \/ UNCHANGED log
    BY DEF VerifyProofFails
  <2>2. FaultTx(w, t) \in Transaction
    BY <1>1 DEF Transaction, TypeOK, FaultTx
  <2> QED
    BY <2>1, <2>2
<1>3. Grows /\ LogInv' /\ \A j \in 1..Len(log') : Ordered(j)' => j \in 1..Len(log)
  <2>1. CASE UNCHANGED log
    BY <1>1, <2>1, SameLog, SameLogGrows DEF IInv
  <2>2. CASE log' = Append(log, e)
    <3>1. LogInv'
      BY <1>1, <1>2, <2>2, PlainAppend DEF Committed, FaultTx, IInv
    <3>2. /\ Grows /\ Len(log) \in Nat /\ Len(log') = Len(log) + 1 /\ log'[Len(log')] = e
      BY <1>1, <2>2, AppendOne
    <3>3. \A j \in 1..Len(log') : Ordered(j)' => j \in 1..Len(log)
      BY <1>2, <3>2 DEF Ordered, FaultTx
    <3> QED
      BY <3>1, <3>2, <3>3
  <2> QED
    BY <1>2, <2>1, <2>2
<1>4. Remembered'
  BY <1>1, <1>3, RememberedStep DEF Remembered
<1>5. /\ pc'[w] = "done" /\ reply'[w] = [committed |-> "true", tx |-> t, seq |-> log[t].seq]
      /\ \A v \in Writer \ {w} : pc'[v] = pc[v] /\ reply'[v] = reply[v]
  BY <1>1, <1>2 DEF Committed, Respond, Goto, TypeOK
<1>6. PerRequest(w)'
  <2>1. BytesAt(w, t)
    BY <1>2 DEF Committed, BytesAt, HoldsKey
  <2>2. BytesAt(w, t)' /\ t \in 1..Len(log') /\ log'[t] = log[t]
    BY <1>1, <1>3, <2>1, LogFactsStep
  <2>3. TruthOf(w)'
    BY <1>5, <2>2 DEF TruthOf, BytesAt, HoldsKey, Ordered
  <2>4. SettledOf(w)'
    BY <1>5 DEF SettledOf
  <2>5. OutcomeOf(w)'
    BY <1>1, <1>3, <1>5, LogFactsStep DEF PerRequest, OutcomeOf, Reserve
  <2> QED
    BY <2>3, <2>4, <2>5 DEF PerRequest
<1>7. \A v \in Writer \ {w} : UNCHANGED Own(v)
  BY <1>1, <1>5 DEF Own
<1>8. RequestInv'
  BY <1>1, <1>3, <1>4, <1>6, <1>7, RequestStep
<1> QED
  BY <1>3, <1>8

\* The server decides an ExecAll.
LEMMA ServerCommitsStep ==
    ASSUME IInv, NEW w \in Writer, ServerCommits(w)
    PROVE  LogInv' /\ RequestInv'
<1>1. /\ pc' = pc /\ bound' = bound /\ observed' = observed /\ reply' = reply
      /\ seqCache' = seqCache /\ reserveCache' = reserveCache
      /\ inflight' = [inflight EXCEPT ![w] = "committed"]
      /\ TypeOK /\ PerRequest(w) /\ inflight[w] = "sent" /\ Remembered
  BY DEF ServerCommits, caches, locals, IInv, RequestInv
<1>2. PICK e \in Transaction : e = OrderedTx(w)
  BY <1>1, OrderedTxIsTransaction
<1>3. /\ Grows /\ Len(log) \in Nat /\ Len(log') = Len(log) + 1 /\ log'[Len(log')] = e
  BY <1>1, <1>2, AppendOne DEF ServerCommits
<1>4. e.kind = "ordered" /\ e.by = w /\ (bound[w] = 0 => e.binds = Reserve(w))
  BY <1>2 DEF OrderedTx
<1>5. Remembered'
  BY <1>1, <1>3, RememberedStep DEF Remembered
<1>6. inflight'[w] = "committed" /\ \A v \in Writer \ {w} : inflight'[v] = inflight[v]
  BY <1>1 DEF TypeOK
<1>7. \A v \in Writer \ {w} : PerRequest(v)'
  <2>1. \A v \in Writer \ {w} : UNCHANGED Own(v)
    BY <1>1, <1>6 DEF Own
  <2> QED
    BY <1>1, <1>3, <2>1, BystanderStep DEF IInv, RequestInv
<1>8. PerRequest(w)'
  <2>1. pc[w] \notin {"idle", "reserve", "counter", "exhausted", "verify"}
    BY <1>1 DEF PerRequest, OutcomeOf
  <2>2. reply[w].committed \notin {"false", "exists"}
    BY <1>1 DEF PerRequest, SettledOf, ServerCommits, Preconditions, RecordKeyFree
  <2>3. PICK j \in 1..Len(log') : log'[j] = e
    BY <1>3
  <2>4. OutcomeOf(w)'
    BY <1>1, <1>4, <1>6, <2>1, <2>3 DEF PerRequest, OutcomeOf, Ordered, Reserve
  <2>5. SettledOf(w)'
    BY <1>1, <2>2 DEF SettledOf
  <2>6. TruthOf(w)'
    <3>1. SUFFICES ASSUME reply[w].committed = "true" PROVE TruthOf(w)'
      BY <1>1 DEF TruthOf
    <3>2. PICK t \in 1..Len(log) : t = reply[w].tx
      BY <1>1, <3>1 DEF PerRequest, TruthOf
    <3>3. BytesAt(w, t)' /\ t \in 1..Len(log') /\ log'[t] = log[t]
      BY <1>1, <1>3, <3>1, <3>2, LogFactsStep DEF PerRequest, TruthOf
    <3> QED
      BY <1>1, <3>1, <3>2, <3>3 DEF PerRequest, TruthOf, BytesAt, HoldsKey, Ordered
  <2> QED
    BY <2>4, <2>5, <2>6 DEF PerRequest
<1>9. Attributed'
  <2> SUFFICES ASSUME NEW j \in 1..Len(log'), Ordered(j)'
               PROVE  inflight'[log'[j].by] = "committed"
    BY DEF Attributed
  <2>1. CASE j = Len(log')
    BY <1>3, <1>4, <1>6, <2>1
  <2>2. CASE j # Len(log')
    <3>1. j \in 1..Len(log) /\ log'[j] = log[j]
      BY <1>3, <2>2 DEF Grows
    <3>2. Ordered(j) /\ log[j].by \in Writer /\ inflight[log[j].by] = "committed"
      BY <3>1 DEF Ordered, IInv, LogInv, LogShape, RequestInv, Attributed
    <3> QED
      BY <1>6, <3>1, <3>2
  <2> QED
    BY <2>1, <2>2
<1> QED
  BY <1>5, <1>7, <1>8, <1>9, CommitLog DEF RequestInv

\* A refusal by the server, awaited or not, keeps it.
LEMMA ServerRejectsStep ==
    ASSUME IInv, NEW w \in Writer, ServerRejects(w)
    PROVE  LogInv' /\ RequestInv'
<1>1. /\ log' = log /\ pc' = pc /\ bound' = bound /\ observed' = observed /\ reply' = reply
      /\ seqCache' = seqCache /\ reserveCache' = reserveCache
      /\ inflight' = [inflight EXCEPT ![w] = "rejected"]
      /\ TypeOK /\ PerRequest(w) /\ inflight[w] = "sent" /\ Remembered
  BY DEF ServerRejects, ledger, caches, locals, IInv, RequestInv
<1>2. Grows
  BY <1>1, SameLogGrows
<1>3. Remembered'
  BY <1>1, <1>2, RememberedStep DEF Remembered
<1>4. inflight'[w] = "rejected" /\ \A v \in Writer \ {w} : inflight'[v] = inflight[v]
  BY <1>1 DEF TypeOK
<1>5. PerRequest(w)'
  BY <1>1, <1>4 DEF PerRequest, OutcomeOf, SettledOf, TruthOf, Ordered, BytesAt, HoldsKey
<1>6. \A v \in Writer \ {w} : UNCHANGED Own(v)
  BY <1>1, <1>4 DEF Own
<1>7. RequestInv'
  BY <1>1, <1>2, <1>3, <1>5, <1>6, RequestStep
<1> QED
  BY <1>1, <1>7, SameLog DEF IInv


\* Steps of the environment: the requests keep everything but their place.
LEMMA EnvironmentStep ==
    ASSUME IInv, Grows, LogInv',
           \A j \in 1..Len(log') : Ordered(j)' => j \in 1..Len(log),
           UNCHANGED <<inflight, caches, pc, locals, reply>>
    PROVE  RequestInv'
<1>1. Remembered'
  BY RememberedStep DEF IInv, RequestInv, Remembered, caches, locals
<1>2. \A w \in Writer : PerRequest(w)'
  BY BystanderStep DEF IInv, RequestInv, Own, locals
<1>3. Attributed'
  BY DEF Attributed, Grows, Ordered, IInv, RequestInv
<1> QED
  BY <1>1, <1>2, <1>3 DEF RequestInv

\* A commit of another route keeps it.
LEMMA OtherCommitsStep ==
    ASSUME IInv, OtherCommits
    PROVE  LogInv' /\ RequestInv'
<1>1. /\ Grows /\ Len(log) \in Nat /\ Len(log') = Len(log) + 1 /\ log'[Len(log')] = Other
  BY OtherIsTransaction, AppendOne DEF OtherCommits, IInv
<1>2. Other.kind = "other" /\ Other.binds = 0
  BY DEF Other
<1>3. LogInv'
  BY <1>2, OtherIsTransaction, PlainAppend DEF OtherCommits, IInv
<1>4. \A j \in 1..Len(log') : Ordered(j)' => j \in 1..Len(log)
  BY <1>1, <1>2 DEF Ordered
<1> QED
  BY <1>1, <1>3, <1>4, EnvironmentStep DEF OtherCommits

\* A crash and restart of a process keeps it.
LEMMA RestartStep ==
    ASSUME IInv, NEW p \in Process, Restart(p)
    PROVE  LogInv' /\ RequestInv'
<1>1. /\ log' = log /\ inflight' = inflight /\ bound' = bound /\ observed' = observed
      /\ reply' = reply /\ TypeOK /\ Remembered
      /\ \A w \in Writer : PerRequest(w)
  BY DEF Restart, ledger, locals, IInv, RequestInv
<1>2. Grows
  BY <1>1, SameLogGrows
<1>3. \A q \in Process : /\ seqCache'[q] \in {seqCache[q], NoCounter}
                         /\ reserveCache'[q] \in {reserveCache[q], 0}
  BY <1>1 DEF Restart, TypeOK
<1>4. Remembered'
  <2>1. \A q \in Process :
              /\ PairInLog(seqCache'[q])
              /\ reserveCache'[q] # 0 =>
                    \E i \in 1..Len(log) : log[i].binds = reserveCache'[q]
    BY <1>1, <1>3 DEF Remembered, PairInLog
  <2>2. \A v \in Writer :
              /\ PairInLog(observed'[v])
              /\ bound'[v] # 0 => \E i \in 1..Len(log) : log[i].binds = bound'[v]
    BY <1>1 DEF Remembered
  <2> QED
    BY <1>1, <1>2, <2>1, <2>2, RememberedStep
<1>5. ASSUME NEW w \in Writer PROVE PerRequest(w)'
  <2>1. pc'[w] = pc[w] \/ (pc'[w] = "dead" /\ pc[w] # "done")
    BY DEF Restart
  <2> QED
    BY <1>1, <2>1
    DEF PerRequest, OutcomeOf, SettledOf, TruthOf, Ordered, BytesAt, HoldsKey, KeyPresentAt, Reserve
<1>6. Attributed'
  BY <1>1 DEF Attributed, Ordered, IInv, RequestInv
<1> QED
  BY <1>1, <1>4, <1>5, <1>6, SameLog DEF IInv, RequestInv

-----------------------------------------------------------------------------
(* The theorems.                                                           *)

\* The initial state satisfies the inductive invariant.
LEMMA InitIInv == Init => IInv
<1> SUFFICES ASSUME Init PROVE IInv
  OBVIOUS
<1>1. TypeOK
  BY InitTypeOK
<1>2. log = << >> /\ Len(log) = 0
  BY DEF Init
<1>3. LogInv
  BY <1>2 DEF LogInv, LogShape, PositionsFollowCommits, PositionsGapless, OneReserve,
              OneRecordPerKey, FaultsQualifyTheirRecord
<1>4. RequestInv
  BY <1>2 DEF Init, RequestInv, Remembered, Attributed, PerRequest, OutcomeOf, SettledOf,
              TruthOf, PairInLog, NoReply
<1> QED
  BY <1>1, <1>3, <1>4 DEF IInv

\* Every step, of a request, of the server or of the environment, keeps the
\* inductive invariant.
LEMMA IInvStep == IInv /\ [Next]_vars => IInv'
<1> SUFFICES ASSUME IInv, [Next]_vars PROVE LogInv' /\ RequestInv'
  BY TypeStep DEF IInv
<1>1. CASE UNCHANGED vars
  BY <1>1, SameLog, SameLogGrows, EnvironmentStep DEF vars, ledger, IInv
<1>2. CASE IndexAdvances
  BY <1>2, SameLog, SameLogGrows, EnvironmentStep DEF IndexAdvances, IInv
<1>3. CASE OtherCommits
  BY <1>3, OtherCommitsStep
<1>4. ASSUME NEW p \in Process, Restart(p) PROVE LogInv' /\ RequestInv'
  BY <1>4, RestartStep
<1>5. ASSUME NEW w \in Writer, Server(w) PROVE LogInv' /\ RequestInv'
  BY <1>5, ServerCommitsStep, ServerRejectsStep DEF Server
<1>6. ASSUME NEW w \in Writer, Step(w) PROVE LogInv' /\ RequestInv'
  BY <1>6, AnswerStep, ReadReserveStep, ReadCounterStep, AcceptStep, RejectedStep,
     VerifyProofFailsStep DEF Step
<1> QED
  BY <1>1, <1>2, <1>3, <1>4, <1>5, <1>6 DEF Next

\* Every reachable state has the type TypeOK gives the variables.
THEOREM TypeCorrect == Spec => []TypeOK
<1>1. Init => TypeOK
  BY InitTypeOK
<1>2. TypeOK /\ [Next]_vars => TypeOK'
  BY TypeStep
<1> QED
  BY <1>1, <1>2, PTL DEF Spec

\* The inductive invariant holds in every reachable state.
THEOREM Invariance == Spec => []IInv
<1> QED
  BY InitIInv, IInvStep, PTL DEF Spec

\* Positions follow the commit order, and none is skipped.
THEOREM PositionsCorrect == Spec => []PositionsAreCommitOrder
<1>1. IInv => PositionsAreCommitOrder
  BY DEF IInv, LogInv, PositionsAreCommitOrder
<1> QED
  BY <1>1, Invariance, PTL

\* One reserve binds a ledger, and a record key is written once.
THEOREM BoundOnce == Spec => []TakenOnce
<1>1. IInv => TakenOnce
  BY DEF IInv, LogInv, TakenOnce
<1> QED
  BY <1>1, Invariance, PTL

\* What a request is told is a fact about the ledger, then and later.
THEOREM AnswersCorrect == Spec => []AnswersAreFacts
<1>1. IInv => AnswersAreFacts
  BY DEF IInv, RequestInv, LogInv, LogShape, Attributed, PerRequest, SettledOf, TruthOf,
         AnswersAreFacts
<1> QED
  BY <1>1, Invariance, PTL

\* A fault record names the transaction of the record it qualifies.
THEOREM FaultsCorrect == Spec => []FaultsQualifyTheirRecord
<1>1. IInv => FaultsQualifyTheirRecord
  BY DEF IInv, LogInv
<1> QED
  BY <1>1, Invariance, PTL


-----------------------------------------------------------------------------
(* The route implements the positioned log.                                *)

\* The bound reserve is what the one binding transaction bound.
LEMMA BoundReserveIs ==
    /\ OneReserve =>
          /\ \A i \in 1..Len(log) : log[i].binds # 0 => boundReserve = log[i].binds
          /\ (\A i \in 1..Len(log) : log[i].binds = 0) => boundReserve = 0
    /\ OneReserve' =>
          /\ \A i \in 1..Len(log') : log'[i].binds # 0 => boundReserve' = log'[i].binds
          /\ (\A i \in 1..Len(log') : log'[i].binds = 0) => boundReserve' = 0
BY DEF OneReserve, boundReserve

\* Any step but a commit leaves the positions and the reserve alone.
Plain ==
    \/ UNCHANGED log
    \/ \E e \in Transaction : log' = Append(log, e) /\ e.kind # "ordered" /\ e.binds = 0

\* A plain step is invisible to the positioned log, but for its answer.
LEMMA PlainMapsToSame ==
    ASSUME IInv, IInv', Plain
    PROVE  held' = held /\ boundReserve' = boundReserve
<1>1. CASE UNCHANGED log
  BY <1>1 DEF held, boundReserve, Ordered
<1>2. CASE \E e \in Transaction : log' = Append(log, e) /\ e.kind # "ordered" /\ e.binds = 0
  <2>1. PICK e \in Transaction : log' = Append(log, e) /\ e.kind # "ordered" /\ e.binds = 0
    BY <1>2
  <2>2. PICK n \in Nat : n = Len(log) + 1
    BY DEF IInv, TypeOK
  <2>3. /\ Len(log) \in Nat /\ Len(log') = n /\ log'[n] = e
        /\ \A j \in 1..Len(log) : j \in 1..n /\ log'[j] = log[j]
        /\ \A j \in 1..n : j # n => j \in 1..Len(log)
    BY <2>1, <2>2, AppendOne DEF Grows, IInv
  <2>4. {j \in 1..Len(log') : Ordered(j)'} = {j \in 1..Len(log) : Ordered(j)}
    BY <2>1, <2>3 DEF Ordered
  <2>5. held' = held
    <3> DEFINE S == {j \in 1..Len(log) : Ordered(j)}
    <3>1. held' = {<<log'[k].seq, log'[k].by>> : k \in S}
      BY <2>4 DEF held
    <3>2. held = {<<log[k].seq, log[k].by>> : k \in S}
      BY DEF held
    <3>3. \A k \in S : log'[k] = log[k]
      BY <2>3
    <3> QED
      BY <3>1, <3>2, <3>3
  <2>6. boundReserve' = boundReserve
    <3>1. OneReserve /\ OneReserve'
      BY DEF IInv, LogInv
    <3>2. CASE \A k \in 1..Len(log) : log[k].binds = 0
      <4>1. \A k \in 1..Len(log') : log'[k].binds = 0
        BY <2>1, <2>3, <3>2
      <4> QED
        BY <3>1, <3>2, <4>1, BoundReserveIs
    <3>3. CASE \E k \in 1..Len(log) : log[k].binds # 0
      <4>1. PICK k \in 1..Len(log) : log[k].binds # 0
        BY <3>3
      <4>2. k \in 1..Len(log') /\ log'[k] = log[k]
        BY <2>3
      <4> QED
        BY <3>1, <4>1, <4>2, BoundReserveIs
    <3> QED
      BY <3>2, <3>3
  <2> QED
    BY <2>5, <2>6
<1> QED
  BY <1>1, <1>2 DEF Plain

\* A step answers one request at most, and none twice.
Answers1 ==
    \/ UNCHANGED reply
    \/ \E w \in Writer, r \in [committed : {"true", "false", "null", "exists"},
                               tx : Nat, seq : Nat] :
          reply[w].committed = "none" /\ reply' = [reply EXCEPT ![w] = r]

\* An answer of the route is a truthful answer of the positioned log.
LEMMA AnswerMapsToTell ==
    ASSUME IInv, IInv', Plain, Answers1
    PROVE  [Abstract!Next]_(Abstract!vars)
<1>1. held' = held /\ boundReserve' = boundReserve
  BY PlainMapsToSame
<1>2. CASE UNCHANGED reply
  <2>1. told' = told
    BY <1>2 DEF told
  <2> QED
    BY <1>1, <2>1 DEF Abstract!vars
<1>3. CASE \E w \in Writer, r \in [committed : {"true", "false", "null", "exists"},
                                   tx : Nat, seq : Nat] :
              reply[w].committed = "none" /\ reply' = [reply EXCEPT ![w] = r]
  <2>1. PICK w \in Writer, r \in [committed : {"true", "false", "null", "exists"},
                                  tx : Nat, seq : Nat] :
              reply[w].committed = "none" /\ reply' = [reply EXCEPT ![w] = r]
    BY <1>3
  <2>2. PICK a \in {"true", "false", "null"} :
           a = IF r.committed = "exists" THEN "false" ELSE r.committed
    OBVIOUS
  <2>3. reply'[w] = r /\ \A v \in Writer \ {w} : reply'[v] = reply[v]
    BY <2>1 DEF IInv, TypeOK
  <2>4. told[w] = "none" /\ told' = [told EXCEPT ![w] = a]
    <3>1. told[w] = "none"
      BY <2>1 DEF told
    <3>2. told' = [v \in Writer |-> IF reply'[v].committed = "exists" THEN "false"
                                                                     ELSE reply'[v].committed]
      BY DEF told
    <3>3. [told EXCEPT ![w] = a] = [v \in Writer |-> IF v = w THEN a ELSE told[v]]
      BY DEF told
    <3>4. \A v \in Writer : v # w => told[v] = IF reply'[v].committed = "exists"
                                                 THEN "false" ELSE reply'[v].committed
      BY <2>3 DEF told
    <3>5. a = IF reply'[w].committed = "exists" THEN "false" ELSE reply'[w].committed
      BY <2>2, <2>3
    <3> QED
      BY <3>1, <3>2, <3>3, <3>4, <3>5
  <2>5. a = "true" => Abstract!Stored(w)
    <3>1. SUFFICES ASSUME a = "true" PROVE Abstract!Stored(w)
      OBVIOUS
    <3>2. PICK t \in 1..Len(log') : BytesAt(w, t)'
      <4>1. TruthOf(w)' /\ reply'[w].committed = "true"
        BY <2>2, <2>3, <3>1 DEF IInv, RequestInv, PerRequest
      <4> QED
        BY <4>1 DEF TruthOf, BytesAt, HoldsKey, Ordered
    <3>3. <<log'[t].seq, log'[t].by>> \in held'
      BY <3>2 DEF held, BytesAt, HoldsKey
    <3>4. KeyOf[log'[t].by] = KeyOf[w] /\ ValueOf[log'[t].by] = ValueOf[w]
      BY <3>2 DEF BytesAt, HoldsKey
    <3> QED
      BY <1>1, <3>3, <3>4 DEF Abstract!Stored
  <2>6. a = "false" => \A h \in held : h[2] # w
    <3>1. SUFFICES ASSUME a = "false", NEW h \in held' PROVE h[2] # w
      BY <1>1
    <3>2. PICK j \in 1..Len(log') : Ordered(j)' /\ h = <<log'[j].seq, log'[j].by>>
      BY DEF held
    <3>3. inflight'[w] # "committed"
      BY <2>2, <2>3, <3>1 DEF IInv, RequestInv, PerRequest, SettledOf
    <3>4. inflight'[log'[j].by] = "committed"
      BY <3>2 DEF IInv, RequestInv, Attributed
    <3> QED
      BY <3>2, <3>3, <3>4
  <2>7. Abstract!Tell(w, a)
    BY <1>1, <2>4, <2>5, <2>6 DEF Abstract!Tell
  <2> QED
    BY <2>7 DEF Abstract!Next, Abstract!Answers
<1> QED
  BY <1>2, <1>3 DEF Answers1

\* A commit takes the next position.
LEMMA CommitMapsToLand ==
    ASSUME IInv, IInv', NEW w \in Writer, ServerCommits(w)
    PROVE  Abstract!Land(w)
<1>0. PICK n \in Nat, e \in Transaction : n = Len(log) + 1 /\ e = OrderedTx(w)
  BY OrderedTxIsTransaction DEF IInv, TypeOK
<1>1. /\ Len(log) \in Nat /\ Len(log') = n /\ log'[n] = e
      /\ \A j \in 1..Len(log) : j \in 1..n /\ log'[j] = log[j]
      /\ \A j \in 1..n : j # n => j \in 1..Len(log)
      /\ n \in 1..n
  BY <1>0, AppendOne DEF Grows, ServerCommits, IInv
<1>2. /\ e.kind = "ordered" /\ e.by = w
      /\ \/ /\ \A j \in 1..Len(log) : ~Ordered(j) /\ log[j].binds = 0
            /\ e.binds = Reserve(w)
            /\ e.seq = e.binds + 1
         \/ \E t, i \in 1..Len(log) :
               /\ Ordered(t)
               /\ \A j \in 1..Len(log) : Ordered(j) => j <= t
               /\ e.seq = log[t].seq + 1
               /\ e.binds = 0
               /\ i <= t
               /\ log[i].binds = Reserve(w)
  BY <1>0, CommitsAtTop DEF ServerCommits
<1>3. Reserve(w) \in Nat \ {0} /\ Reserve(w) \in {ReservedPositions[p] : p \in Process}
  BY ParameterAssumption, ReserveAssumption DEF Reserve
<1>4. OneReserve /\ OneReserve'
  BY DEF IInv, LogInv
<1>5. told' = told /\ told[w] # "false"
  <2>1. reply' = reply
    BY DEF ServerCommits
  <2>2. reply[w].committed \notin {"false", "exists"}
    BY DEF ServerCommits, Preconditions, RecordKeyFree, IInv, RequestInv, PerRequest, SettledOf
  <2> QED
    BY <2>1, <2>2 DEF told
<1>6. Abstract!KeyFree(KeyOf[w])
  BY DEF Abstract!KeyFree, held, ServerCommits, Preconditions, RecordKeyFree, KeyPresentAt, HoldsKey
<1>7. held' = held \cup {<<e.seq, w>>}
  <2> DEFINE S == {j \in 1..Len(log) : Ordered(j)}
             T == {j \in 1..Len(log') : Ordered(j)'}
  <2>1. T = S \cup {n}
    BY <1>1, <1>2 DEF Ordered
  <2>2. held' = {<<log'[k].seq, log'[k].by>> : k \in T}
    BY DEF held
  <2>3. held = {<<log[k].seq, log[k].by>> : k \in S}
    BY DEF held
  <2>4. \A k \in S : log'[k] = log[k]
    BY <1>1
  <2> HIDE DEF S, T
  <2> QED
    BY <1>1, <1>2, <2>1, <2>2, <2>3, <2>4
<1>8. CASE /\ \A j \in 1..Len(log) : ~Ordered(j) /\ log[j].binds = 0
           /\ e.binds = Reserve(w)
           /\ e.seq = e.binds + 1
  <2>1. boundReserve = 0
    BY <1>4, <1>8, BoundReserveIs
  <2>2. boundReserve' = Reserve(w)
    <3>1. n \in 1..Len(log') /\ log'[n].binds = Reserve(w) /\ log'[n].binds # 0
      BY <1>1, <1>3, <1>8
    <3> QED
      BY <1>4, <3>1, BoundReserveIs
  <2>3. held = {}
    BY <1>8 DEF held
  <2> QED
    BY <1>3, <1>5, <1>6, <1>7, <1>8, <2>1, <2>2, <2>3 DEF Abstract!Land
<1>9. CASE \E t, i \in 1..Len(log) :
               /\ Ordered(t)
               /\ \A j \in 1..Len(log) : Ordered(j) => j <= t
               /\ e.seq = log[t].seq + 1
               /\ e.binds = 0
               /\ i <= t
               /\ log[i].binds = Reserve(w)
  <2>1. PICK t, i \in 1..Len(log) :
               /\ Ordered(t)
               /\ \A j \in 1..Len(log) : Ordered(j) => j <= t
               /\ e.seq = log[t].seq + 1
               /\ log[i].binds = Reserve(w)
    BY <1>9
  <2>2. boundReserve # 0 /\ boundReserve' = boundReserve
    <3>1. i \in 1..Len(log') /\ log'[i] = log[i]
      BY <1>1
    <3> QED
      BY <1>3, <1>4, <2>1, <3>1, BoundReserveIs
  <2>3. <<log[t].seq, log[t].by>> \in held
    BY <2>1 DEF held
  <2>4. \A h \in held : h[1] <= log[t].seq
    <3>1. SUFFICES ASSUME NEW h \in held PROVE h[1] <= log[t].seq
      OBVIOUS
    <3>2. PICK j \in 1..Len(log) : Ordered(j) /\ h = <<log[j].seq, log[j].by>>
      BY DEF held
    <3>3. j <= t /\ log[j].seq \in Nat /\ log[t].seq \in Nat
      BY <2>1, <3>2, LogEntry DEF IInv
    <3>4. log[j].seq <= log[t].seq
      BY <1>1, <2>1, <3>2, <3>3 DEF IInv, LogInv, PositionsFollowCommits
    <3> QED
      BY <3>2, <3>4
  <2>5. PICK top \in held : top = <<log[t].seq, log[t].by>>
    BY <2>3
  <2>6. top[1] = log[t].seq
    BY <2>5
  <2> QED
    BY <1>5, <1>6, <1>7, <2>1, <2>2, <2>4, <2>6 DEF Abstract!Land
<1> QED
  BY <1>2, <1>8, <1>9


\* Every step but a commit is plain and answers one request at most.
LEMMA OtherStepsArePlain ==
    ASSUME IInv, [Next]_vars, \A w \in Writer : ~ServerCommits(w)
    PROVE  Plain /\ Answers1
<1> DEFINE R == [committed : {"true", "false", "null", "exists"}, tx : Nat, seq : Nat]
<1>1. ASSUME NEW w \in Writer, NEW r \in R, pc[w] # "done", Respond(w, r)
      PROVE  Answers1
  <2>1. reply[w].committed = "none"
    BY <1>1 DEF IInv, RequestInv, PerRequest, OutcomeOf
  <2> QED
    BY <1>1, <2>1 DEF Respond, Answers1
<1>2. ASSUME NEW w \in Writer, pc[w] # "done", Raise(w)
      PROVE  Answers1
  BY <1>1, <1>2 DEF Raise, Reply, Answers1
<1>3. Len(log) \in Nat /\ indexed \in 0..Len(log) /\ \A j \in 1..Len(log) : log[j].seq \in Nat
  BY LogEntry DEF IInv, TypeOK
<1>4. ASSUME NEW w \in Writer, Step(w), ~VerifyProofFails(w) PROVE Plain /\ Answers1
  <2>1. UNCHANGED log
    BY <1>4 DEF Step, Refuse, Begin, ReadReserve, ReadReserveFails, ReadCounter,
                ReadCounterFails, Accept, Rejected, BudgetExhausted, TransportFails,
                ReadBackFails, ReadBackNotFound, ReadBackAbsent, ReadBackPresent, VerifyDone,
                ledger
  <2> SUFFICES Answers1
    BY <2>1 DEF Plain
  <2>2. CASE Refuse(w) \/ ReadBackFails(w) \/ ReadBackNotFound(w) \/ ReadBackAbsent(w)
    BY <1>1, <2>2 DEF Refuse, ReadBackFails, ReadBackNotFound, ReadBackAbsent, NotFoundMeans, Reply
  <2>3. CASE Begin(w) \/ Accept(w) \/ BudgetExhausted(w) \/ TransportFails(w)
    BY <2>3 DEF Begin, Accept, BudgetExhausted, TransportFails, Answers1
  <2>4. CASE ReadReserve(w) \/ ReadReserveFails(w) \/ ReadCounter(w) \/ ReadCounterFails(w)
    <3>1. Raise(w) \/ UNCHANGED reply
      BY <2>4 DEF ReadReserve, ReadReserveFails, ReadCounter, ReadCounterFails
    <3>2. pc[w] # "done"
      BY <2>4 DEF ReadReserve, ReadReserveFails, ReadCounter, ReadCounterFails
    <3> QED
      BY <1>2, <3>1, <3>2 DEF Answers1
  <2>5. CASE Rejected(w)
    BY <1>1, <2>5 DEF Rejected, Reply, Answers1
  <2>6. CASE ReadBackPresent(w)
    <3>1. PICK j \in 1..indexed, q \in {0, NextSeq(observed[w], w)} :
             Respond(w, [committed |-> "true", tx |-> j, seq |-> q])
      BY <2>6 DEF ReadBackPresent, PositionsConfirmed
    <3>2. q \in Nat /\ j \in Nat
      BY <1>3, NextSeqIsNat DEF IInv, TypeOK
    <3> QED
      BY <1>1, <2>6, <3>1, <3>2 DEF ReadBackPresent
  <2>7. CASE VerifyDone(w)
    <3>1. PICK t \in 1..Len(log) : Committed(w, t)
      BY <2>7 DEF VerifyDone
    <3>2. t \in Nat /\ log[t].seq \in Nat
      BY <1>3
    <3> QED
      BY <1>1, <2>7, <3>1, <3>2 DEF VerifyDone, Committed
  <2> QED
    BY <1>4, <2>2, <2>3, <2>4, <2>5, <2>6, <2>7 DEF Step
<1>5. ASSUME NEW w \in Writer, VerifyProofFails(w) PROVE Plain /\ Answers1
  <2>1. PICK t \in 1..Len(log) :
          /\ Committed(w, t)
          /\ \/ log' = Append(log, FaultTx(w, t))
             \/ UNCHANGED log
    BY <1>5 DEF VerifyProofFails
  <2>2. t \in Nat /\ log[t].seq \in Nat
    BY <1>3
  <2>3. FaultTx(w, t) \in Transaction
    BY <2>2 DEF Transaction, FaultTx
  <2>4. Plain
    BY <2>1, <2>3 DEF Plain, FaultTx
  <2> QED
    BY <1>1, <1>5, <2>1, <2>2, <2>4 DEF VerifyProofFails, Committed
<1>6. CASE OtherCommits
  BY <1>6, OtherIsTransaction DEF OtherCommits, Other, Plain, Answers1
<1>7. CASE IndexAdvances
  BY <1>7 DEF IndexAdvances, Plain, Answers1
<1>8. ASSUME NEW p \in Process, Restart(p) PROVE Plain /\ Answers1
  BY <1>8 DEF Restart, ledger, Plain, Answers1
<1>9. ASSUME NEW w \in Writer, ServerRejects(w) PROVE Plain /\ Answers1
  BY <1>9 DEF ServerRejects, ledger, Plain, Answers1
<1>10. CASE UNCHANGED vars
  BY <1>10 DEF vars, ledger, Plain, Answers1
<1> QED
  BY <1>4, <1>5, <1>6, <1>7, <1>8, <1>9, <1>10 DEF Next, Server

\* The ordered route implements the positioned log, for every set of requests
\* and processes: each commit is a Land, each answer a Tell, and all else is
\* invisible at that level.
THEOREM Refinement == Spec => ImplementsOrderedLog
<1>1. Init => Abstract!Init
  <2>1. ASSUME Init PROVE held = {} /\ boundReserve = 0 /\ told = [w \in Writer |-> "none"]
    <3>1. Len(log) = 0
      BY <2>1 DEF Init
    <3> QED
      BY <2>1, <3>1 DEF Init, held, boundReserve, told, NoReply
  <2> QED
    BY <2>1 DEF Abstract!Init
<1>2. IInv /\ IInv' /\ [Next]_vars => [Abstract!Next]_(Abstract!vars)
  <2> SUFFICES ASSUME IInv, IInv', [Next]_vars PROVE [Abstract!Next]_(Abstract!vars)
    OBVIOUS
  <2>1. CASE \E w \in Writer : ServerCommits(w)
    BY <2>1, CommitMapsToLand DEF Abstract!Next
  <2>2. CASE \A w \in Writer : ~ServerCommits(w)
    BY <2>2, OtherStepsArePlain, AnswerMapsToTell
  <2> QED
    BY <2>1, <2>2
<1> QED
  BY <1>1, <1>2, Invariance, PTL DEF Spec, ImplementsOrderedLog, Abstract!Spec

=============================================================================
