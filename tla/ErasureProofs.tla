--------------------------- MODULE ErasureProofs ---------------------------
(***************************************************************************)
(* Proofs about Erasure, for any erasures and content writes of a call.    *)
(*                                                                         *)
(* What an erasure answers rests on where it is: it is past a failed proof *)
(* only with its own tombstone committed, and about to delete only with    *)
(* some tombstone committed.  Tombstones are only ever appended, so every  *)
(* such fact stays true once it is established (lemma Grows).              *)
(***************************************************************************)
EXTENDS Erasure, TLAPS

\* The label of a request, from which it has its own tombstone committed.
ProofIsPastCommit ==
    \A e \in Eraser : pc[e] \in {"proof failed", "fault"} => Committed(e)

\* A row is about to go only when a tombstone is there.
DeleteIsPastCommit ==
    \A e \in Eraser : pc[e] = "delete" => tombs # <<>>

IInv ==
    /\ TypeOK
    /\ ProofIsPastCommit
    /\ DeleteIsPastCommit
    /\ CommittedIsOwn
    /\ FaultNamesOwnTombstone

\* A step after which every tombstone is where it was.
Keeps ==
    /\ Len(tombs) <= Len(tombs')
    /\ \A n \in 1 .. Len(tombs) : tombs'[n] = tombs[n]
    /\ \A e \in Eraser : Committed(e) => Committed(e)'
    /\ tombs # <<>> => tombs' # <<>>

-----------------------------------------------------------------------------

\* A commit appends one tombstone and disturbs none.
LEMMA Grows ==
    ASSUME tombs \in Seq(Eraser), NEW e \in Eraser, tombs' = Append(tombs, e)
    PROVE  /\ tombs' \in Seq(Eraser)
           /\ Len(tombs') = Len(tombs) + 1
           /\ Keeps
<1>1. /\ tombs' \in Seq(Eraser)
      /\ Len(tombs') = Len(tombs) + 1
      /\ \A n \in 1 .. Len(tombs) : tombs'[n] = tombs[n]
  OBVIOUS
<1>2. \A d \in Eraser : Committed(d) => Committed(d)'
  BY <1>1 DEF Committed, ToSet
<1>3. tombs' # <<>>
  BY <1>1
<1> QED BY <1>1, <1>2, <1>3 DEF Keeps

\* A step that commits nothing.
LEMMA Still == ASSUME tombs \in Seq(Eraser), UNCHANGED tombs PROVE Keeps
BY DEF Keeps, Committed, ToSet

\* A transaction that a read returns is one the index can see, and one that
\* OwnUnderKey returns holds the request's own tombstone.
LEMMA ReadFacts ==
    ASSUME TypeOK, NEW e \in Eraser
    PROVE  /\ {AnyUnderKey, OwnUnderKey(e), Unknown} \subseteq [state : Reads, tx : 0 .. Len(tombs)]
           /\ OwnUnderKey(e).state = "present" =>
                 /\ OwnUnderKey(e).tx \in 1 .. Len(tombs)
                 /\ tombs[OwnUnderKey(e).tx] = e
                 /\ Committed(e)
<1>1. indexed \in 0 .. Len(tombs) /\ tombs \in Seq(Eraser)
  BY DEF TypeOK
<1>2. CASE indexed = 0
  BY <1>1, <1>2 DEF Unknown, Reads, AnyUnderKey, OwnUnderKey, NotFound
<1>3. CASE indexed # 0
  <2>1. indexed \in 1 .. Len(tombs)
    BY <1>1, <1>3
  <2>2. CASE tombs[indexed] = e
    BY <1>1, <1>3, <2>1, <2>2 DEF Unknown, Reads, AnyUnderKey, OwnUnderKey, Committed, ToSet
  <2>3. CASE tombs[indexed] # e
    BY <1>1, <1>3, <2>1, <2>3 DEF Unknown, Reads, AnyUnderKey, OwnUnderKey
  <2> QED BY <2>2, <2>3
<1> QED BY <1>2, <1>3

\* The ledger's own steps: a tombstone commits, the write is dropped, or the
\* index catches up.
LEMMA ServerSteps ==
    ASSUME IInv,
           \/ \E e \in Eraser : ServerCommits(e) \/ ServerDrops(e)
           \/ IndexAdvances
    PROVE  IInv'
<1> USE DEF IInv
<1>0. tombs \in Seq(Eraser) /\ indexed \in 0 .. Len(tombs) /\ request \in [Eraser -> {"none", "sent", "over"}]
  BY DEF TypeOK
<1>1. UNCHANGED <<row, pc, found, answer, reply, saw, faults>>
  BY DEF ServerCommits, ServerDrops, IndexAdvances
<1>2. Keeps /\ tombs' \in Seq(Eraser)
  BY <1>0, Grows, Still DEF ServerCommits, ServerDrops, IndexAdvances
<1>3. indexed' \in 0 .. Len(tombs') /\ request' \in [Eraser -> {"none", "sent", "over"}]
  <2>1. CASE \E e \in Eraser : ServerCommits(e)
    BY <1>0, <2>1, Grows DEF ServerCommits
  <2>2. CASE (\E e \in Eraser : ServerDrops(e)) \/ IndexAdvances
    BY <1>0, <2>2 DEF ServerDrops, IndexAdvances
  <2> QED BY <2>1, <2>2
<1>4. 0 .. Len(tombs) \subseteq 0 .. Len(tombs') /\ 1 .. Len(tombs) \subseteq 1 .. Len(tombs')
  BY <1>0, <1>2 DEF Keeps
<1>5. TypeOK'
  BY <1>1, <1>2, <1>3, <1>4 DEF TypeOK
<1>6. ProofIsPastCommit' /\ DeleteIsPastCommit' /\ CommittedIsOwn'
  BY <1>1, <1>2 DEF ProofIsPastCommit, DeleteIsPastCommit, CommittedIsOwn, Keeps
<1>7. FaultNamesOwnTombstone'
  BY <1>1, <1>2 DEF FaultNamesOwnTombstone, Keeps, TypeOK
<1> QED BY <1>5, <1>6, <1>7

\* What Goto and Answer change, at the request and elsewhere.
LEMMA GotoFacts ==
    ASSUME TypeOK, NEW q \in Eraser \cup Author, NEW l \in Labels, Goto(q, l)
    PROVE  /\ pc' \in [Eraser \cup Author -> Labels]
           /\ pc'[q] = l
           /\ \A p \in (Eraser \cup Author) \ {q} : pc'[p] = pc[p]
<1>1. pc \in [Eraser \cup Author -> Labels]
  BY DEF TypeOK
<1> QED BY <1>1 DEF Goto

\* A request that ends with an answer.
LEMMA AnswerFacts ==
    ASSUME TypeOK, NEW e \in Eraser, NEW c \in Outcomes, NEW t \in 0 .. Len(tombs),
           Answer(e, c, t)
    PROVE  /\ pc' \in [Eraser \cup Author -> Labels]
           /\ pc'[e] \in {"answered", "done"}
           /\ \A d \in Eraser \ {e} : pc'[d] = pc[d] /\ answer'[d] = answer[d]
           /\ answer' \in [Eraser -> [committed : Outcomes, tx : 0 .. Len(tombs)]]
           /\ answer'[e].committed = c
<1>1. PICK l \in {"answered", "done"} : Goto(e, l)
  BY DEF Answer
<1>2. answer \in [Eraser -> [committed : Outcomes, tx : 0 .. Len(tombs)]]
  BY DEF TypeOK
<1>3. answer' = [answer EXCEPT ![e] = [committed |-> c, tx |-> t]]
  BY DEF Answer
<1>4. l \in Labels
  BY DEF Labels
<1> QED BY <1>1, <1>2, <1>3, <1>4, GotoFacts

\* What a step must show that leaves the ledger and the other erasers alone.
LEMMA OneEraser ==
    ASSUME IInv, NEW e \in Eraser, UNCHANGED <<tombs, indexed, faults>>, TypeOK',
           \A d \in Eraser \ {e} : pc'[d] = pc[d] /\ answer'[d] = answer[d],
           pc'[e] \in {"proof failed", "fault"} => Committed(e),
           pc'[e] = "delete" => tombs # <<>>,
           answer'[e].committed \in {"verified", "true"} => Committed(e)
    PROVE  IInv'
<1>1. \A d \in Eraser : Committed(d)' <=> Committed(d)
  BY DEF Committed
<1> QED BY <1>1 DEF IInv, ProofIsPastCommit, DeleteIsPastCommit, CommittedIsOwn,
                    FaultNamesOwnTombstone

\* POST /write from the call to verifiedSet to its answer, and the client
\* that may stop waiting for it.
LEMMA WriteSteps ==
    ASSUME IInv, NEW e \in Eraser,
           \/ Erase(e)
           \/ SetVerified(e)
           \/ ProofFails(e)
           \/ SetFails(e)
           \/ ReadAfterProof(e)
           \/ WriteFault(e)
           \/ ReadAfterFailure(e)
           \/ ClientGivesUp(e)
    PROVE  IInv'
<1>0. TypeOK /\ e \in Eraser \cup Author
  BY DEF IInv
<1>z. 0 \in 0 .. Len(tombs)
  BY <1>0 DEF TypeOK
<1>1. UNCHANGED <<tombs, indexed, row, saw>>
  BY DEF Erase, SetVerified, ProofFails, SetFails, ReadAfterProof, WriteFault, ReadAfterFailure,
         ClientGivesUp, ledger
<1>a. answer[e].committed \in {"verified", "true"} => Committed(e)
  BY DEF IInv, CommittedIsOwn
<1>3. CASE Erase(e)
  <2>1. PICK l \in {"set", "done"} : Goto(e, l)
    BY <1>3 DEF Erase, Finish
  <2>2. l \in Labels
    BY DEF Labels
  <2>3. UNCHANGED <<found, answer, faults>> /\ request' \in [Eraser -> {"none", "sent", "over"}]
    BY <1>0, <1>3 DEF Erase, TypeOK
  <2>4. TypeOK'
    BY <1>0, <1>1, <2>1, <2>2, <2>3, GotoFacts DEF TypeOK
  <2> QED BY <1>0, <1>1, <1>a, <2>1, <2>2, <2>3, <2>4, GotoFacts, OneEraser
<1>4. CASE SetVerified(e)
  <2>1. Committed(e) /\ Answer(e, "verified", 0) /\ UNCHANGED <<ledger, found>>
    BY <1>4 DEF SetVerified
  <2>2. "verified" \in Outcomes /\ 0 \in 0 .. Len(tombs)
    BY <1>z DEF Outcomes
  <2>3. TypeOK'
    BY <1>0, <1>1, <2>1, <2>2, AnswerFacts DEF TypeOK, ledger
  <2> QED BY <1>0, <1>1, <2>1, <2>2, <2>3, AnswerFacts, OneEraser DEF ledger
<1>5. CASE ProofFails(e) \/ SetFails(e)
  <2>1. /\ UNCHANGED <<ledger, found, answer>>
        /\ \/ Committed(e) /\ Goto(e, "proof failed")
           \/ Goto(e, "set failed")
    BY <1>5 DEF ProofFails, SetFails
  <2>2. "proof failed" \in Labels /\ "set failed" \in Labels
    BY DEF Labels
  <2>3. TypeOK'
    BY <1>0, <1>1, <2>1, <2>2, GotoFacts DEF TypeOK, ledger
  <2> QED BY <1>0, <1>1, <1>a, <2>1, <2>2, <2>3, GotoFacts, OneEraser DEF ledger
<1>6. CASE ReadAfterProof(e)
  <2>1. PICK f \in {AnyUnderKey, Unknown} :
          /\ found' = [found EXCEPT ![e] = f]
          /\ IF f.state = "present"
             THEN Goto(e, "fault") /\ UNCHANGED answer
             ELSE Answer(e, "null", 0)
    BY <1>6 DEF ReadAfterProof
  <2>2. f \in [state : Reads, tx : 0 .. Len(tombs)]
    BY <1>0, ReadFacts DEF Unknown
  <2>3. Committed(e) /\ UNCHANGED ledger
    BY <1>6 DEF ReadAfterProof, IInv, ProofIsPastCommit
  <2>4. found' \in [Eraser -> [state : Reads, tx : 0 .. Len(tombs)]]
    BY <1>0, <2>1, <2>2 DEF TypeOK
  <2>5. "fault" \in Labels /\ "null" \in Outcomes /\ 0 \in 0 .. Len(tombs)
    BY <1>z DEF Labels, Outcomes
  <2>6. CASE Goto(e, "fault") /\ UNCHANGED answer
    <3>1. TypeOK'
      BY <1>0, <1>1, <2>3, <2>4, <2>5, <2>6, GotoFacts DEF TypeOK, ledger
    <3> QED BY <1>0, <1>1, <1>a, <2>3, <2>5, <2>6, <3>1, GotoFacts, OneEraser DEF ledger
  <2>7. CASE Answer(e, "null", 0)
    <3>1. TypeOK'
      BY <1>0, <1>1, <2>3, <2>4, <2>5, <2>7, AnswerFacts DEF TypeOK, ledger
    <3> QED BY <1>0, <1>1, <2>3, <2>5, <2>7, <3>1, AnswerFacts, OneEraser DEF ledger
  <2> QED BY <2>1, <2>6, <2>7
<1>7. CASE WriteFault(e)
  <2>1. /\ Committed(e)
        /\ Answer(e, "true", found[e].tx)
        /\ UNCHANGED <<request, found>>
    BY <1>7 DEF WriteFault, IInv, ProofIsPastCommit
  <2>2. "true" \in Outcomes /\ found[e].tx \in 0 .. Len(tombs)
    BY <1>0 DEF Outcomes, TypeOK
  <2>3. \A f \in faults' : f \in Eraser \X (1 .. Len(tombs)) /\ tombs[f[2]] = f[1]
    <3>1. PICK own \in {OwnUnderKey(e), Unknown} :
            faults' = IF FaultAllowed(e, own) THEN faults \cup {<<e, found[e].tx>>} ELSE faults
      BY <1>7 DEF WriteFault
    <3>2. FaultAllowed(e, own) => found[e].tx \in 1 .. Len(tombs) /\ tombs[found[e].tx] = e
      <4> HAVE FaultAllowed(e, own)
      <4>1. own = OwnUnderKey(e)
        BY <3>1 DEF FaultAllowed, Unknown
      <4> QED BY <1>0, <4>1, ReadFacts DEF FaultAllowed
    <3>3. \A f \in faults : f \in Eraser \X (1 .. Len(tombs)) /\ tombs[f[2]] = f[1]
      BY <1>0 DEF TypeOK, IInv, FaultNamesOwnTombstone
    <3> QED BY <3>1, <3>2, <3>3
  <2>4. TypeOK'
    BY <1>0, <1>1, <2>1, <2>2, <2>3, AnswerFacts DEF TypeOK
  <2>5. FaultNamesOwnTombstone'
    BY <1>1, <2>3 DEF FaultNamesOwnTombstone
  <2>6. \A d \in Eraser : Committed(d)' <=> Committed(d)
    BY <1>1 DEF Committed
  <2>7. ProofIsPastCommit' /\ DeleteIsPastCommit' /\ CommittedIsOwn'
    BY <1>0, <1>1, <2>1, <2>2, <2>6, AnswerFacts
       DEF IInv, ProofIsPastCommit, DeleteIsPastCommit, CommittedIsOwn
  <2> QED BY <2>4, <2>5, <2>7 DEF IInv
<1>8. CASE ReadAfterFailure(e)
  <2>1. PICK f \in {OwnUnderKey(e), Unknown} :
          /\ found' = [found EXCEPT ![e] = f]
          /\ CASE f.state = "present"  -> Answer(e, "true", f.tx)
               [] f.state = "absent"   -> Answer(e, "false", 0)
               [] OTHER                -> Answer(e, "null", 0)
    BY <1>8 DEF ReadAfterFailure
  <2>2. /\ f \in [state : Reads, tx : 0 .. Len(tombs)]
        /\ f.state = "present" => Committed(e)
    BY <1>0, ReadFacts DEF Unknown
  <2>3. PICK c \in {"true", "false", "null"}, t \in 0 .. Len(tombs) :
          Answer(e, c, t) /\ (c = "true" => Committed(e))
    <3>1. CASE f.state = "present"
      BY <2>1, <2>2, <3>1
    <3>2. CASE f.state = "absent"
      BY <1>z, <2>1, <3>2
    <3>3. CASE f.state \notin {"present", "absent"}
      BY <1>z, <2>1, <3>3
    <3> QED BY <3>1, <3>2, <3>3
  <2>4. c \in Outcomes /\ UNCHANGED ledger
    BY <1>8 DEF Outcomes, ReadAfterFailure
  <2>5. found' \in [Eraser -> [state : Reads, tx : 0 .. Len(tombs)]]
    BY <1>0, <2>1, <2>2 DEF TypeOK
  <2>6. TypeOK'
    BY <1>0, <1>1, <2>3, <2>4, <2>5, AnswerFacts DEF TypeOK, ledger
  <2> QED BY <1>0, <1>1, <2>3, <2>4, <2>6, AnswerFacts, OneEraser DEF ledger
<1>9. CASE ClientGivesUp(e)
  <2>1. UNCHANGED <<ledger, pc, found, answer>>
    BY <1>9 DEF ClientGivesUp
  <2>2. TypeOK'
    BY <1>0, <1>1, <2>1 DEF TypeOK, ledger
  <2>3. /\ pc[e] \in {"proof failed", "fault"} => Committed(e)
        /\ pc[e] = "delete" => tombs # <<>>
    BY DEF IInv, ProofIsPastCommit, DeleteIsPastCommit
  <2> QED BY <1>0, <1>1, <1>a, <2>1, <2>2, <2>3, OneEraser DEF ledger
<1> QED BY <1>3, <1>4, <1>5, <1>6, <1>7, <1>8, <1>9

\* The control plane's own steps, in both routes.
LEMMA ControlSteps ==
    ASSUME IInv,
           \/ \E e \in Eraser : \/ TombstoneWritten(e)
                               \/ TombstoneRefused(e)
                               \/ ConfirmFails(e)
                               \/ DeleteRow(e)
           \/ \E a \in Author : CheckTombstone(a) \/ QueryRow(a) \/ StoreRow(a)
    PROVE  IInv'
<1> USE DEF IInv
<1>1. UNCHANGED <<ledger, found, answer>>
  BY DEF TombstoneWritten, TombstoneRefused, ConfirmFails, DeleteRow, CheckTombstone, QueryRow, StoreRow
<1>2. \A d \in Eraser : Committed(d)' <=> Committed(d)
  BY <1>1 DEF Committed, ledger
<1>3. CommittedIsOwn' /\ FaultNamesOwnTombstone'
  BY <1>1, <1>2 DEF CommittedIsOwn, FaultNamesOwnTombstone, ledger
<1>0. TypeOK
  OBVIOUS
<1>4. ASSUME NEW e \in Eraser, TombstoneWritten(e)
      PROVE  IInv'
  <2>1. tombs # <<>>
    <3>1. CASE answer[e].committed = "verified"
      BY <3>1 DEF CommittedIsOwn, Committed, ToSet
    <3>2. CASE Confirms(e)
      BY <1>0, <3>2 DEF Confirms, TypeOK
    <3> QED BY <1>4, <3>1, <3>2 DEF TombstoneWritten
  <2>2. Goto(e, "delete") /\ UNCHANGED <<row, saw>> /\ "delete" \in Labels
    BY <1>4 DEF TombstoneWritten, Labels
  <2>3. TypeOK'
    BY <1>0, <1>1, <2>2, GotoFacts DEF TypeOK, ledger
  <2> QED
    BY <1>0, <1>1, <1>2, <1>3, <2>1, <2>2, <2>3, GotoFacts
       DEF ledger, ProofIsPastCommit, DeleteIsPastCommit
<1>5. ASSUME NEW e \in Eraser, TombstoneRefused(e) \/ ConfirmFails(e) \/ DeleteRow(e)
      PROVE  IInv'
  <2>1. Goto(e, "done") /\ row' \in BOOLEAN /\ UNCHANGED saw /\ "done" \in Labels
    BY <1>0, <1>5 DEF TombstoneRefused, ConfirmFails, DeleteRow, Finish, Labels, TypeOK
  <2>2. TypeOK'
    BY <1>0, <1>1, <2>1, GotoFacts DEF TypeOK, ledger
  <2> QED
    BY <1>0, <1>1, <1>2, <1>3, <2>1, <2>2, GotoFacts
       DEF ledger, ProofIsPastCommit, DeleteIsPastCommit
<1>6. ASSUME NEW a \in Author, CheckTombstone(a) \/ QueryRow(a) \/ StoreRow(a)
      PROVE  IInv'
  <2>1. PICK l \in {"query", "store", "done"} : Goto(a, l)
    BY <1>6 DEF CheckTombstone, QueryRow, StoreRow, Finish
  <2>2. l \in Labels /\ a \in Eraser \cup Author
    BY DEF Labels
  <2>3. row' \in BOOLEAN /\ saw' \in [Author -> BOOLEAN]
    BY <1>0, <1>6 DEF CheckTombstone, QueryRow, StoreRow, TypeOK
  <2>4. TypeOK'
    BY <1>0, <1>1, <2>1, <2>2, <2>3, GotoFacts DEF TypeOK, ledger
  <2> QED
    BY <1>0, <1>1, <1>2, <1>3, <2>1, <2>2, <2>4, GotoFacts
       DEF ledger, ProofIsPastCommit, DeleteIsPastCommit
<1> QED BY <1>4, <1>5, <1>6

\* Every step preserves the invariant.
LEMMA Inductive == IInv /\ [Next]_vars => IInv'
<1> SUFFICES ASSUME IInv, [Next]_vars PROVE IInv'
  OBVIOUS
<1>1. CASE Next
  BY <1>1, ServerSteps, WriteSteps, ControlSteps DEF Next
<1>2. CASE UNCHANGED vars
  BY <1>2 DEF IInv, TypeOK, ProofIsPastCommit, DeleteIsPastCommit, CommittedIsOwn,
     FaultNamesOwnTombstone, Committed, vars, ledger
<1> QED BY <1>1, <1>2

\* Nothing was asked of the ledger yet.
LEMMA Initial == Init => IInv
<1> SUFFICES ASSUME Init PROVE IInv
  OBVIOUS
<1>1. NotFound \in [state : Reads, tx : 0 .. 0] /\ NoAnswer \in [committed : Outcomes, tx : 0 .. 0]
  BY DEF NotFound, NoAnswer, Reads, Outcomes
<1>2. Len(tombs) = 0 /\ tombs \in Seq(Eraser)
  BY DEF Init
<1>3. TypeOK
  BY <1>1, <1>2 DEF Init, TypeOK, Labels
<1> QED
  BY <1>3 DEF Init, IInv, ProofIsPastCommit, DeleteIsPastCommit, CommittedIsOwn,
      FaultNamesOwnTombstone, NoAnswer

\* The facts the answers rest on hold in every reachable state.
THEOREM Invariance == Spec => []IInv
BY Initial, Inductive, PTL DEF Spec

\* The variables keep their types: every transaction id that is read,
\* answered or recorded exists in the ledger.
THEOREM TypeCorrect == Spec => []TypeOK
<1>1. IInv => TypeOK
  BY DEF IInv
<1> QED BY <1>1, Invariance, PTL

\* POST /write says committed only of the bytes it was given, and a fault
\* record names the transaction of the tombstone whose proof failed, however
\* many erasures overwrite the one key of the call.
THEOREM TombstoneIsOwn == Spec => []OwnTombstone
<1>1. IInv => OwnTombstone
  BY DEF IInv, OwnTombstone
<1> QED BY <1>1, Invariance, PTL

\* erase_content never deletes a row with no tombstone behind it, and nothing
\* else deletes it.
THEOREM NoRowWithoutTombstone == Spec => RowDeletedHasTombstone
<1>1. IInv /\ [Next]_vars => [row /\ ~row' => tombs # <<>>]_vars
  <2> SUFFICES ASSUME IInv, Next, row, ~row'
               PROVE  tombs # <<>>
    OBVIOUS
  <2>1. PICK e \in Eraser : DeleteRow(e)
    BY DEF Next, ServerCommits, ServerDrops, IndexAdvances, Erase, SetVerified, ProofFails, SetFails,
           ReadAfterProof, WriteFault, ReadAfterFailure, ClientGivesUp, TombstoneWritten,
           TombstoneRefused, ConfirmFails, CheckTombstone, QueryRow, StoreRow
  <2> QED BY <2>1 DEF DeleteRow, IInv, DeleteIsPastCommit
<1> QED BY <1>1, Invariance, PTL DEF Spec, RowDeletedHasTombstone
=============================================================================
