------------------------------ MODULE Erasure ------------------------------
(***************************************************************************)
(* Erasing the stored arguments of one call: DELETE and POST /content of   *)
(* the control plane (src/control_plane/main.py) over POST /write of the   *)
(* verifier (src/verifier/main.py).  An erasure first writes a tombstone   *)
(* to the ledger and only then deletes the row; a content write first asks *)
(* whether a tombstone exists.                                             *)
(*                                                                         *)
(* All of it is about one call_id, hence one ledger key and one row.  A    *)
(* tombstone's bytes hold its timestamp and signature, so the tombstones   *)
(* of two requests differ: each is named by its request.  ImmuDB answers   *)
(* reads from an index that may lag behind its commits.                    *)
(***************************************************************************)
EXTENDS Integers, Sequences, SequencesExt

CONSTANTS Eraser,   \* requests DELETE /content/{call_id}
          Author,   \* requests POST /content
          Faults,   \* calls may fail, time out or lose their answer
          Lag       \* the index may lag

ASSUME ErasureAssumption == {Faults, Lag} \subseteq BOOLEAN

VARIABLES tombs,    \* ImmuDB: the tombstones committed under the key, in order
          indexed,  \* ImmuDB: how many of them reads can see
          request,  \* the VerifiableSet of each eraser: "none", "sent" or "over"
          row,      \* the call_content row exists
          pc,       \* where each request is
          found,    \* what the last ledger read of the eraser returned
          answer,   \* the response of POST /write to each eraser
          reply,    \* the HTTP answer of each request, "none" until given
          saw,      \* existing of write_content
          faults    \* ledger_fault records: <<eraser, transaction named>>

ledger == <<tombs, indexed, request, faults>>
vars == <<ledger, row, pc, found, answer, reply, saw>>

NoAnswer == [committed |-> "none", tx |-> 0]
NotFound == [state |-> "not found", tx |-> 0]
Unknown == [state |-> "unknown", tx |-> 0]

Init ==
    /\ tombs = <<>>
    /\ indexed = 0
    /\ request = [e \in Eraser |-> "none"]
    /\ row \in BOOLEAN
    /\ pc = [q \in Eraser \cup Author |-> "start"]
    /\ found = [e \in Eraser |-> NotFound]
    /\ answer = [e \in Eraser |-> NoAnswer]
    /\ reply = [q \in Eraser \cup Author |-> "none"]
    /\ saw = [a \in Author |-> FALSE]
    /\ faults = {}

Goto(q, label) == pc' = [pc EXCEPT ![q] = label]
Finish(q, status) ==
    /\ Goto(q, "done")
    /\ reply' = [reply EXCEPT ![q] = IF @ = "none" THEN status ELSE @]

-----------------------------------------------------------------------------
(* ImmuDB.                                                                 *)

\* The set is decided whenever the server gets to it, be anyone waiting or
\* not.  The key is overwritten: its transaction is the latest.
ServerCommits(e) ==
    /\ request[e] = "sent"
    /\ request' = [request EXCEPT ![e] = "over"]
    /\ tombs' = Append(tombs, e)
    /\ indexed' = IF Lag THEN indexed ELSE Len(tombs')
    /\ UNCHANGED <<row, pc, found, answer, reply, saw, faults>>

ServerDrops(e) ==
    /\ Faults
    /\ request[e] = "sent"
    /\ request' = [request EXCEPT ![e] = "over"]
    /\ UNCHANGED <<tombs, indexed, faults, row, pc, found, answer, reply, saw>>

IndexAdvances ==
    /\ indexed < Len(tombs)
    /\ indexed' = indexed + 1
    /\ UNCHANGED <<tombs, request, faults, row, pc, found, answer, reply, saw>>

Committed(e) == e \in ToSet(tombs)

\* _committed_tx_for: whatever is under the key.
AnyUnderKey_NextTx ==
    IF indexed = 0 THEN NotFound ELSE [state |-> "present", tx |-> indexed + 1]
AnyUnderKey ==
    IF indexed = 0 THEN NotFound ELSE [state |-> "present", tx |-> indexed]

\* _committed_tx_for_value: exactly these bytes.
OwnUnderKey_Any(e) == AnyUnderKey
OwnUnderKey(e) ==
    IF indexed = 0 THEN NotFound
    ELSE IF tombs[indexed] = e THEN [state |-> "present", tx |-> indexed]
    ELSE [state |-> "absent", tx |-> 0]

-----------------------------------------------------------------------------
(* POST /write, serving the tombstone of eraser e.                         *)

\* erase_content: a call_id with no row is nothing to erase.  Otherwise the
\* tombstone is signed and handed to POST /write, which calls verifiedSet.
Erase(e) ==
    /\ pc[e] = "start"
    /\ IF row
       THEN /\ request' = [request EXCEPT ![e] = "sent"]
            /\ Goto(e, "set")
            /\ UNCHANGED reply
       ELSE Finish(e, "nothing to erase") /\ UNCHANGED request
    /\ UNCHANGED <<tombs, indexed, faults, row, found, answer, saw>>

\* POST /write answers; an answer nobody waits for any more is dropped.
Answer(e, committed, tx) ==
    /\ answer' = [answer EXCEPT ![e] = [committed |-> committed, tx |-> tx]]
    /\ Goto(e, IF reply[e] = "none" THEN "answered" ELSE "done")

\* verifiedSet returns: committed and proved.
SetVerified(e) ==
    /\ pc[e] = "set"
    /\ Committed(e)
    /\ Answer(e, "verified", 0)
    /\ UNCHANGED <<ledger, row, found, reply, saw>>

\* verifiedSet raises ErrCorruptedData or BadSignatureError, after the commit.
ProofFails(e) ==
    /\ Faults
    /\ pc[e] = "set"
    /\ Committed(e)
    /\ Goto(e, "proof failed")
    /\ UNCHANGED <<ledger, row, found, answer, reply, saw>>

\* verifiedSet raises anything else: whether it committed is not known.
SetFails(e) ==
    /\ Faults
    /\ pc[e] = "set"
    /\ Goto(e, "set failed")
    /\ UNCHANGED <<ledger, row, found, answer, reply, saw>>

\* After a failed proof the commit is certain; only its transaction is asked.
ReadAfterProof(e) ==
    /\ pc[e] = "proof failed"
    /\ \E f \in {AnyUnderKey, Unknown} :
          /\ found' = [found EXCEPT ![e] = f]
          /\ IF f.state = "present"
             THEN Goto(e, "fault") /\ UNCHANGED answer
             ELSE Answer(e, "null", 0)
    /\ UNCHANGED <<ledger, row, reply, saw>>

\* _write_fault_record derives the transaction from the bytes and writes the
\* fault only if it is the one that was reported.
FaultAllowed_Reported(e, own) == TRUE
FaultAllowed(e, own) == own.state = "present" /\ own.tx = found[e].tx

WriteFault(e) ==
    /\ pc[e] = "fault"
    /\ \E own \in {OwnUnderKey(e), Unknown} :
          faults' = IF FaultAllowed(e, own)
                    THEN faults \cup {<<e, found[e].tx>>}
                    ELSE faults
    /\ Answer(e, "true", found[e].tx)
    /\ UNCHANGED <<tombs, indexed, request, row, found, reply, saw>>

\* After any other failure the ledger is asked for these bytes.
ReadAfterFailure(e) ==
    /\ pc[e] = "set failed"
    /\ \E f \in {OwnUnderKey(e), Unknown} :
          /\ found' = [found EXCEPT ![e] = f]
          /\ CASE f.state = "present"  -> Answer(e, "true", f.tx)
               [] f.state = "absent"   -> Answer(e, "false", 0)
               [] OTHER                -> Answer(e, "null", 0)
    /\ UNCHANGED <<ledger, row, reply, saw>>

\* The control plane's client gives up after 15 s, or its call fails; what
\* the verifier and the ledger have under way goes on.
ClientGivesUp(e) ==
    /\ Faults
    /\ pc[e] \in {"set", "proof failed", "set failed", "fault"}
    /\ reply[e] = "none"
    /\ reply' = [reply EXCEPT ![e] = "503 failed"]
    /\ UNCHANGED <<ledger, row, pc, found, answer, saw>>

-----------------------------------------------------------------------------
(* The control plane.                                                      *)

\* _tombstone_present_in_ledger: by transaction when the write named one,
\* any tombstone of this call_id when its outcome is not established.
Confirms_Skipped(e) == TRUE
Confirms(e) ==
    IF answer[e].committed = "null"
    THEN indexed > 0
    ELSE indexed > 0 /\ indexed = answer[e].tx

\* _write_tombstone's reading of the answer.
TombstoneWritten(e) ==
    /\ pc[e] = "answered"
    /\ \/ answer[e].committed = "verified"
       \/ answer[e].committed \in {"true", "null"} /\ Confirms(e)
    /\ Goto(e, "delete")
    /\ UNCHANGED <<ledger, row, found, answer, reply, saw>>

TombstoneRefused(e) ==
    /\ pc[e] = "answered"
    /\ \/ answer[e].committed = "false" /\ Finish(e, "503 not committed")
       \/ answer[e].committed = "true" /\ ~Confirms(e) /\ Finish(e, "503 not confirmed")
       \/ answer[e].committed = "null" /\ ~Confirms(e) /\ Finish(e, "503 no tombstone")
    /\ UNCHANGED <<ledger, row, found, answer, saw>>

\* The confirming read itself fails, which is not a confirmation.
ConfirmFails(e) ==
    /\ Faults
    /\ pc[e] = "answered"
    /\ answer[e].committed \in {"true", "null"}
    /\ Finish(e, "503 not confirmed")
    /\ UNCHANGED <<ledger, row, found, answer, saw>>

DeleteRow(e) ==
    /\ pc[e] = "delete"
    /\ row' = FALSE
    /\ Finish(e, "204 erased")
    /\ UNCHANGED <<ledger, found, answer, saw>>

\* _has_tombstone: only a clean not_found lets the write go on.
CheckTombstone(a) ==
    /\ pc[a] = "start"
    /\ \/ indexed = 0 /\ Goto(a, "query") /\ UNCHANGED reply
       \/ (indexed > 0 \/ Faults) /\ Finish(a, "409")
    /\ UNCHANGED <<ledger, row, found, answer, saw>>

\* The upsert: what the query saw, then the commit.  A row that appeared or
\* disappeared in between fails the transaction.
QueryRow(a) ==
    /\ pc[a] = "query"
    /\ saw' = [saw EXCEPT ![a] = row]
    /\ Goto(a, "store")
    /\ UNCHANGED <<ledger, row, found, answer, reply>>

StoreRow(a) ==
    /\ pc[a] = "store"
    /\ IF saw[a] = row
       THEN row' = TRUE /\ Finish(a, "204 stored")
       ELSE UNCHANGED row /\ Finish(a, "500")
    /\ UNCHANGED <<ledger, found, answer, saw>>

Next ==
    \/ \E e \in Eraser :
          \/ ServerCommits(e)
          \/ ServerDrops(e)
          \/ Erase(e)
          \/ SetVerified(e)
          \/ ProofFails(e)
          \/ SetFails(e)
          \/ ReadAfterProof(e)
          \/ WriteFault(e)
          \/ ReadAfterFailure(e)
          \/ ClientGivesUp(e)
          \/ TombstoneWritten(e)
          \/ TombstoneRefused(e)
          \/ ConfirmFails(e)
          \/ DeleteRow(e)
    \/ \E a \in Author : CheckTombstone(a) \/ QueryRow(a) \/ StoreRow(a)
    \/ IndexAdvances

Spec == Init /\ [][Next]_vars

-----------------------------------------------------------------------------
(* Properties.                                                             *)

Labels ==
    {"start", "set", "proof failed", "set failed", "fault", "answered", "delete", "query",
     "store", "done"}
Reads == {"not found", "unknown", "present", "absent"}
Outcomes == {"none", "verified", "true", "false", "null"}

\* The variables keep their types: requests are at labels of their routes,
\* and a transaction id that is read, answered or recorded exists in the
\* ledger.
TypeOK ==
    /\ tombs \in Seq(Eraser)
    /\ indexed \in 0 .. Len(tombs)
    /\ request \in [Eraser -> {"none", "sent", "over"}]
    /\ row \in BOOLEAN
    /\ pc \in [Eraser \cup Author -> Labels]
    /\ found \in [Eraser -> [state : Reads, tx : 0 .. Len(tombs)]]
    /\ answer \in [Eraser -> [committed : Outcomes, tx : 0 .. Len(tombs)]]
    /\ saw \in [Author -> BOOLEAN]
    /\ faults \subseteq Eraser \X (1 .. Len(tombs))

\* erase_content: "The one thing that must never happen here is a row
\* deleted with no tombstone behind it."  Whatever calls fail, answers are
\* lost or reads lag, no step removes the row before a tombstone of this
\* call_id has committed.
RowDeletedHasTombstone ==
    [][row /\ ~row' => tombs # <<>>]_vars

\* D40, D45: POST /write says committed only of the bytes it was given.  An
\* erasure answered verified or committed: true has its own tombstone in the
\* ledger, not an earlier erasure's under the same key.
CommittedIsOwn ==
    \A e \in Eraser : answer[e].committed \in {"verified", "true"} => Committed(e)

\* A fault record names the transaction of the tombstone whose proof failed,
\* although another erasure may have overwritten the key between the two
\* reads that establish it.
FaultNamesOwnTombstone ==
    \A f \in faults : tombs[f[2]] = f[1]

\* What a request says and records about its tombstone is about that
\* tombstone, although every erasure of the call writes under one key.
OwnTombstone == CommittedIsOwn /\ FaultNamesOwnTombstone

\* _write_tombstone, on an outcome that is not established: "If there is
\* not, nothing says erased, no write is frozen".  An erasure refused because
\* no tombstone was found has left none.
RefusalLeavesNoTombstone ==
    \A e \in Eraser : reply[e] = "503 no tombstone" => ~Committed(e)
=============================================================================
