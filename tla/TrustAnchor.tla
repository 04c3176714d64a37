---------------------------- MODULE TrustAnchor ----------------------------
(***************************************************************************)
(* The verifier's persisted trust anchor (_VerifiedRootService) and the    *)
(* requests that read and move it: the proof step of POST /write and of    *)
(* POST /write-ordered, and POST /verify with and without a supplied       *)
(* anchor.  src/verifier/main.py; the routes are synchronous, so FastAPI   *)
(* runs them in a thread pool over one unlocked root service.              *)
(*                                                                         *)
(* A record is its version, a number never used twice.  A hash chain binds *)
(* everything before it, so the ImmuDB state at transaction n is modelled  *)
(* by the first n records themselves: a dual proof between two states      *)
(* succeeds exactly when one is a prefix of the other.  ImmuDB may be      *)
(* restored from a backup, and the state file may be damaged.              *)
(***************************************************************************)
EXTENDS Integers, Sequences, SequencesExt, FiniteSets

CONSTANTS Request,     \* requests
          Scenarios,   \* the loads and environments considered
          MaxVersion   \* bound: records written, over all restored histories

\* Routes; a request that is "off" is not made.
Kinds == {"set", "get", "verify", "pinned", "off"}

ASSUME AnchorAssumption ==
    /\ Scenarios \subseteq [kind : [Request -> Kinds], pool : Nat \ {0},
                             honest : BOOLEAN, versions : 0 .. MaxVersion]
    /\ MaxVersion \in Nat
    /\ IsFiniteSet(Request)

VARIABLES scenario,   \* one of Scenarios
          chain,      \* ImmuDB: the committed records
          published,  \* ImmuDB: every state it has signed
          version,    \* ImmuDB: versions used so far
          file,       \* the state file: a state, Absent or Torn
          cache,      \* _cache, NoState while the process is down
          pc,         \* where each request is
          source,     \* source_state: what the server is asked to prove since
          entry,      \* ventry: the server's answer
          held,       \* state of verifiedGet.call: what the proof is checked from
          reply,      \* the response of each request
          attested    \* what unanchored requests have called verified since
                      \* the anchor was last seeded from the server

server == <<chain, published, version>>
anchor == <<file, cache>>
vars == <<scenario, server, anchor, pc, source, entry, held, reply, attested>>

-----------------------------------------------------------------------------
(* States, proofs and answers.                                             *)

\* A state is the history it hashes; its txId is the length.  Version 0 is
\* the flipped byte of a damaged state file: no server ever published it.
State == Seq(0 .. MaxVersion)
NoState == <<-1>>
Absent == <<-2>>
Torn == <<-3>>
Forged == <<0>>

Kind == scenario.kind          \* Kind[r]: the route that r takes
PoolSize == scenario.pool      \* requests in progress at once (the thread pool)
Honest == scenario.honest      \* no restored backup, no damaged file

Max2(a, b) == IF a < b THEN b ELSE a

\* VerifiableGet and VerifiableSet: the record at transaction tx, and a dual
\* proof between that transaction and proveSinceTx (none when it is 0).
Answer(since, tx, h) ==
    [tx |-> tx, since |-> since, content |-> h[tx],
     hist |-> SubSeq(h, 1, Max2(since, tx))]

\* verifiedGet.call: the proof's own transaction ids must be the ones the
\* held state asks for, and the held state must lie on the proved history.
ProofEnds(since, tx) == <<IF since = 0 THEN tx ELSE since, tx>>
Verifies(e, s) ==
    \/ s = <<>>
    \/ /\ ProofEnds(e.since, e.tx) = ProofEnds(Len(s), e.tx)
       /\ IsPrefix(s, e.hist)

\* The state verifiedGet.call hands to set(): the later of the two.
NewState(e, s) == IF Len(s) <= e.tx THEN SubSeq(e.hist, 1, e.tx) ELSE s

NoAnswer == [tx |-> 0, since |-> 0, content |-> 0, hist |-> <<>>]
NoReply == [class |-> "none", tx |-> 0, content |-> 0, source |-> <<>>]
Fail(class) == [NoReply EXCEPT !.class = class]
Verified_AnchorAfter(r) ==
    [class |-> "verified", tx |-> entry[r].tx,
     content |-> entry[r].content, source |-> cache]
Verified(r) ==
    [class |-> "verified", tx |-> entry[r].tx,
     content |-> entry[r].content, source |-> source[r]]

Init ==
    /\ scenario \in Scenarios
    /\ chain = <<>>
    /\ version = 0
    /\ published = {<<>>}
    /\ file = Absent
    /\ cache = NoState
    /\ pc = [r \in Request |-> "idle"]
    /\ source = [r \in Request |-> <<>>]
    /\ entry = [r \in Request |-> NoAnswer]
    /\ held = [r \in Request |-> <<>>]
    /\ reply = [r \in Request |-> NoReply]
    /\ attested = {}

Goto(r, label) == pc' = [pc EXCEPT ![r] = label]

\* Every return path of the routes.
Finish(r, response) ==
    /\ reply' = [reply EXCEPT ![r] = response]
    /\ Goto(r, "done")

InProgress == {r \in Request : pc[r] \notin {"idle", "done"}}

-----------------------------------------------------------------------------
(* The process: starting, and dying at any point.                          *)

\* Only a state the ledger published carries its signature.
Signed(s) == s \in published

\* _checked: an empty ledger's state needs no signature, any other does.
Checked_Anything(s) == TRUE
Checked(s) == s = <<>> \/ Signed(s)

\* init(): a readable state file is taken as it is; with none, or with one
\* that cannot be read, the head the server reports is checked and taken.
\* An answer that does not check out leaves the process down.
SeedFromFile_Torn ==
    /\ cache = NoState
    /\ file # Absent
    /\ cache' = file
    /\ UNCHANGED <<server, file, pc, source, entry, held, reply, attested>>

SeedFromFile ==
    /\ cache = NoState
    /\ file \notin {Absent, Torn}
    /\ cache' = file
    /\ UNCHANGED <<server, file, pc, source, entry, held, reply, attested>>

SeedFromHead ==
    /\ cache = NoState
    /\ file \in {Absent, Torn}
    /\ \E head \in {chain, Forged} :
          /\ Checked(head)
          /\ cache' = head
    /\ attested' = {}
    /\ UNCHANGED <<server, file, pc, source, entry, held, reply>>

\* The process dies: the requests in progress are never answered, and a
\* file that was opened for writing stays truncated.
Crash ==
    /\ cache # NoState
    /\ cache' = NoState
    /\ pc' = [r \in Request |-> IF pc[r] = "idle" THEN "idle" ELSE "done"]
    /\ UNCHANGED <<server, file, source, entry, held, reply, attested>>

-----------------------------------------------------------------------------
(* A request.                                                              *)

\* Which root service the SDK call is given.
Pinned_Always(r) == TRUE
Pinned(r) == Kind[r] = "pinned"

\* verifiedGet.call reads the anchor itself.  POST /verify has already read
\* it once by then, to build the request, and the SDK reads it again.
ReadsTwice_EveryRoute(r) == Kind[r] # "pinned"
ReadsTwice(r) == Kind[r] = "verify"

\* source_state = client._rs.get()
GetAnchor(r) ==
    /\ pc[r] = "idle"
    /\ Kind[r] # "pinned"
    /\ cache # NoState
    /\ Cardinality(InProgress) < PoolSize
    /\ source' = [source EXCEPT ![r] = cache]
    /\ Goto(r, "fetch")
    /\ UNCHANGED <<server, anchor, entry, held, reply, attested>>

\* The supplied anchor, used only when its signature checks out.
SupplyAnchor(r) ==
    /\ pc[r] = "idle"
    /\ Kind[r] = "pinned"
    /\ cache # NoState
    /\ Cardinality(InProgress) < PoolSize
    /\ \E a \in published \cup {Forged} :
          /\ source' = [source EXCEPT ![r] = a]
          /\ IF Signed(a)
             THEN Goto(r, "fetch") /\ UNCHANGED reply
             ELSE Finish(r, Fail("anchor_signature_failure"))
    /\ UNCHANGED <<server, anchor, entry, held, attested>>

\* The RPC's answer is in; the SDK call starts.  One that reads the anchor
\* only once checks the proof from the state it sent.
Answered(r, e) ==
    /\ entry' = [entry EXCEPT ![r] = e]
    /\ held' = [held EXCEPT ![r] = source[r]]
    /\ Goto(r, IF ReadsTwice(r) THEN "reread" ELSE "check")

\* VerifiableGet.  A state beyond the ledger's head cannot be proved from.
Fetch(r) ==
    /\ pc[r] = "fetch"
    /\ Kind[r] # "set"
    /\ IF Len(source[r]) > Len(chain)
       THEN Finish(r, Fail("unknown")) /\ UNCHANGED <<entry, held>>
       ELSE /\ \E tx \in 1 .. Len(chain) :
                   Answered(r, Answer(Len(source[r]), tx, chain))
            /\ UNCHANGED reply
    /\ UNCHANGED <<server, anchor, source, attested>>

\* VerifiableGet of a key never written.
FetchNotFound(r) ==
    /\ pc[r] = "fetch"
    /\ Kind[r] # "set"
    /\ Finish(r, Fail("not_found"))
    /\ UNCHANGED <<server, anchor, source, entry, held, attested>>

\* The server commits one record and signs the state it reaches.
Append1 ==
    /\ version < scenario.versions
    /\ version' = version + 1
    /\ chain' = Append(chain, version')
    /\ published' = published \cup {chain'}

\* VerifiableSet commits before anything is proved, unless it is asked to
\* prove from beyond the ledger's head.
FetchSet(r) ==
    /\ pc[r] = "fetch"
    /\ Kind[r] = "set"
    /\ IF Len(source[r]) > Len(chain)
       THEN Finish(r, Fail("unknown")) /\ UNCHANGED <<server, entry, held>>
       ELSE /\ Append1
            /\ Answered(r, Answer(Len(source[r]), Len(chain'), chain'))
            /\ UNCHANGED reply
    /\ UNCHANGED <<anchor, source, attested>>

\* state = rs.get() inside verifiedGet.call, on POST /verify.
Reread(r) ==
    /\ pc[r] = "reread"
    /\ held' = [held EXCEPT ![r] = cache]
    /\ Goto(r, "check")
    /\ UNCHANGED <<server, anchor, source, entry, reply, attested>>

\* A supplied anchor older than the record proves nothing about it.
Precedes_Ignored(r) == FALSE
Precedes(r) == entry[r].tx > Len(source[r])

\* The proof, and for a supplied anchor the answer: _PinnedRootService.set
\* keeps the new state to itself.
Check(r) ==
    /\ pc[r] = "check"
    /\ IF ~Verifies(entry[r], held[r])
       THEN Finish(r, Fail("consistency_failure"))
       ELSE IF Pinned(r)
            THEN Finish(r, IF Kind[r] = "pinned" /\ Precedes(r)
                           THEN Fail("anchor_precedes_record")
                           ELSE Verified(r))
            ELSE Goto(r, "set") /\ UNCHANGED reply
    /\ attested' = IF pc'[r] = "done" /\ Kind[r] # "pinned" /\ reply'[r].class = "verified"
                   THEN attested \cup {<<entry[r].tx, entry[r].content>>}
                   ELSE attested
    /\ UNCHANGED <<server, anchor, source, entry, held>>

\* set(): refuse to move backwards from the anchor held at this moment.
Backwards(new, s) == Len(new) < Len(s)

SetChecks(r) ==
    /\ pc[r] = "set"
    /\ IF Backwards(NewState(entry[r], held[r]), cache)
       THEN Finish(r, Fail("unknown"))
       ELSE Goto(r, "assign") /\ UNCHANGED reply
    /\ UNCHANGED <<server, anchor, source, entry, held, attested>>

SetAssigns(r) ==
    /\ pc[r] = "assign"
    /\ cache' = NewState(entry[r], held[r])
    /\ Goto(r, "open")
    /\ UNCHANGED <<server, file, source, entry, held, reply, attested>>

\* open(..., "wb") truncates; what the file held was read before that and
\* only its other databases are kept.
SetOpens(r) ==
    /\ pc[r] = "open"
    /\ file' = Torn
    /\ Goto(r, "dump")
    /\ UNCHANGED <<server, cache, source, entry, held, reply, attested>>

SetDumps(r) ==
    /\ pc[r] = "dump"
    /\ file' = NewState(entry[r], held[r])
    /\ Finish(r, Verified(r))
    /\ attested' = attested \cup {<<entry[r].tx, entry[r].content>>}
    /\ UNCHANGED <<server, cache, source, entry, held>>

\* The volume refuses the write: set() raises after the cache has moved.
SetFails(r) ==
    /\ pc[r] = "dump"
    /\ Finish(r, Fail("unknown"))
    /\ UNCHANGED <<server, anchor, source, entry, held, attested>>

-----------------------------------------------------------------------------
(* The environment.                                                        *)

\* A commit this module does not follow: the ExecAll of an ordered write.
OtherCommits ==
    /\ Append1
    /\ UNCHANGED <<anchor, pc, source, entry, held, reply, attested>>

\* The ledger is restored from a backup taken at transaction n.
Restore ==
    /\ ~Honest
    /\ \E n \in 1 .. Len(chain) - 1 : chain' = SubSeq(chain, 1, n)
    /\ UNCHANGED <<published, version, anchor, pc, source, entry, held, reply, attested>>

\* A byte of the persisted txHash changes while the process is down.
DamageFile ==
    /\ ~Honest
    /\ cache = NoState
    /\ file \notin {Absent, Torn, <<>>}
    /\ file' = [file EXCEPT ![Len(file)] = 0]
    /\ UNCHANGED <<server, cache, pc, source, entry, held, reply, attested>>

Route(r) ==
    \/ GetAnchor(r)
    \/ SupplyAnchor(r)
    \/ Fetch(r)
    \/ FetchNotFound(r)
    \/ FetchSet(r)
    \/ Reread(r)
    \/ Check(r)
    \/ SetChecks(r)
    \/ SetAssigns(r)
    \/ SetOpens(r)
    \/ SetDumps(r)
    \/ SetFails(r)

Next ==
    /\ UNCHANGED scenario
    /\ \/ \E r \in Request : Kind[r] # "off" /\ Route(r)
       \/ SeedFromFile
       \/ SeedFromHead
       \/ Crash
       \/ OtherCommits
       \/ Restore
       \/ DamageFile

Spec == Init /\ [][Next]_vars

-----------------------------------------------------------------------------
(* Properties.                                                             *)

Classes == {"none", "verified", "consistency_failure", "unknown", "not_found",
            "anchor_signature_failure", "anchor_precedes_record"}

Labels == {"idle", "fetch", "reread", "check", "set", "assign", "open", "dump", "done"}
Entries == [tx : Nat, since : Nat, content : 0 .. MaxVersion, hist : State]
Replies == [class : Classes, tx : Nat, content : 0 .. MaxVersion, source : State]

\* The variables keep their types: the cache and the file hold states of
\* the root service or one of their markers, and a request is at a label of
\* its route with a response of the routes' vocabulary.
TypeOK ==
    /\ scenario \in Scenarios
    /\ version \in 0 .. scenario.versions
    /\ chain \in State
    /\ published \subseteq State
    /\ file \in State \cup {Absent, Torn}
    /\ cache \in State \cup {NoState}
    /\ pc \in [Request -> Labels]
    /\ source \in [Request -> State]
    /\ entry \in [Request -> Entries]
    /\ held \in [Request -> State]
    /\ reply \in [Request -> Replies]
    /\ attested \subseteq Nat \X (0 .. MaxVersion)

Damaged(s) == \E i \in DOMAIN s : s[i] = 0

\* _VerifiedRootService: the anchor is "never written or seeded from a state
\* nothing verified".  Whatever threads race on it, wherever the process
\* dies and whatever the transport answers, the cache and the file hold a
\* state the ledger signed, or the damage done to the file itself.
AnchorWasPublished ==
    /\ cache # NoState => cache \in published \/ (~Honest /\ Damaged(cache))
    /\ file \notin {Absent, Torn} => file \in published \/ (~Honest /\ Damaged(file))

\* Only POST /verify can mistake a race for tampering: on a ledger nobody
\* touched, the proof step of the write routes, which is what a fault record
\* is written about, and a proof from a supplied anchor never end in
\* consistency_failure, however the anchor moves while they run.
WritesNeverFaultHonestLedger ==
    \A r \in Request :
        Honest /\ Kind[r] # "verify" => reply[r].class # "consistency_failure"

\* What "verified" means with a supplied anchor (D23): the anchor is a state
\* the ledger signed, it covers the record, and the record returned is the
\* one that state commits to, however the ledger and the anchor have moved.
PinnedVerdict ==
    \A r \in Request :
        Kind[r] = "pinned" /\ reply[r].class = "verified" =>
            /\ reply[r].source \in published
            /\ reply[r].tx <= Len(reply[r].source)
            /\ reply[r].content = reply[r].source[reply[r].tx]

\* What the anchor is for: with one request at a time, two answers verified
\* without a supplied anchor never disagree about a transaction, across
\* restarts, failed saves and a ledger restored from a backup, until the
\* anchor itself is lost and seeded again.
NoContradiction ==
    PoolSize = 1 => \A a, b \in attested : a[1] = b[1] => a[2] = b[2]

\* D18: the exported material and the verdict are the same evidence.  The
\* checks the verdict rests on succeed again when they are run offline from
\* the source_state and the entry that the answer carries.  POST /verify
\* checks the proof from a second read of a moving anchor, and there it takes
\* an untouched ledger or one request at a time: two states of one length,
\* of the ledger and of its restored copy, could be exchanged between the
\* two reads.
MaterialSupportsVerdict ==
    \A r \in Request :
        reply[r].class = "verified" /\ (Kind[r] # "verify" \/ Honest \/ PoolSize = 1) =>
            Verifies(entry[r], reply[r].source)

\* "verified" is evidence: it can be checked again from what was exported,
\* and with a supplied anchor it is about that anchor's own record.
VerdictIsEvidence == MaterialSupportsVerdict /\ PinnedVerdict

\* POST /verify: "A system asserting tampering it has not detected is worse
\* than one failing to detect tampering."  On a ledger nobody touched, no
\* answer is a consistency_failure.
NoTamperClaimOnHonestLedger ==
    \A r \in Request : Honest => reply[r].class # "consistency_failure"
=============================================================================
