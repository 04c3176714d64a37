------------------------------ MODULE Evidence ------------------------------
(***************************************************************************)
(* From a signed ledger state to a file an auditor checks with nothing but *)
(* keys: the anchoring loop of anchor_service/main.py and its --once form, *)
(* the anchors of control_plane/main.py, the export GET /audit/bundle with *)
(* the two POST /verify calls it may make, and the auditor's check.  The   *)
(* ledger, the transparency log and its configuration are the environment. *)
(***************************************************************************)
EXTENDS BundleCheck, FiniteSetsExt

CONSTANTS Config,      \* Config[t]: Sigstore's SigningConfig and TrustedRoot at time t
          AnchorKey,   \* the key entries are submitted under
          Inventories, \* the keys, lists and flags auditors come with
          Scenarios    \* whether --once is run beside the loop, and bounds: of
                       \* the transactions, of the faults (submissions whose
                       \* row or answer is lost, restarts of the service,
                       \* restores of the ledger), of the signatures of one
                       \* state, and of the time

Anchorer == {"loop", "once"}
Time == 1 .. Len(Config)

\* The logs that the TrustedRoot of time t knows.
UrlsOf(t) == {w.url : w \in Config[t].root}
Urls == UNION {UrlsOf(t) : t \in Time}

\* Anchor payloads, their signatures and inclusion proofs, and the log's
\* entries for them.
Payloads == {"db"} \X Nat \X Seq(Record) \X Signatures
Submissions == {AnchorKey} \X Payloads
Proofs == Urls \X Nat \X Payloads \X {AnchorKey} \X Submissions
LogEntries ==
    [digest : Payloads, publicKey : {AnchorKey}, signature : Submissions,
     keyId : Urls, logIndex : Nat, proof : Proofs]

\* A TrustedRoot keeps the logs that were retired: their entries are still
\* to be checked.
ASSUME EvidenceAssumption ==
    /\ Len(Config) \in Nat \ {0}
    /\ \A t, u \in Time : t <= u => UrlsOf(t) \subseteq UrlsOf(u)
    /\ Absent \notin LogEntries \cup {AnchorKey}
    /\ Junk \notin Payloads \cup Submissions \cup Proofs \cup Urls \cup {AnchorKey}
    /\ Scenarios \subseteq [once : BOOLEAN, txs : Nat, faults : Nat, nonces : Nat, time : Time]

VARIABLES scenario, \* one of Scenarios
          chain,    \* ImmuDB: the committed records
          used,     \* ImmuDB: records ever committed, over all histories
          held,     \* the verifier's own trust anchor
          now,      \* Sigstore: the configuration in force
          log,      \* Rekor: every entry
          rows,     \* control plane: the state_anchors table
          pc,       \* pc[a]: where anchor_once is
          state,    \* state[a]: the ledger state it fetched
          got,      \* got[a]: the entry the log returned
          last,     \* last[a]: last_anchored_tx, 0 for None
          config,   \* config[a]: when _config_cache was fetched, 0 for empty
          export,   \* the export in progress: step, key, anchor, and the
                    \* anchor that it found newest
          answer,   \* what the export that ended last answered
          faults    \* faults still to come

ledger == <<scenario, chain, used, held>>
anchoring == <<log, rows, pc, state, got, last, config>>
vars == <<ledger, now, anchoring, export, answer, faults>>

-----------------------------------------------------------------------------
(* States, anchors and bundles.                                            *)

SignedState(nonce, h) ==
    [db |-> "db", tx |-> Len(h), hash |-> h, sig |-> Signature(nonce, Len(h), h)]
EmptyState == [db |-> "db", tx |-> 0, hash |-> <<>>, sig |-> Absent]
Valid(s) == Signs(s.sig, s.db, s.tx, s.hash)

KeyOf(i) == Body[i].key
Keys == {KeyOf(i) : i \in Record}
Holds(h, k) == \E n \in DOMAIN h : KeyOf(h[n]) = k
TxOf(h, k) == CHOOSE n \in DOMAIN h : KeyOf(h[n]) = k

Idle == [step |-> "idle", key |-> Absent, anchor |-> Absent, read |-> Absent]
NoAnswer == [bundle |-> Absent, read |-> Absent]

Init ==
    /\ scenario \in Scenarios
    /\ chain = <<>>
    /\ used = {}
    /\ held = EmptyState
    /\ now = 1
    /\ log = {}
    /\ rows = {}
    /\ pc = [a \in Anchorer |-> IF a = "once" /\ ~scenario.once THEN "exited" ELSE "idle"]
    /\ state = [a \in Anchorer |-> EmptyState]
    /\ got = [a \in Anchorer |-> Absent]
    /\ last = [a \in Anchorer |-> 0]
    /\ config = [a \in Anchorer |-> 0]
    /\ export = Idle
    /\ answer = NoAnswer
    /\ faults = scenario.faults

Fault == faults > 0 /\ faults' = faults - 1

-----------------------------------------------------------------------------
(* The environment.                                                        *)

\* A record is committed; its write's own proof may move the verifier's
\* trust anchor, or fail.
Write(i) ==
    /\ i \notin used
    /\ Len(chain) < scenario.txs
    /\ ~Holds(chain, KeyOf(i))
    /\ chain' = Append(chain, i)
    /\ used' = used \cup {i}
    /\ \/ UNCHANGED held
       \/ IsPrefix(held.hash, chain) /\ held' = SignedState(0, chain')
    /\ UNCHANGED <<scenario, now, anchoring, export, faults>>

\* The ledger comes back from a backup; no export spans its downtime.
Restore ==
    /\ export.step = "idle"
    /\ Fault
    /\ \E n \in 1 .. Len(chain) - 1 : chain' = SubSeq(chain, 1, n)
    /\ UNCHANGED <<scenario, used, held, now, anchoring, export>>

Publish ==
    /\ now < scenario.time
    /\ now' = now + 1
    /\ UNCHANGED <<ledger, anchoring, export, faults>>

-----------------------------------------------------------------------------
(* Which log to submit to.                                                 *)

\* _in_force: the window of an entry of a configuration, open-ended for 0.
InForce(w, t) == w.start <= t /\ (w.end = 0 \/ t < w.end)

LatestStart(S) == (CHOOSE w \in S : \A x \in S : x.start <= w.start).url

\* discover_log_url: Absent when no Rekor v2 instance is advertised.  The
\* windows are those of the document fetched, the clock is not.
DiscoverLogUrl(c, t) ==
    LET v2 == {w \in c.signing : w.version >= 2 /\ InForce(w, t)}
        preV2 == {w.url : w \in {x \in c.signing : x.version < 2}}
        candidates == {w \in c.root : w.url \notin preV2 /\ InForce(w, t)}
    IN  IF v2 # {} THEN LatestStart(v2)
        ELSE IF candidates # {} THEN LatestStart(candidates)
        ELSE Absent

\* A Rekor v2 log takes entries while it is in force.
Accepts(url) ==
    \E w \in Config[now].root : w.url = url /\ w.version >= 2 /\ InForce(w, now)

\* The entry of a submission: a new one, or the one the log has already.
EntryAt(url, n, payload) ==
    LET signature == <<AnchorKey, payload>>
    IN  [digest |-> payload, publicKey |-> AnchorKey, signature |-> signature,
         keyId |-> url, logIndex |-> n,
         proof |-> <<url, n, payload, AnchorKey, signature>>]

Accepted(url, payload) ==
    LET same == {e \in log : e.keyId = url /\ e.digest = payload}
        next == Cardinality({e \in log : e.keyId = url}) + 1
    IN  IF same # {} THEN same ELSE {EntryAt(url, next, payload)}

-----------------------------------------------------------------------------
(* The anchor service.                                                     *)

\* A round ends, by returning or by an exception that run_forever logs; the
\* --once process exits with it.
RoundEnds(a) ==
    /\ pc' = [pc EXCEPT ![a] = IF a = "once" THEN "exited" ELSE "idle"]
    /\ state' = [state EXCEPT ![a] = EmptyState]
    /\ got' = [got EXCEPT ![a] = Absent]

\* GET /state of the verifier: a head that the configured key did not sign
\* is a 503.
HeadChecked(s) == Valid(s)

\* fetch_current_state.  With a refused head, or with nothing new to anchor,
\* the round ends having changed nothing.
FetchState(a) ==
    /\ pc[a] = "idle"
    /\ chain # <<>>
    /\ last[a] = 0 \/ Len(chain) > last[a]
    /\ \E n \in 1 .. scenario.nonces, sign \in BOOLEAN :
          LET s == SignedState(n, chain)
              head == IF sign THEN s ELSE [s EXCEPT !.sig = Junk]
          IN  /\ HeadChecked(head)
              /\ state' = [state EXCEPT ![a] = head]
    /\ pc' = [pc EXCEPT ![a] = "submit"]
    /\ UNCHANGED <<ledger, now, log, rows, got, last, config, export, faults>>

\* _sigstore_config and discover_log_url, evaluated for this round.
Fetched(a) == IF config[a] = 0 THEN now ELSE config[a]
LogUrl(a) == DiscoverLogUrl(Config[Fetched(a)], now)

\* submit: the log has the entry; its answer may be lost.
Submit(a) ==
    /\ pc[a] = "submit"
    /\ LogUrl(a) # Absent
    /\ Accepts(LogUrl(a))
    /\ config' = [config EXCEPT ![a] = Fetched(a)]
    /\ LET s == state[a]
           payload == AnchorPayload(s.db, s.tx, s.hash, s.sig)
       IN  \E e \in Accepted(LogUrl(a), payload) :
              /\ log' = log \cup {e}
              /\ \/ /\ got' = [got EXCEPT ![a] = e]
                    /\ pc' = [pc EXCEPT ![a] = "record"]
                    /\ UNCHANGED <<state, faults>>
                 \/ /\ Fault
                    /\ RoundEnds(a)
    /\ UNCHANGED <<ledger, now, rows, last, export>>

\* No log is advertised, or the one found refuses: the exception leaves the
\* fetched configuration cached.
LogRefuses(a) ==
    /\ pc[a] = "submit"
    /\ LogUrl(a) = Absent \/ ~Accepts(LogUrl(a))
    /\ config' = [config EXCEPT ![a] = Fetched(a)]
    /\ RoundEnds(a)
    /\ UNCHANGED <<ledger, now, log, rows, last, export, faults>>

\* CONFIG_TTL_SECONDS have passed.
ConfigExpires(a) ==
    /\ config[a] \notin {0, now}
    /\ config' = [config EXCEPT ![a] = 0]
    /\ UNCHANGED <<ledger, now, log, rows, pc, state, got, last, export, faults>>

\* The row of a checkpoint and of the entry the log returned for it.
Row(s, e) ==
    [tx |-> s.tx, checkpoint |-> s, log_url |-> e.keyId, log_index |-> e.logIndex,
     anchor_fp |-> AnchorKey, anchor_payload_format |-> "anchor/1", entry |-> e]

\* POST /anchors: one row per transaction, left as it stands.
Recorded_Refreshed(s, e) ==
    {IF r.tx = s.tx THEN [r EXCEPT !.entry = e, !.log_index = e.logIndex] ELSE r : r \in rows}
        \cup (IF \E r \in rows : r.tx = s.tx THEN {} ELSE {Row(s, e)})

Recorded_NoLookup(s, e) == rows \cup {Row(s, e)}

Recorded(s, e) ==
    IF \E r \in rows : r.tx = s.tx THEN rows ELSE rows \cup {Row(s, e)}

\* record_anchor: last_anchored_tx moves only when the answer arrives.
RecordAnchor_MovesAnyway(a) ==
    /\ pc[a] = "record"
    /\ \/ rows' = Recorded(state[a], got[a]) /\ UNCHANGED faults
       \/ rows' = rows /\ Fault
    /\ last' = IF a = "loop" THEN [last EXCEPT ![a] = state[a].tx] ELSE last
    /\ RoundEnds(a)
    /\ UNCHANGED <<ledger, now, log, config, export>>

RecordAnchor(a) ==
    /\ pc[a] = "record"
    /\ rows' = Recorded(state[a], got[a])
    /\ \/ /\ last' = IF a = "loop" THEN [last EXCEPT ![a] = state[a].tx] ELSE last
          /\ UNCHANGED faults
       \/ Fault /\ UNCHANGED last
    /\ RoundEnds(a)
    /\ UNCHANGED <<ledger, now, log, config, export>>

\* The log or the control plane cannot be reached.  A verifier that cannot
\* be leaves the round where it was.
RoundFails(a) ==
    /\ \/ pc[a] = "submit" /\ UNCHANGED faults
       \/ pc[a] = "record" /\ Fault
    /\ RoundEnds(a)
    /\ UNCHANGED <<ledger, now, log, rows, last, config, export>>

\* The loop keeps nothing across a restart.
Restart ==
    /\ Fault
    /\ RoundEnds("loop")
    /\ last' = [last EXCEPT !["loop"] = 0]
    /\ config' = [config EXCEPT !["loop"] = 0]
    /\ UNCHANGED <<ledger, now, log, rows, export>>

-----------------------------------------------------------------------------
(* GET /audit/bundle.                                                      *)

\* _latest_anchor
NewestRow ==
    IF rows = {} THEN Absent ELSE CHOOSE r \in rows : \A o \in rows : o.tx <= r.tx

\* _record_type_of, the control plane's own copy.
RecordTypeOf(i) ==
    IF Body[i].record_type \in {"content_erasure", "decision_intent"} THEN Body[i].record_type
    ELSE IF Body[i].outcome_type \in {"policy_allow", "policy_deny", "schema_deny", "fault"}
         THEN Body[i].outcome_type
         ELSE "unknown"

\* VerifiableGet: the entry of a key, and the history a proof from
\* transaction since runs over.
VerifiableEntry(k, since) ==
    LET tx == TxOf(chain, k)
    IN  [value |-> chain[tx], tx |-> tx, timestamp |-> chain[tx], since |-> since,
         hist |-> SubSeq(chain, 1, Max({since, tx}))]

\* POST /verify from the state s, and with a supplied one the order of the
\* two: "verified" or an error_class.
VerifyClass_IgnoresOrder(s, k, supplied) ==
    IF supplied /\ ~Valid(s) THEN "anchor_signature_failure"
    ELSE IF ~Holds(chain, k) THEN "not_found"
    ELSE IF s.tx > Len(chain) THEN "unknown"
    ELSE IF ~Proves(VerifiableEntry(k, s.tx), s.tx, s.hash, k) THEN "consistency_failure"
    ELSE "verified"

VerifyClass(s, k, supplied) ==
    IF supplied /\ ~Valid(s) THEN "anchor_signature_failure"
    ELSE IF ~Holds(chain, k) THEN "not_found"
    ELSE IF s.tx > Len(chain) THEN "unknown"
    ELSE IF ~Proves(VerifiableEntry(k, s.tx), s.tx, s.hash, k) THEN "consistency_failure"
    ELSE IF supplied /\ TxOf(chain, k) > s.tx THEN "anchor_precedes_record"
    ELSE "verified"

\* _external_anchor_section
Section_Newest(anchor) ==
    LET r == NewestRow
    IN  IF anchor = Absent
        THEN [state |-> "not_anchored", detail |-> "none", log_url |-> Absent,
              log_index |-> Absent, anchor_fp |-> Absent,
              anchor_payload_format |-> Absent, log_entry |-> Absent]
        ELSE [state |-> "anchored", detail |-> Absent, log_url |-> r.log_url,
              log_index |-> r.log_index, anchor_fp |-> r.anchor_fp,
              anchor_payload_format |-> r.anchor_payload_format, log_entry |-> r.entry]

Section(anchor) ==
    IF anchor = Absent
    THEN [state |-> "not_anchored", detail |-> "none", log_url |-> Absent,
          log_index |-> Absent, anchor_fp |-> Absent,
          anchor_payload_format |-> Absent, log_entry |-> Absent]
    ELSE [state |-> "anchored", detail |-> Absent, log_url |-> anchor.log_url,
          log_index |-> anchor.log_index, anchor_fp |-> anchor.anchor_fp,
          anchor_payload_format |-> anchor.anchor_payload_format,
          log_entry |-> anchor.entry]

\* _verified_response's proof material for a proof from the state s, and the
\* bundle that get_audit_bundle puts around it.
Bundle(s, k, anchor) ==
    LET e == VerifiableEntry(k, s.tx)
        external == Section(anchor)
    IN  [bundle_format |-> "bundle/1", exported_at |-> "then",
         ledger_key |-> k, value |-> e.value, tx_id |-> e.tx,
         timestamp |-> e.timestamp, record_type |-> RecordTypeOf(e.value),
         proof_format |-> "proof/2", source_db |-> s.db, source_tx |-> s.tx,
         source_hash |-> s.hash, source_sig |-> s.sig, entry |-> e,
         prove_since_tx |-> s.tx, entry_tx_id |-> e.tx,
         proof_fp |-> "ledger key", key_fp |-> "ledger key",
         state |-> external.state, detail |-> external.detail,
         log_url |-> external.log_url, log_index |-> external.log_index,
         anchor_fp |-> external.anchor_fp,
         anchor_payload_format |-> external.anchor_payload_format,
         log_entry |-> external.log_entry]

\* The newest anchor is read once, before anything is asked of the verifier.
ReadAnchor(k) ==
    /\ export.step = "idle"
    /\ export' = [step |-> IF NewestRow = Absent THEN "own" ELSE "pinned",
                  key |-> k, anchor |-> NewestRow, read |-> NewestRow]
    /\ UNCHANGED <<ledger, now, anchoring, faults>>

\* What the first answer leads to: a record newer than the anchor is
\* exported without it, any other refusal is a 404.
AfterPinned_AnyRefusal(class) == IF class = "verified" THEN "answer" ELSE "own"
AfterPinned(class) ==
    IF class = "verified" THEN "answer"
    ELSE IF class = "anchor_precedes_record" THEN "own"
    ELSE "refuse"

Answer(file) == answer' = [bundle |-> file, read |-> export.read] /\ export' = Idle
Refuse == answer' = NoAnswer /\ export' = Idle

VerifyPinned ==
    /\ export.step = "pinned"
    /\ LET s == export.anchor.checkpoint
           next == AfterPinned(VerifyClass(s, export.key, TRUE))
       IN  \/ next = "answer" /\ Answer(Bundle(s, export.key, export.anchor))
           \/ next = "refuse" /\ Refuse
           \/ /\ next = "own"
              /\ export' = [export EXCEPT !.step = "own", !.anchor = Absent]
              /\ answer' = NoAnswer
    /\ UNCHANGED <<ledger, now, anchoring, faults>>

\* The proof runs from the verifier's own trust anchor, and moves it.
VerifyOwn ==
    /\ export.step = "own"
    /\ IF VerifyClass(held, export.key, FALSE) = "verified"
       THEN LET file == Bundle(held, export.key, Absent)
            IN  Answer(file) /\ held' = SignedState(0, file.entry.hist)
       ELSE Refuse /\ UNCHANGED held
    /\ UNCHANGED <<scenario, chain, used, now, anchoring, faults>>

\* 503: the verifier does not answer.
VerifierDown ==
    /\ export.step # "idle"
    /\ Refuse
    /\ UNCHANGED <<ledger, now, anchoring, faults>>

-----------------------------------------------------------------------------
(* The auditor, with a copy of the bundle in which at most one field is    *)
(* not what was exported.                                                  *)

LogEntryFields == {"digest", "publicKey", "signature", "keyId", "logIndex", "proof"}
Label == {"exported_at", "detail"}
OfTheLog == {"log_url", "log_index"} \cup LogEntryFields

\* bundle_byte_sweep.py: what one alteration may leave of field f.
Altered(b, f) ==
    IF f \in LogEntryFields
    THEN IF b.log_entry = Absent THEN {}
         ELSE {[b EXCEPT !.log_entry = [@ EXCEPT ![f] = Junk]]}
    ELSE {[b EXCEPT ![f] = Junk]}
         \cup (IF f = "entry"
               THEN {[b EXCEPT !.entry.value = i] : i \in Record \ {b.entry.value}} ELSE {})
         \cup (IF f = "state"
               THEN {[b EXCEPT !.state = s] : s \in {"anchored", "not_anchored"} \ {b.state}}
               ELSE {})

Fields(b) == {f \in DOMAIN b \ {"log_entry"} : b[f] # Absent} \cup LogEntryFields

\* The logs an auditor's TrustedRoot knows, for the time it was fetched.
RootOf(time) == IF time = 0 THEN Absent ELSE UrlsOf(time)

HoldsEverything(inv) ==
    /\ inv.key = "ledger key"
    /\ Absent \notin inv.denied
    /\ AnchorKey \in inv.anchors
    /\ inv.root # Absent /\ RootOf(now) \subseteq inv.root

\* Only a check that nothing else would stop is asked about alterations.
Thorough(inv) == inv.skip \/ HoldsEverything(inv)

\* What auditors hold: one that skips the anchor check brings no root.
Held == {[root |-> RootOf(t)] @@ inv : inv \in {x \in Inventories : ~x.skip}, t \in 0 .. Len(Config)}
        \cup {[root |-> Absent] @@ inv : inv \in {x \in Inventories : x.skip}}

\* P holds of every check of the file that an export has answered with.
EveryAudit(P(_)) ==
    LET file == answer.bundle
    IN  file # Absent =>
          \A inv \in Held :
          \A f \in {"nothing"} \cup (IF Thorough(inv) THEN Fields(file) ELSE {}) :
          \A b \in IF f = "nothing" THEN {file} ELSE Altered(file, f) :
             P([field |-> f, of |-> b, inv |-> inv, class |-> verify_bundle(b, inv)])

-----------------------------------------------------------------------------
AnchorService(a) ==
    \/ FetchState(a)
    \/ Submit(a)
    \/ LogRefuses(a)
    \/ ConfigExpires(a)
    \/ RecordAnchor(a)
    \/ RoundFails(a)

Background ==
    \/ \E i \in Record : Write(i)
    \/ Restore
    \/ Publish
    \/ \E a \in Anchorer : AnchorService(a)
    \/ Restart
    \/ \E k \in Keys : ReadAnchor(k)

\* The file has left the system when it is answered, and is kept only until
\* the system's next step.
Next ==
    \/ Background /\ answer' = NoAnswer
    \/ VerifyPinned
    \/ VerifyOwn
    \/ VerifierDown

Spec == Init /\ [][Next]_vars

\* The loop runs round after round; the log and the control plane answer it
\* again and again, though not every time; the configuration goes stale.
FairSpec ==
    /\ Spec
    /\ WF_vars(FetchState("loop") /\ answer' = NoAnswer)
    /\ SF_vars(Submit("loop") /\ answer' = NoAnswer)
    /\ WF_vars(LogRefuses("loop") /\ answer' = NoAnswer)
    /\ WF_vars(ConfigExpires("loop") /\ answer' = NoAnswer)
    /\ SF_vars(RecordAnchor("loop") /\ answer' = NoAnswer)

-----------------------------------------------------------------------------
(* Properties.                                                             *)

TypeOK ==
    /\ chain \in Seq(Record) /\ Range(chain) \subseteq used /\ used \subseteq Record
    /\ now \in Time
    /\ DOMAIN pc = Anchorer
    /\ \A a \in Anchorer :
          /\ pc[a] \in {"idle", "submit", "record", "exited"}
          /\ last[a] \in 0 .. scenario.txs
          /\ config[a] \in 0 .. now
          /\ pc[a] = "record" => got[a] \in log
    /\ \A r, o \in rows : r.tx = o.tx => r = o
    /\ export.step \in {"idle", "pinned", "own"}
    /\ export.step = "pinned" => export.anchor \in rows

\* A row of state_anchors and external corroboration are the same statement
\* (control_plane/models.py): the row's entry is in the log, at the row's
\* index, and is about the very signed state the row holds - whatever was
\* lost, retried, restarted or run twice on the way there.
RowIsLogged ==
    \A r \in rows :
       /\ Valid(r.checkpoint)
       /\ r.entry \in log
       /\ r.entry.digest = AnchorPayload(r.checkpoint.db, r.checkpoint.tx,
                                         r.checkpoint.hash, r.checkpoint.sig)
       /\ <<r.entry.keyId, r.entry.logIndex>> = <<r.log_url, r.log_index>>

\* Every bundle GET /audit/bundle hands out passes the offline check of an
\* auditor who holds every key, or fails it for the record's own signature
\* and nothing else.  The exception is a proof from the unsigned state of an
\* empty ledger, which the verifier's trust anchor is until its first move.
ExportedIsVerifiable ==
    EveryAudit(LAMBDA c :
       c.field = "nothing" /\ HoldsEverything(c.inv) /\ c.of.source_tx # 0
       => c.class = IF WriterClass(c.of.value, c.inv) = "ok" THEN "verified"
                    ELSE WriterClass(c.of.value, c.inv))

\* No field of a bundle but its labels can be changed and the bundle still
\* verify: every copy of a fact in the file is compared with the one that
\* is proved.  An auditor who skips the anchor check gives up the log's.
AlteredIsRefused ==
    EveryAudit(LAMBDA c :
       c.field \notin {"nothing"} \cup Label /\ c.class = "verified"
       => c.inv.skip /\ c.field \in OfTheLog \cup {"anchor_fp"})

\* What "verified" says of a bundle is so: a key the auditor trusts and has
\* not revoked signed the record, and where corroboration was claimed and
\* checked, the public log holds, at that place, the state the proof runs
\* to, and the record is no newer than it.
VerifiedIsTrue ==
    EveryAudit(LAMBDA c : c.class = "verified" =>
       /\ Body[c.of.value].form = "signed"
       /\ Body[c.of.value].writer \in c.inv.writers \ c.inv.denied
       /\ c.of.state = "anchored" =>
            /\ c.of.tx_id <= c.of.source_tx
            /\ ~c.inv.skip =>
                 \E e \in log :
                    /\ <<e.keyId, e.logIndex>> = <<c.of.log_url, c.of.log_index>>
                    /\ e.digest = BundlePayload(c.of))

\* A rejected anchor is not papered over by export without it
\* (control_plane/main.py 2722-2728): a bundle that claims no corroboration
\* although an anchor was on record is of a record newer than that anchor,
\* on the history that anchor pins.
AnchorIsNotDropped ==
    /\ answer.bundle # Absent /\ answer.read # Absent
    /\ answer.bundle.state = "not_anchored"
    => /\ answer.bundle.tx_id > answer.read.tx
       /\ IsPrefix(answer.read.checkpoint.hash, answer.bundle.entry.hist)

\* The head of a ledger nobody rewound is anchored in the end, whichever
\* submissions were lost on the way: a round that failed after the log had
\* its entry is run again, and last_anchored_tx does not skip it.
HeadIsAnchored ==
    []<>(\/ \E r \in rows : r.checkpoint.hash = chain
         \/ chain = <<>>
         \/ used # Range(chain))
=============================================================================
