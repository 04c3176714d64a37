--------------------------- MODULE EvidenceProofs ---------------------------
(***************************************************************************)
(* Proofs about Evidence, for every ledger, log, configuration, inventory  *)
(* and bound.                                                              *)
(*                                                                         *)
(* The properties speak of the file that was answered last, so the         *)
(* inductive invariant IInv follows the facts in it from where they are    *)
(* made: a signed state (LedgerInv, HeldInv), through the round that       *)
(* submits it (ServiceInv) to the log's entry (LogInv) and the row that    *)
(* pairs the two (RowsInv), to the export that read the row (ExportInv)    *)
(* and the bundle it put together (AnswerInv).  The auditor's check keeps  *)
(* no state: what it says is proved of every bundle of that shape, and of  *)
(* every alteration of one field of it.                                    *)
(***************************************************************************)
EXTENDS Evidence, HistoryLemmas, FiniteSetTheorems, TLAPS

\* A state that GET /state hands out: the ledger's own, with its signature.
Taken(s) ==
    /\ s \in [db : {"db"}, tx : 1 .. scenario.txs, hash : Seq(Record), sig : Signatures]
    /\ s.tx = Len(s.hash)
    /\ Valid(s)

PayloadOf(s) == AnchorPayload(s.db, s.tx, s.hash, s.sig)

\* The ledger holds a key once.
LedgerInv ==
    /\ scenario \in Scenarios
    /\ chain \in Seq(Record) /\ Len(chain) <= scenario.txs
    /\ Range(chain) \subseteq used /\ used \subseteq Record
    /\ \A m, n \in DOMAIN chain : KeyOf(chain[m]) = KeyOf(chain[n]) => m = n

\* The verifier's own trust anchor is a signed state or that of an empty ledger.
HeldInv ==
    /\ held \in [db : {"db"}, tx : Nat, hash : Seq(Record), sig : Signatures \cup {Absent}]
    /\ held.tx = Len(held.hash)
    /\ (held.sig = Absent /\ held.tx = 0) \/ Valid(held)

\* Every entry of the log is what was submitted, in a log that is still known.
LogInv ==
    /\ IsFiniteSet(log)
    /\ log \subseteq LogEntries
    /\ \A e \in log :
          /\ e = EntryAt(e.keyId, e.logIndex, e.digest)
          /\ e.keyId \in UrlsOf(now)

ServiceInv ==
    /\ now \in Time
    /\ pc \in [Anchorer -> {"idle", "submit", "record", "exited"}]
    /\ DOMAIN state = Anchorer /\ DOMAIN got = Anchorer
    /\ last \in [Anchorer -> 0 .. scenario.txs]
    /\ config \in [Anchorer -> 0 .. now]
    /\ \A a \in Anchorer :
          /\ pc[a] \in {"submit", "record"} => Taken(state[a])
          /\ pc[a] = "record" => got[a] \in log /\ got[a].digest = PayloadOf(state[a])

\* A row is of a signed state and of its entry, and one transaction has one row.
RowsInv ==
    /\ \A r \in rows :
          /\ r = Row(r.checkpoint, r.entry)
          /\ Taken(r.checkpoint)
          /\ r.entry \in log
          /\ r.entry.digest = PayloadOf(r.checkpoint)
    /\ \A r, o \in rows : r.tx = o.tx => r = o

\* The record k is newer than the anchor r, on the history that r pins.
Newer(r, k) ==
    /\ Holds(chain, k)
    /\ TxOf(chain, k) > r.tx
    /\ IsPrefix(r.checkpoint.hash, chain)

ExportInv ==
    /\ export.step \in {"idle", "pinned", "own"}
    /\ DOMAIN export = {"step", "key", "anchor", "read"}
    /\ export.step = "pinned" =>
          export.anchor \in rows /\ export.anchor # Absent /\ export.read = export.anchor
    /\ export.step = "own" =>
          /\ export.anchor = Absent
          /\ export.read # Absent => export.read \in rows /\ Newer(export.read, export.key)

\* A bundle's own copies agree with the entry that it proves.
Copies(f) ==
    /\ f.value = f.entry.value /\ f.tx_id = f.entry.tx /\ f.timestamp = f.entry.timestamp
    /\ f.record_type = record_type_of(f.entry.value)
    /\ f.entry_tx_id = f.entry.tx /\ f.prove_since_tx = f.source_tx

\* The fields of a bundle.
BundleFields ==
    {"bundle_format", "exported_at", "ledger_key", "value", "tx_id", "timestamp", "record_type",
     "proof_format", "source_db", "source_tx", "source_hash", "source_sig", "entry",
     "prove_since_tx", "entry_tx_id", "proof_fp", "key_fp", "state", "detail", "log_url",
     "log_index", "anchor_fp", "anchor_payload_format", "log_entry"}

\* What the proof part of a bundle says: formats and keys, and an entry that
\* its source state proves.
ProofPart(f) ==
    /\ DOMAIN f = BundleFields
    /\ f.bundle_format = "bundle/1" /\ f.proof_format = "proof/2"
    /\ f.key_fp = "ledger key" /\ f.proof_fp = "ledger key"
    /\ f.source_db = "db" /\ f.source_tx \in Nat /\ f.source_hash \in Seq(Record)
    /\ \/ f.source_sig = Absent /\ f.source_tx = 0
       \/ Signs(f.source_sig, f.source_db, f.source_tx, f.source_hash)
    /\ f.entry \in ProvedEntries
    /\ Proves(f.entry, f.source_tx, f.source_hash, f.ledger_key)
    /\ Copies(f)

\* Its anchor part: the row r that it is corroborated with, or none.
AnchorPart(f, r) ==
    /\ r = Absent =>
          /\ f.state = "not_anchored" /\ f.detail = "none" /\ f.log_entry = Absent
          /\ f.log_url = Absent /\ f.log_index = Absent /\ f.anchor_fp = Absent
          /\ f.anchor_payload_format = Absent
    /\ r # Absent =>
          /\ f.state = "anchored" /\ f.detail = Absent /\ f.log_entry = r.entry
          /\ f.log_url = r.log_url /\ f.log_index = r.log_index
          /\ f.anchor_fp = r.anchor_fp /\ f.anchor_payload_format = r.anchor_payload_format
          /\ BundlePayload(f) = AnchorPayload(r.checkpoint.db, r.checkpoint.tx,
                                              r.checkpoint.hash, r.checkpoint.sig)

\* What get_audit_bundle has put in a file.
Exported(f, r) == ProofPart(f) /\ AnchorPart(f, r)

AnswerInv ==
    answer.bundle # Absent =>
       \/ /\ Exported(answer.bundle, Absent)
          /\ answer.read # Absent =>
                /\ answer.bundle.tx_id > answer.read.tx
                /\ IsPrefix(answer.read.checkpoint.hash, answer.bundle.entry.hist)
       \/ /\ answer.read \in rows /\ answer.read # Absent
          /\ Exported(answer.bundle, answer.read)
          /\ answer.bundle.tx_id <= answer.bundle.source_tx

IInv ==
    /\ LedgerInv
    /\ HeldInv
    /\ LogInv
    /\ ServiceInv
    /\ RowsInv
    /\ ExportInv
    /\ AnswerInv

-----------------------------------------------------------------------------
(* The ledger.                                                             *)

\* The types of a scenario's bounds.
LEMMA ScenarioFacts ==
    ASSUME scenario \in Scenarios
    PROVE  /\ scenario.txs \in Nat /\ scenario.nonces \in Nat /\ scenario.faults \in Nat
           /\ scenario.time \in Time /\ Len(Config) \in Nat \ {0}
           /\ Scenarios \subseteq [once : BOOLEAN, txs : Nat, faults : Nat, nonces : Nat, time : Time]
BY EvidenceAssumption

\* A step that does not touch the ledger.
LEMMA LedgerFrame ==
    ASSUME LedgerInv, UNCHANGED <<scenario, chain, used>>
    PROVE  LedgerInv'
BY DEF LedgerInv, KeyOf

\* A commit and a restore leave one record of a key.
LEMMA WriteLedger ==
    ASSUME LedgerInv, NEW i \in Record, Write(i)
    PROVE  /\ LedgerInv'
           /\ chain' = Append(chain, i) /\ ~Holds(chain, KeyOf(i))
           /\ chain' \in Seq(Record) /\ Len(chain') = Len(chain) + 1
           /\ Begins(chain, chain')
<1>1. /\ chain' = Append(chain, i) /\ ~Holds(chain, KeyOf(i)) /\ used' = used \cup {i}
      /\ Len(chain) < scenario.txs /\ UNCHANGED scenario
  BY DEF Write
<1>2. /\ chain \in Seq(Record) /\ Len(chain) \in Nat /\ scenario.txs \in Nat
      /\ DOMAIN chain = 1 .. Len(chain)
  BY ScenarioFacts DEF LedgerInv
<1>3. /\ chain' \in Seq(Record) /\ Len(chain') = Len(chain) + 1
      /\ chain'[Len(chain) + 1] = i /\ Begins(chain, chain')
  BY <1>1, <1>2, AppendFacts
<1>4. DOMAIN chain' = 1 .. Len(chain) + 1 /\ \A n \in 1 .. Len(chain) : chain'[n] = chain[n]
  BY <1>2, <1>3 DEF Begins
<1>5. Range(chain') \subseteq used' /\ used' \subseteq Record
  <2>1. \A n \in 1 .. Len(chain) + 1 : n \in 1 .. Len(chain) \/ n = Len(chain) + 1
    BY <1>2
  <2>2. \A n \in 1 .. Len(chain) : chain[n] \in used
    BY <1>2 DEF LedgerInv, Range
  <2> QED BY <1>1, <1>3, <1>4, <2>1, <2>2 DEF Range, LedgerInv
<1>6. ASSUME NEW m \in DOMAIN chain', NEW n \in DOMAIN chain', KeyOf(chain'[m]) = KeyOf(chain'[n])
      PROVE  m = n
  <2>1. /\ m \in 1 .. Len(chain) \/ m = Len(chain) + 1
        /\ n \in 1 .. Len(chain) \/ n = Len(chain) + 1
    BY <1>2, <1>4
  <2>2. \A p \in 1 .. Len(chain) : KeyOf(chain[p]) # KeyOf(i)
    BY <1>1, <1>2 DEF Holds
  <2> QED BY <1>2, <1>3, <1>4, <1>6, <2>1, <2>2 DEF LedgerInv
<1> QED BY <1>1, <1>2, <1>3, <1>5, <1>6 DEF LedgerInv, KeyOf

\* A restored ledger is a shorter one.
LEMMA RestoreLedger ==
    ASSUME LedgerInv, Restore
    PROVE  LedgerInv'
<1>1. PICK n \in 1 .. Len(chain) - 1 : chain' = SubSeq(chain, 1, n)
  BY DEF Restore
<1>2. UNCHANGED <<scenario, used>>
  BY DEF Restore
<1>3. /\ chain \in Seq(Record) /\ Len(chain) \in Nat /\ n \in 0 .. Len(chain)
      /\ DOMAIN chain = 1 .. Len(chain) /\ scenario.txs \in Nat /\ Len(chain) <= scenario.txs
  BY ScenarioFacts DEF LedgerInv
<1>4. /\ chain' \in Seq(Record) /\ Len(chain') = n /\ DOMAIN chain' = 1 .. n
      /\ \A m \in 1 .. n : chain'[m] = chain[m] /\ m \in DOMAIN chain
  BY <1>1, <1>3, CutFacts
<1>5. Range(chain') \subseteq used'
  BY <1>2, <1>4 DEF Range, LedgerInv
<1> QED BY <1>2, <1>3, <1>4, <1>5 DEF LedgerInv, KeyOf

\* The signature of a state is valid.
LEMMA SignedFacts ==
    ASSUME NEW n \in Nat, NEW h \in Seq(Record)
    PROVE  /\ SignedState(n, h) \in [db : {"db"}, tx : Nat, hash : Seq(Record), sig : Signatures]
           /\ SignedState(n, h).tx = Len(h) /\ SignedState(n, h).hash = h
           /\ Valid(SignedState(n, h))
<1>1. Signature(n, Len(h), h) \in Signatures
  BY DEF Signature, Signatures
<1>2. Signature(n, Len(h), h) \notin {Junk, Absent}
  BY <1>1, BundleAssumption
<1> QED BY <1>1, <1>2 DEF SignedState, Valid, Signs, Signature

\* A step that does not move the verifier's trust anchor.
LEMMA HeldFrame ==
    ASSUME HeldInv, UNCHANGED held
    PROVE  HeldInv'
BY DEF HeldInv, Valid, Signs

\* A move of the verifier's trust anchor.
LEMMA HeldMoves ==
    ASSUME NEW h \in Seq(Record), held' = SignedState(0, h)
    PROVE  HeldInv'
<1>1. /\ SignedState(0, h) \in [db : {"db"}, tx : Nat, hash : Seq(Record), sig : Signatures]
      /\ SignedState(0, h).tx = Len(h) /\ SignedState(0, h).hash = h
      /\ Valid(SignedState(0, h))
  BY SignedFacts
<1>2. Valid(held)'
  BY <1>1 DEF Valid, Signs
<1> QED BY <1>1, <1>2 DEF HeldInv

\* The one place of a key.
LEMMA TxFacts ==
    ASSUME LedgerInv, NEW k, Holds(chain, k)
    PROVE  /\ TxOf(chain, k) \in 1 .. Len(chain)
           /\ KeyOf(chain[TxOf(chain, k)]) = k
           /\ \A n \in 1 .. Len(chain) : KeyOf(chain[n]) = k => n = TxOf(chain, k)
<1>1. DOMAIN chain = 1 .. Len(chain)
  BY DEF LedgerInv
<1>2. TxOf(chain, k) \in DOMAIN chain /\ KeyOf(chain[TxOf(chain, k)]) = k
  BY DEF Holds, TxOf
<1> QED BY <1>1, <1>2 DEF LedgerInv

\* What is newer than an anchor stays so while the ledger grows.
LEMMA WriteNewer ==
    ASSUME LedgerInv, NEW i \in Record, Write(i), NEW r, NEW k, Newer(r, k),
           r.checkpoint.hash \in Seq(Record)
    PROVE  Newer(r, k)'
<1>1. /\ LedgerInv' /\ chain' = Append(chain, i) /\ chain' \in Seq(Record)
      /\ Len(chain') = Len(chain) + 1 /\ Begins(chain, chain')
      /\ chain \in Seq(Record) /\ Len(chain) \in Nat
  BY WriteLedger DEF LedgerInv
<1>2. TxOf(chain, k) \in 1 .. Len(chain) /\ KeyOf(chain[TxOf(chain, k)]) = k
  BY TxFacts DEF Newer
<1>3. /\ TxOf(chain, k) \in 1 .. Len(chain') /\ KeyOf(chain'[TxOf(chain, k)]) = k
      /\ DOMAIN chain' = 1 .. Len(chain')
  BY <1>1, <1>2 DEF Begins
<1>4. Holds(chain', k)
  BY <1>3 DEF Holds
<1>5. TxOf(chain', k) = TxOf(chain, k)
  <2>1. TxOf(chain', k) \in DOMAIN chain' /\ KeyOf(chain'[TxOf(chain', k)]) = k
    BY <1>4 DEF Holds, TxOf
  <2> QED BY <1>1, <1>3, <2>1 DEF LedgerInv, KeyOf
<1>6. IsPrefix(r.checkpoint.hash, chain')
  <2>1. Begins(r.checkpoint.hash, chain)
    BY <1>1, PrefixFacts DEF Newer
  <2>2. Begins(r.checkpoint.hash, chain')
    BY <1>1, <2>1 DEF Begins
  <2> QED BY <1>1, <2>2, PrefixFacts
<1> QED BY <1>4, <1>5, <1>6 DEF Newer


-----------------------------------------------------------------------------
(* The anchor service.                                                     *)

\* A signed state stays one.
LEMMA TakenFrame ==
    ASSUME NEW s, Taken(s), UNCHANGED scenario
    PROVE  Taken(s)'
BY DEF Taken, Valid, Signs

\* A change of configuration keeps the logs that were known.
LEMMA LogFrame ==
    ASSUME LogInv, UNCHANGED log, now \in Time, now' \in Time, now <= now'
    PROVE  LogInv'
<1>1. UrlsOf(now) \subseteq UrlsOf(now')
  BY EvidenceAssumption
<1> QED BY <1>1 DEF LogInv, EntryAt, UrlsOf

\* The log only grows under the rows.
LEMMA RowsFrame ==
    ASSUME RowsInv, UNCHANGED <<scenario, rows>>, log \subseteq log'
    PROVE  RowsInv'
<1>1. ASSUME NEW r \in rows PROVE Taken(r.checkpoint)'
  BY TakenFrame DEF RowsInv
<1> QED BY <1>1 DEF RowsInv, Row, PayloadOf, AnchorPayload

\* What one anchorer does leaves the other's round as it was.
LEMMA ServiceFrame ==
    ASSUME ServiceInv, UNCHANGED scenario, now' \in Time, now <= now', log \subseteq log',
           NEW a \in Anchorer,
           pc' \in [Anchorer -> {"idle", "submit", "record", "exited"}],
           DOMAIN state' = Anchorer, DOMAIN got' = Anchorer,
           last' \in [Anchorer -> 0 .. scenario.txs],
           config' \in [Anchorer -> 0 .. now'],
           \A b \in Anchorer \ {a} : pc'[b] = pc[b] /\ state'[b] = state[b] /\ got'[b] = got[b],
           pc'[a] \in {"submit", "record"} => Taken(state[a])',
           pc'[a] = "record" => got'[a] \in log' /\ got'[a].digest = PayloadOf(state'[a])
    PROVE  ServiceInv'
<1>1. ASSUME NEW b \in Anchorer
      PROVE  /\ pc'[b] \in {"submit", "record"} => Taken(state[b])'
             /\ pc'[b] = "record" => got'[b] \in log' /\ got'[b].digest = PayloadOf(state'[b])
  <2>1. CASE b = a
    BY <2>1
  <2>2. CASE b # a
    <3>1. pc'[b] = pc[b] /\ state'[b] = state[b] /\ got'[b] = got[b]
      BY <2>2
    <3>2. Taken(state[b]) => Taken(state[b])'
      BY <3>1 DEF Taken, Valid, Signs
    <3> QED BY <3>1, <3>2 DEF ServiceInv, PayloadOf, AnchorPayload
  <2> QED BY <2>1, <2>2
<1> QED BY <1>1 DEF ServiceInv, PayloadOf, AnchorPayload

\* A round that ends, and whatever else the step does.
LEMMA RoundEndsFacts ==
    ASSUME ServiceInv, NEW a \in Anchorer, RoundEnds(a)
    PROVE  /\ pc' \in [Anchorer -> {"idle", "submit", "record", "exited"}]
           /\ DOMAIN state' = Anchorer /\ DOMAIN got' = Anchorer
           /\ \A b \in Anchorer \ {a} : pc'[b] = pc[b] /\ state'[b] = state[b] /\ got'[b] = got[b]
           /\ pc'[a] \notin {"submit", "record"}
<1>1. PICK l \in {"idle", "exited"} : pc' = [pc EXCEPT ![a] = l]
  BY DEF RoundEnds
<1> QED BY <1>1 DEF RoundEnds, ServiceInv

\* The entry that a submission returns.
LEMMA AcceptedFacts ==
    ASSUME LedgerInv, LogInv, ServiceInv, NEW a \in Anchorer, Taken(state[a]),
           Accepts(LogUrl(a)), NEW e \in Accepted(LogUrl(a), PayloadOf(state[a]))
    PROVE  /\ e \in LogEntries
           /\ e = EntryAt(e.keyId, e.logIndex, e.digest)
           /\ e.keyId \in UrlsOf(now)
           /\ e.digest = PayloadOf(state[a])
<1> DEFINE url == LogUrl(a)
           payload == PayloadOf(state[a])
           same == {x \in log : x.keyId = url /\ x.digest = payload}
           next == Cardinality({x \in log : x.keyId = url}) + 1
<1>1. CASE same # {}
  <2>1. e \in log /\ e.digest = payload
    BY <1>1 DEF Accepted
  <2> QED BY <2>1 DEF LogInv
<1>2. CASE same = {}
  <2>1. e = EntryAt(url, next, payload)
    BY <1>2 DEF Accepted
  <2>2. next \in Nat
    <3>1. {x \in log : x.keyId = url} \subseteq log /\ IsFiniteSet(log)
      BY DEF LogInv
    <3>2. Cardinality({x \in log : x.keyId = url}) \in Nat
      BY <3>1, FS_Subset, FS_CardinalityType
    <3> QED BY <3>2
  <2>3. url \in UrlsOf(now)
    BY DEF Accepts, UrlsOf
  <2>4. now \in Time /\ url \in Urls
    BY <2>3 DEF ServiceInv, Urls
  <2>5. payload \in Payloads
    <3>1. /\ state[a].db = "db" /\ state[a].tx \in 1 .. scenario.txs
          /\ state[a].hash \in Seq(Record) /\ state[a].sig \in Signatures
      BY DEF Taken
    <3>2. state[a].tx \in Nat
      BY <3>1, ScenarioFacts DEF LedgerInv
    <3> QED BY <3>1, <3>2 DEF PayloadOf, AnchorPayload, Payloads
  <2>6. /\ e.digest = payload /\ e.keyId = url /\ e.logIndex = next
        /\ e = EntryAt(e.keyId, e.logIndex, e.digest)
    BY <2>1 DEF EntryAt
  <2>7. e \in LogEntries
    <3> HIDE DEF url, payload, next
    <3> QED BY <2>1, <2>2, <2>4, <2>5 DEF EntryAt, LogEntries, Submissions, Proofs
  <2> QED BY <2>3, <2>6, <2>7
<1> QED BY <1>1, <1>2

\* A fetched state is the ledger's own, signed.
LEMMA FetchStateStep ==
    ASSUME LedgerInv, LogInv, ServiceInv, RowsInv, NEW a \in Anchorer, FetchState(a)
    PROVE  LogInv' /\ ServiceInv' /\ RowsInv'
<1>1. /\ UNCHANGED <<scenario, now, log, rows, got, last, config>>
      /\ pc' = [pc EXCEPT ![a] = "submit"] /\ chain # <<>>
  BY DEF FetchState, ledger
<1>2. PICK n \in 1 .. scenario.nonces, sign \in BOOLEAN :
        LET s == SignedState(n, chain)
            head == IF sign THEN s ELSE [s EXCEPT !.sig = Junk]
        IN  HeadChecked(head) /\ state' = [state EXCEPT ![a] = head]
  BY DEF FetchState
<1>3. sign
  BY <1>2 DEF HeadChecked, Valid, Signs, SignedState
<1>4. state' = [state EXCEPT ![a] = SignedState(n, chain)]
  BY <1>2, <1>3
<1>5. /\ n \in Nat /\ chain \in Seq(Record) /\ Len(chain) \in 1 .. scenario.txs
  <2>1. scenario.nonces \in Nat /\ scenario.txs \in Nat /\ chain \in Seq(Record) /\ Len(chain) <= scenario.txs
    BY ScenarioFacts DEF LedgerInv
  <2>2. Len(chain) # 0
    BY <1>1, <2>1
  <2> QED BY <2>1, <2>2
<1>6. Taken(SignedState(n, chain))
  <2>1. /\ SignedState(n, chain) \in [db : {"db"}, tx : Nat, hash : Seq(Record), sig : Signatures]
        /\ SignedState(n, chain).tx = Len(chain) /\ SignedState(n, chain).hash = chain
        /\ Valid(SignedState(n, chain))
    BY <1>5, SignedFacts
  <2> QED BY <1>5, <2>1 DEF Taken
<1>7. state'[a] = SignedState(n, chain) /\ pc'[a] = "submit"
  BY <1>1, <1>4 DEF ServiceInv
<1>8. Taken(state[a])'
  BY <1>1, <1>6, <1>7 DEF Taken, Valid, Signs
<1>9. ServiceInv'
  <2>1. /\ pc' \in [Anchorer -> {"idle", "submit", "record", "exited"}]
        /\ DOMAIN state' = Anchorer /\ DOMAIN got' = Anchorer
        /\ last' \in [Anchorer -> 0 .. scenario.txs] /\ config' \in [Anchorer -> 0 .. now']
        /\ now' \in Time /\ now <= now' /\ log \subseteq log'
        /\ \A b \in Anchorer \ {a} : pc'[b] = pc[b] /\ state'[b] = state[b] /\ got'[b] = got[b]
    BY <1>1, <1>4 DEF ServiceInv, Time
  <2> QED BY <1>1, <1>7, <1>8, <2>1, ServiceFrame
<1>10. now \in Time /\ now' \in Time /\ now <= now'
  BY <1>1 DEF ServiceInv, Time
<1> QED BY <1>1, <1>9, <1>10, LogFrame, RowsFrame


\* The parts that most steps of a round leave alone.
LEMMA RoundFrame ==
    ASSUME LogInv, ServiceInv, RowsInv, NEW a \in Anchorer, RoundEnds(a),
           UNCHANGED <<scenario, now>>, log \subseteq log', LogInv',
           last' \in [Anchorer -> 0 .. scenario.txs], config' \in [Anchorer -> 0 .. now]
    PROVE  ServiceInv'
<1>1. now' \in Time /\ now <= now' /\ now' = now
  BY DEF ServiceInv, Time
<1>2. /\ pc' \in [Anchorer -> {"idle", "submit", "record", "exited"}]
      /\ DOMAIN state' = Anchorer /\ DOMAIN got' = Anchorer
      /\ \A b \in Anchorer \ {a} : pc'[b] = pc[b] /\ state'[b] = state[b] /\ got'[b] = got[b]
      /\ pc'[a] \notin {"submit", "record"}
  BY RoundEndsFacts
<1> QED BY <1>1, <1>2, ServiceFrame

\* After submit the log has the entry, and the round holds it or has ended.
LEMMA SubmitStep ==
    ASSUME LedgerInv, LogInv, ServiceInv, RowsInv, NEW a \in Anchorer, Submit(a)
    PROVE  LogInv' /\ ServiceInv' /\ RowsInv' /\ log \subseteq log' /\ UNCHANGED rows
<1>1. /\ pc[a] = "submit" /\ Accepts(LogUrl(a)) /\ UNCHANGED <<scenario, now, rows, last>>
      /\ config' = [config EXCEPT ![a] = Fetched(a)] /\ Taken(state[a])
  BY DEF Submit, ledger, ServiceInv
<1>2. PICK e \in Accepted(LogUrl(a), PayloadOf(state[a])) :
        /\ log' = log \cup {e}
        /\ \/ /\ got' = [got EXCEPT ![a] = e] /\ pc' = [pc EXCEPT ![a] = "record"]
              /\ UNCHANGED state
           \/ RoundEnds(a)
  BY DEF Submit, PayloadOf
<1>3. /\ e \in LogEntries /\ e = EntryAt(e.keyId, e.logIndex, e.digest)
      /\ e.keyId \in UrlsOf(now) /\ e.digest = PayloadOf(state[a])
  BY <1>1, AcceptedFacts
<1>4. LogInv'
  <2>1. IsFiniteSet(log')
    BY <1>2, FS_AddElement DEF LogInv
  <2>2. ASSUME NEW x \in log' PROVE x \in LogEntries /\ x = EntryAt(x.keyId, x.logIndex, x.digest)
                                    /\ x.keyId \in UrlsOf(now)
    BY <1>2, <1>3 DEF LogInv
  <2> QED BY <1>1, <2>1, <2>2 DEF LogInv, EntryAt, UrlsOf
<1>5. config' \in [Anchorer -> 0 .. now]
  <2>1. Fetched(a) \in 0 .. now
    BY DEF ServiceInv, Fetched, Time
  <2> QED BY <1>1, <2>1 DEF ServiceInv
<1>6. log \subseteq log' /\ last' \in [Anchorer -> 0 .. scenario.txs] /\ now' \in Time /\ now <= now'
      /\ now' = now
  BY <1>1, <1>2 DEF ServiceInv, Time
<1>7. ServiceInv'
  <2>1. CASE RoundEnds(a)
    BY <1>1, <1>4, <1>5, <1>6, <2>1, RoundFrame
  <2>2. CASE /\ got' = [got EXCEPT ![a] = e] /\ pc' = [pc EXCEPT ![a] = "record"]
             /\ UNCHANGED state
    <3>1. /\ pc' \in [Anchorer -> {"idle", "submit", "record", "exited"}]
          /\ DOMAIN state' = Anchorer /\ DOMAIN got' = Anchorer
          /\ \A b \in Anchorer \ {a} : pc'[b] = pc[b] /\ state'[b] = state[b] /\ got'[b] = got[b]
          /\ got'[a] = e /\ state'[a] = state[a]
      BY <2>2 DEF ServiceInv
    <3>2. Taken(state[a])'
      BY <1>1, <3>1 DEF Taken, Valid, Signs
    <3>3. got'[a] \in log' /\ got'[a].digest = PayloadOf(state'[a])
      BY <1>2, <1>3, <3>1
    <3> QED BY <1>1, <1>5, <1>6, <3>1, <3>2, <3>3, ServiceFrame
  <2> QED BY <1>2, <2>1, <2>2
<1> QED BY <1>1, <1>4, <1>6, <1>7, RowsFrame

\* POST /anchors.
LEMMA RecordStep ==
    ASSUME LedgerInv, LogInv, ServiceInv, RowsInv, NEW a \in Anchorer, RecordAnchor(a)
    PROVE  LogInv' /\ ServiceInv' /\ RowsInv' /\ rows \subseteq rows' /\ UNCHANGED log
<1>1. /\ pc[a] = "record" /\ rows' = Recorded(state[a], got[a]) /\ RoundEnds(a)
      /\ UNCHANGED <<scenario, now, log, config>>
      /\ last' = [last EXCEPT ![a] = state[a].tx] \/ UNCHANGED last
  BY DEF RecordAnchor, ledger
<1>2. Taken(state[a]) /\ got[a] \in log /\ got[a].digest = PayloadOf(state[a])
  BY <1>1 DEF ServiceInv
<1>3. now \in Time /\ now' \in Time /\ now <= now'
  BY <1>1 DEF ServiceInv, Time
<1>4. LogInv'
  BY <1>1, <1>3, LogFrame
<1>5. ServiceInv'
  <2>1. state[a].tx \in 0 .. scenario.txs
    BY <1>2, ScenarioFacts DEF Taken, LedgerInv
  <2>2. last' \in [Anchorer -> 0 .. scenario.txs] /\ config' \in [Anchorer -> 0 .. now]
    BY <1>1, <2>1 DEF ServiceInv
  <2> QED BY <1>1, <1>4, <2>2, RoundFrame
<1>6. RowsInv' /\ rows \subseteq rows'
  <2>1. CASE rows' = rows
    BY <1>1, <2>1, RowsFrame
  <2>2. CASE rows' # rows
    <3>1. /\ \A r \in rows : r.tx # state[a].tx
          /\ rows' = rows \cup {Row(state[a], got[a])}
      BY <1>1, <2>2 DEF Recorded
    <3> DEFINE new == Row(state[a], got[a])
    <3>2. /\ new.checkpoint = state[a] /\ new.entry = got[a] /\ new.tx = state[a].tx
          /\ new = Row(new.checkpoint, new.entry)
      BY DEF Row
    <3>3. ASSUME NEW r \in rows'
          PROVE  /\ r = Row(r.checkpoint, r.entry) /\ Taken(r.checkpoint)
                 /\ r.entry \in log /\ r.entry.digest = PayloadOf(r.checkpoint)
      <4> HIDE DEF new
      <4>1. CASE r \in rows
        BY <4>1 DEF RowsInv
      <4>2. CASE r = new
        BY <1>2, <3>2, <4>2
      <4> QED BY <3>1, <4>1, <4>2 DEF new
    <3>4. ASSUME NEW r \in rows' PROVE Taken(r.checkpoint)'
      BY <1>1, <3>3, TakenFrame
    <3>5. ASSUME NEW r \in rows', NEW o \in rows', r.tx = o.tx PROVE r = o
      <4> HIDE DEF new
      <4>1. /\ r \in rows \/ r = new
            /\ o \in rows \/ o = new
        BY <3>1 DEF new
      <4> QED BY <3>1, <3>2, <3>5, <4>1 DEF RowsInv
    <3> HIDE DEF new
    <3> QED BY <1>1, <3>1, <3>3, <3>4, <3>5 DEF RowsInv, Row, PayloadOf, AnchorPayload
  <2> QED BY <2>1, <2>2
<1> QED BY <1>1, <1>4, <1>5, <1>6

\* Every step of the service, and a restart of the loop.
LEMMA ServiceStep ==
    ASSUME LedgerInv, LogInv, ServiceInv, RowsInv,
           (\E a \in Anchorer : AnchorService(a)) \/ Restart
    PROVE  LogInv' /\ ServiceInv' /\ RowsInv' /\ rows \subseteq rows'
<1>0. now \in Time /\ now <= now
  BY DEF ServiceInv, Time
<1>1. ASSUME NEW a \in Anchorer, FetchState(a)
      PROVE LogInv' /\ ServiceInv' /\ RowsInv' /\ rows \subseteq rows'
  BY <1>1, FetchStateStep DEF FetchState
<1>2. ASSUME NEW a \in Anchorer, Submit(a)
      PROVE LogInv' /\ ServiceInv' /\ RowsInv' /\ rows \subseteq rows'
  BY <1>2, SubmitStep
<1>3. ASSUME NEW a \in Anchorer, LogRefuses(a) \/ RoundFails(a)
      PROVE LogInv' /\ ServiceInv' /\ RowsInv' /\ rows \subseteq rows'
  <2>1. /\ RoundEnds(a) /\ UNCHANGED <<scenario, now, log, rows, last>>
        /\ config' = [config EXCEPT ![a] = Fetched(a)] \/ UNCHANGED config
    BY <1>3 DEF LogRefuses, RoundFails, ledger
  <2>2. Fetched(a) \in 0 .. now
    BY DEF ServiceInv, Fetched, Time
  <2>3. last' \in [Anchorer -> 0 .. scenario.txs] /\ config' \in [Anchorer -> 0 .. now]
    BY <2>1, <2>2 DEF ServiceInv
  <2>4. LogInv' /\ RowsInv'
    BY <1>0, <2>1, LogFrame, RowsFrame
  <2> QED BY <2>1, <2>3, <2>4, RoundFrame
<1>4. ASSUME NEW a \in Anchorer, ConfigExpires(a)
      PROVE LogInv' /\ ServiceInv' /\ RowsInv' /\ rows \subseteq rows'
  <2>1. /\ UNCHANGED <<scenario, now, log, rows, pc, state, got, last>>
        /\ config' = [config EXCEPT ![a] = 0]
    BY <1>4 DEF ConfigExpires, ledger
  <2>2. config' \in [Anchorer -> 0 .. now]
    BY <1>0, <2>1 DEF ServiceInv, Time
  <2>3. Taken(state[a]) => Taken(state[a])'
    BY <2>1 DEF Taken, Valid, Signs
  <2>4. ServiceInv'
    BY <1>0, <2>1, <2>2, <2>3, ServiceFrame DEF ServiceInv
  <2> QED BY <1>0, <2>1, <2>4, LogFrame, RowsFrame
<1>5. ASSUME NEW a \in Anchorer, RecordAnchor(a)
      PROVE LogInv' /\ ServiceInv' /\ RowsInv' /\ rows \subseteq rows'
  BY <1>5, RecordStep
<1>6. CASE Restart
  <2>1. /\ RoundEnds("loop") /\ "loop" \in Anchorer /\ UNCHANGED <<scenario, now, log, rows>>
        /\ last' = [last EXCEPT !["loop"] = 0] /\ config' = [config EXCEPT !["loop"] = 0]
    BY <1>6 DEF Restart, ledger, Anchorer
  <2>2. 0 \in 0 .. scenario.txs /\ 0 \in 0 .. now
    BY <1>0, ScenarioFacts DEF LedgerInv, Time
  <2>3. last' \in [Anchorer -> 0 .. scenario.txs] /\ config' \in [Anchorer -> 0 .. now]
    BY <2>1, <2>2 DEF ServiceInv
  <2>4. LogInv' /\ RowsInv'
    BY <1>0, <2>1, LogFrame, RowsFrame
  <2> QED BY <2>1, <2>3, <2>4, RoundFrame
<1> QED BY <1>1, <1>2, <1>3, <1>4, <1>5, <1>6 DEF AnchorService


-----------------------------------------------------------------------------
(* The export.                                                             *)

\* Among the rows there is a newest one.
LEMMA NewestFacts ==
    ASSUME LedgerInv, RowsInv, rows # {}
    PROVE  NewestRow \in rows
<1> DEFINE S == {r.tx : r \in rows}
<1>1. scenario.txs \in Nat
  BY ScenarioFacts DEF LedgerInv
<1>2. ASSUME NEW r \in rows PROVE r.tx \in 0 .. scenario.txs
  <2>1. r.tx = r.checkpoint.tx
    BY DEF RowsInv, Row
  <2> QED BY <1>1, <2>1 DEF RowsInv, Taken
<1>3. S \subseteq 0 .. scenario.txs /\ S # {}
  BY <1>2
<1>4. PICK x \in S : \A y \in S : y <= x
  <2> HIDE DEF S
  <2> QED BY <1>1, <1>3, Greatest
<1>5. \E r \in rows : \A o \in rows : o.tx <= r.tx
  BY <1>4
<1> QED BY <1>5 DEF NewestRow

\* The entry that VerifiableGet answers for a key the ledger holds.
LEMMA EntryFacts ==
    ASSUME LedgerInv, NEW k, Holds(chain, k), NEW since \in Nat, since <= Len(chain)
    PROVE  LET e == VerifiableEntry(k, since)
           IN  /\ e \in ProvedEntries
               /\ e.tx = TxOf(chain, k) /\ e.since = since
               /\ e.tx \in 1 .. Len(e.hist) /\ since <= Len(e.hist)
               /\ Begins(e.hist, chain)
               /\ e.timestamp = e.value
<1> DEFINE tx == TxOf(chain, k)
           m == Max({since, tx})
<1>1. tx \in 1 .. Len(chain) /\ chain \in Seq(Record) /\ Len(chain) \in Nat
  BY TxFacts DEF LedgerInv
<1>2. m \in {since, tx} /\ since <= m /\ tx <= m
  <2> HIDE DEF tx
  <2>1. \E x \in {since, tx} : \A y \in {since, tx} : x >= y
    BY <1>1
  <2> QED BY <1>1, <2>1 DEF Max
<1>3. m \in 0 .. Len(chain) /\ m \in Nat /\ tx \in 1 .. m
  <2> HIDE DEF tx, m
  <2> QED BY <1>1, <1>2
<1> HIDE DEF tx, m
<1>4. /\ SubSeq(chain, 1, m) \in Seq(Record) /\ Len(SubSeq(chain, 1, m)) = m
      /\ \A i \in 1 .. m : SubSeq(chain, 1, m)[i] = chain[i]
  BY <1>1, <1>3, CutFacts
<1>5. Begins(SubSeq(chain, 1, m), chain)
  BY <1>3, <1>4 DEF Begins
<1>6. chain[tx] \in Record /\ tx \in Nat
  BY <1>1, Members
<1>7. VerifiableEntry(k, since) =
        [value |-> chain[tx], tx |-> tx, timestamp |-> chain[tx], since |-> since,
         hist |-> SubSeq(chain, 1, m)]
  BY DEF VerifiableEntry, tx, m
<1> QED BY <1>2, <1>3, <1>4, <1>5, <1>6, <1>7 DEF ProvedEntries, tx

\* What a bundle holds that was made from a proof.
LEMMA BundleFacts ==
    ASSUME LedgerInv, NEW k, Holds(chain, k), NEW s, NEW r,
           s.db = "db", s.tx \in Nat, s.hash \in Seq(Record), s.tx <= Len(chain),
           (s.sig = Absent /\ s.tx = 0) \/ Valid(s),
           Proves(VerifiableEntry(k, s.tx), s.tx, s.hash, k),
           r # Absent => s = r.checkpoint
    PROVE  /\ Exported(Bundle(s, k, r), r)
           /\ Bundle(s, k, r).tx_id = TxOf(chain, k)
           /\ Bundle(s, k, r).source_tx = s.tx
           /\ Bundle(s, k, r).entry = VerifiableEntry(k, s.tx)
<1> DEFINE e == VerifiableEntry(k, s.tx)
           f == Bundle(s, k, r)
<1>1. e \in ProvedEntries /\ e.tx = TxOf(chain, k)
  BY EntryFacts
<1> HIDE DEF e
<1>2. /\ f.bundle_format = "bundle/1" /\ f.proof_format = "proof/2"
      /\ f.key_fp = "ledger key" /\ f.proof_fp = "ledger key"
      /\ f.ledger_key = k /\ f.value = e.value /\ f.tx_id = e.tx /\ f.timestamp = e.timestamp
      /\ f.record_type = RecordTypeOf(e.value) /\ f.source_db = s.db /\ f.source_tx = s.tx
      /\ f.source_hash = s.hash /\ f.source_sig = s.sig /\ f.entry = e
      /\ f.prove_since_tx = s.tx /\ f.entry_tx_id = e.tx
  BY DEF Bundle, e
<1>3. /\ f.state = Section(r).state /\ f.detail = Section(r).detail
      /\ f.log_url = Section(r).log_url /\ f.log_index = Section(r).log_index
      /\ f.anchor_fp = Section(r).anchor_fp /\ f.log_entry = Section(r).log_entry
      /\ f.anchor_payload_format = Section(r).anchor_payload_format
  BY DEF Bundle
<1> HIDE DEF f
<1>4. RecordTypeOf(e.value) = record_type_of(e.value)
  BY DEF RecordTypeOf, record_type_of
<1>5. Copies(f)
  BY <1>2, <1>4 DEF Copies
<1>6. r = Absent =>
        /\ f.state = "not_anchored" /\ f.detail = "none" /\ f.log_entry = Absent
        /\ f.log_url = Absent /\ f.log_index = Absent /\ f.anchor_fp = Absent
        /\ f.anchor_payload_format = Absent
  BY <1>3 DEF Section
<1>7. r # Absent =>
        /\ f.state = "anchored" /\ f.detail = Absent /\ f.log_entry = r.entry
        /\ f.log_url = r.log_url /\ f.log_index = r.log_index
        /\ f.anchor_fp = r.anchor_fp /\ f.anchor_payload_format = r.anchor_payload_format
  BY <1>3 DEF Section
<1>8. r # Absent => BundlePayload(f) = AnchorPayload(r.checkpoint.db, r.checkpoint.tx,
                                                     r.checkpoint.hash, r.checkpoint.sig)
  BY <1>2 DEF BundlePayload
<1>9. Proves(f.entry, f.source_tx, f.source_hash, f.ledger_key)
  BY <1>2 DEF e
<1>10. \/ f.source_sig = Absent /\ f.source_tx = 0
       \/ Signs(f.source_sig, f.source_db, f.source_tx, f.source_hash)
  BY <1>2 DEF Valid
<1>11. DOMAIN f = BundleFields
  BY DEF f, Bundle, BundleFields
<1>12. ProofPart(f)
  BY <1>1, <1>2, <1>5, <1>9, <1>10, <1>11 DEF ProofPart
<1>13. Exported(f, r)
  BY <1>6, <1>7, <1>8, <1>12 DEF Exported, AnchorPart
<1> QED BY <1>1, <1>2, <1>13 DEF f, e

\* What POST /verify says, and what it has checked when it says it.
LEMMA PinnedClass ==
    ASSUME NEW s, NEW k, s.tx \in Nat, Len(chain) \in Nat,
           VerifyClass(s, k, TRUE) \in {"verified", "anchor_precedes_record"}
    PROVE  /\ Holds(chain, k) /\ s.tx <= Len(chain)
           /\ Proves(VerifiableEntry(k, s.tx), s.tx, s.hash, k)
           /\ VerifyClass(s, k, TRUE) = "verified" => ~(TxOf(chain, k) > s.tx)
           /\ VerifyClass(s, k, TRUE) = "anchor_precedes_record" => TxOf(chain, k) > s.tx
<1>1. /\ Holds(chain, k) /\ ~(s.tx > Len(chain))
      /\ Proves(VerifiableEntry(k, s.tx), s.tx, s.hash, k)
  BY DEF VerifyClass
<1>2. /\ VerifyClass(s, k, TRUE) = "verified" => ~(TxOf(chain, k) > s.tx)
      /\ VerifyClass(s, k, TRUE) = "anchor_precedes_record" => TxOf(chain, k) > s.tx
  BY DEF VerifyClass
<1>3. s.tx <= Len(chain)
  BY <1>1
<1> QED BY <1>1, <1>2, <1>3

\* What a proof from the verifier's own trust anchor has established.
LEMMA OwnClass ==
    ASSUME NEW s, NEW k, s.tx \in Nat, Len(chain) \in Nat,
           VerifyClass(s, k, FALSE) = "verified"
    PROVE  /\ Holds(chain, k) /\ s.tx <= Len(chain)
           /\ Proves(VerifiableEntry(k, s.tx), s.tx, s.hash, k)
<1>1. /\ Holds(chain, k) /\ ~(s.tx > Len(chain))
      /\ Proves(VerifiableEntry(k, s.tx), s.tx, s.hash, k)
  BY DEF VerifyClass
<1> QED BY <1>1

\* The anchor lies on the ledger's history when a proof from it succeeds.
LEMMA OnHistory ==
    ASSUME LedgerInv, NEW k, Holds(chain, k), NEW s, s.hash \in Seq(Record),
           s.tx \in Nat, s.tx <= Len(chain),
           Proves(VerifiableEntry(k, s.tx), s.tx, s.hash, k)
    PROVE  IsPrefix(s.hash, chain)
<1> DEFINE e == VerifiableEntry(k, s.tx)
<1>1. e.hist \in Seq(Record) /\ Begins(e.hist, chain) /\ chain \in Seq(Record)
  BY EntryFacts DEF LedgerInv, ProvedEntries
<1>2. IsPrefix(s.hash, e.hist)
  BY DEF Proves
<1> HIDE DEF e
<1>3. Begins(s.hash, e.hist)
  BY <1>1, <1>2, PrefixFacts
<1>4. Begins(s.hash, chain)
  BY <1>1, <1>3 DEF Begins
<1> QED BY <1>1, <1>4, PrefixFacts


\* A step that leaves the export and the anchors alone.
LEMMA ExportFrame ==
    ASSUME ExportInv, UNCHANGED <<chain, export>>, rows \subseteq rows'
    PROVE  ExportInv'
BY DEF ExportInv, Newer, Holds, TxOf, KeyOf

\* A step after which no file is answered.
LEMMA AnswerGone ==
    ASSUME answer' = NoAnswer
    PROVE  AnswerInv'
BY DEF AnswerInv, NoAnswer

\* An export that is over.
LEMMA ExportIdle ==
    ASSUME export' = Idle
    PROVE  ExportInv'
BY DEF ExportInv, Idle

\* GET /audit/bundle reads the newest row.
LEMMA ReadStep ==
    ASSUME LedgerInv, RowsInv, NEW k, ReadAnchor(k)
    PROVE  ExportInv'
<1>1. /\ export' = [step |-> IF NewestRow = Absent THEN "own" ELSE "pinned",
                    key |-> k, anchor |-> NewestRow, read |-> NewestRow]
      /\ UNCHANGED rows
  BY DEF ReadAnchor, anchoring
<1>2. CASE NewestRow = Absent
  <2>1. /\ export'.step = "own" /\ export'.anchor = Absent /\ export'.read = Absent
        /\ DOMAIN export' = {"step", "key", "anchor", "read"}
    BY <1>1, <1>2
  <2> QED BY <2>1 DEF ExportInv
<1>3. CASE NewestRow # Absent
  <2>1. /\ export'.step = "pinned" /\ export'.anchor = NewestRow /\ export'.read = NewestRow
        /\ DOMAIN export' = {"step", "key", "anchor", "read"}
    BY <1>1, <1>3
  <2>2. NewestRow \in rows
    BY <1>3, NewestFacts DEF NewestRow
  <2> QED BY <1>1, <1>3, <2>1, <2>2 DEF ExportInv
<1> QED BY <1>2, <1>3

\* The first call: from the row that was read.
LEMMA PinnedStep ==
    ASSUME LedgerInv, RowsInv, ExportInv, VerifyPinned
    PROVE  ExportInv' /\ AnswerInv'
<1>1. /\ export.step = "pinned" /\ UNCHANGED <<chain, rows>>
      /\ export.anchor \in rows /\ export.anchor # Absent /\ export.read = export.anchor
      /\ DOMAIN export = {"step", "key", "anchor", "read"}
  BY DEF VerifyPinned, ledger, anchoring, ExportInv
<1> DEFINE r == export.anchor
           k == export.key
           s == export.anchor.checkpoint
           class == VerifyClass(s, k, TRUE)
<1>2. /\ Taken(s) /\ r.tx = s.tx
  BY <1>1 DEF RowsInv, Row
<1>3. /\ s.db = "db" /\ s.tx \in Nat /\ s.hash \in Seq(Record) /\ Valid(s) /\ Len(chain) \in Nat
  BY <1>2, ScenarioFacts DEF Taken, LedgerInv
<1>4. \/ class = "verified" /\ Answer(Bundle(s, k, r))
      \/ Refuse
      \/ /\ class = "anchor_precedes_record"
         /\ export' = [export EXCEPT !.step = "own", !.anchor = Absent]
         /\ answer' = NoAnswer
  BY DEF VerifyPinned, AfterPinned
<1>5. CASE class = "verified" /\ Answer(Bundle(s, k, r))
  <2>1. /\ answer'.bundle = Bundle(s, k, r) /\ answer'.read = r /\ export' = Idle
    BY <1>1, <1>5 DEF Answer
  <2>2. /\ Holds(chain, k) /\ s.tx <= Len(chain) /\ ~(TxOf(chain, k) > s.tx)
        /\ Proves(VerifiableEntry(k, s.tx), s.tx, s.hash, k)
    BY <1>3, <1>5, PinnedClass
  <2>3. /\ Exported(Bundle(s, k, r), r)
        /\ Bundle(s, k, r).tx_id = TxOf(chain, k) /\ Bundle(s, k, r).source_tx = s.tx
    BY <1>3, <2>2, BundleFacts
  <2>4. TxOf(chain, k) \in Nat
    BY <2>2, TxFacts
  <2>5. TxOf(chain, k) <= s.tx
    <3> HIDE DEF s, k, r, class
    <3> QED BY <1>3, <2>2, <2>4
  <2> HIDE DEF s, k, r, class
  <2>6. AnswerInv'
    BY <1>1, <2>1, <2>3, <2>5 DEF AnswerInv, r
  <2> QED BY <2>1, <2>6, ExportIdle
<1>6. CASE Refuse
  BY <1>6, ExportIdle, AnswerGone DEF Refuse
<1>7. CASE /\ class = "anchor_precedes_record"
           /\ export' = [export EXCEPT !.step = "own", !.anchor = Absent]
           /\ answer' = NoAnswer
  <2>1. /\ export'.step = "own" /\ export'.anchor = Absent /\ export'.read = r /\ export'.key = k
        /\ DOMAIN export' = {"step", "key", "anchor", "read"}
    BY <1>1, <1>7
  <2>2. /\ Holds(chain, k) /\ s.tx <= Len(chain) /\ TxOf(chain, k) > s.tx
        /\ Proves(VerifiableEntry(k, s.tx), s.tx, s.hash, k)
    BY <1>3, <1>7, PinnedClass
  <2>3. IsPrefix(s.hash, chain)
    BY <1>3, <2>2, OnHistory
  <2>4. Newer(r, k)
    BY <1>2, <2>2, <2>3 DEF Newer
  <2>5. Newer(export.read, export.key)'
    BY <1>1, <2>1, <2>4 DEF Newer, Holds, TxOf, KeyOf
  <2>6. ExportInv'
    BY <1>1, <2>1, <2>5 DEF ExportInv
  <2> QED BY <1>7, <2>6, AnswerGone
<1> QED BY <1>4, <1>5, <1>6, <1>7

\* The second: from the verifier's own anchor, which it moves.
LEMMA OwnStep ==
    ASSUME LedgerInv, HeldInv, RowsInv, ExportInv, VerifyOwn
    PROVE  ExportInv' /\ AnswerInv' /\ HeldInv'
<1> DEFINE k == export.key
           f == Bundle(held, k, Absent)
<1>1. /\ export.step = "own" /\ UNCHANGED <<chain, rows>>
      /\ export.read # Absent => export.read \in rows /\ Newer(export.read, k)
  BY DEF VerifyOwn, anchoring, ExportInv
<1>2. /\ held.db = "db" /\ held.tx \in Nat /\ held.hash \in Seq(Record)
      /\ (held.sig = Absent /\ held.tx = 0) \/ Valid(held)
      /\ Len(chain) \in Nat
  BY DEF HeldInv, LedgerInv
<1>3. CASE VerifyClass(held, k, FALSE) # "verified"
  BY <1>3, ExportIdle, AnswerGone, HeldFrame DEF VerifyOwn, Refuse
<1>4. CASE VerifyClass(held, k, FALSE) = "verified"
  <2>1. /\ answer'.bundle = f /\ answer'.read = export.read /\ export' = Idle
        /\ held' = SignedState(0, f.entry.hist)
    BY <1>4 DEF VerifyOwn, Answer
  <2>2. /\ Holds(chain, k) /\ held.tx <= Len(chain)
        /\ Proves(VerifiableEntry(k, held.tx), held.tx, held.hash, k)
    BY <1>2, <1>4, OwnClass
  <2>3. /\ Exported(f, Absent) /\ f.tx_id = TxOf(chain, k)
        /\ f.entry = VerifiableEntry(k, held.tx)
    BY <1>2, <2>2, BundleFacts
  <2>4. /\ f.entry.hist \in Seq(Record) /\ Begins(f.entry.hist, chain)
        /\ f.entry.tx = TxOf(chain, k) /\ TxOf(chain, k) \in 1 .. Len(f.entry.hist)
    BY <1>2, <2>2, <2>3, EntryFacts DEF ProvedEntries
  <2>5. HeldInv'
    BY <2>1, <2>4, HeldMoves
  <2>6. ASSUME export.read # Absent
        PROVE  f.tx_id > export.read.tx /\ IsPrefix(export.read.checkpoint.hash, f.entry.hist)
    <3> DEFINE h == export.read.checkpoint.hash
    <3>1. /\ export.read \in rows /\ IsPrefix(h, chain) /\ TxOf(chain, k) > export.read.tx
      BY <1>1, <2>6 DEF Newer
    <3>2. Taken(export.read.checkpoint) /\ export.read.tx = export.read.checkpoint.tx
      BY <3>1 DEF RowsInv, Row
    <3>3. h \in Seq(Record) /\ export.read.tx = Len(h)
      BY <3>2 DEF Taken
    <3>4. chain \in Seq(Record)
      BY DEF LedgerInv
    <3> HIDE DEF f, k, h
    <3>5. Begins(h, chain)
      BY <3>1, <3>3, <3>4, PrefixFacts
    <3>6. Len(h) <= Len(f.entry.hist)
      BY <2>4, <3>1, <3>3
    <3>7. Begins(h, f.entry.hist)
      BY <2>4, <3>3, <3>5, <3>6 DEF Begins
    <3>8. IsPrefix(h, f.entry.hist)
      BY <2>4, <3>3, <3>7, PrefixFacts
    <3> QED BY <2>3, <3>1, <3>8 DEF h
  <2> HIDE DEF f, k
  <2>7. AnswerInv'
    BY <2>1, <2>3, <2>6 DEF AnswerInv
  <2> QED BY <2>1, <2>5, <2>7, ExportIdle
<1> QED BY <1>3, <1>4


-----------------------------------------------------------------------------
(* The invariant.                                                          *)

\* The initial states.
LEMMA Initial ==
    Init => IInv
<1> SUFFICES ASSUME Init PROVE IInv
  OBVIOUS
<1>1. /\ scenario.txs \in Nat /\ Len(Config) \in Nat \ {0}
  BY ScenarioFacts DEF Init
<1>2. LedgerInv
  BY <1>1 DEF Init, LedgerInv, Range
<1>3. HeldInv
  <2>1. held = EmptyState
    BY DEF Init
  <2> QED BY <2>1 DEF HeldInv, EmptyState
<1>4. LogInv
  BY FS_EmptySet DEF Init, LogInv
<1>5. ServiceInv
  <2>1. 1 \in Time /\ 0 \in 0 .. scenario.txs /\ 0 \in 0 .. 1
    BY <1>1 DEF Time
  <2>2. \A a \in Anchorer : pc[a] \in {"idle", "exited"}
    BY DEF Init
  <2>3. pc \in [Anchorer -> {"idle", "submit", "record", "exited"}]
    BY DEF Init
  <2> QED BY <2>1, <2>2, <2>3 DEF Init, ServiceInv
<1>6. RowsInv
  BY DEF Init, RowsInv
<1>7. ExportInv
  BY DEF Init, ExportInv, Idle
<1>8. AnswerInv
  BY DEF Init, AnswerInv, NoAnswer
<1> QED BY <1>2, <1>3, <1>4, <1>5, <1>6, <1>7, <1>8 DEF IInv

\* The steps that leave the anchor service alone.
LEMMA AnchoringFrame ==
    ASSUME LedgerInv, LogInv, ServiceInv, RowsInv,
           UNCHANGED scenario, UNCHANGED anchoring, now' \in Time, now <= now'
    PROVE  LogInv' /\ ServiceInv' /\ RowsInv' /\ UNCHANGED rows
<1>1. UNCHANGED <<log, rows, pc, state, got, last, config>> /\ now \in Time
  BY DEF anchoring, ServiceInv
<1>2. config' \in [Anchorer -> 0 .. now']
  <2>1. now \in Nat /\ now' \in Nat
    BY <1>1 DEF Time
  <2>2. \A x \in 0 .. now : x \in 0 .. now'
    BY <2>1
  <2>3. config' = config /\ config \in [Anchorer -> 0 .. now]
    BY <1>1 DEF ServiceInv
  <2> QED BY <2>2, <2>3
<1>3. \A a \in Anchorer : Taken(state[a]) => Taken(state[a])'
  BY <1>1 DEF Taken, Valid, Signs
<1>4. ServiceInv'
  BY <1>1, <1>2, <1>3 DEF ServiceInv, PayloadOf, AnchorPayload
<1> QED BY <1>1, <1>4, LogFrame, RowsFrame

\* Every step keeps the invariant: one case per action.
LEMMA Inductive ==
    IInv /\ [Next]_vars => IInv'
<1> SUFFICES ASSUME IInv, [Next]_vars PROVE IInv'
  OBVIOUS
<1>0. /\ LedgerInv /\ HeldInv /\ LogInv /\ ServiceInv /\ RowsInv /\ ExportInv /\ AnswerInv
      /\ now \in Time /\ now <= now
  BY DEF IInv, ServiceInv, Time
<1>1. ASSUME NEW i \in Record, Write(i), answer' = NoAnswer PROVE IInv'
  <2>1. /\ LedgerInv' /\ chain' \in Seq(Record) /\ UNCHANGED scenario /\ UNCHANGED now
        /\ UNCHANGED anchoring /\ UNCHANGED export
    BY <1>0, <1>1, WriteLedger DEF Write
  <2>2. HeldInv'
    <3>1. CASE UNCHANGED held
      BY <1>0, <3>1, HeldFrame
    <3>2. CASE held' = SignedState(0, chain')
      <4>1. PICK h \in Seq(Record) : h = chain'
        BY <2>1
      <4> QED BY <3>2, <4>1, HeldMoves
    <3> QED BY <1>1, <3>1, <3>2 DEF Write
  <2>3. LogInv' /\ ServiceInv' /\ RowsInv' /\ UNCHANGED rows
    BY <1>0, <2>1, AnchoringFrame
  <2>4. ExportInv'
    <3>1. export.step = "own" /\ export.read # Absent => Newer(export.read, export.key)'
      <4> SUFFICES ASSUME export.step = "own", export.read # Absent
                   PROVE  Newer(export.read, export.key)'
        OBVIOUS
      <4>1. Newer(export.read, export.key) /\ export.read \in rows
        BY <1>0 DEF ExportInv
      <4>2. export.read.checkpoint.hash \in Seq(Record)
        BY <1>0, <4>1 DEF RowsInv, Taken
      <4>3. PICK r, k : r = export.read /\ k = export.key
        OBVIOUS
      <4>4. Newer(r, k)'
        BY <1>0, <1>1, <4>1, <4>2, <4>3, WriteNewer
      <4> QED BY <2>1, <4>3, <4>4 DEF Newer
    <3> QED BY <1>0, <2>1, <2>3, <3>1 DEF ExportInv
  <2> QED BY <1>1, <2>1, <2>2, <2>3, <2>4, AnswerGone DEF IInv
<1>2. ASSUME Restore, answer' = NoAnswer PROVE IInv'
  <2>1. /\ UNCHANGED scenario /\ UNCHANGED held /\ UNCHANGED now /\ UNCHANGED anchoring
        /\ UNCHANGED export /\ export.step = "idle"
    BY <1>2 DEF Restore
  <2>2. LogInv' /\ ServiceInv' /\ RowsInv'
    BY <1>0, <2>1, AnchoringFrame
  <2>3. ExportInv'
    BY <1>0, <2>1 DEF ExportInv
  <2> QED BY <1>0, <1>2, <2>1, <2>2, <2>3, RestoreLedger, HeldFrame, AnswerGone DEF IInv
<1>3. ASSUME Publish, answer' = NoAnswer PROVE IInv'
  <2>1. /\ UNCHANGED ledger /\ UNCHANGED anchoring /\ UNCHANGED export
        /\ now' = now + 1 /\ now < scenario.time
    BY <1>3 DEF Publish
  <2>2. UNCHANGED <<scenario, chain, used, held>>
    BY <2>1 DEF ledger
  <2>3. now' \in Time /\ now <= now'
    BY <1>0, <2>1, ScenarioFacts DEF LedgerInv, Time
  <2>4. LogInv' /\ ServiceInv' /\ RowsInv' /\ UNCHANGED rows
    BY <1>0, <2>1, <2>2, <2>3, AnchoringFrame
  <2>5. ExportInv'
    BY <1>0, <2>1, <2>2, <2>4, ExportFrame
  <2> QED BY <1>0, <1>3, <2>2, <2>4, <2>5, LedgerFrame, HeldFrame, AnswerGone DEF IInv
<1>4. ASSUME (\E a \in Anchorer : AnchorService(a)) \/ Restart, answer' = NoAnswer PROVE IInv'
  <2>1. UNCHANGED ledger /\ UNCHANGED export
    BY <1>4 DEF AnchorService, Restart, FetchState, Submit, LogRefuses, ConfigExpires,
                RecordAnchor, RoundFails
  <2>2. UNCHANGED <<scenario, chain, used, held>>
    BY <2>1 DEF ledger
  <2>3. LogInv' /\ ServiceInv' /\ RowsInv' /\ rows \subseteq rows'
    BY <1>0, <1>4, ServiceStep
  <2>4. ExportInv'
    BY <1>0, <2>1, <2>2, <2>3, ExportFrame
  <2> QED BY <1>0, <1>4, <2>2, <2>3, <2>4, LedgerFrame, HeldFrame, AnswerGone DEF IInv
<1>5. ASSUME NEW k, ReadAnchor(k), answer' = NoAnswer PROVE IInv'
  <2>1. UNCHANGED ledger /\ UNCHANGED anchoring /\ UNCHANGED now
    BY <1>5 DEF ReadAnchor
  <2>2. UNCHANGED <<scenario, chain, used, held>>
    BY <2>1 DEF ledger
  <2>3. LogInv' /\ ServiceInv' /\ RowsInv'
    BY <1>0, <2>1, <2>2, AnchoringFrame
  <2>4. ExportInv'
    BY <1>0, <1>5, ReadStep
  <2> QED BY <1>0, <1>5, <2>2, <2>3, <2>4, LedgerFrame, HeldFrame, AnswerGone DEF IInv
<1>6. CASE VerifyPinned
  <2>1. UNCHANGED ledger /\ UNCHANGED anchoring /\ UNCHANGED now
    BY <1>6 DEF VerifyPinned
  <2>2. UNCHANGED <<scenario, chain, used, held>>
    BY <2>1 DEF ledger
  <2>3. LogInv' /\ ServiceInv' /\ RowsInv'
    BY <1>0, <2>1, <2>2, AnchoringFrame
  <2>4. ExportInv' /\ AnswerInv'
    BY <1>0, <1>6, PinnedStep
  <2> QED BY <1>0, <2>2, <2>3, <2>4, LedgerFrame, HeldFrame DEF IInv
<1>7. CASE VerifyOwn
  <2>1. UNCHANGED <<scenario, chain, used>> /\ UNCHANGED anchoring /\ UNCHANGED now
    BY <1>7 DEF VerifyOwn
  <2>2. LogInv' /\ ServiceInv' /\ RowsInv'
    BY <1>0, <2>1, AnchoringFrame
  <2>3. ExportInv' /\ AnswerInv' /\ HeldInv'
    BY <1>0, <1>7, OwnStep
  <2> QED BY <1>0, <2>1, <2>2, <2>3, LedgerFrame DEF IInv
<1>8. CASE VerifierDown
  <2>1. UNCHANGED ledger /\ UNCHANGED anchoring /\ UNCHANGED now /\ Refuse
    BY <1>8 DEF VerifierDown
  <2>2. UNCHANGED <<scenario, chain, used, held>>
    BY <2>1 DEF ledger
  <2>3. LogInv' /\ ServiceInv' /\ RowsInv'
    BY <1>0, <2>1, <2>2, AnchoringFrame
  <2>4. ExportInv' /\ AnswerInv'
    BY <2>1, ExportIdle, AnswerGone DEF Refuse
  <2> QED BY <1>0, <2>2, <2>3, <2>4, LedgerFrame, HeldFrame DEF IInv
<1>9. CASE UNCHANGED vars
  <2>1. /\ UNCHANGED ledger /\ UNCHANGED now /\ UNCHANGED anchoring /\ UNCHANGED export
        /\ UNCHANGED answer
    BY <1>9 DEF vars
  <2>2. UNCHANGED <<scenario, chain, used, held>>
    BY <2>1 DEF ledger
  <2>3. LogInv' /\ ServiceInv' /\ RowsInv' /\ UNCHANGED rows
    BY <1>0, <2>1, <2>2, AnchoringFrame
  <2>4. ExportInv'
    BY <1>0, <2>1, <2>2, <2>3, ExportFrame
  <2>5. AnswerInv'
    BY <1>0, <2>1, <2>3 DEF AnswerInv
  <2> QED BY <1>0, <2>2, <2>3, <2>4, <2>5, LedgerFrame, HeldFrame DEF IInv
<1> QED BY <1>1, <1>2, <1>3, <1>4, <1>5, <1>6, <1>7, <1>8, <1>9 DEF Next, Background

\* Every reachable state satisfies IInv.
THEOREM Invariance == Spec => []IInv
BY Initial, Inductive, PTL DEF Spec

\* The types hold, one transaction has one row of state_anchors, and an
\* export in progress holds a row that is still there.
THEOREM TypeCorrect == Spec => []TypeOK
<1>1. IInv => TypeOK
  BY DEF IInv, LedgerInv, ServiceInv, RowsInv, ExportInv, TypeOK
<1> QED BY <1>1, Invariance, PTL

\* POST /anchors: every row is of a state the ledger signed and of the log's
\* own entry for it, whatever was lost, retried, restarted or run twice.
THEOREM RowsAreLogged == Spec => []RowIsLogged
<1>1. ASSUME RowsInv, NEW r \in rows
      PROVE  /\ Valid(r.checkpoint) /\ r.entry \in log
             /\ r.entry.digest = AnchorPayload(r.checkpoint.db, r.checkpoint.tx,
                                               r.checkpoint.hash, r.checkpoint.sig)
             /\ <<r.entry.keyId, r.entry.logIndex>> = <<r.log_url, r.log_index>>
  <2>1. /\ r = Row(r.checkpoint, r.entry) /\ Taken(r.checkpoint) /\ r.entry \in log
        /\ r.entry.digest = PayloadOf(r.checkpoint)
    BY <1>1 DEF RowsInv
  <2>2. r.log_url = r.entry.keyId /\ r.log_index = r.entry.logIndex
    BY <2>1 DEF Row
  <2> QED BY <2>1, <2>2 DEF Taken, PayloadOf
<1>2. IInv => RowIsLogged
  BY <1>1 DEF IInv, RowIsLogged
<1> QED BY <1>2, Invariance, PTL

\* GET /audit/bundle does not drop an anchor that refuses: a bundle without
\* corroboration is of a record newer than the anchor that was on record.
THEOREM AnchorsAreNotDropped == Spec => []AnchorIsNotDropped
<1>1. ASSUME AnswerInv, answer.bundle # Absent, answer.read # Absent,
             answer.bundle.state = "not_anchored"
      PROVE  /\ answer.bundle.tx_id > answer.read.tx
             /\ IsPrefix(answer.read.checkpoint.hash, answer.bundle.entry.hist)
  BY <1>1 DEF AnswerInv, Exported, AnchorPart
<1>2. IInv => AnchorIsNotDropped
  BY <1>1 DEF IInv, AnchorIsNotDropped
<1> QED BY <1>2, Invariance, PTL


-----------------------------------------------------------------------------
(* The auditor.  What each check of verify_bundle has established when it  *)
(* passes, and that an exported bundle passes it.                          *)

\* "verified" is answered when no check has failed.
LEMMA VerifiedMeans ==
    ASSUME NEW b, NEW inv, verify_bundle(b, inv) = "verified"
    PROVE  /\ KeyClass(b, inv) = "ok" /\ ProofClass(b) = "ok"
           /\ WriterClass(b.entry.value, inv) = "ok" /\ AnchorClass(b, inv) = "ok"
<1>1. KeyClass(b, inv) \in {"malformed_bundle", "key_mismatch", "ok"}
  BY DEF KeyClass
<1>2. ProofClass(b) \in {"signature_failure", "malformed_bundle", "consistency_failure",
                         "record_mismatch", "ok"}
  BY DEF ProofClass
<1>3. WriterClass(b.entry.value, inv) \in
        {"writer_signature_missing", "malformed_bundle", "writer_key_revoked",
         "writer_key_unknown", "writer_signature_failure", "ok"}
  BY DEF WriterClass
<1>4. AnchorClass(b, inv) \in {"malformed_bundle", "anchor_unchecked", "anchor_failure",
                               "anchor_key_unknown", "ok"}
  <2>1. AnchorClaim(b) \in {"malformed_bundle", "ok"}
    BY DEF AnchorClaim
  <2>2. LogEntryClass(b, inv) \in {"anchor_unchecked", "anchor_failure", "anchor_key_unknown", "ok"}
    BY DEF LogEntryClass
  <2> QED BY <2>1, <2>2 DEF AnchorClass
<1> QED BY <1>1, <1>2, <1>3, <1>4 DEF verify_bundle

\* Formats and key fingerprints.
LEMMA KeyMeans ==
    ASSUME NEW b, NEW inv
    PROVE  KeyClass(b, inv) = "ok" <=>
              /\ Absent \notin inv.denied
              /\ b.bundle_format = "bundle/1" /\ b.proof_format = "proof/2"
              /\ b.key_fp = inv.key /\ b.proof_fp = b.key_fp
BY DEF KeyClass, DenyListUnreadable, BundleUnreadable

\* The proof, and the bundle's own copies of what it covers.
LEMMA ProofMeans ==
    ASSUME NEW b
    PROVE  ProofClass(b) = "ok" <=>
              /\ Signs(b.source_sig, b.source_db, b.source_tx, b.source_hash)
              /\ b.entry # Junk
              /\ Proves(b.entry, b.source_tx, b.source_hash, b.ledger_key)
              /\ Copies(b)
BY DEF ProofClass, Copies

\* The record's own signature.
LEMMA WriterMeans ==
    ASSUME NEW i \in Record, NEW inv, WriterClass(i, inv) = "ok"
    PROVE  Body[i].form = "signed" /\ Body[i].writer \in inv.writers \ inv.denied
<1>1. Body[i].form \in {"signed", "unsigned", "other format", "bad"}
  BY BundleAssumption DEF SignatureForms
<1> QED BY <1>1 DEF WriterClass

\* The anchor section is well formed.
LEMMA ClaimMeans ==
    ASSUME NEW b
    PROVE  AnchorClaim(b) = "ok" <=>
              \/ b.state = "not_anchored" /\ b.detail # Absent
              \/ /\ b.state = "anchored" /\ b.anchor_payload_format = "anchor/1"
                 /\ b.anchor_fp # Absent /\ b.log_entry # Absent
BY DEF AnchorClaim

\* The log's entry is that of this trust anchor.
LEMMA LogMeans ==
    ASSUME NEW b, NEW inv
    PROVE  LogEntryClass(b, inv) = "ok" <=>
              /\ inv.root # Absent /\ inv.anchors # {}
              /\ b.log_entry.digest = BundlePayload(b)
              /\ b.anchor_fp \in inv.anchors
              /\ b.log_entry.publicKey = b.anchor_fp
              /\ b.log_entry.signature = <<b.anchor_fp, BundlePayload(b)>>
              /\ b.log_entry.logIndex = b.log_index
              /\ b.log_entry.keyId \in inv.root
              /\ b.log_url = b.log_entry.keyId
              /\ Included(b.log_entry)
BY DEF LogEntryClass

\* The anchor check as a whole.
LEMMA AnchorMeans ==
    ASSUME NEW b, NEW inv
    PROVE  AnchorClass(b, inv) = "ok" <=>
              /\ AnchorClaim(b) = "ok"
              /\ b.state = "not_anchored" \/ inv.skip \/ LogEntryClass(b, inv) = "ok"
BY DEF AnchorClass

\* The row that a bundle carries, field by field.
LEMMA RowFields ==
    ASSUME LogInv, RowsInv, NEW r \in rows
    PROVE  /\ r.entry \in LogEntries /\ r.entry \in log /\ r.entry # Absent
           /\ r.entry.digest = AnchorPayload(r.checkpoint.db, r.checkpoint.tx,
                                             r.checkpoint.hash, r.checkpoint.sig)
           /\ r.entry.publicKey = AnchorKey
           /\ r.entry.signature = <<AnchorKey, r.entry.digest>>
           /\ Included(r.entry)
           /\ r.entry.keyId \in UrlsOf(now)
           /\ r.log_url = r.entry.keyId /\ r.log_index = r.entry.logIndex
           /\ r.anchor_fp = AnchorKey /\ r.anchor_payload_format = "anchor/1"
<1>1. /\ r = Row(r.checkpoint, r.entry) /\ r.entry \in log
      /\ r.entry.digest = PayloadOf(r.checkpoint)
  BY DEF RowsInv
<1>2. /\ r.log_url = r.entry.keyId /\ r.log_index = r.entry.logIndex
      /\ r.anchor_fp = AnchorKey /\ r.anchor_payload_format = "anchor/1"
  BY <1>1 DEF Row
<1>3. PICK e : e = r.entry
  OBVIOUS
<1>4. e \in LogEntries /\ e = EntryAt(e.keyId, e.logIndex, e.digest) /\ e.keyId \in UrlsOf(now)
  BY <1>1, <1>3 DEF LogInv
<1>5. /\ e.publicKey = AnchorKey /\ e.signature = <<AnchorKey, e.digest>>
      /\ e.proof = <<e.keyId, e.logIndex, e.digest, AnchorKey, e.signature>>
  BY <1>4 DEF EntryAt
<1>6. Included(e)
  BY <1>5 DEF Included
<1>7. e # Absent
  BY <1>4, EvidenceAssumption
<1> QED BY <1>1, <1>2, <1>3, <1>4, <1>5, <1>6, <1>7 DEF PayloadOf

\* An exported bundle passes every check of an auditor who holds everything.
LEMMA ExportedPasses ==
    ASSUME LogInv, RowsInv, ServiceInv, NEW f, NEW r, r = Absent \/ r \in rows,
           Exported(f, r), f.source_tx # 0, NEW inv, HoldsEverything(inv)
    PROVE  KeyClass(f, inv) = "ok" /\ ProofClass(f) = "ok" /\ AnchorClass(f, inv) = "ok"
<1>1. ProofPart(f) /\ AnchorPart(f, r)
  BY DEF Exported
<1>2. KeyClass(f, inv) = "ok"
  BY <1>1, KeyMeans DEF ProofPart, HoldsEverything
<1>3. ProofClass(f) = "ok"
  <2>1. f.entry # Junk
    BY <1>1, BundleAssumption DEF ProofPart
  <2> QED BY <1>1, <2>1, ProofMeans DEF ProofPart
<1>4. CASE r = Absent
  <2>1. f.state = "not_anchored" /\ f.detail = "none"
    BY <1>1, <1>4 DEF AnchorPart
  <2>2. "none" \in Words
    BY DEF Words
  <2>3. f.detail # Absent
    BY <2>1, <2>2, BundleAssumption
  <2> QED BY <1>2, <1>3, <2>1, <2>3, ClaimMeans, AnchorMeans
<1>5. CASE r # Absent
  <2>1. r \in rows
    BY <1>5
  <2>2. /\ f.state = "anchored" /\ f.log_entry = r.entry /\ f.log_url = r.log_url
        /\ f.log_index = r.log_index /\ f.anchor_fp = r.anchor_fp
        /\ f.anchor_payload_format = r.anchor_payload_format
        /\ BundlePayload(f) = r.entry.digest
    BY <1>1, <1>5, <2>1, RowFields DEF AnchorPart
  <2>3. AnchorClaim(f) = "ok"
    <3>1. AnchorKey # Absent
      BY EvidenceAssumption
    <3> QED BY <2>1, <2>2, <3>1, RowFields, ClaimMeans
  <2>4. UrlsOf(now) \subseteq inv.root /\ inv.root # Absent
    <3>1. now # 0
      BY EvidenceAssumption DEF ServiceInv, Time
    <3> QED BY <3>1 DEF HoldsEverything, RootOf
  <2>5. LogEntryClass(f, inv) = "ok"
    <3>1. AnchorKey \in inv.anchors
      BY DEF HoldsEverything
    <3>2. inv.anchors # {}
      BY <3>1
    <3> QED BY <2>1, <2>2, <2>4, <3>1, <3>2, RowFields, LogMeans
  <2> QED BY <1>2, <1>3, <2>3, <2>5, AnchorMeans
<1> QED BY <1>4, <1>5

\* The bundle that was answered with, and its row.
LEMMA AnsweredFile ==
    ASSUME AnswerInv, answer.bundle # Absent
    PROVE  \E r : /\ r = Absent \/ r \in rows
                  /\ Exported(answer.bundle, r)
                  /\ r # Absent => answer.bundle.tx_id <= answer.bundle.source_tx
BY DEF AnswerInv

\* Every bundle that GET /audit/bundle hands out passes the offline check, or
\* fails it for the record's own signature and nothing else.
THEOREM ExportsAreVerifiable == Spec => []ExportedIsVerifiable
<1>1. ASSUME IInv, answer.bundle # Absent, NEW inv, HoldsEverything(inv),
             answer.bundle.source_tx # 0
      PROVE  verify_bundle(answer.bundle, inv) =
               IF WriterClass(answer.bundle.value, inv) = "ok" THEN "verified"
               ELSE WriterClass(answer.bundle.value, inv)
  <2>1. PICK f : f = answer.bundle
    OBVIOUS
  <2>2. PICK r : (r = Absent \/ r \in rows) /\ Exported(f, r)
    BY <1>1, <2>1, AnsweredFile DEF IInv
  <2>3. KeyClass(f, inv) = "ok" /\ ProofClass(f) = "ok" /\ AnchorClass(f, inv) = "ok"
    BY <1>1, <2>1, <2>2, ExportedPasses DEF IInv
  <2>4. f.value = f.entry.value
    BY <2>2 DEF Exported, ProofPart, Copies
  <2>5. verify_bundle(f, inv) = IF WriterClass(f.value, inv) = "ok" THEN "verified"
                                ELSE WriterClass(f.value, inv)
    BY <2>3, <2>4 DEF verify_bundle
  <2> QED BY <2>1, <2>5
<1>2. IInv => ExportedIsVerifiable
  BY <1>1 DEF ExportedIsVerifiable, EveryAudit
<1> QED BY <1>2, Invariance, PTL


-----------------------------------------------------------------------------
(* Alterations.                                                            *)

\* No altered byte is a number, a word or a record.
LEMMA JunkFacts ==
    /\ Junk \notin Nat /\ Junk \notin Words /\ Junk \notin Record /\ Junk \notin Seq(Record)
    /\ Junk \notin ProvedEntries /\ \A i \in Record : Junk # Body[i].key
    /\ Absent \notin Words
BY BundleAssumption

\* A record type is one of the words.
LEMMA RecordTypeFacts ==
    ASSUME NEW i
    PROVE  record_type_of(i) \in Words
BY DEF record_type_of, Words, RecordTypes

\* One field of a bundle replaced.
LEMMA Replaced ==
    ASSUME NEW f, DOMAIN f = BundleFields, NEW g \in BundleFields, NEW v
    PROVE  /\ [f EXCEPT ![g] = v][g] = v
           /\ \A h \in BundleFields \ {g} : [f EXCEPT ![g] = v][h] = f[h]
OBVIOUS

\* A field of the proof part: the keys, the signature, the proof and the
\* comparison with the bundle's own copies leave nothing out.
LEMMA ProofFieldRefused ==
    ASSUME NEW f, ProofPart(f), NEW inv,
           NEW g \in {"bundle_format", "ledger_key", "value", "tx_id", "timestamp", "record_type",
                      "proof_format", "source_db", "source_tx", "source_hash", "source_sig",
                      "entry", "prove_since_tx", "entry_tx_id", "proof_fp", "key_fp"},
           f[g] # Absent,
           KeyClass([f EXCEPT ![g] = Junk], inv) = "ok",
           ProofClass([f EXCEPT ![g] = Junk]) = "ok"
    PROVE  FALSE
<1>1. PICK b : b = [f EXCEPT ![g] = Junk]
  OBVIOUS
<1>2. g \in BundleFields /\ DOMAIN f = BundleFields
  BY DEF BundleFields, ProofPart
<1>3. b[g] = Junk /\ \A h \in BundleFields \ {g} : b[h] = f[h]
  BY <1>1, <1>2, Replaced
<1>4. /\ b.bundle_format = "bundle/1" /\ b.proof_format = "proof/2" /\ b.proof_fp = b.key_fp
  BY <1>1, KeyMeans
<1>5. /\ Signs(b.source_sig, b.source_db, b.source_tx, b.source_hash)
      /\ b.entry # Junk
      /\ Proves(b.entry, b.source_tx, b.source_hash, b.ledger_key)
      /\ Copies(b)
  BY <1>1, ProofMeans
<1>6. /\ "bundle/1" # Junk /\ "proof/2" # Junk /\ "ledger key" # Junk /\ "db" # Junk
  BY JunkFacts DEF Words
<1>7. /\ f.key_fp = "ledger key" /\ f.proof_fp = "ledger key" /\ f.entry \in ProvedEntries
      /\ f.source_db = "db" /\ f.source_tx \in Nat /\ f.source_hash \in Seq(Record)
      /\ Proves(f.entry, f.source_tx, f.source_hash, f.ledger_key) /\ Copies(f)
      /\ \/ f.source_sig = Absent
         \/ Signs(f.source_sig, f.source_db, f.source_tx, f.source_hash)
  BY DEF ProofPart
<1>8. CASE g \in {"bundle_format", "proof_format", "proof_fp", "key_fp"}
  BY <1>3, <1>4, <1>6, <1>7, <1>8 DEF BundleFields
<1>9. CASE g \in {"source_db", "source_tx", "source_hash", "source_sig"}
  <2>1. f.source_sig # Absent /\ b.source_sig # Junk
    BY <1>3, <1>5, <1>9 DEF BundleFields, Signs
  <2>2. g # "source_sig" /\ b.source_sig = f.source_sig
    BY <1>3, <1>9, <2>1 DEF BundleFields
  <2>3. /\ f.source_sig.db = f.source_db /\ f.source_sig.tx = f.source_tx
        /\ f.source_sig.hash = f.source_hash
    BY <1>7, <2>1 DEF Signs
  <2>4. /\ f.source_sig.db = b.source_db /\ f.source_sig.tx = b.source_tx
        /\ f.source_sig.hash = b.source_hash
    BY <1>5, <2>2 DEF Signs
  <2>5. f.source_db # Junk /\ f.source_tx # Junk /\ f.source_hash # Junk
    BY <1>6, <1>7, JunkFacts
  <2> QED BY <1>3, <1>9, <2>2, <2>3, <2>4, <2>5
<1>10. CASE g = "entry"
  BY <1>3, <1>5, <1>10
<1>11. CASE g = "ledger_key"
  <2>1. b.entry = f.entry /\ b.ledger_key = Junk
    BY <1>3, <1>11 DEF BundleFields
  <2>2. Body[f.entry.value].key = Junk /\ f.entry.value \in Record
    BY <1>5, <1>7, <2>1 DEF Proves, ProvedEntries
  <2> QED BY <2>2, JunkFacts
<1>12. CASE g \in {"value", "tx_id", "timestamp", "record_type", "prove_since_tx", "entry_tx_id"}
  <2>1. b.entry = f.entry /\ b.source_tx = f.source_tx
    BY <1>3, <1>12 DEF BundleFields
  <2>2. /\ f.entry.value \in Record /\ f.entry.tx \in Nat /\ f.entry.timestamp \in Record
        /\ f.source_tx \in Nat /\ record_type_of(f.entry.value) \in Words
    BY <1>7, RecordTypeFacts DEF ProvedEntries
  <2>3. /\ b.value = f.entry.value /\ b.tx_id = f.entry.tx /\ b.timestamp = f.entry.timestamp
        /\ b.record_type = record_type_of(f.entry.value)
        /\ b.entry_tx_id = f.entry.tx /\ b.prove_since_tx = f.source_tx
    BY <1>5, <2>1 DEF Copies
  <2> QED BY <1>3, <1>12, <2>2, <2>3, JunkFacts
<1> QED BY <1>8, <1>9, <1>10, <1>11, <1>12

\* Another record's value in the proved entry.
LEMMA ValueRefused ==
    ASSUME NEW f, ProofPart(f), NEW i \in Record, i # f.entry.value,
           ProofClass([f EXCEPT !.entry.value = i]) = "ok"
    PROVE  FALSE
<1>1. PICK b : b = [f EXCEPT !.entry.value = i]
  OBVIOUS
<1>2. f.entry \in ProvedEntries /\ DOMAIN f = BundleFields
      /\ Proves(f.entry, f.source_tx, f.source_hash, f.ledger_key)
  BY DEF ProofPart
<1>3. b.entry = [f.entry EXCEPT !.value = i]
  BY <1>1, <1>2 DEF BundleFields
<1>4. b.entry.value = i /\ b.entry.tx = f.entry.tx /\ b.entry.hist = f.entry.hist
  BY <1>2, <1>3 DEF ProvedEntries
<1>5. b.entry.hist[b.entry.tx] = b.entry.value
  BY <1>1, ProofMeans DEF Proves
<1> QED BY <1>2, <1>4, <1>5 DEF Proves

\* A field of the anchor part: the claim itself cannot be changed, and the
\* rest only under the eyes of an auditor who does not look at it.
LEMMA AnchorFieldRefused ==
    ASSUME LogInv, RowsInv, NEW f, NEW r, r = Absent \/ r \in rows, Exported(f, r), NEW inv,
           NEW g \in {"log_url", "log_index", "anchor_fp", "anchor_payload_format", "state"},
           NEW v, v = Junk \/ (g = "state" /\ v \in {"anchored", "not_anchored"} /\ v # f.state),
           f[g] # Absent,
           AnchorClass([f EXCEPT ![g] = v], inv) = "ok"
    PROVE  inv.skip /\ g \in {"log_url", "log_index", "anchor_fp"}
<1>1. PICK b : b = [f EXCEPT ![g] = v]
  OBVIOUS
<1>2. g \in BundleFields /\ DOMAIN f = BundleFields /\ AnchorPart(f, r)
  BY DEF BundleFields, ProofPart, Exported
<1>3. b[g] = v /\ \A h \in BundleFields \ {g} : b[h] = f[h]
  BY <1>1, <1>2, Replaced
<1>4. /\ AnchorClaim(b) = "ok"
      /\ b.state = "not_anchored" \/ inv.skip \/ LogEntryClass(b, inv) = "ok"
  BY <1>1, AnchorMeans
<1>5. \/ b.state = "not_anchored" /\ b.detail # Absent
      \/ /\ b.state = "anchored" /\ b.anchor_payload_format = "anchor/1"
         /\ b.anchor_fp # Absent /\ b.log_entry # Absent
  BY <1>4, ClaimMeans
<1>6. /\ "anchored" # Junk /\ "not_anchored" # Junk /\ "anchor/1" # Junk /\ "anchor/1" # Absent
  BY JunkFacts DEF Words
<1>7. CASE r = Absent
  <2>1. /\ f.state = "not_anchored" /\ f.anchor_payload_format = Absent /\ f.log_url = Absent
        /\ f.log_index = Absent /\ f.anchor_fp = Absent
    BY <1>2, <1>7 DEF AnchorPart
  <2>2. g = "state"
    BY <2>1
  <2>3. b.state = "anchored" /\ b.anchor_payload_format = Absent
    BY <1>3, <1>5, <1>6, <2>1, <2>2 DEF BundleFields
  <2> QED BY <1>5, <1>6, <2>3
<1>8. CASE r # Absent
  <2>1. /\ f.state = "anchored" /\ f.detail = Absent /\ f.log_entry = r.entry
        /\ f.log_url = r.log_url /\ f.log_index = r.log_index /\ f.anchor_fp = r.anchor_fp
    BY <1>2, <1>8 DEF AnchorPart
  <2>2. /\ r.entry \in LogEntries /\ r.log_url = r.entry.keyId /\ r.log_index = r.entry.logIndex
        /\ r.entry.publicKey = AnchorKey
    BY <1>8, RowFields
  <2>3. g # "state"
    BY <1>3, <1>5, <1>6, <2>1 DEF BundleFields
  <2>4. v = Junk /\ b.state = "anchored"
    BY <1>3, <2>1, <2>3 DEF BundleFields
  <2>5. g # "anchor_payload_format"
    BY <1>3, <1>5, <1>6, <2>4
  <2>6. ASSUME ~inv.skip PROVE FALSE
    <3>1. LogEntryClass(b, inv) = "ok"
      BY <1>4, <2>4, <2>6
    <3>2. /\ b.log_entry.publicKey = b.anchor_fp /\ b.log_entry.logIndex = b.log_index
          /\ b.log_url = b.log_entry.keyId
      BY <3>1, LogMeans
    <3>3. b.log_entry = r.entry
      BY <1>3, <2>1, <2>3 DEF BundleFields
    <3>4. r.entry.keyId \in Urls /\ r.entry.logIndex \in Nat
      BY <2>2 DEF LogEntries
    <3>5. Junk \notin Urls /\ Junk # AnchorKey
      BY EvidenceAssumption
    <3> QED BY <1>3, <2>2, <2>3, <2>4, <2>5, <3>2, <3>3, <3>4, <3>5, JunkFacts
  <2> QED BY <2>3, <2>5, <2>6
<1> QED BY <1>7, <1>8

\* A field of the log's entry.
LEMMA LogFieldRefused ==
    ASSUME LogInv, RowsInv, NEW f, NEW r, r = Absent \/ r \in rows, Exported(f, r), NEW inv,
           NEW g \in LogEntryFields, f.log_entry # Absent,
           AnchorClass([f EXCEPT !.log_entry = [@ EXCEPT ![g] = Junk]], inv) = "ok"
    PROVE  inv.skip
<1>1. PICK b : b = [f EXCEPT !.log_entry = [@ EXCEPT ![g] = Junk]]
  OBVIOUS
<1>2. PICK e : e = b.log_entry
  OBVIOUS
<1>3. DOMAIN f = BundleFields /\ AnchorPart(f, r)
  BY DEF ProofPart, Exported
<1>4. r # Absent /\ r \in rows
  BY <1>3 DEF AnchorPart
<1>5. /\ f.state = "anchored" /\ f.log_entry = r.entry /\ f.log_url = r.log_url
      /\ f.log_index = r.log_index /\ f.anchor_fp = r.anchor_fp
      /\ r.entry \in LogEntries /\ BundlePayload(f) = r.entry.digest
      /\ r.log_url = r.entry.keyId /\ r.log_index = r.entry.logIndex /\ r.anchor_fp = AnchorKey
  BY <1>3, <1>4, RowFields DEF AnchorPart
<1>6. /\ b = [f EXCEPT !.log_entry = [r.entry EXCEPT ![g] = Junk]]
      /\ e = [r.entry EXCEPT ![g] = Junk]
  BY <1>1, <1>2, <1>3, <1>5 DEF BundleFields
<1>7. /\ b.state = "anchored" /\ b.log_url = f.log_url /\ b.log_index = f.log_index
      /\ b.anchor_fp = f.anchor_fp /\ BundlePayload(b) = BundlePayload(f)
  BY <1>3, <1>5, <1>6 DEF BundleFields, BundlePayload
<1>8. SUFFICES ASSUME ~inv.skip PROVE FALSE
  OBVIOUS
<1>9. LogEntryClass(b, inv) = "ok"
  BY <1>1, <1>7, <1>8, AnchorMeans
<1>10. /\ e.digest = BundlePayload(b) /\ e.publicKey = b.anchor_fp
       /\ e.signature = <<b.anchor_fp, BundlePayload(b)>>
       /\ e.logIndex = b.log_index /\ b.log_url = e.keyId
       /\ Included(e)
  BY <1>2, <1>9, LogMeans
<1>11. /\ DOMAIN r.entry = LogEntryFields /\ e[g] = Junk
       /\ \A h \in LogEntryFields \ {g} : e[h] = r.entry[h]
  BY <1>5, <1>6 DEF LogEntries, LogEntryFields
<1>12. /\ r.entry.digest \in Payloads /\ r.entry.keyId \in Urls /\ r.entry.logIndex \in Nat
       /\ <<AnchorKey, r.entry.digest>> \in Submissions
  BY <1>5 DEF LogEntries, Submissions
<1>13. /\ Junk \notin Payloads /\ Junk \notin Submissions /\ Junk \notin Proofs
       /\ Junk \notin Urls /\ Junk # AnchorKey
  BY EvidenceAssumption
<1>14. CASE g \in {"digest", "publicKey", "signature", "keyId", "logIndex"}
  BY <1>5, <1>7, <1>10, <1>11, <1>12, <1>13, <1>14, JunkFacts DEF LogEntryFields
<1>15. CASE g = "proof"
  <2>1. /\ e.keyId = r.entry.keyId /\ e.logIndex = r.entry.logIndex /\ e.digest = r.entry.digest
        /\ e.publicKey = AnchorKey /\ e.signature \in Submissions /\ e.proof = Junk
    BY <1>5, <1>7, <1>10, <1>11, <1>12, <1>15 DEF LogEntryFields
  <2>2. <<e.keyId, e.logIndex, e.digest, e.publicKey, e.signature>> \in Proofs
    BY <1>12, <2>1 DEF Proofs
  <2> QED BY <1>10, <1>13, <2>1, <2>2 DEF Included
<1> QED BY <1>14, <1>15 DEF LogEntryFields

\* The three forms of an alteration.
LEMMA AlteredForms ==
    ASSUME NEW f, NEW r, Exported(f, r), NEW g \in Fields(f), NEW b \in Altered(f, g)
    PROVE  \/ /\ g \in LogEntryFields /\ f.log_entry # Absent
              /\ b = [f EXCEPT !.log_entry = [@ EXCEPT ![g] = Junk]]
           \/ /\ g \in BundleFields \ {"log_entry"} /\ f[g] # Absent
              /\ \/ b = [f EXCEPT ![g] = Junk]
                 \/ g = "state" /\ \E v \in {"anchored", "not_anchored"} \ {f.state} :
                                      b = [f EXCEPT ![g] = v]
                 \/ g = "entry" /\ \E i \in Record \ {f.entry.value} :
                                      b = [f EXCEPT !.entry.value = i]
<1>1. DOMAIN f = BundleFields
  BY DEF Exported, ProofPart
<1>2. CASE g \in LogEntryFields
  BY <1>2 DEF Altered
<1>3. CASE g \notin LogEntryFields
  <2>1. g \in BundleFields \ {"log_entry"} /\ f[g] # Absent
    BY <1>1, <1>3 DEF Fields
  <2>2. \/ b = [f EXCEPT ![g] = Junk]
        \/ g = "state" /\ \E v \in {"anchored", "not_anchored"} \ {f.state} :
                             b = [f EXCEPT !.state = v]
        \/ g = "entry" /\ \E i \in Record \ {f.entry.value} : b = [f EXCEPT !.entry.value = i]
    BY <1>3 DEF Altered
  <2> QED BY <2>1, <2>2
<1> QED BY <1>2, <1>3

\* Of a bundle that verifies, an alteration changed a label, or a field of
\* the log for an auditor who skips the anchor check.
LEMMA AlteredMeans ==
    ASSUME LogInv, RowsInv, NEW f, NEW r, r = Absent \/ r \in rows, Exported(f, r), NEW inv,
           NEW g \in Fields(f), NEW b \in Altered(f, g), verify_bundle(b, inv) = "verified"
    PROVE  /\ g \in Label \/ (inv.skip /\ g \in OfTheLog \cup {"anchor_fp"})
           /\ \/ g \in LogEntryFields /\ b = [f EXCEPT !.log_entry = [@ EXCEPT ![g] = Junk]]
              \/ g \in {"exported_at", "detail", "log_url", "log_index", "anchor_fp"}
                 /\ b = [f EXCEPT ![g] = Junk]
<1>1. KeyClass(b, inv) = "ok" /\ ProofClass(b) = "ok" /\ AnchorClass(b, inv) = "ok"
  BY VerifiedMeans
<1>2. ProofPart(f)
  BY DEF Exported
<1>3. CASE /\ g \in LogEntryFields /\ f.log_entry # Absent
           /\ b = [f EXCEPT !.log_entry = [@ EXCEPT ![g] = Junk]]
  <2>1. inv.skip
    BY <1>1, <1>3, LogFieldRefused
  <2> QED BY <1>3, <2>1 DEF OfTheLog
<1>4. CASE g \in BundleFields \ {"log_entry"} /\ f[g] # Absent /\ b = [f EXCEPT ![g] = Junk]
  <2>1. CASE g \in Label
    BY <1>4, <2>1 DEF Label
  <2>2. CASE g \in {"log_url", "log_index", "anchor_fp", "anchor_payload_format", "state"}
    <3>1. inv.skip /\ g \in {"log_url", "log_index", "anchor_fp"}
      BY <1>1, <1>4, <2>2, AnchorFieldRefused
    <3> QED BY <1>4, <3>1 DEF OfTheLog
  <2>3. CASE g \in {"bundle_format", "ledger_key", "value", "tx_id", "timestamp", "record_type",
                    "proof_format", "source_db", "source_tx", "source_hash", "source_sig",
                    "entry", "prove_since_tx", "entry_tx_id", "proof_fp", "key_fp"}
    <3>1. /\ KeyClass([f EXCEPT ![g] = Junk], inv) = "ok"
          /\ ProofClass([f EXCEPT ![g] = Junk]) = "ok" /\ f[g] # Absent
      BY <1>1, <1>4
    <3>2. FALSE
      BY ONLY <1>2, <2>3, <3>1, ProofFieldRefused
    <3> QED BY <3>2
  <2> QED BY <1>4, <2>1, <2>2, <2>3 DEF BundleFields, Label
<1>5. CASE g = "state" /\ f[g] # Absent
           /\ \E v \in {"anchored", "not_anchored"} \ {f.state} : b = [f EXCEPT ![g] = v]
  <2>1. PICK v \in {"anchored", "not_anchored"} \ {f.state} : b = [f EXCEPT ![g] = v]
    BY <1>5
  <2>2. g \in {"log_url", "log_index", "anchor_fp"}
    BY <1>1, <1>5, <2>1, AnchorFieldRefused
  <2> QED BY <1>5, <2>2
<1>6. CASE g = "entry" /\ \E i \in Record \ {f.entry.value} : b = [f EXCEPT !.entry.value = i]
  <2>1. PICK i \in Record \ {f.entry.value} : b = [f EXCEPT !.entry.value = i]
    BY <1>6
  <2>2. i \in Record /\ i # f.entry.value /\ ProofClass([f EXCEPT !.entry.value = i]) = "ok"
    BY <1>1, <2>1
  <2> QED BY <1>2, <2>2, ValueRefused
<1> QED BY <1>3, <1>4, <1>5, <1>6, AlteredForms

\* No field of a bundle but its labels can be changed and the bundle still
\* verify (tools/bundle_byte_sweep.py), unless the auditor skips the anchor
\* check and the field is the log's.
THEOREM AlteredAreRefused == Spec => []AlteredIsRefused
<1>1. ASSUME IInv, answer.bundle # Absent, NEW inv, NEW g \in Fields(answer.bundle),
             NEW b \in Altered(answer.bundle, g), verify_bundle(b, inv) = "verified"
      PROVE  g \in Label \/ (inv.skip /\ g \in OfTheLog \cup {"anchor_fp"})
  <2>1. PICK f : f = answer.bundle
    OBVIOUS
  <2>2. PICK r : (r = Absent \/ r \in rows) /\ Exported(f, r)
    BY <1>1, <2>1, AnsweredFile DEF IInv
  <2> QED BY <1>1, <2>1, <2>2, AlteredMeans DEF IInv
<1>2. IInv => AlteredIsRefused
  BY <1>1 DEF AlteredIsRefused, EveryAudit
<1> QED BY <1>2, Invariance, PTL

\* What an alteration that verifies has left of the bundle.
LEMMA AlteredKeeps ==
    ASSUME LogInv, RowsInv, NEW f, NEW r, r = Absent \/ r \in rows, Exported(f, r), NEW inv,
           NEW g \in Fields(f), NEW b \in Altered(f, g), verify_bundle(b, inv) = "verified"
    PROVE  /\ b.entry = f.entry /\ b.value = f.value /\ b.tx_id = f.tx_id
           /\ b.source_tx = f.source_tx /\ b.state = f.state
           /\ ~inv.skip => /\ b.log_url = f.log_url /\ b.log_index = f.log_index
                           /\ BundlePayload(b) = BundlePayload(f)
<1>1. DOMAIN f = BundleFields
  BY DEF Exported, ProofPart
<1>2. PICK h, v :
         /\ h \in BundleFields
         /\ b = [f EXCEPT ![h] = v]
         /\ h \in {"exported_at", "detail", "log_url", "log_index", "anchor_fp", "log_entry"}
         /\ inv.skip \/ h \in {"exported_at", "detail"}
  <2>1. CASE g \in LogEntryFields /\ b = [f EXCEPT !.log_entry = [@ EXCEPT ![g] = Junk]]
    <3>1. b = [f EXCEPT !.log_entry = [f.log_entry EXCEPT ![g] = Junk]]
      BY <1>1, <2>1 DEF BundleFields
    <3>2. inv.skip
      BY <2>1, AlteredMeans DEF LogEntryFields, Label
    <3> QED BY <3>1, <3>2 DEF BundleFields
  <2>2. CASE g \in {"exported_at", "detail", "log_url", "log_index", "anchor_fp"}
             /\ b = [f EXCEPT ![g] = Junk]
    <3>1. inv.skip \/ g \in {"exported_at", "detail"}
      BY AlteredMeans DEF Label
    <3>2. g \in BundleFields
      BY <2>2 DEF BundleFields
    <3> QED BY <2>2, <3>1, <3>2
  <2> QED BY <2>1, <2>2, AlteredMeans
<1>3. \A x \in BundleFields \ {h} : b[x] = f[x]
  BY <1>1, <1>2, Replaced
<1>4. /\ b.entry = f.entry /\ b.value = f.value /\ b.tx_id = f.tx_id
      /\ b.source_tx = f.source_tx /\ b.state = f.state
      /\ b.source_db = f.source_db /\ b.source_hash = f.source_hash
      /\ b.source_sig = f.source_sig
  BY <1>2, <1>3 DEF BundleFields
<1>5. ASSUME ~inv.skip PROVE b.log_url = f.log_url /\ b.log_index = f.log_index
  BY <1>2, <1>3, <1>5 DEF BundleFields
<1> QED BY <1>4, <1>5 DEF BundlePayload

\* What "verified" says of a bundle is so: a trusted key signed the record,
\* and the log holds the state that a checked anchor claims.
THEOREM VerifiedAreTrue == Spec => []VerifiedIsTrue
<1> DEFINE Said(b, inv) ==
              /\ Body[b.value].form = "signed"
              /\ Body[b.value].writer \in inv.writers \ inv.denied
              /\ b.state = "anchored" =>
                   /\ b.tx_id <= b.source_tx
                   /\ ~inv.skip =>
                        \E e \in log :
                           /\ <<e.keyId, e.logIndex>> = <<b.log_url, b.log_index>>
                           /\ e.digest = BundlePayload(b)
<1>1. ASSUME IInv, NEW f, f = answer.bundle, f # Absent, NEW inv, NEW b,
             verify_bundle(b, inv) = "verified",
             b.entry = f.entry, b.value = f.value, b.tx_id = f.tx_id,
             b.source_tx = f.source_tx, b.state = f.state,
             ~inv.skip => /\ b.log_url = f.log_url /\ b.log_index = f.log_index
                          /\ BundlePayload(b) = BundlePayload(f)
      PROVE  Said(b, inv)
  <2>1. PICK r : /\ r = Absent \/ r \in rows
                 /\ Exported(f, r)
                 /\ r # Absent => f.tx_id <= f.source_tx
    BY <1>1, AnsweredFile DEF IInv
  <2>2. f.value = f.entry.value /\ f.value \in Record
    BY <2>1 DEF Exported, ProofPart, Copies, ProvedEntries
  <2>3. WriterClass(b.entry.value, inv) = "ok"
    BY <1>1, VerifiedMeans
  <2>4. Body[b.value].form = "signed" /\ Body[b.value].writer \in inv.writers \ inv.denied
    BY <1>1, <2>2, <2>3, WriterMeans
  <2>5. ASSUME b.state = "anchored" PROVE r \in rows /\ r # Absent
    BY <1>1, <2>1, <2>5 DEF Exported, AnchorPart
  <2>6. ASSUME b.state = "anchored"
        PROVE  /\ r.entry \in log /\ BundlePayload(f) = r.entry.digest
               /\ f.log_url = r.entry.keyId /\ f.log_index = r.entry.logIndex
    <3>1. r \in rows /\ r # Absent
      BY <2>5, <2>6
    <3>2. /\ r.entry \in log /\ r.log_url = r.entry.keyId /\ r.log_index = r.entry.logIndex
          /\ r.entry.digest = AnchorPayload(r.checkpoint.db, r.checkpoint.tx,
                                            r.checkpoint.hash, r.checkpoint.sig)
      BY <1>1, <3>1, RowFields DEF IInv
    <3> QED BY <2>1, <3>1, <3>2 DEF Exported, AnchorPart
  <2> QED BY <1>1, <2>1, <2>4, <2>5, <2>6
<1>2. ASSUME IInv, NEW inv, answer.bundle # Absent,
             verify_bundle(answer.bundle, inv) = "verified"
      PROVE  Said(answer.bundle, inv)
  BY <1>1, <1>2
<1>3. ASSUME IInv, NEW inv, answer.bundle # Absent, NEW g \in Fields(answer.bundle),
             NEW b \in Altered(answer.bundle, g), verify_bundle(b, inv) = "verified"
      PROVE  Said(b, inv)
  <2>1. PICK f : f = answer.bundle
    OBVIOUS
  <2>2. PICK r : (r = Absent \/ r \in rows) /\ Exported(f, r)
    BY <1>3, <2>1, AnsweredFile DEF IInv
  <2>3. /\ b.entry = f.entry /\ b.value = f.value /\ b.tx_id = f.tx_id
        /\ b.source_tx = f.source_tx /\ b.state = f.state
        /\ ~inv.skip => /\ b.log_url = f.log_url /\ b.log_index = f.log_index
                        /\ BundlePayload(b) = BundlePayload(f)
    BY <1>3, <2>1, <2>2, AlteredKeeps DEF IInv
  <2> QED BY <1>1, <1>3, <2>1, <2>3
<1>4. IInv => VerifiedIsTrue
  <2> HIDE DEF Said
  <2>1. ASSUME IInv
        PROVE  EveryAudit(LAMBDA c : c.class = "verified" => Said(c.of, c.inv))
    BY <1>2, <1>3, <2>1 DEF EveryAudit
  <2> QED BY <2>1 DEF VerifiedIsTrue, Said
<1> QED BY <1>4, Invariance, PTL

=============================================================================
