---------------------------- MODULE BundleCheck ----------------------------
(***************************************************************************)
(* tools/ail_verify_bundle.py: the offline check of an evidence bundle.  A *)
(* pure function of the file and of the keys the auditor holds; its early  *)
(* returns, in their order, are the result classes.                        *)
(*                                                                         *)
(* A hash is modelled by what it binds: a ledger state's txHash is the     *)
(* history it hashes, the digest of an anchor payload is the payload, and  *)
(* a signature or an inclusion proof carries what it was made over.        *)
(***************************************************************************)
EXTENDS Integers, Sequences, SequencesExt, FiniteSets

CONSTANTS Record,     \* record values
          Body,       \* Body[i]: what the bytes of value i say
          Junk,       \* altered bytes
          Absent      \* a field that is not there

SignatureForms == {"signed", "unsigned", "other format", "bad"}

\* What ImmuDB hands out: signatures of states, and entries with their proof.
Signatures == [nonce : Nat, db : {"db"}, tx : Nat, hash : Seq(Record)]
ProvedEntries == [value : Record, tx : Nat, timestamp : Record, since : Nat, hist : Seq(Record)]

\* The record types, and the other words that bundles are written with.
RecordTypes == {"content_erasure", "decision_intent", "policy_allow", "policy_deny",
                "schema_deny", "fault", "unknown"}
Words == {"bundle/1", "proof/2", "anchor/1", "ledger key", "db", "anchored", "not_anchored",
          "none", "then"} \cup RecordTypes

\* What is altered or absent is none of it.
ASSUME BundleAssumption ==
    /\ DOMAIN Body = Record
    /\ \A i \in Record :
          /\ DOMAIN Body[i] = {"key", "record_type", "outcome_type", "writer", "form"}
          /\ Body[i].form \in SignatureForms
    /\ Junk # Absent
    /\ {Junk, Absent} \cap Record = {}
    /\ Junk \notin Signatures \cup ProvedEntries \cup Seq(Record) \cup Words \cup Nat
    /\ \A i \in Record : Junk # Body[i].key
    /\ Absent \notin Signatures \cup Words

-----------------------------------------------------------------------------
(* What is signed, and by whom.                                            *)

\* ImmuDB's signature over a state; two signatures over one state differ.
Signature(nonce, tx, hash) == [nonce |-> nonce, db |-> "db", tx |-> tx, hash |-> hash]

Signs(sig, db, tx, hash) ==
    /\ sig \notin {Junk, Absent}
    /\ <<sig.db, sig.tx, sig.hash>> = <<db, tx, hash>>

\* canonical_anchor_bytes
AnchorPayload(db, tx, hash, sig) == <<db, tx, hash, sig>>

\* record_type_of
record_type_of(i) ==
    IF Body[i].record_type \in {"content_erasure", "decision_intent"} THEN Body[i].record_type
    ELSE IF Body[i].outcome_type \in {"policy_allow", "policy_deny", "schema_deny", "fault"}
         THEN Body[i].outcome_type
         ELSE "unknown"

\* verifiedGet.call on the captured entry: it is the entry of this key, in a
\* transaction of its history, and the trust anchor lies on that history.
Proves(e, tx, hash, key) ==
    /\ e.tx \in DOMAIN e.hist
    /\ e.hist[e.tx] = e.value
    /\ Body[e.value].key = key
    /\ e.since = tx
    /\ IsPrefix(hash, e.hist)

\* The log's inclusion proof and signed checkpoint, checked by sigstore.
Included(e) == e.proof = <<e.keyId, e.logIndex, e.digest, e.publicKey, e.signature>>

-----------------------------------------------------------------------------
(* The check, for a bundle b and what the auditor holds: a ledger key, a   *)
(* set of writer keys, a deny-list, the logs of a TrustedRoot, anchor keys *)
(* and whether the anchor check is skipped.                                *)

\* load_deny_list refuses a list with an entry that names no key.
DenyListUnreadable(inv) == Absent \in inv.denied

\* load_bundle
BundleUnreadable(b) == b.bundle_format # "bundle/1" \/ b.proof_format # "proof/2"

\* What check loads, and the key fingerprints of verify_bundle.
KeyClass(b, inv) ==
    IF DenyListUnreadable(inv) \/ BundleUnreadable(b) THEN "malformed_bundle"
    ELSE IF b.key_fp # inv.key \/ b.proof_fp # b.key_fp
         THEN "key_mismatch"
         ELSE "ok"

\* The trust anchor's signature, the proof, and the bundle's own copy of
\* every field the proof covers.
ProofClass_NoTimestamp(b) ==
    IF ~Signs(b.source_sig, b.source_db, b.source_tx, b.source_hash)
    THEN "signature_failure"
    ELSE IF b.entry = Junk THEN "malformed_bundle"
    ELSE IF ~Proves(b.entry, b.source_tx, b.source_hash, b.ledger_key)
    THEN "consistency_failure"
    ELSE IF \/ b.value # b.entry.value
            \/ b.tx_id # b.entry.tx
            \/ b.record_type # record_type_of(b.entry.value)
            \/ b.entry_tx_id # b.entry.tx
            \/ b.prove_since_tx # b.source_tx
    THEN "record_mismatch"
    ELSE "ok"

ProofClass(b) ==
    IF ~Signs(b.source_sig, b.source_db, b.source_tx, b.source_hash)
    THEN "signature_failure"
    ELSE IF b.entry = Junk THEN "malformed_bundle"
    ELSE IF ~Proves(b.entry, b.source_tx, b.source_hash, b.ledger_key)
    THEN "consistency_failure"
    ELSE IF \/ b.value # b.entry.value
            \/ b.tx_id # b.entry.tx
            \/ b.timestamp # b.entry.timestamp
            \/ b.record_type # record_type_of(b.entry.value)
            \/ b.entry_tx_id # b.entry.tx
            \/ b.prove_since_tx # b.source_tx
    THEN "record_mismatch"
    ELSE "ok"

\* verify_writer_signature.  A revoked key is refused before anything is
\* said about the signature, and before asking whether the key is held.
WriterClass(i, inv) ==
    IF Body[i].form = "unsigned" THEN "writer_signature_missing"
    ELSE IF Body[i].form = "other format" THEN "malformed_bundle"
    ELSE IF Body[i].writer \in inv.denied THEN "writer_key_revoked"
    ELSE IF Body[i].writer \notin inv.writers THEN "writer_key_unknown"
    ELSE IF Body[i].form = "bad" THEN "writer_signature_failure"
    ELSE "ok"

\* verify_external_anchor, up to the log entry itself.
AnchorClaim(b) ==
    IF b.state = "not_anchored"
    THEN IF b.detail = Absent THEN "malformed_bundle" ELSE "ok"
    ELSE IF \/ b.state # "anchored"
            \/ b.anchor_payload_format # "anchor/1"
            \/ Absent \in {b.anchor_fp, b.log_entry}
         THEN "malformed_bundle"
         ELSE "ok"

\* The payload, recomputed from the trust anchor in the bundle.
BundlePayload(b) == AnchorPayload(b.source_db, b.source_tx, b.source_hash, b.source_sig)

\* The log entry: about this trust anchor, submitted under a key the auditor
\* holds, and where the bundle says it is, in a log the auditor knows.
LogEntryClass(b, inv) ==
    LET e == b.log_entry
        payload == BundlePayload(b)
    IN  IF inv.root = Absent \/ inv.anchors = {} THEN "anchor_unchecked"
        ELSE IF e.digest # payload THEN "anchor_failure"
        ELSE IF b.anchor_fp \notin inv.anchors THEN "anchor_key_unknown"
        ELSE IF \/ e.publicKey # b.anchor_fp
                \/ e.signature # <<b.anchor_fp, payload>>
                \/ e.logIndex # b.log_index
                \/ e.keyId \notin inv.root
                \/ b.log_url # e.keyId
                \/ ~Included(e)
        THEN "anchor_failure"
        ELSE "ok"

AnchorClass(b, inv) ==
    IF AnchorClaim(b) # "ok" \/ b.state = "not_anchored" \/ inv.skip
    THEN AnchorClaim(b)
    ELSE LogEntryClass(b, inv)

\* verify_bundle: the first check that fails names the result.
verify_bundle(b, inv) ==
    LET key == KeyClass(b, inv)
        proof == ProofClass(b)
        writer == WriterClass(b.entry.value, inv)
        anchor == AnchorClass(b, inv)
    IN  IF key # "ok" THEN key
        ELSE IF proof # "ok" THEN proof
        ELSE IF writer # "ok" THEN writer
        ELSE IF anchor # "ok" THEN anchor
        ELSE "verified"
=============================================================================
