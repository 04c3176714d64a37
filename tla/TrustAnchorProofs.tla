------------------------- MODULE TrustAnchorProofs -------------------------
(***************************************************************************)
(* Proofs about TrustAnchor, for any requests, any thread pool and any     *)
(* number of records.                                                      *)
(*                                                                         *)
(* Three facts carry everything.  The published states are closed under    *)
(* prefixes, so what a proof leads to was published when its history was.  *)
(* What a request holds is its own until it answers, so what it proves     *)
(* stays proved however the anchor moves (RequestInv, lemma Frame).  With  *)
(* one request at a time the anchor does not move under a request, and     *)
(* what was attested lies on it (SerialInv).                               *)
(***************************************************************************)
EXTENDS TrustAnchor, HistoryLemmas, FiniteSetTheorems, TLAPS

Active(r) == pc[r] \notin {"idle", "done"}
Fetched(r) == pc[r] \in {"reread", "check", "set", "assign", "open", "dump"}
Moving(r) == pc[r] \in {"set", "assign", "open", "dump"}

\* A state the ledger signed, or damage done to one.
Good(s) == s \in published \/ (~Honest /\ Damaged(s))

\* Published states hold records only, their prefixes were published before
\* them, and on a ledger nobody touched they lie on the one history there is.
LedgerInv ==
    /\ chain \in published
    /\ <<>> \in published
    /\ \A s \in published :
          /\ \A i \in 1 .. Len(s) : s[i] # 0
          /\ \A n \in 0 .. Len(s) : SubSeq(s, 1, n) \in published
    /\ Honest => \A s \in published : Begins(s, chain)

\* The anchor; a request in progress has a process.
AnchorInv ==
    /\ cache # NoState => Good(cache)
    /\ file \notin {Absent, Torn} => Good(file)
    /\ \A r \in Request : Active(r) => cache # NoState

\* The server's answer to r is about a state it published.
EntryInv(r) ==
    /\ entry[r].hist \in published
    /\ entry[r].tx \in 1 .. Len(entry[r].hist)
    /\ entry[r].content = entry[r].hist[entry[r].tx]
    /\ entry[r].since = Len(source[r])
    /\ entry[r].since <= Len(entry[r].hist)

\* What an answered verdict rests on.
VerdictInv(r) ==
    /\ Kind[r] # "verify" \/ Honest \/ PoolSize = 1 => Verifies(entry[r], reply[r].source)
    /\ Kind[r] = "pinned" =>
          /\ reply[r].source \in published
          /\ reply[r].tx <= Len(reply[r].source)
          /\ reply[r].content = reply[r].source[reply[r].tx]

RequestInv(r) ==
    /\ Active(r) => Good(source[r]) /\ (Kind[r] = "pinned" => source[r] \in published)
    /\ Fetched(r) =>
          /\ EntryInv(r)
          /\ Good(held[r])
          /\ Kind[r] # "verify" => held[r] = source[r]
          /\ Honest => Verifies(entry[r], source[r])
    /\ pc[r] = "reread" => Kind[r] = "verify"
    /\ Moving(r) => Verifies(entry[r], held[r]) /\ Kind[r] # "pinned"
    /\ pc[r] # "done" => reply[r].class = "none"
    /\ reply[r].class = "verified" => VerdictInv(r)
    /\ Honest /\ Kind[r] # "verify" => reply[r].class # "consistency_failure"

\* Every attested record is the one that state s commits to.
On(s) == \A a \in attested : a[1] \in 1 .. Len(s) /\ a[2] = s[a[1]]

SerialInv ==
    /\ \A r, q \in Request : Active(r) /\ Active(q) => r = q
    /\ \A r \in Request :
          /\ Active(r) /\ pc[r] \notin {"open", "dump"} /\ Kind[r] # "pinned" => cache = source[r]
          /\ Fetched(r) /\ pc[r] # "reread" => held[r] = source[r]
          /\ pc[r] \in {"open", "dump"} => cache = NewState(entry[r], held[r])
    /\ cache # NoState /\ ~Damaged(cache) => On(cache)
    /\ file \notin {Absent, Torn} /\ ~Damaged(file) => On(file)
    /\ \A a, b \in attested : a[1] = b[1] => a[2] = b[2]

IInv ==
    /\ TypeOK
    /\ LedgerInv
    /\ AnchorInv
    /\ \A r \in Request : RequestInv(r)
    /\ PoolSize = 1 => SerialInv

-----------------------------------------------------------------------------
(* States, answers and proofs.                                             *)

\* The types of the constants.
LEMMA ConstantFacts ==
    ASSUME TypeOK
    PROVE  /\ MaxVersion \in Nat
           /\ scenario.versions \in 0 .. MaxVersion
           /\ scenario.pool \in Nat \ {0}
           /\ scenario.kind \in [Request -> Kinds]
           /\ scenario.honest \in BOOLEAN
           /\ version \in 0 .. MaxVersion
           /\ 0 \in 0 .. MaxVersion
           /\ Forged \in State /\ <<>> \in State
<1>1. scenario \in [kind : [Request -> Kinds], pool : Nat \ {0}, honest : BOOLEAN,
                    versions : 0 .. MaxVersion]
  BY AnchorAssumption DEF TypeOK
<1>2. MaxVersion \in Nat /\ version \in 0 .. scenario.versions
  BY AnchorAssumption DEF TypeOK
<1>3. 0 \in 0 .. MaxVersion
  BY <1>2
<1> QED BY <1>1, <1>2, <1>3 DEF State, Forged

\* What a consistency proof that passes says.
LEMMA VerifiesFacts ==
    ASSUME NEW e, e.hist \in State, NEW s \in State
    PROVE  Verifies(e, s) <=>
              \/ s = <<>>
              \/ ProofEnds(e.since, e.tx) = ProofEnds(Len(s), e.tx) /\ Begins(s, e.hist)
BY PrefixFacts DEF Verifies, State

\* What the server answers about a history h.
LEMMA AnswerFacts ==
    ASSUME TypeOK, NEW h \in State, NEW since \in Nat, since <= Len(h), NEW tx \in 1 .. Len(h)
    PROVE  LET e == Answer(since, tx, h)
           IN  /\ e \in Entries
               /\ e.tx = tx /\ e.since = since
               /\ e.hist = SubSeq(h, 1, Max2(since, tx))
               /\ Max2(since, tx) \in 0 .. Len(h)
               /\ Len(e.hist) = Max2(since, tx)
               /\ tx \in 1 .. Len(e.hist) /\ since <= Len(e.hist)
               /\ e.content = e.hist[tx]
               /\ Begins(e.hist, h)
<1>1. h \in Seq(0 .. MaxVersion) /\ Len(h) \in Nat
  BY DEF State
<1>2. /\ Max2(since, tx) \in 0 .. Len(h)
      /\ tx \in 1 .. Max2(since, tx)
      /\ since <= Max2(since, tx)
  BY <1>1 DEF Max2
<1>3. /\ SubSeq(h, 1, Max2(since, tx)) \in Seq(0 .. MaxVersion)
      /\ Len(SubSeq(h, 1, Max2(since, tx))) = Max2(since, tx)
      /\ \A i \in 1 .. Max2(since, tx) : SubSeq(h, 1, Max2(since, tx))[i] = h[i]
  BY <1>1, <1>2, CutFacts
<1>4. h[tx] \in 0 .. MaxVersion /\ h[tx] = SubSeq(h, 1, Max2(since, tx))[tx]
  BY <1>1, <1>2, <1>3
<1>5. Begins(SubSeq(h, 1, Max2(since, tx)), h)
  BY <1>2, <1>3 DEF Begins
<1> QED BY <1>2, <1>3, <1>4, <1>5 DEF Answer, State, Entries

\* A state that lies on h can be proved from, and the server answers it.
LEMMA ProvableFacts ==
    ASSUME TypeOK, NEW h \in State, NEW s \in State, Begins(s, h), NEW tx \in 1 .. Len(h)
    PROVE  Verifies(Answer(Len(s), tx, h), s)
<1>1. Len(s) \in Nat /\ Len(s) <= Len(h)
  BY DEF State, Begins
<1>2. LET e == Answer(Len(s), tx, h)
      IN  /\ e.hist \in State /\ e.since = Len(s)
          /\ Len(s) <= Len(e.hist) /\ Len(e.hist) \in Nat
          /\ Begins(e.hist, h)
  BY <1>1, AnswerFacts DEF State, Entries
<1>3. Begins(s, Answer(Len(s), tx, h).hist)
  BY <1>1, <1>2 DEF Begins
<1> QED BY <1>2, <1>3, VerifiesFacts

\* The state that a proof leads to.
LEMMA NewStateFacts ==
    ASSUME TypeOK, LedgerInv, NEW r \in Request, EntryInv(r)
    PROVE  /\ NewState(entry[r], held[r]) \in State
           /\ Good(held[r]) => Good(NewState(entry[r], held[r]))
           /\ NewState(entry[r], held[r]) # <<>>
<1>1. /\ entry[r].hist \in Seq(0 .. MaxVersion) /\ held[r] \in Seq(0 .. MaxVersion)
      /\ entry[r].tx \in 0 .. Len(entry[r].hist) /\ entry[r].tx >= 1
  BY DEF TypeOK, State, EntryInv, Entries
<1>2. /\ SubSeq(entry[r].hist, 1, entry[r].tx) \in Seq(0 .. MaxVersion)
      /\ Len(SubSeq(entry[r].hist, 1, entry[r].tx)) = entry[r].tx
  BY <1>1, CutFacts
<1>3. SubSeq(entry[r].hist, 1, entry[r].tx) \in published
  BY <1>1 DEF LedgerInv, EntryInv
<1>4. CASE Len(held[r]) <= entry[r].tx
  <2>1. NewState(entry[r], held[r]) = SubSeq(entry[r].hist, 1, entry[r].tx)
    BY <1>4 DEF NewState
  <2>2. SubSeq(entry[r].hist, 1, entry[r].tx) # <<>>
    BY <1>1, <1>2
  <2> QED BY <1>2, <1>3, <2>1, <2>2 DEF State, Good
<1>5. CASE ~(Len(held[r]) <= entry[r].tx)
  <2>1. NewState(entry[r], held[r]) = held[r]
    BY <1>5 DEF NewState
  <2>2. held[r] # <<>>
    BY <1>1, <1>5
  <2> QED BY <1>1, <2>1, <2>2 DEF State
<1> QED BY <1>4, <1>5

-----------------------------------------------------------------------------
(* The ledger.                                                             *)

\* A commit: the new head is published, and nothing published is lost.
LEMMA AppendStep ==
    ASSUME TypeOK, LedgerInv, Append1, UNCHANGED scenario
    PROVE  /\ LedgerInv'
           /\ published \subseteq published'
           /\ chain' \in State /\ published' \subseteq State
           /\ version' \in 0 .. scenario.versions
           /\ Len(chain') = Len(chain) + 1
           /\ Begins(chain, chain')
           /\ chain' \in published'
<1>0. /\ chain \in Seq(0 .. MaxVersion) /\ Len(chain) \in Nat
      /\ version \in Nat /\ version + 1 \in 0 .. MaxVersion
      /\ version + 1 \in 0 .. scenario.versions
  BY ConstantFacts DEF TypeOK, State, Append1
<1>1. /\ chain' = Append(chain, version + 1) /\ version' = version + 1
      /\ published' = published \cup {chain'}
  BY DEF Append1
<1>2. /\ chain' \in Seq(0 .. MaxVersion)
      /\ Len(chain') = Len(chain) + 1
      /\ chain'[Len(chain) + 1] = version + 1
      /\ Begins(chain, chain')
  BY <1>0, <1>1, AppendFacts
<1>3. ASSUME NEW i \in 1 .. Len(chain') PROVE chain'[i] # 0
  <2>1. CASE i = Len(chain) + 1
    BY <1>0, <1>2, <2>1
  <2>2. CASE i \in 1 .. Len(chain)
    BY <1>2, <2>2 DEF Begins, LedgerInv
  <2> QED BY <1>0, <1>2, <2>1, <2>2
<1>4. ASSUME NEW n \in 0 .. Len(chain') PROVE SubSeq(chain', 1, n) \in published'
  <2>1. CASE n = Len(chain')
    BY <1>1, <1>2, <2>1, WholeCut
  <2>2. CASE n \in 0 .. Len(chain)
    <3>1. SubSeq(chain', 1, n) = SubSeq(chain, 1, n)
      BY <1>0, <1>1, <2>2, AppendCuts
    <3> QED BY <1>1, <2>2, <3>1 DEF LedgerInv
  <2> QED BY <1>0, <1>2, <2>1, <2>2
<1>5. ASSUME Honest, NEW s \in published' PROVE Begins(s, chain')
  <2>1. CASE s = chain'
    BY <1>2, <2>1 DEF Begins
  <2>2. CASE s \in published
    <3>1. Begins(s, chain) /\ s \in Seq(0 .. MaxVersion)
      BY <1>5, <2>2 DEF LedgerInv, TypeOK, State
    <3> QED BY <1>0, <1>2, <3>1 DEF Begins
  <2> QED BY <1>1, <2>1, <2>2
<1>6. LedgerInv'
  BY <1>1, <1>3, <1>4, <1>5 DEF LedgerInv, Honest
<1> QED BY <1>0, <1>1, <1>2, <1>6 DEF State, TypeOK

\* A backup: the ledger goes back to a state it published.
LEMMA RestoreStep ==
    ASSUME TypeOK, LedgerInv, Restore, UNCHANGED scenario
    PROVE  LedgerInv' /\ chain' \in State
<1>1. PICK n \in 1 .. Len(chain) - 1 : chain' = SubSeq(chain, 1, n)
  BY DEF Restore
<1>2. ~Honest /\ UNCHANGED published
  BY DEF Restore
<1>3. chain \in Seq(0 .. MaxVersion) /\ n \in 0 .. Len(chain)
  BY DEF TypeOK, State
<1>4. chain' \in published /\ chain' \in State
  BY <1>1, <1>3, CutFacts DEF LedgerInv, State
<1> QED BY <1>2, <1>4 DEF LedgerInv, Honest

\* The head the process starts from is the ledger's own.
LEMMA HeadIsChain ==
    ASSUME TypeOK, LedgerInv, NEW head \in {chain, Forged}, Checked(head)
    PROVE  head = chain
<1>1. Forged # <<>> /\ Len(Forged) = 1 /\ Forged[1] = 0
  BY DEF Forged
<1>2. Forged \notin published
  BY <1>1 DEF LedgerInv
<1> QED BY <1>1, <1>2 DEF Checked, Signed

-----------------------------------------------------------------------------
(* What the steps change, and the types.                                   *)

\* The requests other than r are where they were.
Others(r) ==
    \A q \in Request \ {r} :
        /\ pc'[q] = pc[q]
        /\ source'[q] = source[q]
        /\ entry'[q] = entry[q]
        /\ held'[q] = held[q]
        /\ reply'[q] = reply[q]

\* A request that moves on and answers nothing.
LEMMA GotoFacts ==
    ASSUME TypeOK, NEW r \in Request, NEW l \in Labels, Goto(r, l)
    PROVE  /\ pc' \in [Request -> Labels]
           /\ pc'[r] = l
           /\ \A q \in Request \ {r} : pc'[q] = pc[q]
<1>1. pc \in [Request -> Labels]
  BY DEF TypeOK
<1> QED BY <1>1 DEF Goto

\* A request that ends.
LEMMA FinishFacts ==
    ASSUME TypeOK, NEW r \in Request, NEW response \in Replies, Finish(r, response)
    PROVE  /\ pc' \in [Request -> Labels]
           /\ pc'[r] = "done"
           /\ reply' \in [Request -> Replies]
           /\ reply'[r] = response
           /\ \A q \in Request \ {r} : pc'[q] = pc[q] /\ reply'[q] = reply[q]
<1>1. reply \in [Request -> Replies] /\ "done" \in Labels
  BY DEF TypeOK, Labels
<1>2. Goto(r, "done") /\ reply' = [reply EXCEPT ![r] = response]
  BY DEF Finish
<1> QED BY <1>1, <1>2, GotoFacts

\* The replies have their types.
LEMMA ReplyFacts ==
    ASSUME TypeOK
    PROVE  /\ \A c \in Classes : Fail(c) \in Replies /\ Fail(c).class = c
           /\ \A r \in Request : Verified(r) \in Replies
<1>1. <<>> \in State /\ 0 \in 0 .. MaxVersion
  BY ConstantFacts
<1>2. \A c \in Classes : Fail(c) \in Replies /\ Fail(c).class = c
  BY <1>1 DEF Fail, NoReply, Replies
<1>3. ASSUME NEW r \in Request PROVE Verified(r) \in Replies
  <2>1. entry[r] \in Entries /\ source[r] \in State
    BY DEF TypeOK
  <2> QED BY <2>1 DEF Verified, Replies, Entries, Classes
<1> QED BY <1>2, <1>3

\* A request that has its entry from the ledger.
LEMMA AnsweredFacts ==
    ASSUME TypeOK, NEW r \in Request, NEW e \in Entries, Answered(r, e)
    PROVE  /\ pc' \in [Request -> Labels]
           /\ pc'[r] = IF Kind[r] = "verify" THEN "reread" ELSE "check"
           /\ entry' \in [Request -> Entries] /\ entry'[r] = e
           /\ held' \in [Request -> State] /\ held'[r] = source[r]
           /\ \A q \in Request \ {r} :
                 pc'[q] = pc[q] /\ entry'[q] = entry[q] /\ held'[q] = held[q]
<1>1. entry \in [Request -> Entries] /\ held \in [Request -> State] /\ source[r] \in State
  BY DEF TypeOK
<1>2. PICK l \in {"reread", "check"} :
        Goto(r, l) /\ l = IF Kind[r] = "verify" THEN "reread" ELSE "check"
  BY DEF Answered, ReadsTwice
<1>3. l \in Labels
  BY DEF Labels
<1>4. entry' = [entry EXCEPT ![r] = e] /\ held' = [held EXCEPT ![r] = source[r]]
  BY DEF Answered
<1> QED BY <1>1, <1>2, <1>3, <1>4, GotoFacts

\* The parts of TypeOK that no route changes by itself.
LEMMA TypeFrame ==
    ASSUME TypeOK, UNCHANGED scenario,
           version' \in 0 .. scenario.versions, chain' \in State, published' \subseteq State,
           file' \in State \cup {Absent, Torn}, cache' \in State \cup {NoState},
           pc' \in [Request -> Labels], source' \in [Request -> State],
           entry' \in [Request -> Entries], held' \in [Request -> State],
           reply' \in [Request -> Replies], attested' \subseteq Nat \X (0 .. MaxVersion)
    PROVE  TypeOK'
BY DEF TypeOK, State, Entries, Replies

\* What a step leaves alone keeps its type.
LEMMA UnchangedTypes ==
    ASSUME TypeOK
    PROVE  /\ UNCHANGED server => /\ version' \in 0 .. scenario.versions
                                  /\ chain' \in State /\ published' \subseteq State
           /\ UNCHANGED file => file' \in State \cup {Absent, Torn}
           /\ UNCHANGED cache => cache' \in State \cup {NoState}
           /\ UNCHANGED pc => pc' \in [Request -> Labels]
           /\ UNCHANGED source => source' \in [Request -> State]
           /\ UNCHANGED entry => entry' \in [Request -> Entries]
           /\ UNCHANGED held => held' \in [Request -> State]
           /\ UNCHANGED reply => reply' \in [Request -> Replies]
           /\ UNCHANGED attested => attested' \subseteq Nat \X (0 .. MaxVersion)
BY DEF TypeOK, server

\* A step of a route keeps the types, the ledger's invariant and the other
\* requests.
LEMMA RouteTypes ==
    ASSUME TypeOK, LedgerInv, AnchorInv, UNCHANGED scenario,
           NEW r \in Request, RequestInv(r), Route(r)
    PROVE  TypeOK' /\ Others(r) /\ LedgerInv' /\ published \subseteq published'
<1>1. CASE GetAnchor(r)
  <2>1. /\ Goto(r, "fetch") /\ "fetch" \in Labels
        /\ source' = [source EXCEPT ![r] = cache] /\ cache \in State
        /\ UNCHANGED <<server, anchor, entry, held, reply, attested>>
    BY <1>1 DEF GetAnchor, Labels, TypeOK
  <2>2. source \in [Request -> State]
    BY DEF TypeOK
  <2>3. source' \in [Request -> State] /\ \A q \in Request \ {r} : source'[q] = source[q]
    BY <2>1, <2>2
  <2> QED BY <2>1, <2>3, GotoFacts, UnchangedTypes, TypeFrame DEF Others, LedgerInv, server, anchor, Honest
<1>2. CASE SupplyAnchor(r)
  <2>1. PICK a \in published \cup {Forged} :
          /\ source' = [source EXCEPT ![r] = a]
          /\ \/ Goto(r, "fetch") /\ UNCHANGED reply
             \/ Finish(r, Fail("anchor_signature_failure"))
    BY <1>2 DEF SupplyAnchor
  <2>2. /\ "fetch" \in Labels /\ Fail("anchor_signature_failure") \in Replies
        /\ UNCHANGED <<server, anchor, entry, held, attested>>
    BY <1>2, ReplyFacts DEF SupplyAnchor, Labels, Classes
  <2>3. source \in [Request -> State] /\ a \in State
    BY ConstantFacts DEF TypeOK
  <2>4. source' \in [Request -> State] /\ \A q \in Request \ {r} : source'[q] = source[q]
    BY <2>1, <2>3
  <2>5. /\ pc' \in [Request -> Labels] /\ reply' \in [Request -> Replies]
        /\ \A q \in Request \ {r} : pc'[q] = pc[q] /\ reply'[q] = reply[q]
    BY <2>1, <2>2, GotoFacts, FinishFacts, UnchangedTypes
  <2> QED BY <2>2, <2>4, <2>5, UnchangedTypes, TypeFrame DEF Others, LedgerInv, server, anchor, Honest
<1>3. CASE Fetch(r)
  <2>1. UNCHANGED <<server, anchor, source, attested>>
    BY <1>3 DEF Fetch
  <2>2. CASE Len(source[r]) > Len(chain)
    <3>1. Finish(r, Fail("unknown")) /\ UNCHANGED <<entry, held>> /\ Fail("unknown") \in Replies
      BY <1>3, <2>2, ReplyFacts DEF Fetch, Classes
    <3> QED BY <2>1, <3>1, FinishFacts, UnchangedTypes, TypeFrame DEF Others, LedgerInv, server, anchor, Honest
  <2>3. CASE ~(Len(source[r]) > Len(chain))
    <3>1. PICK tx \in 1 .. Len(chain) : Answered(r, Answer(Len(source[r]), tx, chain))
      BY <1>3, <2>3 DEF Fetch
    <3>2. source[r] \in State /\ chain \in State
      BY DEF TypeOK
    <3>3. Len(source[r]) \in Nat /\ Len(source[r]) <= Len(chain)
      BY <2>3, <3>2 DEF State
    <3>4. Answer(Len(source[r]), tx, chain) \in Entries /\ UNCHANGED reply
      BY <1>3, <2>3, <3>2, <3>3, AnswerFacts DEF Fetch
    <3> QED BY <2>1, <3>1, <3>4, AnsweredFacts, UnchangedTypes, TypeFrame DEF Others, LedgerInv, server, anchor, Honest
  <2> QED BY <2>2, <2>3
<1>4. CASE FetchNotFound(r)
  <2>1. /\ Finish(r, Fail("not_found")) /\ Fail("not_found") \in Replies
        /\ UNCHANGED <<server, anchor, source, entry, held, attested>>
    BY <1>4, ReplyFacts DEF FetchNotFound, Classes
  <2> QED BY <2>1, FinishFacts, UnchangedTypes, TypeFrame DEF Others, LedgerInv, server, anchor, Honest
<1>5. CASE FetchSet(r)
  <2>1. UNCHANGED <<anchor, source, attested>>
    BY <1>5 DEF FetchSet
  <2>2. CASE Len(source[r]) > Len(chain)
    <3>1. /\ Finish(r, Fail("unknown")) /\ Fail("unknown") \in Replies
          /\ UNCHANGED <<server, entry, held>>
      BY <1>5, <2>2, ReplyFacts DEF FetchSet, Classes
    <3> QED BY <2>1, <3>1, FinishFacts, UnchangedTypes, TypeFrame DEF Others, LedgerInv, server, anchor, Honest
  <2>3. CASE ~(Len(source[r]) > Len(chain))
    <3>1. /\ Append1 /\ UNCHANGED reply
          /\ Answered(r, Answer(Len(source[r]), Len(chain'), chain'))
      BY <1>5, <2>3 DEF FetchSet
    <3>2. source[r] \in State /\ chain \in State
      BY DEF TypeOK
    <3>3. chain' \in State /\ Len(chain') = Len(chain) + 1
      BY <3>1, AppendStep
    <3>4. /\ Len(source[r]) \in Nat /\ Len(source[r]) <= Len(chain')
          /\ Len(chain') \in 1 .. Len(chain')
      BY <2>3, <3>2, <3>3 DEF State
    <3>5. Answer(Len(source[r]), Len(chain'), chain') \in Entries
      BY <3>3, <3>4, AnswerFacts
    <3> QED BY <2>1, <3>1, <3>5, AnsweredFacts, AppendStep, UnchangedTypes, TypeFrame DEF Others, anchor
  <2> QED BY <2>2, <2>3
<1>6. CASE Reread(r)
  <2>1. /\ held' = [held EXCEPT ![r] = cache] /\ Goto(r, "check") /\ "check" \in Labels
        /\ UNCHANGED <<server, anchor, source, entry, reply, attested>>
        /\ pc[r] = "reread"
    BY <1>6 DEF Reread, Labels
  <2>2. held \in [Request -> State] /\ cache \in State
    BY <2>1 DEF TypeOK, AnchorInv, Active
  <2>3. held' \in [Request -> State] /\ \A q \in Request \ {r} : held'[q] = held[q]
    BY <2>1, <2>2
  <2> QED BY <2>1, <2>3, GotoFacts, UnchangedTypes, TypeFrame DEF Others, LedgerInv, server, anchor, Honest
<1>7. CASE Check(r)
  <2>1. UNCHANGED <<server, anchor, source, entry, held>>
    BY <1>7 DEF Check
  <2>2. \/ Goto(r, "set") /\ UNCHANGED reply
        \/ \E c \in Classes : Finish(r, Fail(c))
        \/ Finish(r, Verified(r))
    BY <1>7 DEF Check, Classes
  <2>3. "set" \in Labels
    BY DEF Labels
  <2>4. /\ pc' \in [Request -> Labels] /\ reply' \in [Request -> Replies]
        /\ \A q \in Request \ {r} : pc'[q] = pc[q] /\ reply'[q] = reply[q]
    BY <2>2, <2>3, GotoFacts, FinishFacts, ReplyFacts, UnchangedTypes
  <2>5. <<entry[r].tx, entry[r].content>> \in Nat \X (0 .. MaxVersion)
    BY DEF TypeOK, Entries
  <2>6. attested' \subseteq Nat \X (0 .. MaxVersion)
    BY <1>7, <2>5 DEF Check, TypeOK
  <2> QED BY <2>1, <2>4, <2>6, UnchangedTypes, TypeFrame DEF Others, LedgerInv, server, anchor, Honest
<1>8. CASE SetChecks(r)
  <2>1. /\ \/ Goto(r, "assign") /\ UNCHANGED reply
           \/ Finish(r, Fail("unknown"))
        /\ UNCHANGED <<server, anchor, source, entry, held, attested>>
        /\ "assign" \in Labels /\ Fail("unknown") \in Replies
    BY <1>8, ReplyFacts DEF SetChecks, Labels, Classes
  <2>2. /\ pc' \in [Request -> Labels] /\ reply' \in [Request -> Replies]
        /\ \A q \in Request \ {r} : pc'[q] = pc[q] /\ reply'[q] = reply[q]
    BY <2>1, GotoFacts, FinishFacts, UnchangedTypes
  <2> QED BY <2>1, <2>2, UnchangedTypes, TypeFrame DEF Others, LedgerInv, server, anchor, Honest
<1>9. CASE SetAssigns(r)
  <2>1. /\ Goto(r, "open") /\ "open" \in Labels /\ cache' = NewState(entry[r], held[r])
        /\ UNCHANGED <<server, file, source, entry, held, reply, attested>>
        /\ pc[r] = "assign"
    BY <1>9 DEF SetAssigns, Labels
  <2>2. cache' \in State
    BY <2>1, NewStateFacts DEF RequestInv, Fetched
  <2> QED BY <2>1, <2>2, GotoFacts, UnchangedTypes, TypeFrame DEF Others, LedgerInv, server, Honest
<1>10. CASE SetOpens(r)
  <2>1. /\ Goto(r, "dump") /\ "dump" \in Labels /\ file' = Torn
        /\ UNCHANGED <<server, cache, source, entry, held, reply, attested>>
    BY <1>10 DEF SetOpens, Labels
  <2> QED BY <2>1, GotoFacts, UnchangedTypes, TypeFrame DEF Others, LedgerInv, server, Honest
<1>11. CASE SetDumps(r)
  <2>1. /\ Finish(r, Verified(r)) /\ Verified(r) \in Replies
        /\ file' = NewState(entry[r], held[r])
        /\ attested' = attested \cup {<<entry[r].tx, entry[r].content>>}
        /\ UNCHANGED <<server, cache, source, entry, held>>
        /\ pc[r] = "dump"
    BY <1>11, ReplyFacts DEF SetDumps
  <2>2. file' \in State
    BY <2>1, NewStateFacts DEF RequestInv, Fetched
  <2>3. attested' \subseteq Nat \X (0 .. MaxVersion)
    BY <2>1 DEF TypeOK, Entries
  <2> QED BY <2>1, <2>2, <2>3, FinishFacts, UnchangedTypes, TypeFrame DEF Others, LedgerInv, server, Honest
<1>12. CASE SetFails(r)
  <2>1. /\ Finish(r, Fail("unknown")) /\ Fail("unknown") \in Replies
        /\ UNCHANGED <<server, anchor, source, entry, held, attested>>
    BY <1>12, ReplyFacts DEF SetFails, Classes
  <2> QED BY <2>1, FinishFacts, UnchangedTypes, TypeFrame DEF Others, LedgerInv, server, anchor, Honest
<1> QED BY <1>1, <1>2, <1>3, <1>4, <1>5, <1>6, <1>7, <1>8, <1>9, <1>10, <1>11, <1>12 DEF Route

-----------------------------------------------------------------------------
(* The requests.                                                           *)

\* What was published stays published.
LEMMA GoodGrows ==
    ASSUME published \subseteq published', UNCHANGED scenario, NEW s, Good(s)
    PROVE  Good(s)'
BY DEF Good, Honest, Damaged

\* A request is not disturbed by what happens elsewhere.
LEMMA Frame ==
    ASSUME NEW r \in Request, RequestInv(r), published \subseteq published', UNCHANGED scenario,
           pc'[r] = pc[r], source'[r] = source[r], entry'[r] = entry[r], held'[r] = held[r],
           reply'[r] = reply[r]
    PROVE  RequestInv(r)'
<1>1. Good(source[r]) => Good(source[r])'
  BY DEF Good, Honest, Damaged
<1>2. Good(held[r]) => Good(held[r])'
  BY DEF Good, Honest, Damaged
<1>3. EntryInv(r) => EntryInv(r)'
  BY DEF EntryInv
<1>4. VerdictInv(r) => VerdictInv(r)'
  BY DEF VerdictInv, Kind, Honest, PoolSize, Verifies, ProofEnds
<1>5. Verifies(entry[r], source[r])' <=> Verifies(entry[r], source[r])
  BY DEF Verifies, ProofEnds
<1>6. Verifies(entry[r], held[r])' <=> Verifies(entry[r], held[r])
  BY DEF Verifies, ProofEnds
<1>7. (Kind[r])' = Kind[r] /\ Honest' = Honest
  BY DEF Kind, Honest
<1> QED BY <1>1, <1>2, <1>3, <1>4, <1>5, <1>6, <1>7 DEF RequestInv, Active, Fetched, Moving

\* A request that ends with a failure has nothing to show for it.
LEMMA Failed ==
    ASSUME TypeOK, UNCHANGED scenario, NEW r \in Request, NEW c \in Classes \ {"none", "verified"},
           c = "consistency_failure" /\ Honest => Kind[r] = "verify",
           Finish(r, Fail(c))
    PROVE  RequestInv(r)'
<1>1. pc'[r] = "done" /\ reply'[r].class = c
  BY ReplyFacts, FinishFacts
<1> QED BY <1>1 DEF RequestInv, Active, Fetched, Moving, Kind, Honest

\* The answer of the server is about a published state, and on a ledger
\* nobody touched it can be proved from the state it was asked about.
LEMMA AnsweredStep ==
    ASSUME TypeOK, LedgerInv', chain' \in State, published \subseteq published', UNCHANGED scenario,
           NEW r \in Request, RequestInv(r), pc[r] = "fetch",
           UNCHANGED <<source, reply>>,
           NEW tx \in 1 .. Len(chain'), Len(source[r]) <= Len(chain'),
           Answered(r, Answer(Len(source[r]), tx, chain'))
    PROVE  RequestInv(r)'
<1> DEFINE e == Answer(Len(source[r]), tx, chain')
<1>1. source[r] \in State /\ Len(source[r]) \in Nat
  BY DEF TypeOK, State
<1>2. /\ e \in Entries /\ e.tx = tx /\ e.since = Len(source[r])
      /\ e.hist = SubSeq(chain', 1, Max2(Len(source[r]), tx))
      /\ Max2(Len(source[r]), tx) \in 0 .. Len(chain')
      /\ tx \in 1 .. Len(e.hist) /\ Len(source[r]) <= Len(e.hist)
      /\ e.content = e.hist[tx]
  <2>1. PICK h \in State : h = chain'
    OBVIOUS
  <2>2. PICK n \in Nat : n = Len(source[r])
    BY <1>1
  <2>3. tx \in 1 .. Len(h) /\ n <= Len(h)
    BY <2>1, <2>2
  <2> QED BY <2>1, <2>2, <2>3, AnswerFacts
<1>3. e.hist \in published'
  BY <1>2 DEF LedgerInv
<1>4. /\ pc'[r] = IF Kind[r] = "verify" THEN "reread" ELSE "check"
      /\ entry'[r] = e /\ held'[r] = source[r] /\ source'[r] = source[r] /\ reply'[r] = reply[r]
  BY <1>2, AnsweredFacts
<1>5. EntryInv(r)'
  BY <1>2, <1>3, <1>4 DEF EntryInv
<1>6. /\ Good(source[r]) /\ (Kind[r] = "pinned" => source[r] \in published)
      /\ reply[r].class = "none"
  BY DEF RequestInv, Active
<1>7. Good(source[r])' /\ Good(held[r])'
  BY <1>4, <1>6 DEF Good, Honest, Damaged
<1>8. ASSUME Honest PROVE Verifies(entry'[r], source'[r])
  <2>1. ~Damaged(source[r]) \/ source[r] \in published
    BY <1>6, <1>8 DEF Good
  <2>2. source[r] \in published'
    BY <1>6, <1>8 DEF Good
  <2>3. Begins(source[r], chain')
    BY <1>8, <2>2 DEF LedgerInv, Honest
  <2> QED BY <1>1, <1>4, <2>3, ProvableFacts
<1>9. (Kind[r])' = Kind[r] /\ Honest' = Honest
  BY DEF Kind, Honest
<1> QED
  BY <1>4, <1>5, <1>6, <1>7, <1>8, <1>9 DEF RequestInv, Active, Fetched, Moving


\* A verified answer: what RequestInv asks of it.
LEMMA VerdictStep ==
    ASSUME TypeOK, UNCHANGED <<scenario, source, entry>>, NEW r \in Request,
           Finish(r, Verified(r)),
           Kind[r] # "verify" \/ Honest \/ PoolSize = 1 => Verifies(entry[r], source[r]),
           Kind[r] = "pinned" => /\ source[r] \in published'
                                 /\ entry[r].tx <= Len(source[r])
                                 /\ entry[r].content = source[r][entry[r].tx]
    PROVE  RequestInv(r)'
<1>1. pc'[r] = "done" /\ reply'[r] = Verified(r)
  BY ReplyFacts, FinishFacts
<1>2. /\ reply'[r].class = "verified" /\ reply'[r].source = source[r]
      /\ reply'[r].tx = entry[r].tx /\ reply'[r].content = entry[r].content
  BY <1>1 DEF Verified
<1>3. (Kind[r])' = Kind[r] /\ Honest' = Honest /\ PoolSize' = PoolSize
  BY DEF Kind, Honest, PoolSize
<1>4. Verifies(entry[r], source[r]) => Verifies(entry[r], reply[r].source)'
  BY <1>2 DEF Verifies, ProofEnds
<1>5. VerdictInv(r)'
  BY <1>2, <1>3, <1>4 DEF VerdictInv
<1> QED BY <1>1, <1>2, <1>5 DEF RequestInv, Active, Fetched, Moving

\* A step that only moves on within a route.
LEMMA MovesOn ==
    ASSUME TypeOK, UNCHANGED <<scenario, source, entry, held, reply>>,
           published \subseteq published', NEW r \in Request,
           RequestInv(r), Fetched(r), NEW l \in {"check", "set", "assign", "open", "dump"},
           Goto(r, l), l # "check" => Verifies(entry[r], held[r]) /\ Kind[r] # "pinned"
    PROVE  RequestInv(r)'
<1>1. pc'[r] = l
  BY GotoFacts DEF Labels
<1>2. /\ Good(source[r]) /\ Good(held[r]) /\ EntryInv(r)
      /\ (Kind[r] = "pinned" => source[r] \in published)
      /\ (Kind[r] # "verify" => held[r] = source[r])
      /\ (Honest => Verifies(entry[r], source[r]))
      /\ reply[r].class = "none"
  BY DEF RequestInv, Fetched, Active
<1>3. Good(source[r])' /\ Good(held[r])' /\ EntryInv(r)'
  BY <1>2 DEF Good, Honest, Damaged, EntryInv
<1>4. (Kind[r])' = Kind[r] /\ Honest' = Honest
  BY DEF Kind, Honest
<1>5. /\ Verifies(entry[r], source[r])' <=> Verifies(entry[r], source[r])
      /\ Verifies(entry[r], held[r])' <=> Verifies(entry[r], held[r])
  BY DEF Verifies, ProofEnds
<1> QED BY <1>1, <1>2, <1>3, <1>4, <1>5 DEF RequestInv, Active, Fetched, Moving

\* verifiedGet.call with the state it holds.
LEMMA CheckStep ==
    ASSUME TypeOK, LedgerInv, UNCHANGED scenario, NEW r \in Request, RequestInv(r), Check(r)
    PROVE  RequestInv(r)'
<1>1. /\ Fetched(r) /\ pc[r] = "check" /\ UNCHANGED <<server, source, entry, held>>
      /\ UNCHANGED published
  BY DEF Check, Fetched, server
<1>2. /\ EntryInv(r) /\ Good(held[r]) /\ (Kind[r] # "verify" => held[r] = source[r])
      /\ (Honest => Verifies(entry[r], source[r]))
      /\ (Kind[r] = "pinned" => source[r] \in published)
  BY <1>1 DEF RequestInv, Active
<1>3. CASE ~Verifies(entry[r], held[r])
  <2>1. Finish(r, Fail("consistency_failure"))
    BY <1>3 DEF Check
  <2>2. Honest => Kind[r] = "verify"
    BY <1>2, <1>3
  <2>3. "consistency_failure" \in Classes \ {"none", "verified"}
    BY DEF Classes
  <2> QED BY <2>1, <2>2, <2>3, Failed
<1>4. CASE Verifies(entry[r], held[r]) /\ Kind[r] = "pinned" /\ Precedes(r)
  <2>1. Finish(r, Fail("anchor_precedes_record"))
    BY <1>4 DEF Check, Pinned
  <2>2. "anchor_precedes_record" \in Classes \ {"none", "verified"}
    BY DEF Classes
  <2> QED BY <2>1, <2>2, Failed
<1>5. CASE Verifies(entry[r], held[r]) /\ Kind[r] = "pinned" /\ ~Precedes(r)
  <2>1. Finish(r, Verified(r))
    BY <1>5 DEF Check, Pinned
  <2>2. Verifies(entry[r], source[r])
    BY <1>2, <1>5
  <2>3. /\ entry[r].hist \in State /\ source[r] \in State /\ Len(source[r]) \in Nat
        /\ entry[r].tx \in Nat /\ entry[r].tx >= 1
    BY <1>2 DEF TypeOK, Entries, State, EntryInv
  <2>4. entry[r].tx <= Len(source[r])
    BY <1>5, <2>3 DEF Precedes
  <2>5. Begins(source[r], entry[r].hist)
    <3>1. source[r] # <<>>
      BY <2>3, <2>4
    <3> QED BY <2>2, <2>3, <3>1, VerifiesFacts
  <2>6. entry[r].content = source[r][entry[r].tx]
    BY <1>2, <2>3, <2>4, <2>5 DEF EntryInv, Begins
  <2> QED BY <1>1, <1>2, <1>5, <2>1, <2>2, <2>4, <2>6, VerdictStep
<1>6. CASE Verifies(entry[r], held[r]) /\ Kind[r] # "pinned"
  <2>1. Goto(r, "set") /\ UNCHANGED reply
    BY <1>6 DEF Check, Pinned
  <2> QED BY <1>1, <1>6, <2>1, MovesOn
<1> QED BY <1>3, <1>4, <1>5, <1>6


\* The request that takes a step of its route.
LEMMA RequestStep ==
    ASSUME TypeOK, LedgerInv, AnchorInv, PoolSize = 1 => SerialInv, UNCHANGED scenario,
           NEW r \in Request, RequestInv(r), Route(r)
    PROVE  RequestInv(r)'
<1>0. /\ TypeOK' /\ LedgerInv' /\ published \subseteq published'
      /\ "unknown" \in Classes \ {"none", "verified"}
      /\ "not_found" \in Classes \ {"none", "verified"}
      /\ "anchor_signature_failure" \in Classes \ {"none", "verified"}
  BY RouteTypes DEF Classes
<1>1. CASE GetAnchor(r)
  <2>1. /\ pc'[r] = "fetch" /\ source'[r] = cache /\ cache # NoState
        /\ Kind[r] # "pinned" /\ pc[r] = "idle"
    BY <1>1, GotoFacts DEF GetAnchor, Labels, TypeOK
  <2>2. reply'[r] = reply[r] /\ reply[r].class = "none" /\ UNCHANGED published
    BY <1>1, <2>1 DEF GetAnchor, RequestInv, server
  <2>3. Good(cache) /\ (Kind[r])' = Kind[r]
    BY <2>1 DEF AnchorInv, Kind
  <2>4. Good(source[r])'
    BY <2>1, <2>2, <2>3 DEF Good, Honest, Damaged
  <2> QED BY <2>1, <2>2, <2>3, <2>4 DEF RequestInv, Active, Fetched, Moving
<1>2. CASE SupplyAnchor(r)
  <2>1. PICK a \in published \cup {Forged} :
          /\ source' = [source EXCEPT ![r] = a]
          /\ IF Signed(a) THEN Goto(r, "fetch") /\ UNCHANGED reply
                          ELSE Finish(r, Fail("anchor_signature_failure"))
    BY <1>2 DEF SupplyAnchor
  <2>2. CASE ~Signed(a)
    BY <1>0, <2>1, <2>2, Failed
  <2>3. CASE Signed(a)
    <3>1. /\ pc'[r] = "fetch" /\ source'[r] = a /\ a \in published
          /\ reply'[r] = reply[r] /\ UNCHANGED published
      BY <1>2, <2>1, <2>3, GotoFacts DEF SupplyAnchor, Labels, TypeOK, Signed, server
    <3>2. reply[r].class = "none"
      BY <1>2 DEF SupplyAnchor, RequestInv
    <3>3. Good(source[r])'
      BY <3>1 DEF Good
    <3> QED BY <3>1, <3>2, <3>3 DEF RequestInv, Active, Fetched, Moving
  <2> QED BY <2>2, <2>3
<1>3. CASE Fetch(r)
  <2>1. CASE Len(source[r]) > Len(chain)
    <3>1. Finish(r, Fail("unknown"))
      BY <1>3, <2>1 DEF Fetch
    <3> QED BY <1>0, <3>1, Failed
  <2>2. CASE ~(Len(source[r]) > Len(chain))
    <3>1. PICK tx \in 1 .. Len(chain) : Answered(r, Answer(Len(source[r]), tx, chain))
      BY <1>3, <2>2 DEF Fetch
    <3>2. /\ UNCHANGED <<source, reply>> /\ pc[r] = "fetch" /\ chain' = chain
          /\ Len(source[r]) <= Len(chain) /\ chain' \in State
      BY <1>0, <1>3, <2>2 DEF Fetch, server, TypeOK, State
    <3> QED BY <1>0, <3>1, <3>2, AnsweredStep
  <2> QED BY <2>1, <2>2
<1>4. CASE FetchNotFound(r)
  BY <1>0, <1>4, Failed DEF FetchNotFound
<1>5. CASE FetchSet(r)
  <2>1. CASE Len(source[r]) > Len(chain)
    <3>1. Finish(r, Fail("unknown"))
      BY <1>5, <2>1 DEF FetchSet
    <3> QED BY <1>0, <3>1, Failed
  <2>2. CASE ~(Len(source[r]) > Len(chain))
    <3>1. Append1 /\ Answered(r, Answer(Len(source[r]), Len(chain'), chain'))
      BY <1>5, <2>2 DEF FetchSet
    <3>2. UNCHANGED <<source, reply>> /\ pc[r] = "fetch" /\ chain' \in State
      BY <1>0, <1>5, <2>2 DEF FetchSet, TypeOK
    <3>3. /\ Len(chain') = Len(chain) + 1 /\ Len(chain) \in Nat
          /\ Len(source[r]) \in Nat
      BY <3>1, AppendStep DEF TypeOK, State
    <3>4. Len(chain') \in 1 .. Len(chain') /\ Len(source[r]) <= Len(chain')
      BY <2>2, <3>3
    <3> QED BY <1>0, <3>1, <3>2, <3>4, AnsweredStep
  <2> QED BY <2>1, <2>2
<1>6. CASE Reread(r)
  <2>1. /\ pc'[r] = "check" /\ held'[r] = cache /\ pc[r] = "reread"
        /\ source'[r] = source[r] /\ entry'[r] = entry[r] /\ reply'[r] = reply[r]
        /\ UNCHANGED published
    BY <1>6, GotoFacts DEF Reread, Labels, TypeOK, server
  <2>2. /\ Good(cache) /\ Good(source[r]) /\ EntryInv(r)
        /\ Kind[r] = "verify" /\ reply[r].class = "none"
        /\ (Honest => Verifies(entry[r], source[r]))
    BY <2>1 DEF AnchorInv, RequestInv, Active, Fetched
  <2>3. Good(source[r])' /\ Good(held[r])' /\ EntryInv(r)'
    BY <2>1, <2>2 DEF Good, Honest, Damaged, EntryInv
  <2>4. (Kind[r])' = Kind[r] /\ Honest' = Honest
    BY DEF Kind, Honest
  <2>5. Verifies(entry[r], source[r])' <=> Verifies(entry[r], source[r])
    BY <2>1 DEF Verifies, ProofEnds
  <2> QED BY <2>1, <2>2, <2>3, <2>4, <2>5 DEF RequestInv, Active, Fetched, Moving
<1>7. CASE Check(r)
  BY <1>7, CheckStep
<1>8. CASE SetChecks(r)
  <2>1. CASE Finish(r, Fail("unknown"))
    BY <1>0, <2>1, Failed
  <2>2. CASE Goto(r, "assign") /\ UNCHANGED reply
    <3>1. Fetched(r) /\ Moving(r) /\ UNCHANGED <<source, entry, held>>
      BY <1>8 DEF SetChecks, Fetched, Moving
    <3> QED BY <1>0, <2>2, <3>1, MovesOn DEF RequestInv
  <2> QED BY <1>8, <2>1, <2>2 DEF SetChecks
<1>9. CASE SetAssigns(r)
  <2>1. Fetched(r) /\ Moving(r) /\ Goto(r, "open") /\ UNCHANGED <<source, entry, held, reply>>
    BY <1>9 DEF SetAssigns, Fetched, Moving
  <2> QED BY <1>0, <2>1, MovesOn DEF RequestInv
<1>10. CASE SetOpens(r)
  <2>1. Fetched(r) /\ Moving(r) /\ Goto(r, "dump") /\ UNCHANGED <<source, entry, held, reply>>
    BY <1>10 DEF SetOpens, Fetched, Moving
  <2> QED BY <1>0, <2>1, MovesOn DEF RequestInv
<1>11. CASE SetDumps(r)
  <2>1. /\ Fetched(r) /\ Moving(r) /\ pc[r] # "reread" /\ Finish(r, Verified(r))
        /\ UNCHANGED <<source, entry>>
    BY <1>11 DEF SetDumps, Fetched, Moving
  <2>2. /\ Verifies(entry[r], held[r]) /\ Kind[r] # "pinned"
        /\ (Kind[r] # "verify" => held[r] = source[r])
        /\ (Honest => Verifies(entry[r], source[r]))
    BY <2>1 DEF RequestInv
  <2>3. PoolSize = 1 => held[r] = source[r]
    BY <2>1 DEF SerialInv
  <2> QED BY <2>1, <2>2, <2>3, VerdictStep
<1>12. CASE SetFails(r)
  BY <1>0, <1>12, Failed DEF SetFails
<1> QED BY <1>1, <1>2, <1>3, <1>4, <1>5, <1>6, <1>7, <1>8, <1>9, <1>10, <1>11, <1>12 DEF Route


-----------------------------------------------------------------------------
(* The anchor.                                                             *)

\* No marker is a state.
LEMMA Markers ==
    NoState \notin State /\ Absent \notin State /\ Torn \notin State
<1>1. ASSUME NEW s \in State, NEW i \in 1 .. Len(s) PROVE s[i] \in 0 .. MaxVersion
  BY Members DEF State
<1>2. \A x \in {NoState, Absent, Torn} : Len(x) = 1 /\ x[1] \notin 0 .. MaxVersion
  BY AnchorAssumption DEF NoState, Absent, Torn
<1>3. 1 \in 1 .. 1
  OBVIOUS
<1> QED BY <1>1, <1>2, <1>3

\* A request takes steps only while the process is up, and moves the anchor
\* in three of them.
LEMMA RouteAnchor ==
    ASSUME TypeOK, LedgerInv, AnchorInv, UNCHANGED scenario,
           NEW r \in Request, RequestInv(r), Route(r)
    PROVE  /\ cache # NoState
           /\ \/ UNCHANGED <<file, cache>>
              \/ SetAssigns(r) \/ SetOpens(r) \/ SetDumps(r)
<1>1. CASE GetAnchor(r) \/ SupplyAnchor(r)
  BY <1>1 DEF GetAnchor, SupplyAnchor, anchor
<1>2. CASE ~(GetAnchor(r) \/ SupplyAnchor(r))
  <2>1. Active(r)
    BY <1>2 DEF Active, Route, Fetch, FetchNotFound, FetchSet, Reread, Check, SetChecks,
                SetAssigns, SetOpens, SetDumps, SetFails
  <2>2. \/ UNCHANGED <<file, cache>>
        \/ SetAssigns(r) \/ SetOpens(r) \/ SetDumps(r)
    BY <1>2 DEF Route, Fetch, FetchNotFound, FetchSet, Reread, Check, SetChecks, SetFails, anchor
  <2> QED BY <2>1, <2>2 DEF AnchorInv
<1> QED BY <1>1, <1>2

\* Every step of a request keeps the anchor published.
LEMMA AnchorStep ==
    ASSUME TypeOK, LedgerInv, AnchorInv, UNCHANGED scenario,
           NEW r \in Request, RequestInv(r), Route(r)
    PROVE  AnchorInv'
<1>1. cache # NoState /\ published \subseteq published'
  BY RouteAnchor, RouteTypes
<1>2. Good(cache) => Good(cache)'  \/ cache' # cache
  BY <1>1 DEF Good, Honest, Damaged
<1>3. Good(file) => Good(file)' \/ file' # file
  BY <1>1 DEF Good, Honest, Damaged
<1>4. CASE UNCHANGED <<file, cache>>
  BY <1>1, <1>2, <1>3, <1>4 DEF AnchorInv
<1>5. CASE SetAssigns(r) \/ SetOpens(r) \/ SetDumps(r)
  <2>1. /\ EntryInv(r) /\ Good(held[r]) /\ UNCHANGED published
    BY <1>5 DEF SetAssigns, SetOpens, SetDumps, RequestInv, Fetched, server
  <2>2. NewState(entry[r], held[r]) \in State /\ Good(NewState(entry[r], held[r]))
    BY <2>1, NewStateFacts
  <2>3. /\ cache' = NewState(entry[r], held[r]) \/ cache' = cache
        /\ file' = NewState(entry[r], held[r]) \/ file' = file \/ file' = Torn
    BY <1>5 DEF SetAssigns, SetOpens, SetDumps
  <2>4. cache' = NewState(entry[r], held[r]) => Good(cache)' /\ cache' # NoState
    BY <2>1, <2>2, Markers DEF Good, Honest, Damaged
  <2>5. file' = NewState(entry[r], held[r]) => Good(file)'
    BY <2>1, <2>2 DEF Good, Honest, Damaged
  <2> QED BY <1>1, <1>2, <1>3, <2>3, <2>4, <2>5 DEF AnchorInv
<1> QED BY <1>4, <1>5, RouteAnchor

\* Damage to a file leaves a damaged state there.
LEMMA DamageFacts ==
    ASSUME TypeOK, DamageFile
    PROVE  file' \in State /\ Damaged(file)' /\ file \in State
<1>1. file \in Seq(0 .. MaxVersion) /\ file # <<>> /\ 0 \in 0 .. MaxVersion
  BY ConstantFacts DEF TypeOK, DamageFile, State
<1>2. Len(file) \in DOMAIN file
  BY <1>1
<1>3. file' = [file EXCEPT ![Len(file)] = 0]
  BY DEF DamageFile
<1>4. file' \in Seq(0 .. MaxVersion) /\ Len(file) \in DOMAIN file' /\ file'[Len(file)] = 0
  BY <1>1, <1>2, <1>3
<1> QED BY <1>1, <1>4 DEF Damaged, State

\* What the process and the environment do.
Environment ==
    \/ SeedFromFile
    \/ SeedFromHead
    \/ Crash
    \/ OtherCommits
    \/ Restore
    \/ DamageFile

\* Every step of the environment keeps the types, the anchor and the requests.
LEMMA EnvironmentStep ==
    ASSUME TypeOK, LedgerInv, AnchorInv, \A r \in Request : RequestInv(r),
           UNCHANGED scenario, Environment
    PROVE  /\ TypeOK' /\ LedgerInv' /\ AnchorInv'
           /\ \A r \in Request : RequestInv(r)'
<1>1. CASE SeedFromFile
  <2>1. /\ cache' = file /\ file \in State /\ cache = NoState
        /\ UNCHANGED <<server, file, pc, source, entry, held, reply, attested>>
        /\ UNCHANGED published
    BY <1>1 DEF SeedFromFile, TypeOK, server
  <2>2. TypeOK'
    BY <2>1, UnchangedTypes, TypeFrame
  <2>3. LedgerInv'
    BY <2>1 DEF LedgerInv, server, Honest
  <2>4. Good(file) /\ Good(file)' /\ Good(cache)' /\ cache' # NoState
    BY <1>1, <2>1, Markers DEF SeedFromFile, AnchorInv, Good, Honest, Damaged
  <2>5. AnchorInv'
    BY <2>1, <2>4 DEF AnchorInv
  <2> QED BY <2>1, <2>2, <2>3, <2>5, Frame
<1>2. CASE SeedFromHead
  <2>1. PICK head \in {chain, Forged} : Checked(head) /\ cache' = head
    BY <1>2 DEF SeedFromHead
  <2>2. /\ cache' = chain /\ chain \in State /\ cache = NoState /\ attested' = {}
        /\ UNCHANGED <<server, file, pc, source, entry, held, reply>>
        /\ UNCHANGED published
    BY <1>2, <2>1, HeadIsChain DEF SeedFromHead, TypeOK, server
  <2>3. TypeOK'
    BY <2>2, UnchangedTypes, TypeFrame
  <2>4. LedgerInv'
    BY <2>2 DEF LedgerInv, server, Honest
  <2>5. Good(cache)' /\ cache' # NoState
    BY <2>2, Markers DEF Good, LedgerInv
  <2>6. Good(file) => Good(file)'
    BY <2>2 DEF Good, Honest, Damaged
  <2>7. AnchorInv'
    BY <2>2, <2>5, <2>6 DEF AnchorInv
  <2> QED BY <2>2, <2>3, <2>4, <2>7, Frame
<1>3. CASE Crash
  <2>1. /\ cache' = NoState /\ pc' = [r \in Request |-> IF pc[r] = "idle" THEN "idle" ELSE "done"]
        /\ UNCHANGED <<server, file, source, entry, held, reply, attested>>
        /\ UNCHANGED published
    BY <1>3 DEF Crash, server
  <2>2. pc' \in [Request -> Labels]
    BY <2>1 DEF Labels
  <2>3. TypeOK'
    BY <2>1, <2>2, UnchangedTypes, TypeFrame
  <2>4. LedgerInv'
    BY <2>1 DEF LedgerInv, server, Honest
  <2>5. Good(file) => Good(file)'
    BY <2>1 DEF Good, Honest, Damaged
  <2>6. AnchorInv'
    BY <2>1, <2>5 DEF AnchorInv, Active
  <2>7. ASSUME NEW r \in Request PROVE RequestInv(r)'
    <3>1. pc'[r] \in {"idle", "done"} /\ (pc'[r] # "done" => pc[r] # "done") /\ reply'[r] = reply[r]
      BY <2>1
    <3>2. /\ pc[r] # "done" => reply[r].class = "none"
          /\ reply[r].class = "verified" => VerdictInv(r)
          /\ Honest /\ Kind[r] # "verify" => reply[r].class # "consistency_failure"
      BY DEF RequestInv
    <3>3. VerdictInv(r) => VerdictInv(r)'
      BY <2>1 DEF VerdictInv, Kind, Honest, PoolSize, Verifies, ProofEnds
    <3>4. (Kind[r])' = Kind[r] /\ Honest' = Honest
      BY DEF Kind, Honest
    <3> QED BY <3>1, <3>2, <3>3, <3>4 DEF RequestInv, Active, Fetched, Moving
  <2> QED BY <2>3, <2>4, <2>6, <2>7
<1>4. CASE OtherCommits
  <2>1. /\ Append1
        /\ UNCHANGED <<file, cache, pc, source, entry, held, reply, attested>>
    BY <1>4 DEF OtherCommits, anchor
  <2>2. /\ LedgerInv' /\ published \subseteq published' /\ chain' \in State
        /\ published' \subseteq State /\ version' \in 0 .. scenario.versions
    BY <2>1, AppendStep
  <2>3. TypeOK'
    BY <2>1, <2>2, UnchangedTypes, TypeFrame
  <2>4. (Good(file) => Good(file)') /\ (Good(cache) => Good(cache)')
    BY <2>1, <2>2 DEF Good, Honest, Damaged
  <2>5. AnchorInv'
    BY <2>1, <2>4 DEF AnchorInv, Active
  <2> QED BY <2>1, <2>2, <2>3, <2>5, Frame
<1>5. CASE Restore
  <2>1. UNCHANGED <<published, version, file, cache, pc, source, entry, held, reply, attested>>
    BY <1>5 DEF Restore, anchor
  <2>2. LedgerInv' /\ chain' \in State
    BY <1>5, RestoreStep
  <2>3. published' \subseteq State /\ version' \in 0 .. scenario.versions
    BY <2>1 DEF TypeOK
  <2>4. TypeOK'
    BY <2>1, <2>2, <2>3, UnchangedTypes, TypeFrame
  <2>5. AnchorInv'
    BY <2>1 DEF AnchorInv, Active, Good, Honest, Damaged
  <2> QED BY <2>1, <2>2, <2>4, <2>5, Frame
<1>6. CASE DamageFile
  <2>1. /\ UNCHANGED <<server, cache, pc, source, entry, held, reply, attested>>
        /\ UNCHANGED published /\ ~Honest /\ cache = NoState
    BY <1>6 DEF DamageFile, server
  <2>2. file' \in State /\ Damaged(file)'
    BY <1>6, DamageFacts
  <2>3. TypeOK'
    BY <2>1, <2>2, UnchangedTypes, TypeFrame
  <2>4. LedgerInv'
    BY <2>1 DEF LedgerInv, server, Honest
  <2>5. Good(file)'
    BY <2>1, <2>2 DEF Good, Honest
  <2>6. AnchorInv'
    BY <2>1, <2>5 DEF AnchorInv, Active
  <2> QED BY <2>1, <2>3, <2>4, <2>6, Frame
<1> QED BY <1>1, <1>2, <1>3, <1>4, <1>5, <1>6 DEF Environment


-----------------------------------------------------------------------------
(* One request at a time.                                                  *)

\* A published state is undamaged, and so is a state that begins one.
LEMMA Undamaged ==
    ASSUME TypeOK, LedgerInv, NEW h \in published, NEW s \in State, Begins(s, h)
    PROVE  ~Damaged(s)
<1>1. \A i \in 1 .. Len(h) : h[i] # 0
  BY DEF LedgerInv
<1>2. h \in State /\ Len(h) \in Nat /\ Len(s) \in Nat /\ DOMAIN s = 1 .. Len(s)
  BY DEF TypeOK, State
<1>3. ASSUME NEW i \in DOMAIN s PROVE s[i] # 0
  <2>1. i \in 1 .. Len(s) /\ i \in 1 .. Len(h)
    BY <1>2 DEF Begins
  <2> QED BY <1>1, <2>1 DEF Begins
<1> QED BY <1>3 DEF Damaged

\* A proof that checks out leads to a state that commits to the record and
\* to everything the state it was checked from commits to.
LEMMA NewStateOn ==
    ASSUME TypeOK, LedgerInv, NEW r \in Request, EntryInv(r), Verifies(entry[r], held[r])
    PROVE  /\ (~Damaged(held[r]) => On(held[r])) => On(NewState(entry[r], held[r]))
           /\ entry[r].tx \in 1 .. Len(NewState(entry[r], held[r]))
           /\ NewState(entry[r], held[r])[entry[r].tx] = entry[r].content
<1> DEFINE e == entry[r]
           s == held[r]
<1>1. /\ e.hist \in State /\ s \in State /\ Len(s) \in Nat /\ Len(e.hist) \in Nat
      /\ e.tx \in 1 .. Len(e.hist) /\ e.tx \in 0 .. Len(e.hist)
      /\ e.hist \in published /\ e.content = e.hist[e.tx]
  BY DEF TypeOK, Entries, State, EntryInv
<1>2. s = <<>> \/ Begins(s, e.hist)
  BY <1>1, VerifiesFacts
<1>3. ~Damaged(s)
  <2>1. CASE s = <<>>
    BY <2>1 DEF Damaged
  <2>2. CASE Begins(s, e.hist)
    BY <1>1, <2>2, Undamaged
  <2> QED BY <1>2, <2>1, <2>2
<1>4. Len(s) >= 1 => Begins(s, e.hist)
  BY <1>2
<1>5. On(s) => \A a \in attested : a[1] \in 1 .. Len(s) /\ a[2] = e.hist[a[1]]
  BY <1>1, <1>4 DEF On, Begins
<1>6. CASE Len(s) <= e.tx
  <2>1. NewState(e, s) = SubSeq(e.hist, 1, e.tx)
    BY <1>6 DEF NewState
  <2>2. /\ Len(NewState(e, s)) = e.tx
        /\ \A i \in 1 .. e.tx : NewState(e, s)[i] = e.hist[i]
    BY <1>1, <2>1, CutFacts DEF State
  <2>3. \A i \in 1 .. Len(s) : i \in 1 .. e.tx
    BY <1>1, <1>6
  <2> QED BY <1>1, <1>3, <1>5, <2>2, <2>3 DEF On
<1>7. CASE ~(Len(s) <= e.tx)
  <2>1. NewState(e, s) = s
    BY <1>7 DEF NewState
  <2>2. e.tx \in 1 .. Len(s) /\ Begins(s, e.hist)
    BY <1>1, <1>4, <1>7
  <2> QED BY <1>1, <1>3, <2>1, <2>2 DEF Begins
<1> QED BY <1>6, <1>7

\* The thread pool lets one request in at a time.
LEMMA Alone ==
    ASSUME TypeOK, PoolSize = 1, SerialInv, NEW r \in Request, Route(r),
           NEW q \in Request, q # r
    PROVE  ~Active(q)
<1>1. CASE GetAnchor(r) \/ SupplyAnchor(r)
  <2>1. Cardinality(InProgress) < 1
    BY <1>1 DEF GetAnchor, SupplyAnchor
  <2>2. IsFiniteSet(InProgress)
    <3>1. InProgress \subseteq Request
      BY DEF InProgress
    <3> QED BY <3>1, AnchorAssumption, FS_Subset
  <2>3. InProgress = {}
    BY <2>1, <2>2, FS_CardinalityType, FS_EmptySet
  <2> QED BY <2>3 DEF InProgress, Active
<1>2. CASE ~(GetAnchor(r) \/ SupplyAnchor(r))
  <2>1. Active(r)
    BY <1>2 DEF Active, Route, Fetch, FetchNotFound, FetchSet, Reread, Check, SetChecks,
                SetAssigns, SetOpens, SetDumps, SetFails
  <2> QED BY <2>1 DEF SerialInv
<1> QED BY <1>1, <1>2

\* What SerialInv says of one request.
SerialRequest(r) ==
    /\ Active(r) /\ pc[r] \notin {"open", "dump"} /\ Kind[r] # "pinned" => cache = source[r]
    /\ Fetched(r) /\ pc[r] # "reread" => held[r] = source[r]
    /\ pc[r] \in {"open", "dump"} => cache = NewState(entry[r], held[r])

\* And of what was attested.
AttestedInv ==
    /\ cache # NoState /\ ~Damaged(cache) => On(cache)
    /\ file \notin {Absent, Torn} /\ ~Damaged(file) => On(file)
    /\ \A a, b \in attested : a[1] = b[1] => a[2] = b[2]

\* With one request at a time, every step of a request keeps the verdicts ordered.
LEMMA SerialStep ==
    ASSUME TypeOK, LedgerInv, AnchorInv, PoolSize = 1, SerialInv, UNCHANGED scenario,
           NEW r \in Request, RequestInv(r), Route(r)
    PROVE  SerialRequest(r)' /\ AttestedInv'
<1>0. SerialRequest(r) /\ AttestedInv /\ (Kind[r])' = Kind[r]
  BY DEF SerialInv, SerialRequest, AttestedInv, Kind
<1>1. CASE GetAnchor(r)
  <2>1. /\ pc'[r] = "fetch" /\ source'[r] = cache /\ UNCHANGED <<file, cache, attested>>
    BY <1>1, GotoFacts DEF GetAnchor, Labels, TypeOK, anchor
  <2> QED BY <1>0, <2>1 DEF SerialRequest, AttestedInv, Active, Fetched, On, Damaged
<1>2. CASE SupplyAnchor(r)
  <2>1. /\ Kind[r] = "pinned" /\ UNCHANGED <<file, cache, attested>>
    BY <1>2 DEF SupplyAnchor, anchor
  <2>2. pc'[r] \in {"fetch", "done"}
    <3>1. Goto(r, "fetch") \/ Goto(r, "done")
      BY <1>2 DEF SupplyAnchor, Finish
    <3> QED BY <3>1, GotoFacts DEF Labels
  <2> QED BY <1>0, <2>1, <2>2 DEF SerialRequest, AttestedInv, Active, Fetched, On, Damaged
<1>3. CASE Fetch(r) \/ FetchNotFound(r) \/ FetchSet(r)
  <2>1. /\ UNCHANGED <<file, cache, attested, source>> /\ pc[r] = "fetch"
    BY <1>3 DEF Fetch, FetchNotFound, FetchSet, anchor
  <2>2. \/ Goto(r, "done")
        \/ /\ Goto(r, "reread") \/ Goto(r, "check")
           /\ held' = [held EXCEPT ![r] = source[r]]
    BY <1>3 DEF Fetch, FetchNotFound, FetchSet, Finish, Answered, ReadsTwice
  <2>3. \/ pc'[r] = "done"
        \/ pc'[r] \in {"reread", "check"} /\ held'[r] = source[r]
    BY <2>2, GotoFacts DEF Labels, TypeOK
  <2> QED BY <1>0, <2>1, <2>3 DEF SerialRequest, AttestedInv, Active, Fetched, On, Damaged
<1>4. CASE Reread(r)
  <2>1. /\ UNCHANGED <<file, cache, attested, source>> /\ pc[r] = "reread"
        /\ pc'[r] = "check" /\ held'[r] = cache
    BY <1>4, GotoFacts DEF Reread, anchor, Labels, TypeOK
  <2>2. Kind[r] = "verify"
    BY <2>1 DEF RequestInv
  <2> QED BY <1>0, <2>1, <2>2 DEF SerialRequest, AttestedInv, Active, Fetched, On, Damaged
<1>5. CASE Check(r)
  <2>1. /\ UNCHANGED <<file, cache, source, held>> /\ pc[r] = "check"
    BY <1>5 DEF Check, anchor
  <2>2. pc'[r] \in {"done", "set"}
    <3>1. Goto(r, "done") \/ Goto(r, "set")
      BY <1>5 DEF Check, Finish
    <3> QED BY <3>1, GotoFacts DEF Labels
  <2>3. attested' = attested
    <3>1. CASE Kind[r] = "pinned"
      BY <1>5, <3>1 DEF Check
    <3>2. CASE Kind[r] # "pinned" /\ Verifies(entry[r], held[r])
      <4>1. pc'[r] = "set"
        BY <1>5, <3>2, GotoFacts DEF Check, Pinned, Labels
      <4> QED BY <1>5, <4>1 DEF Check
    <3>3. CASE ~Verifies(entry[r], held[r])
      <4>1. reply'[r].class = "consistency_failure"
        BY <1>5, <3>3, FinishFacts, ReplyFacts DEF Check, Classes
      <4> QED BY <1>5, <4>1 DEF Check
    <3> QED BY <3>1, <3>2, <3>3
  <2> QED BY <1>0, <2>1, <2>2, <2>3 DEF SerialRequest, AttestedInv, Active, Fetched, On, Damaged
<1>6. CASE SetChecks(r)
  <2>1. /\ UNCHANGED <<file, cache, attested, source, held>> /\ pc[r] = "set"
    BY <1>6 DEF SetChecks, anchor
  <2>2. pc'[r] \in {"done", "assign"}
    <3>1. Goto(r, "done") \/ Goto(r, "assign")
      BY <1>6 DEF SetChecks, Finish
    <3> QED BY <3>1, GotoFacts DEF Labels
  <2> QED BY <1>0, <2>1, <2>2 DEF SerialRequest, AttestedInv, Active, Fetched, On, Damaged
<1>7. CASE SetAssigns(r)
  <2>1. /\ UNCHANGED <<file, attested, source, held, entry>> /\ pc[r] = "assign"
        /\ pc'[r] = "open" /\ cache' = NewState(entry[r], held[r])
    BY <1>7, GotoFacts DEF SetAssigns, Labels
  <2>2. /\ Kind[r] # "pinned" /\ EntryInv(r) /\ Verifies(entry[r], held[r])
    BY <2>1 DEF RequestInv, Moving, Fetched
  <2>3. cache = source[r] /\ held[r] = source[r] /\ cache # NoState
    BY <1>0, <2>1, <2>2, RouteAnchor DEF SerialRequest, Active, Fetched
  <2>4. On(NewState(entry[r], held[r]))
    BY <1>0, <2>2, <2>3, NewStateOn DEF AttestedInv
  <2> QED BY <1>0, <2>1, <2>3, <2>4
          DEF SerialRequest, AttestedInv, Active, Fetched, On, Damaged, NewState
<1>8. CASE SetOpens(r)
  <2>1. /\ UNCHANGED <<cache, attested, source, held, entry>> /\ pc[r] = "open"
        /\ pc'[r] = "dump" /\ file' = Torn
    BY <1>8, GotoFacts DEF SetOpens, Labels
  <2> QED BY <1>0, <2>1 DEF SerialRequest, AttestedInv, Active, Fetched, On, Damaged, NewState
<1>9. CASE SetDumps(r)
  <2>1. /\ UNCHANGED cache /\ pc[r] = "dump" /\ Finish(r, Verified(r))
        /\ file' = NewState(entry[r], held[r])
        /\ attested' = attested \cup {<<entry[r].tx, entry[r].content>>}
    BY <1>9 DEF SetDumps
  <2>2. pc'[r] = "done"
    BY <2>1, FinishFacts, ReplyFacts
  <2>3. cache = file' /\ cache # NoState
    BY <1>0, <2>1, RouteAnchor DEF SerialRequest
  <2>4. /\ EntryInv(r) /\ Verifies(entry[r], held[r]) /\ held[r] \in State
        /\ entry[r].hist \in published /\ entry[r].hist \in State
    BY <2>1 DEF RequestInv, Moving, Fetched, EntryInv, TypeOK
  <2>5. ~Damaged(cache)
    <3>1. CASE Len(held[r]) <= entry[r].tx
      <4>1. entry[r].tx \in 0 .. Len(entry[r].hist) /\ cache = SubSeq(entry[r].hist, 1, entry[r].tx)
        BY <2>1, <2>3, <2>4, <3>1 DEF EntryInv, NewState
      <4>2. cache \in published /\ cache \in State
        BY <2>4, <4>1, CutFacts DEF LedgerInv, State
      <4> QED BY <4>2, Undamaged DEF Begins
    <3>2. CASE ~(Len(held[r]) <= entry[r].tx)
      <4>1. cache = held[r]
        BY <2>1, <2>3, <3>2 DEF NewState
      <4>2. held[r] = <<>> \/ Begins(held[r], entry[r].hist)
        BY <2>4, VerifiesFacts
      <4>3. <<>> \in published /\ Begins(<<>>, <<>>) /\ <<>> \in State
        BY ConstantFacts DEF LedgerInv, Begins
      <4> QED BY <2>4, <4>1, <4>2, <4>3, Undamaged
    <3> QED BY <3>1, <3>2
  <2>6. On(cache)
    BY <1>0, <2>3, <2>5 DEF AttestedInv
  <2>7. /\ entry[r].tx \in 1 .. Len(cache) /\ cache[entry[r].tx] = entry[r].content
    BY <2>1, <2>3, <2>4, NewStateOn
  <2> QED BY <2>1, <2>2, <2>3, <2>6, <2>7
          DEF SerialRequest, AttestedInv, Active, Fetched, On, Damaged
<1>10. CASE SetFails(r)
  <2>1. /\ UNCHANGED <<file, cache, attested>> /\ Finish(r, Fail("unknown"))
    BY <1>10 DEF SetFails, anchor
  <2>2. pc'[r] = "done"
    BY <2>1, FinishFacts, ReplyFacts DEF Classes
  <2> QED BY <1>0, <2>1, <2>2 DEF SerialRequest, AttestedInv, Active, Fetched, On, Damaged
<1> QED BY <1>1, <1>2, <1>3, <1>4, <1>5, <1>6, <1>7, <1>8, <1>9, <1>10 DEF Route


\* So does every step of the environment.
LEMMA SerialEnvironment ==
    ASSUME TypeOK, LedgerInv, AnchorInv, SerialInv, UNCHANGED scenario, Environment
    PROVE  SerialInv'
<1>1. /\ AttestedInv /\ \A r \in Request : SerialRequest(r)
      /\ \A r, q \in Request : Active(r) /\ Active(q) => r = q
      /\ \A r \in Request : (Kind[r])' = Kind[r]
  BY DEF SerialInv, SerialRequest, AttestedInv, Kind
<1>2. SUFFICES /\ \A r, q \in Request : Active(r)' /\ Active(q)' => r = q
               /\ \A r \in Request : SerialRequest(r)'
               /\ AttestedInv'
  BY DEF SerialInv, SerialRequest, AttestedInv
<1>3. CASE SeedFromFile \/ SeedFromHead \/ DamageFile \/ Crash
  <2>1. \A r \in Request : ~Active(r)'
    <3>1. CASE Crash
      BY <3>1 DEF Crash, Active
    <3>2. CASE SeedFromFile \/ SeedFromHead \/ DamageFile
      <4>1. cache = NoState /\ UNCHANGED pc
        BY <3>2 DEF SeedFromFile, SeedFromHead, DamageFile
      <4> QED BY <4>1 DEF AnchorInv, Active
    <3> QED BY <1>3, <3>1, <3>2
  <2>2. \A r \in Request : SerialRequest(r)'
    <3> SUFFICES ASSUME NEW r \in Request PROVE SerialRequest(r)'
      OBVIOUS
    <3>1. pc'[r] \in {"idle", "done"}
      BY <2>1 DEF Active
    <3> QED BY <3>1 DEF SerialRequest, Active, Fetched
  <2>3. AttestedInv'
    <3>1. CASE SeedFromFile
      <4>1. cache' = file /\ file \notin {Absent, Torn} /\ UNCHANGED <<file, attested>>
        BY <3>1 DEF SeedFromFile
      <4> QED BY <1>1, <4>1 DEF AttestedInv, On, Damaged
    <3>2. CASE SeedFromHead
      BY <3>2 DEF SeedFromHead, AttestedInv, On
    <3>3. CASE DamageFile
      <4>1. Damaged(file)' /\ UNCHANGED <<cache, attested>>
        BY <3>3, DamageFacts DEF DamageFile
      <4> QED BY <1>1, <4>1 DEF AttestedInv, On, Damaged
    <3>4. CASE Crash
      <4>1. cache' = NoState /\ UNCHANGED <<file, attested>>
        BY <3>4 DEF Crash
      <4> QED BY <1>1, <4>1 DEF AttestedInv, On, Damaged
    <3> QED BY <1>3, <3>1, <3>2, <3>3, <3>4
  <2> QED BY <2>1, <2>2, <2>3
<1>4. CASE OtherCommits \/ Restore
  <2>1. UNCHANGED <<file, cache, pc, source, entry, held, attested>>
    BY <1>4 DEF OtherCommits, Restore, anchor
  <2>2. \A r, q \in Request : Active(r)' /\ Active(q)' => r = q
    BY <1>1, <2>1 DEF Active
  <2>3. \A r \in Request : SerialRequest(r)'
    BY <1>1, <2>1 DEF SerialRequest, Active, Fetched, NewState
  <2>4. AttestedInv'
    BY <1>1, <2>1 DEF AttestedInv, On, Damaged
  <2> QED BY <2>2, <2>3, <2>4
<1> QED BY <1>3, <1>4 DEF Environment

-----------------------------------------------------------------------------
(* The invariant.                                                          *)

\* The initial states.
LEMMA Initial ==
    Init => IInv
<1> SUFFICES ASSUME Init PROVE IInv
  OBVIOUS
<1>1. MaxVersion \in Nat /\ 0 \in 0 .. MaxVersion /\ <<>> \in State
      /\ scenario \in [kind : [Request -> Kinds], pool : Nat \ {0}, honest : BOOLEAN,
                       versions : 0 .. MaxVersion]
  BY AnchorAssumption DEF Init, State
<1>2. TypeOK
  <2>1. scenario \in Scenarios /\ version \in 0 .. scenario.versions
    BY <1>1 DEF Init
  <2>2. /\ chain \in State /\ published \subseteq State
        /\ file \in State \cup {Absent, Torn} /\ cache \in State \cup {NoState}
        /\ pc \in [Request -> Labels] /\ source \in [Request -> State]
        /\ held \in [Request -> State] /\ attested \subseteq Nat \X (0 .. MaxVersion)
    BY <1>1 DEF Init, Labels
  <2>3. NoAnswer \in Entries /\ NoReply \in Replies
    BY <1>1 DEF NoAnswer, Entries, NoReply, Replies, Classes
  <2>4. entry \in [Request -> Entries] /\ reply \in [Request -> Replies]
    BY <2>3 DEF Init
  <2> QED BY <2>1, <2>2, <2>4 DEF TypeOK
<1>3. LedgerInv
  <2>1. SubSeq(<<>>, 1, 0) = <<>>
    BY <1>1, WholeCut DEF State
  <2> QED BY <2>1 DEF Init, LedgerInv, Begins
<1>4. AnchorInv
  BY DEF Init, AnchorInv, Active
<1>5. \A r \in Request : RequestInv(r)
  BY DEF Init, RequestInv, Active, Fetched, Moving, NoReply
<1>6. SerialInv
  BY DEF Init, SerialInv, Active, Fetched
<1> QED BY <1>2, <1>3, <1>4, <1>5, <1>6 DEF IInv

\* Every step keeps the invariant.
LEMMA Inductive ==
    IInv /\ [Next]_vars => IInv'
<1> SUFFICES ASSUME IInv, [Next]_vars PROVE IInv'
  OBVIOUS
<1>0. /\ TypeOK /\ LedgerInv /\ AnchorInv /\ \A r \in Request : RequestInv(r)
      /\ PoolSize = 1 => SerialInv
  BY DEF IInv
<1>1. ASSUME UNCHANGED scenario, NEW r \in Request, Route(r) PROVE IInv'
  <2>1. TypeOK' /\ Others(r) /\ LedgerInv' /\ published \subseteq published'
    BY <1>0, <1>1, RouteTypes
  <2>2. AnchorInv'
    BY <1>0, <1>1, AnchorStep
  <2>3. RequestInv(r)'
    BY <1>0, <1>1, RequestStep
  <2>4. ASSUME NEW q \in Request, q # r PROVE RequestInv(q)'
    BY <1>0, <1>1, <2>1, <2>4, Frame DEF Others
  <2>5. ASSUME PoolSize = 1 PROVE SerialInv'
    <3>1. SerialRequest(r)' /\ AttestedInv'
      BY <1>0, <1>1, <2>5, SerialStep
    <3>2. ASSUME NEW q \in Request, q # r PROVE ~Active(q)' /\ SerialRequest(q)'
      <4>1. pc'[q] = pc[q] /\ ~Active(q)
        BY <1>0, <1>1, <2>1, <2>5, <3>2, Alone DEF Others
      <4>2. pc'[q] \in {"idle", "done"}
        BY <4>1 DEF Active
      <4> QED BY <4>2 DEF SerialRequest, Active, Fetched
    <3> QED BY <3>1, <3>2 DEF SerialInv, SerialRequest, AttestedInv
  <2>6. PoolSize' = PoolSize
    BY <1>1 DEF PoolSize
  <2> QED BY <2>1, <2>2, <2>3, <2>4, <2>5, <2>6 DEF IInv
<1>2. ASSUME UNCHANGED scenario, Environment PROVE IInv'
  <2>1. TypeOK' /\ LedgerInv' /\ AnchorInv' /\ \A r \in Request : RequestInv(r)'
    BY <1>0, <1>2, EnvironmentStep
  <2>2. PoolSize = 1 => SerialInv'
    BY <1>0, <1>2, SerialEnvironment
  <2>3. PoolSize' = PoolSize
    BY <1>2 DEF PoolSize
  <2> QED BY <2>1, <2>2, <2>3 DEF IInv
<1>3. CASE UNCHANGED vars
  <2>1. UNCHANGED <<scenario, server, file, cache, pc, source, entry, held, reply, attested>>
    BY <1>3 DEF vars, anchor
  <2>2. UNCHANGED <<chain, published, version>>
    BY <2>1 DEF server
  <2>3. TypeOK'
    BY <1>0, <2>1, UnchangedTypes, TypeFrame
  <2>4. LedgerInv' /\ AnchorInv'
    BY <1>0, <2>1, <2>2 DEF LedgerInv, AnchorInv, Active, Good, Honest, Damaged
  <2>5. \A r \in Request : RequestInv(r)'
    BY <1>0, <2>1, <2>2, Frame
  <2>6. PoolSize = 1 => SerialInv'
    BY <1>0, <2>1, <2>2 DEF SerialInv, Active, Fetched, On, Damaged, NewState, Kind
  <2>7. PoolSize' = PoolSize
    BY <2>1 DEF PoolSize
  <2> QED BY <2>3, <2>4, <2>5, <2>6, <2>7 DEF IInv
<1> QED BY <1>1, <1>2, <1>3 DEF Next, Environment

\* Every reachable state satisfies IInv.
THEOREM Invariance == Spec => []IInv
BY Initial, Inductive, PTL DEF Spec

\* The types hold: the cache and the file of _VerifiedRootService hold
\* states or their markers, and the routes answer from their vocabulary.
THEOREM TypeCorrect == Spec => []TypeOK
<1>1. IInv => TypeOK
  BY DEF IInv
<1> QED BY <1>1, Invariance, PTL

\* The anchor: for any number of racing requests, crashes, failed saves and
\* restored backups, _cache and the state file hold a state that the ledger
\* signed, or the damage done to the file itself.
THEOREM AnchorPublished == Spec => []AnchorWasPublished
<1>1. IInv => AnchorWasPublished
  BY DEF IInv, AnchorInv, Good, AnchorWasPublished
<1> QED BY <1>1, Invariance, PTL

\* On a ledger nobody touched, the proof steps of POST /write and of
\* POST /write-ordered never end in consistency_failure, whatever else
\* moves the anchor while they run.
THEOREM WritesNeverFault == Spec => []WritesNeverFaultHonestLedger
<1>1. IInv => WritesNeverFaultHonestLedger
  BY DEF IInv, RequestInv, WritesNeverFaultHonestLedger
<1> QED BY <1>1, Invariance, PTL

\* "verified" is evidence (D18, D23): the exported material supports the
\* verdict, and a supplied anchor commits to the record it was given for.
THEOREM VerdictsAreEvidence == Spec => []VerdictIsEvidence
<1>1. IInv => VerdictIsEvidence
  BY DEF IInv, RequestInv, VerdictInv, VerdictIsEvidence, MaterialSupportsVerdict, PinnedVerdict
<1> QED BY <1>1, Invariance, PTL

\* With one request at a time, two answers verified from the persisted
\* anchor never disagree about a transaction until the anchor is lost.
THEOREM NoContradictions == Spec => []NoContradiction
<1>1. IInv => NoContradiction
  BY DEF IInv, SerialInv, NoContradiction
<1> QED BY <1>1, Invariance, PTL

=============================================================================
