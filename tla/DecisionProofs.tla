--------------------------- MODULE DecisionProofs ---------------------------
(***************************************************************************)
(* Proofs about Decision, for every set of calls, every mix of their kinds *)
(* and every number of crashes.                                            *)
(*                                                                         *)
(* The invariant is a statement CallInv(c) about each call.  A step of     *)
(* call c leaves every other call untouched, which is enough for theirs    *)
(* (lemma Frame), so that each action is argued for its own call only.     *)
(***************************************************************************)
EXTENDS Decision, TLAPS

Sent == ledger \cup inflight
HasContent(c) == kind[c] = "malformed" \/ c \in rows

\* The tool is reached through a committed intent only.
IntentFirst(c) == pc[c] = "execute" \/ c \in executed => Intent(c) \in ledger

\* A mediated call keeps its approval past the intent only by running.
RanIfApproved(c) ==
    /\ kind[c] = "vault"
    /\ \/ outcome[c] = "policy_allow" /\ pc[c] \in {"record", "record sent", "respond"}
       \/ Completion(c, "policy_allow") \in Sent
    => c \in executed

\* A handler has a result only beside an approval.
ResultApproved(c) ==
    /\ c \in results => /\ outcome[c] = "policy_allow"
                        /\ pc[c] \in {"record", "record sent", "respond", "over"}
    /\ pc[c] \in {"intent", "intent sent", "execute"} => outcome[c] = "policy_allow"

\* What the handler is about to answer is on record.
ReadyToAnswer(c) ==
    /\ pc[c] = "respond"
    /\ outcome[c] \notin {"verifier_unreachable", "content_store_unreachable"}
    => Completion(c, outcome[c]) \in ledger

\* Content comes before records.
ContentFirst(c) ==
    /\ pc[c] \in {"intent", "intent sent", "execute", "record", "record sent"} => HasContent(c)
    /\ \A r \in Sent : r.call = c => HasContent(c)

\* What the agent was told, and given.
Answered(c) ==
    /\ told[c] \in Outcome \ {"verifier_unreachable", "content_store_unreachable"} =>
           Completion(c, told[c]) \in ledger
    /\ c \in held => told[c] = "policy_allow" /\ Completion(c, "policy_allow") \in ledger

CallInv(c) ==
    /\ IntentFirst(c)
    /\ RanIfApproved(c)
    /\ ResultApproved(c)
    /\ ReadyToAnswer(c)
    /\ ContentFirst(c)
    /\ Answered(c)

IInv == TypeOK /\ \A c \in Call : CallInv(c)

\* A step that does nothing to call d; records only move into the ledger.
Untouched(d) ==
    /\ pc'[d] = pc[d]
    /\ outcome'[d] = outcome[d]
    /\ told'[d] = told[d]
    /\ kind'[d] = kind[d]
    /\ d \in results' <=> d \in results
    /\ d \in held' <=> d \in held
    /\ d \in rows' <=> d \in rows
    /\ d \in executed' <=> d \in executed
    /\ ledger \subseteq ledger'
    /\ \A r \in Sent' : r.call = d => r \in Sent

-----------------------------------------------------------------------------

\* The records of the calls are told apart by call, kind and outcome.
LEMMA RecordFacts ==
    /\ \A c \in Call : Intent(c) \in Record /\ Intent(c).call = c
    /\ \A c \in Call, o \in Outcome : Completion(c, o) \in Record /\ Completion(c, o).call = c
    /\ \A c, d \in Call, o \in Outcome : Intent(c) # Completion(d, o)
    /\ \A c, d \in Call, o, p \in Outcome :
          Completion(c, o) = Completion(d, p) => c = d /\ o = p
    /\ \A r \in Record : r.call \in Call
BY DEF Record, Intent, Completion, Outcome

\* What Goto, Decide and Tell change, at c and elsewhere.
LEMMA GotoFacts ==
    ASSUME TypeOK, NEW c \in Call, NEW l \in Labels, Goto(c, l)
    PROVE  /\ pc' \in [Call -> Labels]
           /\ pc'[c] = l
           /\ \A d \in Call \ {c} : pc'[d] = pc[d]
<1>1. pc \in [Call -> Labels]
  BY DEF TypeOK
<1> QED BY <1>1 DEF Goto

\* A step that decides a call.
LEMMA DecideFacts ==
    ASSUME TypeOK, NEW c \in Call, NEW o \in Outcome, Decide(c, o)
    PROVE  /\ outcome' \in [Call -> Outcome]
           /\ outcome'[c] = o
           /\ \A d \in Call \ {c} : outcome'[d] = outcome[d]
<1>1. outcome \in [Call -> Outcome]
  BY DEF TypeOK
<1> QED BY <1>1 DEF Decide

\* A step that tells the caller the outcome.
LEMMA TellFacts ==
    ASSUME TypeOK, NEW c \in Call, NEW o \in Outcome \cup ClientFault, Tell(c, o)
    PROVE  /\ told' \in [Call -> Outcome \cup ClientFault \cup {"none"}]
           /\ told'[c] = o
           /\ \A d \in Call \ {c} : told'[d] = told[d]
<1>1. told \in [Call -> Outcome \cup ClientFault \cup {"none"}]
  BY DEF TypeOK
<1> QED BY <1>1 DEF Tell

\* A call that a step does not touch keeps its invariant.
LEMMA Frame ==
    ASSUME NEW d \in Call, CallInv(d), Untouched(d)
    PROVE  CallInv(d)'
<1>1. IntentFirst(d)'
  BY DEF CallInv, Untouched, IntentFirst
<1>2. RanIfApproved(d)'
  <2>1. Completion(d, "policy_allow") \in Sent' => Completion(d, "policy_allow") \in Sent
    BY RecordFacts DEF Untouched, Outcome
  <2> QED BY <2>1 DEF CallInv, Untouched, RanIfApproved
<1>3. ResultApproved(d)'
  BY DEF CallInv, Untouched, ResultApproved
<1>4. ReadyToAnswer(d)'
  BY DEF CallInv, Untouched, ReadyToAnswer
<1>5. ContentFirst(d)'
  BY DEF CallInv, Untouched, ContentFirst, HasContent
<1>6. Answered(d)'
  BY DEF CallInv, Untouched, Answered
<1> QED BY <1>1, <1>2, <1>3, <1>4, <1>5, <1>6 DEF CallInv

\* A request that is queued has left nothing anywhere yet.
LEMMA AskStep ==
    ASSUME TypeOK, NEW c \in Call, CallInv(c), Ask(c)
    PROVE  TypeOK' /\ CallInv(c)' /\ \A d \in Call \ {c} : Untouched(d)
<1>1. /\ pc' \in [Call -> Labels]
      /\ pc'[c] = "queued"
      /\ \A d \in Call \ {c} : pc'[d] = pc[d]
  BY GotoFacts DEF Ask, Labels
<1>2. outcome' = outcome /\ outcome \in [Call -> Outcome]
  BY DEF Ask, TypeOK
<1>3. told' = told /\ told \in [Call -> Outcome \cup ClientFault \cup {"none"}]
  BY DEF Ask, agent, TypeOK
<1>4. \A d \in Call \ {c} : Untouched(d)
  BY <1>1, <1>2, <1>3 DEF Ask, Untouched, agent, records, world, Sent
<1>5. (\A d \in Call : pc[d] \notin {"none", "queued", "execute", "over"} => loop = d)'
  BY <1>1 DEF Ask, TypeOK
<1>6. TypeOK'
  BY <1>1, <1>2, <1>3, <1>5 DEF Ask, TypeOK, agent, records, world
<1>7. CallInv(c)'
  BY <1>1, <1>2, <1>3
  DEF CallInv, Ask, agent, records, world, IntentFirst, RanIfApproved,
      ResultApproved, ReadyToAnswer, ContentFirst, Answered, HasContent, Sent
<1> QED BY <1>4, <1>6, <1>7

\* A client without an identity is told a fault of its own.
LEMMA NoIdentityStep ==
    ASSUME TypeOK, NEW c \in Call, CallInv(c), NoIdentity(c)
    PROVE  TypeOK' /\ CallInv(c)' /\ \A d \in Call \ {c} : Untouched(d)
<1>1. pc' = pc /\ pc \in [Call -> Labels]
  BY DEF NoIdentity, TypeOK
<1>2. outcome' = outcome /\ outcome \in [Call -> Outcome]
  BY DEF NoIdentity, TypeOK
<1>3. /\ told' \in [Call -> Outcome \cup ClientFault \cup {"none"}]
      /\ told'[c] = "spiffe_unavailable"
      /\ \A d \in Call \ {c} : told'[d] = told[d]
  BY TellFacts DEF NoIdentity, ClientFault
<1>4. \A d \in Call \ {c} : Untouched(d)
  BY <1>1, <1>2, <1>3 DEF NoIdentity, Untouched, agent, records, world, Sent
<1>5. (\A d \in Call : pc[d] \notin {"none", "queued", "execute", "over"} => loop = d)'
  BY <1>1 DEF NoIdentity, TypeOK
<1>6. TypeOK'
  BY <1>1, <1>2, <1>3, <1>5 DEF NoIdentity, TypeOK, agent, records, world
<1>7. CallInv(c)'
  BY <1>1, <1>2, <1>3
  DEF CallInv, NoIdentity, agent, records, world, IntentFirst, RanIfApproved,
      ResultApproved, ReadyToAnswer, ContentFirst, Answered, HasContent, Sent, Outcome
<1> QED BY <1>4, <1>6, <1>7

\* A client that gives up is told a fault of its own; the handler goes on.
LEMMA GiveUpStep ==
    ASSUME TypeOK, NEW c \in Call, CallInv(c), GiveUp(c)
    PROVE  TypeOK' /\ CallInv(c)' /\ \A d \in Call \ {c} : Untouched(d)
<1>1. pc' = pc /\ pc \in [Call -> Labels]
  BY DEF GiveUp, TypeOK
<1>2. outcome' = outcome /\ outcome \in [Call -> Outcome]
  BY DEF GiveUp, TypeOK
<1>3. /\ told' \in [Call -> Outcome \cup ClientFault \cup {"none"}]
      /\ told'[c] = "decision_service_unreachable"
      /\ \A d \in Call \ {c} : told'[d] = told[d]
  BY TellFacts DEF GiveUp, ClientFault
<1>4. \A d \in Call \ {c} : Untouched(d)
  BY <1>1, <1>2, <1>3 DEF GiveUp, Untouched, agent, records, world, Sent
<1>5. (\A d \in Call : pc[d] \notin {"none", "queued", "execute", "over"} => loop = d)'
  BY <1>1 DEF GiveUp, TypeOK
<1>6. TypeOK'
  BY <1>1, <1>2, <1>3, <1>5 DEF GiveUp, TypeOK, agent, records, world
<1>7. CallInv(c)'
  BY <1>1, <1>2, <1>3
  DEF CallInv, GiveUp, agent, records, world, IntentFirst, RanIfApproved,
      ResultApproved, ReadyToAnswer, ContentFirst, Answered, HasContent, Sent, Outcome
<1> QED BY <1>4, <1>6, <1>7

\* The loop was free, so no other call was between two suspensions.
LEMMA TakeStep ==
    ASSUME TypeOK, NEW c \in Call, CallInv(c), Take(c)
    PROVE  TypeOK' /\ CallInv(c)' /\ \A d \in Call \ {c} : Untouched(d)
<1>1. /\ pc' \in [Call -> Labels]
      /\ pc'[c] = "policy"
      /\ \A d \in Call \ {c} : pc'[d] = pc[d]
  BY GotoFacts DEF Take, Labels
<1>2. outcome' = outcome /\ outcome \in [Call -> Outcome]
  BY DEF Take, TypeOK
<1>3. told' = told /\ told \in [Call -> Outcome \cup ClientFault \cup {"none"}]
  BY DEF Take, agent, TypeOK
<1>4. \A d \in Call \ {c} : Untouched(d)
  BY <1>1, <1>2, <1>3 DEF Take, Untouched, agent, records, world, Sent
<1>5. (\A d \in Call : pc[d] \notin {"none", "queued", "execute", "over"} => loop = d)'
  BY <1>1, DecisionAssumption DEF Take, TypeOK
<1>6. TypeOK'
  BY <1>1, <1>2, <1>3, <1>5 DEF Take, TypeOK, agent, records, world
<1>7. CallInv(c)'
  BY <1>1, <1>2, <1>3
  DEF CallInv, Take, agent, records, world, IntentFirst, RanIfApproved,
      ResultApproved, ReadyToAnswer, ContentFirst, Answered, HasContent, Sent
<1> QED BY <1>4, <1>6, <1>7

\* An outcome is chosen before anything depends on it.
LEMMA QueryPolicyStep ==
    ASSUME TypeOK, NEW c \in Call, CallInv(c), QueryPolicy(c)
    PROVE  TypeOK' /\ CallInv(c)' /\ \A d \in Call \ {c} : Untouched(d)
<1>1. /\ pc' \in [Call -> Labels]
      /\ pc'[c] = "content"
      /\ \A d \in Call \ {c} : pc'[d] = pc[d]
  BY GotoFacts DEF QueryPolicy, Labels
<1>2. /\ outcome' \in [Call -> Outcome]
      /\ outcome'[c] \in PolicyAnswers(c)
      /\ \A d \in Call \ {c} : outcome'[d] = outcome[d]
  BY DecideFacts DEF QueryPolicy, PolicyAnswers, Outcome
<1>3. told' = told /\ told \in [Call -> Outcome \cup ClientFault \cup {"none"}]
  BY DEF QueryPolicy, agent, TypeOK
<1>4. \A d \in Call \ {c} : Untouched(d)
  BY <1>1, <1>2, <1>3 DEF QueryPolicy, Untouched, agent, records, world, Sent
<1>5. (\A d \in Call : pc[d] \notin {"none", "queued", "execute", "over"} => loop = d)'
  BY <1>1 DEF QueryPolicy, TypeOK
<1>6. TypeOK'
  BY <1>1, <1>2, <1>3, <1>5 DEF QueryPolicy, TypeOK, agent, records, world
<1>7. CallInv(c)'
  BY <1>1, <1>2, <1>3
  DEF CallInv, QueryPolicy, agent, records, world, IntentFirst, RanIfApproved,
      ResultApproved, ReadyToAnswer, ContentFirst, Answered, HasContent, Sent, PolicyAnswers, Outcome
<1> QED BY <1>4, <1>6, <1>7

\* A handler that raises here has written nothing.
LEMMA PolicyRaisesStep ==
    ASSUME TypeOK, NEW c \in Call, CallInv(c), PolicyRaises(c)
    PROVE  TypeOK' /\ CallInv(c)' /\ \A d \in Call \ {c} : Untouched(d)
<1>1. /\ pc' \in [Call -> Labels]
      /\ pc'[c] = "over"
      /\ \A d \in Call \ {c} : pc'[d] = pc[d]
  BY GotoFacts DEF PolicyRaises, Labels
<1>2. outcome' = outcome /\ outcome \in [Call -> Outcome]
  BY DEF PolicyRaises, TypeOK
<1>3. told' = told /\ told \in [Call -> Outcome \cup ClientFault \cup {"none"}]
  BY DEF PolicyRaises, agent, TypeOK
<1>4. \A d \in Call \ {c} : Untouched(d)
  BY <1>1, <1>2, <1>3 DEF PolicyRaises, Untouched, agent, records, world, Sent
<1>5. (\A d \in Call : pc[d] \notin {"none", "queued", "execute", "over"} => loop = d)'
  BY <1>1 DEF PolicyRaises, TypeOK
<1>6. TypeOK'
  BY <1>1, <1>2, <1>3, <1>5 DEF PolicyRaises, TypeOK, agent, records, world
<1>7. CallInv(c)'
  BY <1>1, <1>2, <1>3
  DEF CallInv, PolicyRaises, agent, records, world, IntentFirst, RanIfApproved,
      ResultApproved, ReadyToAnswer, ContentFirst, Answered, HasContent, Sent
<1> QED BY <1>4, <1>6, <1>7

\* The row is there when the handler turns to its records.
LEMMA StoreContentStep ==
    ASSUME TypeOK, NEW c \in Call, CallInv(c), StoreContent(c)
    PROVE  TypeOK' /\ CallInv(c)' /\ \A d \in Call \ {c} : Untouched(d)
<1>1. /\ pc' \in [Call -> Labels]
      /\ pc'[c] = AfterContent(c)
      /\ \A d \in Call \ {c} : pc'[d] = pc[d]
  BY GotoFacts DEF StoreContent, Labels, AfterContent
<1>2. outcome' = outcome /\ outcome \in [Call -> Outcome]
  BY DEF StoreContent, TypeOK
<1>3. told' = told /\ told \in [Call -> Outcome \cup ClientFault \cup {"none"}]
  BY DEF StoreContent, agent, TypeOK
<1>4. \A d \in Call \ {c} : Untouched(d)
  BY <1>1, <1>2, <1>3 DEF StoreContent, Untouched, agent, records, world, Sent
<1>5. (\A d \in Call : pc[d] \notin {"none", "queued", "execute", "over"} => loop = d)'
  BY <1>1 DEF StoreContent, TypeOK, AfterContent
<1>6. TypeOK'
  BY <1>1, <1>2, <1>3, <1>5 DEF StoreContent, TypeOK, agent, records, world
<1>7. CallInv(c)'
  BY <1>1, <1>2, <1>3
  DEF CallInv, StoreContent, agent, records, world, IntentFirst, RanIfApproved,
      ResultApproved, ReadyToAnswer, ContentFirst, Answered, HasContent, Sent, AfterContent
<1> QED BY <1>4, <1>6, <1>7

\* Without content the call is answered with a fault, and not recorded.
LEMMA StoreFailsStep ==
    ASSUME TypeOK, NEW c \in Call, CallInv(c), StoreFails(c)
    PROVE  TypeOK' /\ CallInv(c)' /\ \A d \in Call \ {c} : Untouched(d)
<1>1. /\ pc' \in [Call -> Labels]
      /\ pc'[c] = "respond"
      /\ \A d \in Call \ {c} : pc'[d] = pc[d]
  BY GotoFacts DEF StoreFails, Labels
<1>2. /\ outcome' \in [Call -> Outcome]
      /\ outcome'[c] = "content_store_unreachable"
      /\ \A d \in Call \ {c} : outcome'[d] = outcome[d]
  BY DecideFacts DEF StoreFails, Outcome
<1>3. told' = told /\ told \in [Call -> Outcome \cup ClientFault \cup {"none"}]
  BY DEF StoreFails, agent, TypeOK
<1>4. \A d \in Call \ {c} : Untouched(d)
  BY <1>1, <1>2, <1>3 DEF StoreFails, Untouched, agent, records, world, Sent
<1>5. (\A d \in Call : pc[d] \notin {"none", "queued", "execute", "over"} => loop = d)'
  BY <1>1 DEF StoreFails, TypeOK
<1>6. TypeOK'
  BY <1>1, <1>2, <1>3, <1>5 DEF StoreFails, TypeOK, agent, records, world
<1>7. CallInv(c)'
  BY <1>1, <1>2, <1>3
  DEF CallInv, StoreFails, agent, records, world, IntentFirst, RanIfApproved,
      ResultApproved, ReadyToAnswer, ContentFirst, Answered, HasContent, Sent
<1> QED BY <1>4, <1>6, <1>7

\* The intent is sent with the content in place; it is no completion.
LEMMA SendIntentStep ==
    ASSUME TypeOK, NEW c \in Call, CallInv(c), SendIntent(c)
    PROVE  TypeOK' /\ CallInv(c)' /\ \A d \in Call \ {c} : Untouched(d)
<1>1. /\ pc' \in [Call -> Labels]
      /\ pc'[c] = "intent sent"
      /\ \A d \in Call \ {c} : pc'[d] = pc[d]
  BY GotoFacts DEF SendIntent, Labels
<1>2. outcome' = outcome /\ outcome \in [Call -> Outcome]
  BY DEF SendIntent, TypeOK
<1>3. told' = told /\ told \in [Call -> Outcome \cup ClientFault \cup {"none"}]
  BY DEF SendIntent, agent, TypeOK
<1>4. \A d \in Call \ {c} : Untouched(d)
  BY <1>1, <1>2, <1>3, RecordFacts DEF SendIntent, Untouched, agent, records, world, Sent, Send
<1>5. (\A d \in Call : pc[d] \notin {"none", "queued", "execute", "over"} => loop = d)'
  BY <1>1 DEF SendIntent, TypeOK
<1>6. TypeOK'
  BY <1>1, <1>2, <1>3, <1>5, RecordFacts DEF SendIntent, TypeOK, agent, records, world, Send
<1>7. CallInv(c)'
  <2>1. IntentFirst(c)'
    BY <1>1, <1>2, <1>3 DEF CallInv, SendIntent, IntentFirst, agent, records, world
  <2>2. RanIfApproved(c)'
    <3>1. Completion(c, "policy_allow") \in Sent' => Completion(c, "policy_allow") \in Sent
      BY RecordFacts DEF SendIntent, Send, Sent, Outcome
    <3> QED BY <1>1, <1>2, <1>3, <3>1 DEF CallInv, SendIntent, RanIfApproved, world
  <2>3. ResultApproved(c)'
    BY <1>1, <1>2, <1>3 DEF CallInv, SendIntent, ResultApproved, agent, records, world
  <2>4. ReadyToAnswer(c)'
    BY <1>1, <1>2, <1>3 DEF CallInv, SendIntent, ReadyToAnswer, agent, records, world
  <2>5. ContentFirst(c)'
    BY <1>1, <1>2, <1>3, RecordFacts DEF CallInv, SendIntent, Send, ContentFirst, HasContent, Sent, world
  <2>6. Answered(c)'
    BY <1>1, <1>2, <1>3 DEF CallInv, SendIntent, Answered, agent, records, world
  <2> QED BY <2>1, <2>2, <2>3, <2>4, <2>5, <2>6 DEF CallInv
<1> QED BY <1>4, <1>6, <1>7

\* The tool is reached with the intent in the ledger.
LEMMA IntentVerifiedStep ==
    ASSUME TypeOK, NEW c \in Call, CallInv(c), IntentVerified(c)
    PROVE  TypeOK' /\ CallInv(c)' /\ \A d \in Call \ {c} : Untouched(d)
<1>1. /\ pc' \in [Call -> Labels]
      /\ pc'[c] = "execute"
      /\ \A d \in Call \ {c} : pc'[d] = pc[d]
  BY GotoFacts DEF IntentVerified, Labels
<1>2. outcome' = outcome /\ outcome \in [Call -> Outcome]
  BY DEF IntentVerified, TypeOK
<1>3. told' = told /\ told \in [Call -> Outcome \cup ClientFault \cup {"none"}]
  BY DEF IntentVerified, agent, TypeOK
<1>4. \A d \in Call \ {c} : Untouched(d)
  BY <1>1, <1>2, <1>3 DEF IntentVerified, Untouched, agent, records, world, Sent
<1>5. (\A d \in Call : pc[d] \notin {"none", "queued", "execute", "over"} => loop = d)'
  BY <1>1 DEF IntentVerified, TypeOK
<1>6. TypeOK'
  BY <1>1, <1>2, <1>3, <1>5 DEF IntentVerified, TypeOK, agent, records, world
<1>7. CallInv(c)'
  BY <1>1, <1>2, <1>3
  DEF CallInv, IntentVerified, agent, records, world, IntentFirst, RanIfApproved,
      ResultApproved, ReadyToAnswer, ContentFirst, Answered, HasContent, Sent
<1> QED BY <1>4, <1>6, <1>7

\* The approval is given up, so nothing is owed to the tool.
LEMMA IntentFailsStep ==
    ASSUME TypeOK, NEW c \in Call, CallInv(c), IntentFails(c)
    PROVE  TypeOK' /\ CallInv(c)' /\ \A d \in Call \ {c} : Untouched(d)
<1>1. /\ pc' \in [Call -> Labels]
      /\ pc'[c] = "record"
      /\ \A d \in Call \ {c} : pc'[d] = pc[d]
  BY GotoFacts DEF IntentFails, Labels
<1>2. /\ outcome' \in [Call -> Outcome]
      /\ outcome'[c] = "intent_write_failed"
      /\ \A d \in Call \ {c} : outcome'[d] = outcome[d]
  BY DecideFacts DEF IntentFails, Outcome
<1>3. told' = told /\ told \in [Call -> Outcome \cup ClientFault \cup {"none"}]
  BY DEF IntentFails, agent, TypeOK
<1>4. \A d \in Call \ {c} : Untouched(d)
  BY <1>1, <1>2, <1>3 DEF IntentFails, Untouched, agent, records, world, Sent
<1>5. (\A d \in Call : pc[d] \notin {"none", "queued", "execute", "over"} => loop = d)'
  BY <1>1 DEF IntentFails, TypeOK
<1>6. TypeOK'
  BY <1>1, <1>2, <1>3, <1>5 DEF IntentFails, TypeOK, agent, records, world
<1>7. CallInv(c)'
  BY <1>1, <1>2, <1>3
  DEF CallInv, IntentFails, agent, records, world, IntentFirst, RanIfApproved,
      ResultApproved, ReadyToAnswer, ContentFirst, Answered, HasContent, Sent
<1> QED BY <1>4, <1>6, <1>7

\* The tool runs behind its intent.
LEMMA RunToolStep ==
    ASSUME TypeOK, NEW c \in Call, CallInv(c), RunTool(c)
    PROVE  TypeOK' /\ CallInv(c)' /\ \A d \in Call \ {c} : Untouched(d)
<1>1. pc' = pc /\ pc \in [Call -> Labels]
  BY DEF RunTool, TypeOK
<1>2. outcome' = outcome /\ outcome \in [Call -> Outcome]
  BY DEF RunTool, TypeOK
<1>3. told' = told /\ told \in [Call -> Outcome \cup ClientFault \cup {"none"}]
  BY DEF RunTool, agent, TypeOK
<1>4. \A d \in Call \ {c} : Untouched(d)
  BY <1>1, <1>2, <1>3 DEF RunTool, Untouched, agent, records, world, Sent
<1>5. (\A d \in Call : pc[d] \notin {"none", "queued", "execute", "over"} => loop = d)'
  BY <1>1 DEF RunTool, TypeOK
<1>6. TypeOK'
  BY <1>1, <1>2, <1>3, <1>5 DEF RunTool, TypeOK, agent, records, world
<1>7. CallInv(c)'
  BY <1>1, <1>2, <1>3
  DEF CallInv, RunTool, agent, records, world, IntentFirst, RanIfApproved,
      ResultApproved, ReadyToAnswer, ContentFirst, Answered, HasContent, Sent
<1> QED BY <1>4, <1>6, <1>7

\* The result comes with an approval, and the tool did run.
LEMMA ToolReturnsStep ==
    ASSUME TypeOK, NEW c \in Call, CallInv(c), ToolReturns(c)
    PROVE  TypeOK' /\ CallInv(c)' /\ \A d \in Call \ {c} : Untouched(d)
<1>1. /\ pc' \in [Call -> Labels]
      /\ pc'[c] = "record"
      /\ \A d \in Call \ {c} : pc'[d] = pc[d]
  BY GotoFacts DEF ToolReturns, Labels
<1>2. outcome' = outcome /\ outcome \in [Call -> Outcome]
  BY DEF ToolReturns, TypeOK
<1>3. told' = told /\ told \in [Call -> Outcome \cup ClientFault \cup {"none"}]
  BY DEF ToolReturns, agent, TypeOK
<1>4. \A d \in Call \ {c} : Untouched(d)
  BY <1>1, <1>2, <1>3 DEF ToolReturns, Untouched, agent, records, world, Sent
<1>5. (\A d \in Call : pc[d] \notin {"none", "queued", "execute", "over"} => loop = d)'
  BY <1>1, DecisionAssumption DEF ToolReturns, TypeOK
<1>6. TypeOK'
  BY <1>1, <1>2, <1>3, <1>5 DEF ToolReturns, TypeOK, agent, records, world
<1>7. CallInv(c)'
  BY <1>1, <1>2, <1>3
  DEF CallInv, ToolReturns, agent, records, world, IntentFirst, RanIfApproved,
      ResultApproved, ReadyToAnswer, ContentFirst, Answered, HasContent, Sent
<1> QED BY <1>4, <1>6, <1>7

\* The approval is given up when the tool fails.
LEMMA ToolFailsStep ==
    ASSUME TypeOK, NEW c \in Call, CallInv(c), ToolFails(c)
    PROVE  TypeOK' /\ CallInv(c)' /\ \A d \in Call \ {c} : Untouched(d)
<1>1. /\ pc' \in [Call -> Labels]
      /\ pc'[c] = "record"
      /\ \A d \in Call \ {c} : pc'[d] = pc[d]
  BY GotoFacts DEF ToolFails, Labels
<1>2. /\ outcome' \in [Call -> Outcome]
      /\ outcome'[c] = "tool_execution_failed"
      /\ \A d \in Call \ {c} : outcome'[d] = outcome[d]
  BY DecideFacts DEF ToolFails, Outcome
<1>3. told' = told /\ told \in [Call -> Outcome \cup ClientFault \cup {"none"}]
  BY DEF ToolFails, agent, TypeOK
<1>4. \A d \in Call \ {c} : Untouched(d)
  BY <1>1, <1>2, <1>3 DEF ToolFails, Untouched, agent, records, world, Sent
<1>5. (\A d \in Call : pc[d] \notin {"none", "queued", "execute", "over"} => loop = d)'
  BY <1>1, DecisionAssumption DEF ToolFails, TypeOK
<1>6. TypeOK'
  BY <1>1, <1>2, <1>3, <1>5 DEF ToolFails, TypeOK, agent, records, world
<1>7. CallInv(c)'
  BY <1>1, <1>2, <1>3
  DEF CallInv, ToolFails, agent, records, world, IntentFirst, RanIfApproved,
      ResultApproved, ReadyToAnswer, ContentFirst, Answered, HasContent, Sent
<1> QED BY <1>4, <1>6, <1>7

\* A completion that approves a mediated call follows its execution.
LEMMA SendRecordStep ==
    ASSUME TypeOK, NEW c \in Call, CallInv(c), SendRecord(c)
    PROVE  TypeOK' /\ CallInv(c)' /\ \A d \in Call \ {c} : Untouched(d)
<1>1. /\ pc' \in [Call -> Labels]
      /\ pc'[c] = "record sent"
      /\ \A d \in Call \ {c} : pc'[d] = pc[d]
  BY GotoFacts DEF SendRecord, Labels
<1>2. outcome' = outcome /\ outcome \in [Call -> Outcome]
  BY DEF SendRecord, TypeOK
<1>3. told' = told /\ told \in [Call -> Outcome \cup ClientFault \cup {"none"}]
  BY DEF SendRecord, agent, TypeOK
<1>4. Completion(c, outcome[c]) \in Record /\ Completion(c, outcome[c]).call = c
  BY <1>2, RecordFacts
<1>5. \A d \in Call \ {c} : Untouched(d)
  BY <1>1, <1>2, <1>3, <1>4, RecordFacts DEF SendRecord, Untouched, agent, records, world, Sent, Send
<1>6. (\A d \in Call : pc[d] \notin {"none", "queued", "execute", "over"} => loop = d)'
  BY <1>1 DEF SendRecord, TypeOK
<1>7. TypeOK'
  BY <1>1, <1>2, <1>3, <1>4, <1>6, RecordFacts DEF SendRecord, TypeOK, agent, records, world, Send
<1>8. CallInv(c)'
  <2>1. IntentFirst(c)'
    BY <1>1, <1>2, <1>3, <1>4 DEF CallInv, SendRecord, IntentFirst, agent, records, world
  <2>2. RanIfApproved(c)'
    <3>1. Completion(c, outcome[c]) = Completion(c, "policy_allow") => outcome[c] = "policy_allow"
      BY <1>2, RecordFacts DEF Outcome
    <3>2. Completion(c, "policy_allow") \in Sent' =>
              Completion(c, "policy_allow") \in Sent \/ outcome[c] = "policy_allow"
      BY <3>1 DEF SendRecord, Send, Sent
    <3> QED BY <1>1, <1>2, <1>3, <1>4, <3>2 DEF CallInv, SendRecord, RanIfApproved, world
  <2>3. ResultApproved(c)'
    BY <1>1, <1>2, <1>3, <1>4 DEF CallInv, SendRecord, ResultApproved, agent, records, world
  <2>4. ReadyToAnswer(c)'
    BY <1>1, <1>2, <1>3, <1>4 DEF CallInv, SendRecord, ReadyToAnswer, agent, records, world
  <2>5. ContentFirst(c)'
    BY <1>1, <1>2, <1>3, <1>4, RecordFacts DEF CallInv, SendRecord, Send, ContentFirst, HasContent, Sent, world
  <2>6. Answered(c)'
    BY <1>1, <1>2, <1>3, <1>4 DEF CallInv, SendRecord, Answered, agent, records, world
  <2> QED BY <2>1, <2>2, <2>3, <2>4, <2>5, <2>6 DEF CallInv
<1> QED BY <1>5, <1>7, <1>8

\* The outcome to be answered is in the ledger.
LEMMA RecordVerifiedStep ==
    ASSUME TypeOK, NEW c \in Call, CallInv(c), RecordVerified(c)
    PROVE  TypeOK' /\ CallInv(c)' /\ \A d \in Call \ {c} : Untouched(d)
<1>1. /\ pc' \in [Call -> Labels]
      /\ pc'[c] = "respond"
      /\ \A d \in Call \ {c} : pc'[d] = pc[d]
  BY GotoFacts DEF RecordVerified, Labels
<1>2. outcome' = outcome /\ outcome \in [Call -> Outcome]
  BY DEF RecordVerified, TypeOK
<1>3. told' = told /\ told \in [Call -> Outcome \cup ClientFault \cup {"none"}]
  BY DEF RecordVerified, agent, TypeOK
<1>4. \A d \in Call \ {c} : Untouched(d)
  BY <1>1, <1>2, <1>3 DEF RecordVerified, Untouched, agent, records, world, Sent
<1>5. (\A d \in Call : pc[d] \notin {"none", "queued", "execute", "over"} => loop = d)'
  BY <1>1 DEF RecordVerified, TypeOK
<1>6. TypeOK'
  BY <1>1, <1>2, <1>3, <1>5 DEF RecordVerified, TypeOK, agent, records, world
<1>7. CallInv(c)'
  BY <1>1, <1>2, <1>3
  DEF CallInv, RecordVerified, agent, records, world, IntentFirst, RanIfApproved,
      ResultApproved, ReadyToAnswer, ContentFirst, Answered, HasContent, Sent
<1> QED BY <1>4, <1>6, <1>7

\* The answer is a fault, and the result is withheld.
LEMMA RecordFailsStep ==
    ASSUME TypeOK, NEW c \in Call, CallInv(c), RecordFails(c)
    PROVE  TypeOK' /\ CallInv(c)' /\ \A d \in Call \ {c} : Untouched(d)
<1>1. /\ pc' \in [Call -> Labels]
      /\ pc'[c] = "respond"
      /\ \A d \in Call \ {c} : pc'[d] = pc[d]
  BY GotoFacts DEF RecordFails, Labels
<1>2. /\ outcome' \in [Call -> Outcome]
      /\ outcome'[c] = "verifier_unreachable"
      /\ \A d \in Call \ {c} : outcome'[d] = outcome[d]
  BY DecideFacts DEF RecordFails, Outcome
<1>3. told' = told /\ told \in [Call -> Outcome \cup ClientFault \cup {"none"}]
  BY DEF RecordFails, agent, TypeOK
<1>4. \A d \in Call \ {c} : Untouched(d)
  BY <1>1, <1>2, <1>3 DEF RecordFails, Untouched, agent, records, world, Sent
<1>5. (\A d \in Call : pc[d] \notin {"none", "queued", "execute", "over"} => loop = d)'
  BY <1>1 DEF RecordFails, TypeOK
<1>6. TypeOK'
  BY <1>1, <1>2, <1>3, <1>5 DEF RecordFails, TypeOK, agent, records, world
<1>7. CallInv(c)'
  BY <1>1, <1>2, <1>3
  DEF CallInv, RecordFails, agent, records, world, IntentFirst, RanIfApproved,
      ResultApproved, ReadyToAnswer, ContentFirst, Answered, HasContent, Sent
<1> QED BY <1>4, <1>6, <1>7

\* The agent is told the outcome on record, or nothing.
LEMMA RespondStep ==
    ASSUME TypeOK, NEW c \in Call, CallInv(c), Respond(c)
    PROVE  TypeOK' /\ CallInv(c)' /\ \A d \in Call \ {c} : Untouched(d)
<1>1. /\ pc' \in [Call -> Labels]
      /\ pc'[c] = "over"
      /\ \A d \in Call \ {c} : pc'[d] = pc[d]
  BY GotoFacts DEF Respond, Labels
<1>2. outcome' = outcome /\ outcome \in [Call -> Outcome]
  BY DEF Respond, TypeOK
<1>3. /\ told' \in [Call -> Outcome \cup ClientFault \cup {"none"}]
      /\ told'[c] = outcome[c] \/ told' = told
      /\ \A d \in Call \ {c} : told'[d] = told[d]
  BY TellFacts DEF Respond, agent, TypeOK
<1>4. \A d \in Call \ {c} : Untouched(d)
  BY <1>1, <1>2, <1>3 DEF Respond, Untouched, agent, records, world, Sent
<1>5. (\A d \in Call : pc[d] \notin {"none", "queued", "execute", "over"} => loop = d)'
  BY <1>1 DEF Respond, TypeOK
<1>6. TypeOK'
  BY <1>1, <1>2, <1>3, <1>5 DEF Respond, TypeOK, agent, records, world
<1>7. CallInv(c)'
  <2>1. IntentFirst(c)'
    BY <1>1, <1>2, <1>3 DEF CallInv, Respond, IntentFirst, agent, records, world
  <2>2. RanIfApproved(c)'
    BY <1>1, <1>2, <1>3 DEF CallInv, Respond, RanIfApproved, agent, records, world, Sent
  <2>3. ResultApproved(c)'
    BY <1>1, <1>2, <1>3 DEF CallInv, Respond, ResultApproved, agent, records, world
  <2>4. ReadyToAnswer(c)'
    BY <1>1, <1>2, <1>3 DEF CallInv, Respond, ReadyToAnswer, agent, records, world
  <2>5. ContentFirst(c)'
    BY <1>1, <1>2, <1>3 DEF CallInv, Respond, ContentFirst, agent, records, world, HasContent, Sent
  <2>6. Answered(c)'
    <3>1. CASE UNCHANGED agent
      BY <3>1 DEF CallInv, Respond, Answered, agent, records
    <3>2. CASE told'[c] = outcome[c] /\ held' = held \cup (results \cap {c}) /\ told[c] = "none"
      BY <1>1, <1>2, <1>3, <3>2 DEF CallInv, Respond, Answered, ReadyToAnswer, ResultApproved, records
    <3> QED BY <1>1, <1>2, <1>3, <3>1, <3>2, TellFacts DEF Respond
  <2> QED BY <2>1, <2>2, <2>3, <2>4, <2>5, <2>6 DEF CallInv
<1> QED BY <1>4, <1>6, <1>7

\* A record that commits, or is dropped, touches no call.
LEMMA VerifierStep ==
    ASSUME IInv, NEW r \in inflight, Commits(r) \/ Drops(r)
    PROVE  IInv'
<1>1. TypeOK'
  BY DEF IInv, TypeOK, Commits, Drops, agent, world
<1>2. \A d \in Call : Untouched(d)
  BY DEF Commits, Drops, agent, world, Untouched, Sent
<1> QED BY <1>1, <1>2, Frame DEF IInv

\* A crash ends the calls that were being served, which no part of the
\* invariant speaks of.
LEMMA CrashStep == IInv /\ Crash => IInv'
<1> SUFFICES ASSUME IInv, Crash PROVE IInv'
  OBVIOUS
<1>1. /\ pc' \in [Call -> {"none", "over"}]
      /\ \A d \in Call : pc'[d] = pc[d] \/ pc'[d] = "over"
  BY DEF Crash
<1>2. TypeOK'
  <2>1. pc' \in [Call -> Labels]
    BY <1>1 DEF Labels
  <2> QED BY <1>1, <2>1, DecisionAssumption DEF IInv, TypeOK, Crash, agent, records
<1>3. \A d \in Call : CallInv(d)'
  <2> SUFFICES ASSUME NEW d \in Call PROVE CallInv(d)'
    OBVIOUS
  <2>1. CallInv(d)
    BY DEF IInv
  <2> QED BY <1>1, <2>1 DEF Crash, CallInv, agent, records, IntentFirst, RanIfApproved,
             ResultApproved, ReadyToAnswer, ContentFirst, Answered, HasContent, Sent
<1> QED BY <1>2, <1>3 DEF IInv

\* The invariant is inductive.
LEMMA Inductive == IInv /\ [Next]_vars => IInv'
<1> SUFFICES ASSUME IInv, [Next]_vars PROVE IInv'
  OBVIOUS
<1>1. ASSUME NEW c \in Call,
             Ask(c) \/ NoIdentity(c) \/ GiveUp(c) \/ Serve(c)
             \/ RunTool(c) \/ ToolReturns(c) \/ ToolFails(c)
      PROVE  IInv'
  <2>1. TypeOK /\ CallInv(c)
    BY DEF IInv
  <2>2. TypeOK' /\ CallInv(c)' /\ \A d \in Call \ {c} : Untouched(d)
    BY <1>1, <2>1, AskStep, NoIdentityStep, GiveUpStep, TakeStep, QueryPolicyStep,
       PolicyRaisesStep, StoreContentStep, StoreFailsStep, SendIntentStep, IntentVerifiedStep,
       IntentFailsStep, RunToolStep, ToolReturnsStep, ToolFailsStep, SendRecordStep,
       RecordVerifiedStep, RecordFailsStep, RespondStep
       DEF Serve
  <2>3. \A d \in Call \ {c} : CallInv(d)'
    BY <2>2, Frame DEF IInv
  <2> QED BY <2>2, <2>3 DEF IInv
<1>2. CASE UNCHANGED vars
  <2>1. TypeOK'
    BY <1>2 DEF IInv, TypeOK, vars, agent, records, world
  <2>2. \A d \in Call : Untouched(d)
    BY <1>2 DEF vars, agent, records, world, Untouched, Sent
  <2> QED BY <2>1, <2>2, Frame DEF IInv
<1> QED BY <1>1, <1>2, VerifierStep, CrashStep DEF Next

\* The initial states satisfy it: no call was made.
LEMMA Initial == Init => IInv
<1> SUFFICES ASSUME Init PROVE IInv
  OBVIOUS
<1>1. TypeOK
  BY DecisionAssumption DEF Init, TypeOK, Labels, Outcome
<1>2. \A c \in Call : CallInv(c)
  BY DEF Init, CallInv, IntentFirst, RanIfApproved, ResultApproved, ReadyToAnswer,
         ContentFirst, Answered, Sent, Outcome
<1> QED BY <1>1, <1>2 DEF IInv

\* decide() and its callers, whatever fails and whenever: the conjunction of
\* the statements about each call holds in every reachable state.
THEOREM Invariance == Spec => []IInv
BY Initial, Inductive, PTL DEF Spec

\* The variables keep their types, and only the call that holds the event
\* loop is between two of its suspensions.
THEOREM TypeCorrect == Spec => []TypeOK
<1>1. IInv => TypeOK
  BY DEF IInv
<1> QED BY <1>1, Invariance, PTL

\* D16, for any number of calls and crashes: an executed mediated call is
\* listed by the audit, as completed or as unknown.
THEOREM ExecutionsVisible == Spec => []ExecutionIsVisible
<1>1. IInv => ExecutionIsVisible
  BY DEF IInv, TypeOK, CallInv, IntentFirst, ExecutionIsVisible, ExecutionState
<1> QED BY <1>1, Invariance, PTL

\* A decision record that approves a mediated call has its intent in the
\* ledger and its tool did run.
THEOREM ApprovalsTrue == Spec => []ApprovalIsTrue
<1>1. IInv => ApprovalIsTrue
  BY DEF IInv, CallInv, IntentFirst, RanIfApproved, ApprovalIsTrue, Sent
<1> QED BY <1>1, Invariance, PTL

\* The agent is told an outcome only if that outcome is on record, and is
\* given a result only beside a recorded approval.
THEOREM AnswersRecorded == Spec => []AnswerIsRecorded
<1>1. IInv => AnswerIsRecorded
  BY DEF IInv, TypeOK, CallInv, Answered, AnswerIsRecorded
<1> QED BY <1>1, Invariance, PTL

\* A record never precedes the stored arguments it refers to.
THEOREM ContentStored == Spec => []RecordedContentStored
<1>1. IInv => RecordedContentStored
  BY RecordFacts DEF IInv, TypeOK, CallInv, ContentFirst, HasContent, RecordedContentStored, Sent
<1> QED BY <1>1, Invariance, PTL
=============================================================================
