------------------------------ MODULE Decision ------------------------------
(***************************************************************************)
(* One decision about a tool call: the agent's client                      *)
(* (src/interceptor/middleware.py), POST /decide of the decision service   *)
(* (src/decision_service/main.py) and the two records it writes through    *)
(* src/ledger/immudb_ledger.py.                                            *)
(*                                                                         *)
(* decide() is a coroutine whose network calls block: the call it serves   *)
(* holds the event loop from its start to its answer, except while the     *)
(* mediated tool runs.  Every blocking call has a timeout; the tool has    *)
(* none.  A record handed to the verifier commits, or does not, whether or *)
(* not anyone still waits for the answer.                                  *)
(***************************************************************************)
EXTENDS Integers

CONSTANTS NoCall,      \* no call holds the event loop
          Call,        \* calls of intercept_tool_call, each with its own call_id
          Mixes,       \* the kinds of calls that may come together
          MaxCrashes   \* bound: crashes of the decision service

\* read_vault_secret, the one mediated tool; a tool the agent runs itself; a
\* tool with no schema; arguments that are not a JSON object.
Kind == {"vault", "observed", "unregistered", "malformed"}

ASSUME DecisionAssumption ==
    /\ NoCall \notin Call
    /\ Mixes \subseteq [Call -> Kind]
    /\ MaxCrashes \in Nat

\* "engine" stands for opa_unreachable, revision_unavailable and
\* malformed_policy_response, which are handled alike.
Outcome == {"policy_allow", "policy_deny", "schema_deny", "engine",
            "content_store_unreachable", "intent_write_failed",
            "tool_execution_failed", "verifier_unreachable"}
ClientFault == {"spiffe_unavailable", "decision_service_unreachable"}

VARIABLES kind,      \* kind[c]: the tool and the arguments of c
          pc,        \* pc[c]: where the handler serving c is
          outcome,   \* outcome[c]: its outcome_type and fault_class
          results,   \* calls whose handler has a result_payload
          loop,      \* the call whose handler holds the event loop
          told,      \* told[c]: what intercept_tool_call returned to the agent
          held,      \* calls whose result the agent was given
          ledger,    \* ImmuDB: the records of these calls
          inflight,  \* records at the verifier, not yet decided
          rows,      \* calls with a call_content row
          executed,  \* calls whose mediated tool ran
          crashes

agent == <<told, held>>
records == <<ledger, inflight>>
world == <<kind, rows, executed, crashes>>
vars == <<pc, outcome, results, loop, agent, records, world>>

Record == [call : Call, type : {"decision_intent", "decision"}, outcome : Outcome]
Intent(c) == [call |-> c, type |-> "decision_intent", outcome |-> "policy_allow"]
Completion(c, o) == [call |-> c, type |-> "decision", outcome |-> o]

Init ==
    /\ kind \in Mixes
    /\ pc = [c \in Call |-> "none"]
    /\ outcome = [c \in Call |-> "schema_deny"]
    /\ results = {}
    /\ loop = NoCall
    /\ told = [c \in Call |-> "none"]
    /\ held = {}
    /\ ledger = {}
    /\ inflight = {}
    /\ rows = {}
    /\ executed = {}
    /\ crashes = 0

Goto(c, label) == pc' = [pc EXCEPT ![c] = label]
Decide(c, o) == outcome' = [outcome EXCEPT ![c] = o]
Tell(c, o) == told' = [told EXCEPT ![c] = o]

-----------------------------------------------------------------------------
(* The agent's client.                                                     *)

Ask(c) ==
    /\ pc[c] = "none"
    /\ told[c] = "none"
    /\ Goto(c, "queued")
    /\ UNCHANGED <<outcome, results, loop, agent, records, world>>

\* No SVID, or a peer with another SPIFFE id: nothing is sent.
NoIdentity(c) ==
    /\ pc[c] = "none"
    /\ told[c] = "none"
    /\ Tell(c, "spiffe_unavailable")
    /\ UNCHANGED <<pc, outcome, results, loop, held, records, world>>

\* 20 s without an answer, a broken connection, or a status other than 200.
GiveUp(c) ==
    /\ pc[c] # "none"
    /\ told[c] = "none"
    /\ Tell(c, "decision_service_unreachable")
    /\ UNCHANGED <<pc, outcome, results, loop, held, records, world>>

-----------------------------------------------------------------------------
(* query_opa_policy and store_content.                                     *)

\* The coroutine is scheduled, and runs up to its first blocking call.
Take(c) ==
    /\ pc[c] = "queued"
    /\ loop = NoCall
    /\ loop' = c
    /\ Goto(c, "policy")
    /\ UNCHANGED <<outcome, results, agent, records, world>>

\* Arguments of the wrong shape and unregistered tools are refused without
\* asking OPA, and the tool's validator may refuse the rest.
PolicyAnswers(c) ==
    IF kind[c] \in {"vault", "observed"}
    THEN {"schema_deny", "policy_allow", "policy_deny", "engine"}
    ELSE {"schema_deny"}

QueryPolicy(c) ==
    /\ pc[c] = "policy"
    /\ \E o \in PolicyAnswers(c) : Decide(c, o)
    /\ Goto(c, "content")
    /\ UNCHANGED <<results, loop, agent, records, world>>

\* A body that is not JSON, or a result that is not an object, is raised out
\* of the handler: a 500, with nothing stored or written.
PolicyRaises(c) ==
    /\ pc[c] = "policy"
    /\ "engine" \in PolicyAnswers(c)
    /\ loop' = NoCall
    /\ Goto(c, "over")
    /\ UNCHANGED <<outcome, results, agent, records, world>>

\* Where the handler goes once content_state is set: an approved mediated
\* call to its intent, any other to its decision record.
AfterContent_Observed(c) == "record"
AfterContent(c) ==
    IF outcome[c] = "policy_allow" /\ kind[c] = "vault" THEN "intent" ELSE "record"

StoreContent(c) ==
    /\ pc[c] = "content"
    /\ rows' = IF kind[c] = "malformed" THEN rows ELSE rows \cup {c}
    /\ Goto(c, AfterContent(c))
    /\ UNCHANGED <<outcome, results, loop, agent, records, kind, executed, crashes>>

\* The store fails or does not answer within 10 s; the row may be there.  No
\* content_state, no record.
StoreFails_Ignored(c) ==
    /\ pc[c] = "content"
    /\ kind[c] # "malformed"
    /\ Goto(c, AfterContent(c))
    /\ UNCHANGED <<outcome, results, loop, agent, records, world>>

StoreFails(c) ==
    /\ pc[c] = "content"
    /\ kind[c] # "malformed"
    /\ rows' \in {rows, rows \cup {c}}
    /\ Decide(c, "content_store_unreachable")
    /\ Goto(c, "respond")
    /\ UNCHANGED <<results, loop, agent, records, kind, executed, crashes>>

-----------------------------------------------------------------------------
(* log_tool_intent and log_tool_call: POST /write-ordered.                 *)

Send(record) == inflight' = inflight \cup {record}

Commits(r) ==
    /\ r \in inflight
    /\ inflight' = inflight \ {r}
    /\ ledger' = ledger \cup {r}
    /\ UNCHANGED <<pc, outcome, results, loop, agent, world>>

Drops(r) ==
    /\ r \in inflight
    /\ inflight' = inflight \ {r}
    /\ UNCHANGED <<pc, outcome, results, loop, agent, ledger, world>>

SendIntent(c) ==
    /\ pc[c] = "intent"
    /\ Send(Intent(c))
    /\ Goto(c, "intent sent")
    /\ UNCHANGED <<outcome, results, loop, agent, ledger, world>>

\* verified: true is answered only of a record that committed.  The tool is
\* started, and awaited off the loop.
IntentVerified_Blocking(c) ==
    /\ pc[c] = "intent sent"
    /\ Intent(c) \in ledger
    /\ Goto(c, "execute")
    /\ UNCHANGED <<outcome, results, loop, agent, records, world>>

IntentVerified(c) ==
    /\ pc[c] = "intent sent"
    /\ Intent(c) \in ledger
    /\ Goto(c, "execute")
    /\ loop' = NoCall
    /\ UNCHANGED <<outcome, results, agent, records, world>>

\* No healthy verifier, no answer within 30 s, an error status, or
\* verified: false; the record may be committed or commit later.
IntentFails_Ignored(c) ==
    /\ pc[c] \in {"intent", "intent sent"}
    /\ Goto(c, "execute")
    /\ loop' = NoCall
    /\ UNCHANGED <<outcome, results, agent, records, world>>

IntentFails(c) ==
    /\ pc[c] \in {"intent", "intent sent"}
    /\ Decide(c, "intent_write_failed")
    /\ Goto(c, "record")
    /\ UNCHANGED <<results, loop, agent, records, world>>

\* The vault server runs read_vault_secret in its own process.
RunTool(c) ==
    /\ pc[c] = "execute"
    /\ executed' = executed \cup {c}
    /\ UNCHANGED <<pc, outcome, results, loop, agent, records, kind, rows, crashes>>

\* The coroutine resumes, when the loop is free, with a result or an error.
ToolReturns_Anytime(c) ==
    /\ pc[c] = "execute"
    /\ c \in executed
    /\ loop' = c
    /\ results' = results \cup {c}
    /\ Goto(c, "record")
    /\ UNCHANGED <<outcome, agent, records, world>>

ToolReturns(c) ==
    /\ pc[c] = "execute"
    /\ c \in executed
    /\ loop = NoCall
    /\ loop' = c
    /\ results' = results \cup {c}
    /\ Goto(c, "record")
    /\ UNCHANGED <<outcome, agent, records, world>>

ToolFails(c) ==
    /\ pc[c] = "execute"
    /\ loop = NoCall
    /\ loop' = c
    /\ Decide(c, "tool_execution_failed")
    /\ Goto(c, "record")
    /\ UNCHANGED <<results, agent, records, world>>

SendRecord(c) ==
    /\ pc[c] = "record"
    /\ Send(Completion(c, outcome[c]))
    /\ Goto(c, "record sent")
    /\ UNCHANGED <<outcome, results, loop, agent, ledger, world>>

RecordVerified(c) ==
    /\ pc[c] = "record sent"
    /\ Completion(c, outcome[c]) \in ledger
    /\ Goto(c, "respond")
    /\ UNCHANGED <<outcome, results, loop, agent, records, world>>

\* As IntentFails; the tool's result is withheld.
RecordFails_KeepsResult(c) ==
    /\ pc[c] \in {"record", "record sent"}
    /\ Decide(c, "verifier_unreachable")
    /\ Goto(c, "respond")
    /\ UNCHANGED <<results, loop, agent, records, world>>

RecordFails_Logged(c) ==
    /\ pc[c] \in {"record", "record sent"}
    /\ Goto(c, "respond")
    /\ UNCHANGED <<outcome, results, loop, agent, records, world>>

RecordFails(c) ==
    /\ pc[c] \in {"record", "record sent"}
    /\ Decide(c, "verifier_unreachable")
    /\ results' = results \ {c}
    /\ Goto(c, "respond")
    /\ UNCHANGED <<loop, agent, records, world>>

\* The response reaches the agent if it still waits and the answer is not lost.
Respond(c) ==
    /\ pc[c] = "respond"
    /\ loop' = NoCall
    /\ Goto(c, "over")
    /\ \/ /\ told[c] = "none"
          /\ Tell(c, outcome[c])
          /\ held' = held \cup (results \cap {c})
       \/ UNCHANGED agent
    /\ UNCHANGED <<outcome, results, records, world>>

\* The process dies with every call it was serving, and starts again.
Crash ==
    /\ crashes < MaxCrashes
    /\ crashes' = crashes + 1
    /\ loop' = NoCall
    /\ pc' = [c \in Call |-> IF pc[c] = "none" THEN "none" ELSE "over"]
    /\ UNCHANGED <<outcome, results, agent, records, kind, rows, executed>>

-----------------------------------------------------------------------------

\* What the handler does between two suspensions, and its choice of failure.
Serve(c) ==
    \/ Take(c)
    \/ QueryPolicy(c)
    \/ PolicyRaises(c)
    \/ StoreContent(c)
    \/ StoreFails(c)
    \/ SendIntent(c)
    \/ IntentVerified(c)
    \/ IntentFails(c)
    \/ SendRecord(c)
    \/ RecordVerified(c)
    \/ RecordFails(c)
    \/ Respond(c)

Next ==
    \/ \E c \in Call :
          \/ Ask(c)
          \/ NoIdentity(c)
          \/ GiveUp(c)
          \/ Serve(c)
          \/ RunTool(c)
          \/ ToolReturns(c)
          \/ ToolFails(c)
    \/ \E r \in inflight : Commits(r) \/ Drops(r)
    \/ Crash

Spec == Init /\ [][Next]_vars

\* The handler goes on while its calls are answered or time out, and the
\* client's own timeout expires.  Nothing is assumed of the tool.
FairSpec == Spec /\ \A c \in Call : WF_vars(Serve(c)) /\ WF_vars(GiveUp(c))

-----------------------------------------------------------------------------
(* execution_state of GET /audit, over a page that holds the whole ledger. *)

Completed(c) == \E o \in Outcome : Completion(c, o) \in ledger
ExecutionState(c) ==
    CASE Completed(c) /\ Intent(c) \in ledger -> "completed"
      [] Completed(c)                         -> "n/a"
      [] Intent(c) \in ledger                 -> "unknown"
      [] OTHER                                -> "not listed"

-----------------------------------------------------------------------------
(* Properties.                                                             *)

Labels == {"none", "queued", "policy", "content", "intent", "intent sent", "execute",
           "record", "record sent", "respond", "over"}

\* The variables keep their types, and a call that is between two of its
\* suspensions holds the event loop.
TypeOK ==
    /\ kind \in Mixes
    /\ pc \in [Call -> Labels]
    /\ outcome \in [Call -> Outcome]
    /\ results \subseteq Call
    /\ loop \in Call \cup {NoCall}
    /\ \A c \in Call : pc[c] \notin {"none", "queued", "execute", "over"} => loop = c
    /\ told \in [Call -> Outcome \cup ClientFault \cup {"none"}]
    /\ held \subseteq Call
    /\ ledger \subseteq Record
    /\ inflight \subseteq Record
    /\ rows \subseteq Call
    /\ executed \subseteq Call
    /\ crashes \in 0 .. MaxCrashes

\* D16: the mediated tool never runs unaccounted for.  Whatever fails, times
\* out or dies between the intent, the execution and the decision record,
\* the audit lists an executed call as completed or as unknown.
ExecutionIsVisible ==
    \A c \in executed : ExecutionState(c) \in {"completed", "unknown"}

\* A decision record that approves a mediated call tells the truth: its
\* intent is in the ledger and the tool did run.
ApprovalIsTrue ==
    \A c \in Call :
        kind[c] = "vault" /\ Completion(c, "policy_allow") \in ledger =>
            Intent(c) \in ledger /\ c \in executed

\* "There is no code path in which an infrastructure failure results in a
\* silent approval": an outcome the agent is told, other than a fault that
\* says the record could not be written, is the outcome on record, and a
\* result that the agent holds was approved on record.
AnswerIsRecorded ==
    /\ \A c \in Call :
          told[c] \in Outcome \ {"verifier_unreachable", "content_store_unreachable"} =>
              Completion(c, told[c]) \in ledger
    /\ \A c \in held : told[c] = "policy_allow" /\ Completion(c, "policy_allow") \in ledger

\* No record refers to arguments that were never stored: the row of a call
\* whose arguments can be stored is there before any of its records.
RecordedContentStored ==
    \A r \in ledger : kind[r.call] # "malformed" => r.call \in rows

\* The tool has no timeout, and a tool that never returns delays no other
\* call: a request the service received is served, up to its own tool.
HungToolDelaysNobody ==
    \A c \in Call : pc[c] = "queued" ~> pc[c] \in {"execute", "over"}
=============================================================================
