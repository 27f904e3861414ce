-------------------------------- MODULE Human --------------------------------
(***************************************************************************)
(* How a question reaches the human and the answer gets back: the human    *)
(* nodes of the topologies ("node") and the resume loop run_with_human     *)
(* ("loop"), the gateways with their caches, request_with_timeout and its  *)
(* policies, and the log of requests and responses that the callback       *)
(* handler keeps in human_interactions.                                    *)
(*                                                                         *)
(* The requests of a run are numbered. An answer is known by who gave it   *)
(* and by the number of the question it was given to.                      *)
(***************************************************************************)
EXTENDS Naturals, Sequences, FiniteSets

CONSTANTS
  Role,              \* HumanRole
  ConfiguredRole,    \* human_cfg.role
  MaxInteractions,   \* run_with_human(max_interactions=...)
  MaxId,             \* bound: request ids of a run
  MaxRequests,       \* bound: requests, those of resumed executions included
  MaxExecutions      \* bound: executions of the run

ASSUME HumanAssumption ==
  /\ ConfiguredRole \in Role /\ "none" \notin Role
  /\ {MaxInteractions, MaxId, MaxRequests, MaxExecutions} \subseteq Nat

VARIABLES
  setup,       \* who asks, the gateway, the timeout policy ("none": no timeout), the router,
               \* and whether run_with_human is given a fallback_gateway
  execution,   \* how often the run was started
  pc,          \* where the asking code is
  asks,        \* the id of each request, by number
  answer,      \* the answer it has got
  cache,       \* the gateway's _cache
  resolved,    \* run_with_human's _resolved
  interactions,\* run_with_human's count
  readers,     \* threads blocked in input(), by the number of their request
  eaten,       \* lines read by a thread whose request had timed out
  timedOut,    \* requests that timed out in this execution
  event,       \* the custom event whose handler has not finished
  log,         \* human_interactions
  used,        \* observer: ids and answers the execution went on with
  first,       \* observer: the first request of each id, and the first answer
  lost         \* observer: ids with an event the database refused or a crash took

asking == <<pc, asks, answer>>
gateway == <<cache, resolved, interactions, readers, eaten, timedOut>>
records == <<event, log>>
observers == <<used, first, lost>>
vars == <<setup, execution, asking, gateway, records, observers>>

Id == 1 .. MaxId
Source == {"human", "llm_sim", "fallback", "timeout"}
Response == [source : Source, number : Nat]
NoResponse == [source |-> "none"]
MaybeResponse == Response \cup {NoResponse}
NoRow == [role |-> "none", answer |-> NoResponse]
\* A response whose row is missing is inserted with the role "Reviewer", which is none.
Row == [role : Role \cup {"Reviewer"}, answer : MaybeResponse] \cup {NoRow}
NoEvent == [kind |-> "none"]
Event ==
  {NoEvent} \cup [kind : {"human_request"}, id : Id, role : Role]
  \cup [kind : {"human_response"}, id : Id, answer : Response]

\* Only run_with_human, and only under llm_fallback, can lack its fallback gateway.
Setups ==
  {s \in [caller : {"node", "loop"}, gateway : {"cli", "llm"},
          policy : {"none", "fail", "llm_fallback", "skip"}, router : {"fixed", "decides"},
          backup : BOOLEAN] :
     s.backup \/ (s.caller = "loop" /\ s.policy = "llm_fallback")}

TypeOK ==
  /\ setup \in Setups
  /\ execution \in Nat /\ interactions \in Nat /\ eaten \in Nat
  /\ pc \in {"idle", "requesting", "asking", "fallback", "answered", "failed"}
  /\ asks \in Seq(Id)
  /\ answer \in MaybeResponse
  /\ cache \in [Id -> MaybeResponse] /\ resolved \in [Id -> MaybeResponse]
  /\ readers \subseteq Nat /\ timedOut \subseteq Nat
  /\ event \in Event
  /\ log \in [Id -> Row] /\ first \in [Id -> Row]
  /\ used \subseteq [id : Id, answer : Response] /\ lost \subseteq Id

Nothing == [i \in Id |-> NoResponse]

Init ==
  /\ setup \in Setups
  /\ execution = 1 /\ pc = "idle" /\ asks = << >> /\ answer = NoResponse
  /\ cache = Nothing /\ resolved = Nothing /\ interactions = 0
  /\ readers = {} /\ eaten = 0 /\ timedOut = {}
  /\ event = NoEvent /\ log = [i \in Id |-> NoRow]
  /\ used = {} /\ first = [i \in Id |-> NoRow] /\ lost = {}

Number == Len(asks)
Current == asks[Number]

-----------------------------------------------------------------------------
(* The log: ExperimentCallbackHandler.                                     *)

\* LangChain awaits the handlers of an event before its sender goes on.
Dispatched == event = NoEvent

\* INSERT ... ON CONFLICT DO NOTHING.
Inserted(id, row) == IF log[id] = NoRow THEN [log EXCEPT ![id] = row] ELSE log

HandleRequest ==
  /\ event.kind = "human_request"
  /\ log' = Inserted(event.id, [role |-> event.role, answer |-> NoResponse])
  /\ event' = NoEvent
  /\ UNCHANGED <<setup, execution, asking, gateway, observers>>

\* Faulty: a row that is there is left to the handler of the request.
FilledNothing(row, response) == row

\* Faulty: a later response replaces the first.
FilledAgain(row, response) == [row EXCEPT !.answer = response]

\* The row is locked by the SELECT and filled if it has no response yet.
Filled(row, response) ==
  IF row.answer = NoResponse THEN [row EXCEPT !.answer = response] ELSE row

HandleResponse ==
  /\ event.kind = "human_response"
  /\ log' = IF log[event.id] = NoRow
            THEN Inserted(event.id, [role |-> "Reviewer", answer |-> event.answer])
            ELSE [log EXCEPT ![event.id] = Filled(@, event.answer)]
  /\ event' = NoEvent
  /\ UNCHANGED <<setup, execution, asking, gateway, observers>>

\* An error of the database is logged and swallowed.
HandlerFails ==
  /\ event # NoEvent
  /\ event' = NoEvent
  /\ lost' = lost \cup {event.id}
  /\ UNCHANGED <<setup, execution, asking, gateway, log, used, first>>

-----------------------------------------------------------------------------
(* Asking.                                                                 *)

\* RuleBasedRoleRouter goes by the phase, LLMRoleRouter by the model or, after any error,
\* by the phase.
RolesPlayed == IF setup.router = "fixed" THEN {ConfiguredRole} ELSE Role

\* The next iteration has the next id; the advisor of the meta-graph asks again with the
\* last one when its sub-topology failed, and a graph of run_with_human with any.
NextIds ==
  IF setup.caller = "loop" THEN Id
  ELSE IF used = {} THEN {1}
  ELSE {i \in Id : i \in {Current, Current + 1}}

\* A request of a node, or the interrupt of a graph that has no resolved answer.
Ask(id) ==
  /\ pc = "idle" /\ Number < MaxRequests /\ id \in NextIds
  /\ setup.caller = "loop" => resolved[id] = NoResponse /\ interactions < MaxInteractions
  /\ pc' = "requesting"
  /\ asks' = Append(asks, id)
  /\ \E role \in RolesPlayed :
       /\ event' = [kind |-> "human_request", id |-> id, role |-> role]
       /\ first' = IF first[id] = NoRow
                   THEN [first EXCEPT ![id] = [role |-> role, answer |-> NoResponse]] ELSE first
  /\ UNCHANGED <<setup, execution, answer, gateway, log, used, lost>>

\* An interrupt whose id was resolved before is answered without the gateway.
ResolveAgain(id) ==
  /\ pc = "idle" /\ setup.caller = "loop"
  /\ resolved[id] # NoResponse /\ interactions < MaxInteractions
  /\ used' = used \cup {[id |-> id, answer |-> resolved[id]]}
  /\ interactions' = interactions + 1
  /\ UNCHANGED <<setup, execution, asking, cache, resolved, readers, eaten, timedOut, records,
                 first, lost>>

\* MaxInteractionsExceededError.
TooMany ==
  /\ pc = "idle" /\ setup.caller = "loop" /\ interactions >= MaxInteractions
  /\ pc' = "failed"
  /\ UNCHANGED <<setup, execution, asks, answer, gateway, records, observers>>

\* request_with_timeout refuses the policy without the gateway before it asks anyone. (A
\* human node always has one to show, even if no model is behind it.)
RefusesToAsk ==
  /\ pc = "requesting" /\ Dispatched /\ ~setup.backup
  /\ pc' = "failed"
  /\ UNCHANGED <<setup, execution, asks, answer, gateway, records, observers>>

\* Faulty: the answers of a run share a key.
CacheKeyOfRun(id) == 1

CacheKey(id) == id

Respond(response) ==
  /\ answer' = response
  /\ pc' = "answered"
  /\ event' = [kind |-> "human_response", id |-> Current, answer |-> response]

\* The gateway's request: a cached answer, or a new thread at the terminal, or a call.
CallGateway ==
  /\ pc = "requesting" /\ Dispatched /\ setup.backup
  /\ LET known == cache[CacheKey(Current)]
     IN IF known # NoResponse
        THEN Respond(known) /\ UNCHANGED readers
        ELSE /\ pc' = "asking"
             /\ readers' = IF setup.gateway = "cli" THEN readers \cup {Number} ELSE readers
             /\ UNCHANGED <<answer, event>>
  /\ UNCHANGED <<setup, execution, asks, cache, resolved, interactions, eaten, timedOut, log,
                 observers>>

\* Faulty: the gateway forgets what it was told.
RememberedNot(response) == cache

\* The first answer to an id stays in the cache.
Remembered(response) ==
  IF cache[CacheKey(Current)] = NoResponse
  THEN [cache EXCEPT ![CacheKey(Current)] = response] ELSE cache

\* Faulty: the thread of a request that timed out reads on.
ReadersReadOn(reader) == IF reader = Number THEN readers \ {reader} ELSE readers

\* input() returns one line and its thread ends.
ReadersAfter(reader) == readers \ {reader}

\* A line typed at the terminal goes to one of the threads that wait for one. The thread
\* of a timed-out request was not cancelled with it; what it reads is dropped.
HumanTypes(reader) ==
  /\ reader \in readers
  /\ readers' = ReadersAfter(reader)
  /\ LET response == [source |-> "human", number |-> Number]
     IN IF pc = "asking" /\ reader = Number
        THEN Respond(response) /\ cache' = Remembered(response) /\ UNCHANGED eaten
        ELSE eaten' = eaten + 1 /\ UNCHANGED <<answer, pc, event, cache>>
  /\ UNCHANGED <<setup, execution, asks, resolved, interactions, timedOut, log, observers>>

ModelAnswers ==
  /\ pc = "asking" /\ setup.gateway = "llm"
  /\ LET response == [source |-> "llm_sim", number |-> Number]
     IN Respond(response) /\ cache' = Remembered(response)
  /\ UNCHANGED <<setup, execution, asks, resolved, interactions, readers, eaten, timedOut, log,
                 observers>>

\* The model fails, or its second answer is no JSON object either.
ModelFails ==
  /\ pc = "asking" /\ setup.gateway = "llm"
  /\ pc' = "failed"
  /\ UNCHANGED <<setup, execution, asks, answer, gateway, records, observers>>

TimeoutResponse == [source |-> "timeout", number |-> Number]

\* Faulty: no answer is waited for again.
OnTimeoutWait ==
  CASE setup.policy = "fail" -> pc' = "failed" /\ UNCHANGED <<answer, event>>
    [] setup.policy = "skip" -> UNCHANGED <<pc, answer, event>>
    [] OTHER -> pc' = "fallback" /\ UNCHANGED <<answer, event>>

\* _handle_timeout, by policy.
OnTimeout ==
  CASE setup.policy = "fail" -> pc' = "failed" /\ UNCHANGED <<answer, event>>
    [] setup.policy = "skip" -> Respond(TimeoutResponse)
    [] OTHER -> pc' = "fallback" /\ UNCHANGED <<answer, event>>

\* wait_for gives up; a thread that waits at the terminal stays.
TimesOut ==
  /\ pc = "asking" /\ setup.policy # "none"
  /\ timedOut' = timedOut \cup {Number}
  /\ OnTimeout
  /\ UNCHANGED <<setup, execution, asks, cache, resolved, interactions, readers, eaten, log,
                 observers>>

\* A human node builds the fallback from the gateway's model; the terminal has none.
HasFallback == setup.caller = "loop" \/ setup.gateway = "llm"

FallbackAnswers ==
  /\ pc = "fallback" /\ HasFallback
  /\ Respond([source |-> "fallback", number |-> Number])
  /\ UNCHANGED <<setup, execution, asks, gateway, log, observers>>

\* There is no model, or it fails, or a minute has passed.
FallbackFails ==
  /\ pc = "fallback"
  /\ pc' = "failed"
  /\ UNCHANGED <<setup, execution, asks, answer, gateway, records, observers>>

\* The run goes on with the answer.
Apply ==
  /\ pc = "answered" /\ Dispatched
  /\ used' = used \cup {[id |-> Current, answer |-> answer]}
  /\ first' = IF first[Current].answer = NoResponse
              THEN [first EXCEPT ![Current].answer = answer] ELSE first
  /\ IF setup.caller = "loop"
     THEN resolved' = [resolved EXCEPT ![Current] = answer] /\ interactions' = interactions + 1
     ELSE UNCHANGED <<resolved, interactions>>
  /\ answer' = NoResponse /\ pc' = "idle"
  /\ UNCHANGED <<setup, execution, asks, cache, readers, eaten, timedOut, records, lost>>

\* The process dies, or its run has failed, and the run is resumed in another one: the ids
\* start again, the log is kept.
Resume ==
  /\ execution < MaxExecutions
  /\ execution' = execution + 1
  /\ pc' = "idle" /\ answer' = NoResponse
  /\ cache' = Nothing /\ resolved' = Nothing /\ interactions' = 0
  /\ readers' = {} /\ eaten' = 0 /\ timedOut' = {}
  /\ lost' = lost \cup (IF pc = "answered" \/ event # NoEvent THEN {Current} ELSE {})
  /\ event' = NoEvent /\ used' = {}
  /\ UNCHANGED <<setup, asks, log, first>>

-----------------------------------------------------------------------------
Handle == HandleRequest \/ HandleResponse \/ HandlerFails

\* A gateway that does not wait for a human answers or fails.
Answers == ModelAnswers \/ ModelFails \/ FallbackAnswers \/ FallbackFails

Next ==
  \/ \E id \in Id : Ask(id) \/ ResolveAgain(id)
  \/ TooMany
  \/ RefusesToAsk
  \/ CallGateway
  \/ \E reader \in readers : HumanTypes(reader)
  \/ Answers
  \/ TimesOut
  \/ Apply
  \/ Handle
  \/ Resume

Spec == Init /\ [][Next]_vars

\* Handlers finish, models answer or fail, timers fire, the code runs on. Nobody has to type.
FairSpec ==
  /\ Spec
  /\ WF_vars(Handle) /\ WF_vars(RefusesToAsk \/ CallGateway) /\ WF_vars(Apply)
  /\ WF_vars(Answers) /\ WF_vars(TimesOut)

-----------------------------------------------------------------------------
(* Properties.                                                             *)

\* An answer, taken from the human, a cache or the log, was given to a question of its id.
NoCrossTalk ==
  /\ \A u \in used : asks[u.answer.number] = u.id
  /\ \A i \in Id : log[i].answer # NoResponse => asks[log[i].answer.number] = i

\* An execution that asks twice with one id gets one answer, unless the timeout policy gave
\* one of the two; run_with_human gets one answer in any case.
OneAnswerPerId ==
  \A u, v \in used : u.id = v.id /\ u.answer # v.answer =>
    setup.caller = "node" /\ {u.answer.source, v.answer.source} \cap {"timeout", "fallback"} # {}

\* The terminal swallows no more lines than requests have timed out.
EatenBound == eaten + Cardinality(readers \ {Number}) <= Cardinality(timedOut)

\* Unless the database refused an event or the process died with one, the log has the role
\* of the first request of an id and the first answer the run went on with.
LogIsFirst == pc = "idle" => \A i \in Id \ lost : log[i] = first[i]

\* A response in the log is never replaced, not by a resumed execution that asks again.
LoggedForGood == [][\A i \in Id : log[i].answer # NoResponse => log'[i] = log[i]]_vars

\* A request with a timeout, or to a model, is answered or ends the run.
RequestSettles ==
  (pc \notin {"idle", "failed"} /\ (setup.policy # "none" \/ setup.gateway = "llm"))
    ~> (pc \in {"idle", "failed"})
=============================================================================
