----------------------------- MODULE HumanProofs -----------------------------
(***************************************************************************)
(* Theorems about Human, for any roles, ids, requests and executions: whose*)
(* answer a run goes on with, and what the log says about it.              *)
(***************************************************************************)
EXTENDS Human, FiniteSetTheorems, TLAPS

-----------------------------------------------------------------------------
(* The types. Whoever waits for an answer has asked.                       *)

Waiting == {"requesting", "asking", "fallback", "answered"}

Types ==
  /\ TypeOK
  /\ pc \in Waiting \/ event # NoEvent => asks # << >>
  /\ pc = "answered" => answer \in Response
  /\ pc \in Waiting => first[Current] # NoRow

LEMMA CurrentType ==
  ASSUME Types, asks # << >>
  PROVE  Current \in Id /\ Number \in Nat /\ Number \in DOMAIN asks
BY DEF Types, TypeOK, Current, Number

LEMMA FilledType ==
  ASSUME NEW row \in Row \ {NoRow}, NEW response \in Response
  PROVE  Filled(row, response) \in Row \ {NoRow}
BY DEF Filled, Row, NoRow, MaybeResponse

LEMMA InsertedType ==
  ASSUME log \in [Id -> Row], NEW id \in Id, NEW row \in Row
  PROVE  Inserted(id, row) \in [Id -> Row]
BY DEF Inserted

LEMMA RespondTypes ==
  ASSUME Types, asks # << >>, NEW response \in Response, Respond(response)
  PROVE  /\ answer' \in Response
         /\ event' \in Event
         /\ pc' = "answered"
<1>1. Current \in Id
  BY CurrentType
<1>. QED  BY <1>1 DEF Respond, Event

LEMMA RememberedTypes ==
  ASSUME Types, asks # << >>, NEW response \in Response
  PROVE  Remembered(response) \in [Id -> MaybeResponse]
BY DEF Remembered, CacheKey, Types, TypeOK, MaybeResponse

LEMMA TypesInit == Init => Types
BY DEF Init, Types, TypeOK, Waiting, Nothing, MaybeResponse, Event, Row, Setups

LEMMA TypesNext == Types /\ [Next]_vars => Types'
<1>. SUFFICES ASSUME Types, [Next]_vars  PROVE Types'
  OBVIOUS
<1>0. TypeOK /\ (asks # << >> => Current \in Id /\ Number \in Nat)
  BY CurrentType DEF Types
<1>00. ASSUME UNCHANGED <<asks, first>>, pc \in Waiting
       PROVE  first'[Current'] # NoRow
  BY <1>00 DEF Types, Current, Number
<1>1. ASSUME NEW id \in Id, Ask(id)  PROVE Types'
  <2>1. PICK role \in RolesPlayed :
          /\ event' = [kind |-> "human_request", id |-> id, role |-> role]
          /\ first' = IF first[id] = NoRow
                      THEN [first EXCEPT ![id] = [role |-> role, answer |-> NoResponse]]
                      ELSE first
    BY <1>1 DEF Ask
  <2>2. role \in Role
    BY HumanAssumption DEF RolesPlayed
  <2>3. event' \in Event
    BY <2>1, <2>2 DEF Event
  <2>4. first' \in [Id -> Row]
    <3>1. [role |-> role, answer |-> NoResponse] \in Row
      BY <2>2 DEF Row, MaybeResponse
    <3>. QED  BY <2>1, <3>1, <1>0 DEF TypeOK
  <2>5. asks' \in Seq(Id) /\ asks' # << >> /\ pc' = "requesting" /\ Current' = id
    BY <1>1, <1>0 DEF Ask, TypeOK, Current, Number
  <2>6. first'[id] # NoRow
    BY <1>0, <2>1, <2>2, HumanAssumption DEF TypeOK, NoRow
  <2>. QED  BY <1>0, <1>1, <2>3, <2>4, <2>5, <2>6 DEF Ask, Types, TypeOK, gateway
<1>2. ASSUME NEW id \in Id, ResolveAgain(id)  PROVE Types'
  <2>1. resolved[id] \in Response
    BY <1>0, <1>2 DEF ResolveAgain, TypeOK, MaybeResponse
  <2>. QED  BY <1>0, <1>00, <1>2, <2>1 DEF ResolveAgain, Types, Waiting, TypeOK, asking, records
<1>3. CASE TooMany
  BY <1>0, <1>00, <1>3 DEF TooMany, Types, TypeOK, Waiting, gateway, records, observers
<1>4. CASE CallGateway
  <2>1. asks # << >>
    BY <1>4 DEF CallGateway, Types, Waiting
  <2>2. Current \in Id /\ Number \in Nat
    BY <1>0, <2>1
  <2>3. CASE cache[Current] # NoResponse
    <3>1. cache[Current] \in Response
      BY <1>0, <2>2, <2>3 DEF TypeOK, MaybeResponse
    <3>2. Respond(cache[Current]) /\ UNCHANGED readers
      BY <1>4, <2>3 DEF CallGateway, CacheKey
    <3>3. answer' \in Response /\ event' \in Event /\ pc' = "answered"
      BY <2>1, <3>1, <3>2, RespondTypes
    <3>. QED  BY <1>0, <1>00, <1>4, <2>1, <3>2, <3>3 DEF CallGateway, Types, Waiting, TypeOK, MaybeResponse, observers
  <2>4. CASE cache[Current] = NoResponse
    <3>1. pc' = "asking" /\ readers' \subseteq Nat /\ UNCHANGED <<answer, event>>
      BY <1>0, <1>4, <2>2, <2>4 DEF CallGateway, CacheKey, TypeOK
    <3>. QED  BY <1>0, <1>00, <1>4, <2>1, <3>1 DEF CallGateway, Types, Waiting, TypeOK, observers
  <2>. QED  BY <2>3, <2>4
<1>5. ASSUME NEW reader \in readers, HumanTypes(reader)  PROVE Types'
  <2>1. readers' \subseteq Nat
    BY <1>0, <1>5 DEF HumanTypes, ReadersAfter, TypeOK
  <2>2. CASE pc = "asking" /\ reader = Number
    <3>1. asks # << >>
      BY <2>2 DEF Types, Waiting
    <3>2. [source |-> "human", number |-> Number] \in Response
      BY <1>0, <3>1 DEF Response, Source
    <3>3. /\ Respond([source |-> "human", number |-> Number])
          /\ cache' = Remembered([source |-> "human", number |-> Number])
          /\ UNCHANGED eaten
      BY <1>5, <2>2 DEF HumanTypes
    <3>4. answer' \in Response /\ event' \in Event /\ pc' = "answered"
      BY <3>1, <3>2, <3>3, RespondTypes
    <3>5. cache' \in [Id -> MaybeResponse]
      BY <3>1, <3>2, <3>3, RememberedTypes
    <3>. QED  BY <1>0, <1>00, <1>5, <2>1, <3>1, <3>3, <3>4, <3>5
                DEF HumanTypes, Types, Waiting, TypeOK, MaybeResponse, observers
  <2>3. CASE ~(pc = "asking" /\ reader = Number)
    <3>1. eaten' = eaten + 1 /\ UNCHANGED <<answer, pc, event, cache>>
      BY <1>5, <2>3 DEF HumanTypes
    <3>. QED  BY <1>0, <1>00, <1>5, <2>1, <3>1 DEF HumanTypes, Types, Waiting, TypeOK, observers
  <2>. QED  BY <2>2, <2>3
<1>6. CASE ModelAnswers
  <2>1. asks # << >>
    BY <1>6 DEF ModelAnswers, Types, Waiting
  <2>2. [source |-> "llm_sim", number |-> Number] \in Response
    BY <1>0, <2>1 DEF Response, Source
  <2>3. /\ Respond([source |-> "llm_sim", number |-> Number])
        /\ cache' = Remembered([source |-> "llm_sim", number |-> Number])
    BY <1>6 DEF ModelAnswers
  <2>4. answer' \in Response /\ event' \in Event /\ pc' = "answered"
    BY <2>1, <2>2, <2>3, RespondTypes
  <2>5. cache' \in [Id -> MaybeResponse]
    BY <2>1, <2>2, <2>3, RememberedTypes
  <2>. QED  BY <1>0, <1>00, <1>6, <2>1, <2>4, <2>5 DEF ModelAnswers, Types, Waiting, TypeOK, MaybeResponse, observers
<1>7. CASE ModelFails
  BY <1>0, <1>00, <1>7 DEF ModelFails, Types, TypeOK, Waiting, gateway, records, observers
<1>8. CASE FallbackAnswers
  <2>1. asks # << >>
    BY <1>8 DEF FallbackAnswers, Types, Waiting
  <2>2. [source |-> "fallback", number |-> Number] \in Response
    BY <1>0, <2>1 DEF Response, Source
  <2>3. Respond([source |-> "fallback", number |-> Number])
    BY <1>8 DEF FallbackAnswers
  <2>4. answer' \in Response /\ event' \in Event /\ pc' = "answered"
    BY <2>1, <2>2, <2>3, RespondTypes
  <2>. QED  BY <1>0, <1>00, <1>8, <2>1, <2>4 DEF FallbackAnswers, Types, Waiting, TypeOK, MaybeResponse, gateway, observers
<1>9. CASE FallbackFails \/ RefusesToAsk
  BY <1>0, <1>00, <1>9 DEF FallbackFails, RefusesToAsk, Types, TypeOK, Waiting, gateway, records, observers
<1>10. CASE TimesOut
  <2>1. asks # << >> /\ timedOut' \subseteq Nat
    BY <1>0, <1>00, <1>10 DEF TimesOut, Types, Waiting, TypeOK
  <2>2. /\ pc' \in {"failed", "fallback", "answered"} /\ event' \in Event
        /\ answer' \in MaybeResponse /\ (pc' = "answered" => answer' \in Response)
    <3>1. CASE setup.policy = "skip"
      <4>1. TimeoutResponse \in Response
        BY <1>0, <2>1 DEF TimeoutResponse, Response, Source
      <4>2. Respond(TimeoutResponse)
        BY <1>10, <3>1 DEF TimesOut, OnTimeout
      <4>. QED  BY <2>1, <4>1, <4>2, RespondTypes DEF MaybeResponse
    <3>2. CASE setup.policy # "skip"
      BY <1>0, <1>10, <3>2 DEF TimesOut, OnTimeout, TypeOK
    <3>. QED  BY <3>1, <3>2
  <2>. QED  BY <1>0, <1>00, <1>10, <2>1, <2>2 DEF TimesOut, Types, Waiting, TypeOK, observers
<1>11. CASE Apply
  <2>1. asks # << >> /\ answer \in Response
    BY <1>11 DEF Apply, Types, Waiting
  <2>2. Current \in Id
    BY <1>0, <2>1
  <2>3. used' \subseteq [id : Id, answer : Response]
    BY <1>0, <1>11, <2>1, <2>2 DEF Apply, TypeOK
  <2>4. resolved' \in [Id -> MaybeResponse] /\ interactions' \in Nat
    BY <1>0, <1>11, <2>1, <2>2 DEF Apply, TypeOK, MaybeResponse
  <2>5. first' \in [Id -> Row]
    <3>1. first[Current] \in Row
      BY <1>0, <2>2 DEF TypeOK
    <3>2. first[Current] # NoRow
      BY <1>11 DEF Apply, Types, Waiting
    <3>3. [first[Current] EXCEPT !.answer = answer] \in Row
      BY <2>1, <3>1, <3>2 DEF Row, MaybeResponse
    <3>. QED  BY <1>0, <1>11, <3>3 DEF Apply, TypeOK
  <2>. QED  BY <1>0, <1>00, <1>11, <2>1, <2>3, <2>4, <2>5
              DEF Apply, Types, TypeOK, Waiting, MaybeResponse, records
<1>12. CASE HandleRequest
  <2>1. [role |-> event.role, answer |-> NoResponse] \in Row /\ event.id \in Id
    BY <1>0, <1>12 DEF HandleRequest, TypeOK, Event, NoEvent, Row, MaybeResponse
  <2>2. log' \in [Id -> Row]
    BY <1>0, <1>12, <2>1, InsertedType DEF HandleRequest, TypeOK
  <2>. QED  BY <1>0, <1>00, <1>12, <2>2 DEF HandleRequest, Types, Waiting, TypeOK, Event, asking, gateway, observers
<1>13. CASE HandleResponse
  <2>1. event.answer \in Response /\ event.id \in Id
    BY <1>0, <1>13 DEF HandleResponse, TypeOK, Event, NoEvent
  <2>2. [role |-> "Reviewer", answer |-> event.answer] \in Row
    BY <2>1 DEF Row, MaybeResponse
  <2>3. log' \in [Id -> Row]
    BY <1>0, <1>13, <2>1, <2>2, InsertedType, FilledType DEF HandleResponse, TypeOK
  <2>. QED  BY <1>0, <1>00, <1>13, <2>3 DEF HandleResponse, Types, Waiting, TypeOK, Event, asking, gateway, observers
<1>14. CASE HandlerFails
  <2>1. event.id \in Id
    BY <1>0, <1>14 DEF HandlerFails, TypeOK, Event
  <2>. QED  BY <1>0, <1>00, <1>14, <2>1 DEF HandlerFails, Types, Waiting, TypeOK, Event, asking, gateway
<1>15. CASE Resume
  <2>1. lost' \subseteq Id
    <3>1. pc = "answered" \/ event # NoEvent => asks # << >>
      BY DEF Types, Waiting
    <3>. QED  BY <1>0, <1>15, <3>1 DEF Resume, TypeOK
  <2>. QED  BY <1>0, <1>00, <1>15, <2>1 DEF Resume, Types, TypeOK, Waiting, Nothing, MaybeResponse, Event
<1>16. CASE UNCHANGED vars
  BY <1>0, <1>00, <1>16 DEF vars, asking, gateway, records, observers, Types, TypeOK
<1>. QED  BY <1>1, <1>2, <1>3, <1>4, <1>5, <1>6, <1>7, <1>8, <1>9, <1>10, <1>11, <1>12, <1>13,
             <1>14, <1>15, <1>16 DEF Next, Handle, Answers

\* Every reachable state is well-typed, whatever times out, fails or is resumed.
THEOREM HumanTypeCorrect == Spec => []TypeOK
<1>1. Types => TypeOK
  BY DEF Types
<1>. QED  BY <1>1, TypesInit, TypesNext, PTL DEF Spec

-----------------------------------------------------------------------------
(* Whose answer it is: a response keeps the id of its question wherever it *)
(* is stored.                                                              *)

Own(s, response, id) ==
  response # NoResponse => response.number \in DOMAIN s /\ s[response.number] = id

Belongs ==
  /\ pc = "answered" => Own(asks, answer, Current)
  /\ \A i \in Id :
       Own(asks, cache[i], i) /\ Own(asks, resolved[i], i) /\ Own(asks, log[i].answer, i)
  /\ \A u \in used : Own(asks, u.answer, u.id)
  /\ event.kind = "human_response" => Own(asks, event.answer, event.id)

LEMMA OwnLater ==
  ASSUME NEW s \in Seq(Id), NEW id, NEW response \in MaybeResponse, NEW i, Own(s, response, i)
  PROVE  Own(Append(s, id), response, i)
BY DEF Own, MaybeResponse, Response, NoResponse

LEMMA OwnNew ==
  ASSUME Types, asks # << >>, NEW source
  PROVE  Own(asks, [source |-> source, number |-> Number], Current)
BY CurrentType DEF Own, Current, Number

LEMMA BelongsInit == Init => Belongs
BY DEF Init, Belongs, Own, Nothing, NoRow, NoEvent

LEMMA RespondBelongs ==
  ASSUME Types, Belongs, asks # << >>, UNCHANGED <<asks, resolved, log, used>>,
         NEW response \in Response, Own(asks, response, Current), Respond(response),
         cache' \in {cache, Remembered(response)}
  PROVE  Belongs'
<1>1. pc' = "answered" /\ answer' = response /\ event'.answer = response /\ event'.id = Current
  BY DEF Respond
<1>2. \A i \in Id : Own(asks, cache'[i], i)
  <2>1. CASE cache' = cache
    BY <2>1 DEF Belongs
  <2>2. CASE cache' = Remembered(response)
    BY <2>2 DEF Remembered, CacheKey, Belongs, Types, TypeOK
  <2>. QED  BY <2>1, <2>2
<1>. QED  BY <1>1, <1>2 DEF Belongs, Current, Number

LEMMA BelongsNext == Types /\ Belongs /\ [Next]_vars => Belongs'
<1>. SUFFICES ASSUME Types, Belongs, [Next]_vars  PROVE Belongs'
  OBVIOUS
<1>0. TypeOK /\ (asks # << >> => Current \in Id /\ Number \in Nat)
  BY CurrentType DEF Types
<1>1. ASSUME NEW id \in Id, Ask(id)  PROVE Belongs'
  <2>1. /\ asks' = Append(asks, id) /\ pc' = "requesting" /\ event'.kind = "human_request"
        /\ UNCHANGED <<cache, resolved, log, used>>
    BY <1>1 DEF Ask, gateway
  <2>2. \A i \in Id : cache[i] \in MaybeResponse /\ resolved[i] \in MaybeResponse
                      /\ log[i].answer \in MaybeResponse
    BY <1>0 DEF TypeOK, Row, NoRow, MaybeResponse
  <2>3. \A i \in Id : Own(asks', cache[i], i) /\ Own(asks', resolved[i], i)
                      /\ Own(asks', log[i].answer, i)
    BY <1>0, <2>1, <2>2, OwnLater DEF Belongs, TypeOK
  <2>4. \A u \in used : Own(asks', u.answer, u.id)
    BY <1>0, <2>1, OwnLater DEF Belongs, TypeOK, MaybeResponse
  <2>. QED  BY <2>1, <2>3, <2>4 DEF Belongs
<1>2. ASSUME NEW id \in Id, ResolveAgain(id)  PROVE Belongs'
  BY <1>2 DEF ResolveAgain, Belongs, asking, records, Current, Number
<1>3. CASE TooMany \/ RefusesToAsk \/ ModelFails \/ FallbackFails
  BY <1>3 DEF TooMany, RefusesToAsk, ModelFails, FallbackFails, Belongs, gateway, records, observers
<1>4. CASE CallGateway
  <2>1. asks # << >>
    BY <1>4 DEF CallGateway, Types, Waiting
  <2>2. CASE cache[Current] # NoResponse
    <3>1. cache[Current] \in Response /\ Own(asks, cache[Current], Current)
      BY <1>0, <2>1, <2>2 DEF TypeOK, MaybeResponse, Belongs
    <3>2. Respond(cache[Current])
      BY <1>4, <2>2 DEF CallGateway, CacheKey
    <3>. QED  BY <1>4, <2>1, <3>1, <3>2, RespondBelongs DEF CallGateway, observers
  <2>3. CASE cache[Current] = NoResponse
    BY <1>4, <2>3 DEF CallGateway, CacheKey, Belongs, observers
  <2>. QED  BY <2>2, <2>3
<1>5. ASSUME NEW reader \in readers, HumanTypes(reader)  PROVE Belongs'
  <2>1. CASE pc = "asking" /\ reader = Number
    <3> DEFINE response == [source |-> "human", number |-> Number]
    <3>1. asks # << >>
      BY <2>1 DEF Types, Waiting
    <3>2. response \in Response /\ Own(asks, response, Current)
      BY <1>0, <3>1, OwnNew DEF Response, Source
    <3>3. Respond(response) /\ cache' = Remembered(response)
      BY <1>5, <2>1 DEF HumanTypes
    <3>4. UNCHANGED <<asks, resolved, log, used>>
      BY <1>5 DEF HumanTypes, observers
    <3>. HIDE DEF response
    <3>. QED  BY <3>1, <3>2, <3>3, <3>4, RespondBelongs
  <2>2. CASE ~(pc = "asking" /\ reader = Number)
    BY <1>5, <2>2 DEF HumanTypes, Belongs, observers, Current, Number
  <2>. QED  BY <2>1, <2>2
<1>6. CASE ModelAnswers
  <2> DEFINE response == [source |-> "llm_sim", number |-> Number]
  <2>1. asks # << >>
    BY <1>6 DEF ModelAnswers, Types, Waiting
  <2>2. response \in Response /\ Own(asks, response, Current)
    BY <1>0, <2>1, OwnNew DEF Response, Source
  <2>3. Respond(response) /\ cache' = Remembered(response)
    BY <1>6 DEF ModelAnswers
  <2>4. UNCHANGED <<asks, resolved, log, used>>
    BY <1>6 DEF ModelAnswers, observers
  <2>. HIDE DEF response
  <2>. QED  BY <2>1, <2>2, <2>3, <2>4, RespondBelongs
<1>7. CASE FallbackAnswers
  <2> DEFINE response == [source |-> "fallback", number |-> Number]
  <2>1. asks # << >>
    BY <1>7 DEF FallbackAnswers, Types, Waiting
  <2>2. response \in Response /\ Own(asks, response, Current)
    BY <1>0, <2>1, OwnNew DEF Response, Source
  <2>3. Respond(response) /\ UNCHANGED <<asks, resolved, log, used, cache>>
    BY <1>7 DEF FallbackAnswers, gateway, observers
  <2>. HIDE DEF response
  <2>. QED  BY <2>1, <2>2, <2>3, RespondBelongs
<1>8. CASE TimesOut
  <2>1. asks # << >> /\ UNCHANGED <<asks, resolved, log, used, cache>>
    BY <1>8 DEF TimesOut, Types, Waiting, observers
  <2>2. CASE setup.policy = "skip"
    <3>1. TimeoutResponse \in Response /\ Own(asks, TimeoutResponse, Current)
      BY <1>0, <2>1, OwnNew DEF TimeoutResponse, Response, Source
    <3>2. Respond(TimeoutResponse)
      BY <1>8, <2>2 DEF TimesOut, OnTimeout
    <3>. QED  BY <2>1, <3>1, <3>2, RespondBelongs
  <2>3. CASE setup.policy # "skip"
    BY <1>8, <2>1, <2>3 DEF TimesOut, OnTimeout, Belongs
  <2>. QED  BY <2>2, <2>3
<1>9. CASE Apply
  <2>1. asks # << >> /\ answer \in Response /\ Own(asks, answer, Current)
    BY <1>9 DEF Apply, Types, Waiting, Belongs
  <2>2. \A i \in Id : Own(asks, resolved'[i], i)
    BY <1>0, <1>9, <2>1 DEF Apply, Belongs, TypeOK
  <2>3. \A u \in used' : Own(asks, u.answer, u.id)
    BY <1>9, <2>1 DEF Apply, Belongs
  <2>. QED  BY <1>9, <2>2, <2>3 DEF Apply, Belongs, records
<1>10. CASE HandleRequest
  <2>1. \A i \in Id : Own(asks, log'[i].answer, i)
    BY <1>0, <1>10 DEF HandleRequest, Inserted, Belongs, TypeOK, Own
  <2>. QED  BY <1>10, <2>1
         DEF HandleRequest, Belongs, NoEvent, asking, gateway, observers, Current, Number
<1>11. CASE HandleResponse
  <2>1. event.id \in Id /\ Own(asks, event.answer, event.id)
    BY <1>0, <1>11 DEF HandleResponse, TypeOK, Event, NoEvent, Belongs
  <2>2. \A i \in Id : Own(asks, log'[i].answer, i)
    <3>1. CASE log[event.id] = NoRow
      BY <1>0, <1>11, <2>1, <3>1 DEF HandleResponse, Inserted, Belongs, TypeOK
    <3>2. CASE log[event.id] # NoRow
      <4>1. log' = [log EXCEPT ![event.id] = Filled(@, event.answer)]
        BY <1>11, <3>2 DEF HandleResponse
      <4>2. Filled(log[event.id], event.answer).answer \in {log[event.id].answer, event.answer}
        BY <1>0, <2>1, <3>2 DEF Filled, TypeOK, Row
      <4>. QED  BY <1>0, <2>1, <4>1, <4>2 DEF Belongs, TypeOK
    <3>. QED  BY <3>1, <3>2
  <2>. QED  BY <1>11, <2>2
         DEF HandleResponse, Belongs, NoEvent, asking, gateway, observers, Current, Number
<1>12. CASE HandlerFails
  BY <1>12 DEF HandlerFails, Belongs, NoEvent, asking, gateway, Current, Number
<1>13. CASE Resume
  BY <1>13 DEF Resume, Belongs, NoEvent, Nothing, Own
<1>14. CASE UNCHANGED vars
  BY <1>14 DEF vars, asking, gateway, records, observers, Belongs, Current, Number
<1>. QED  BY <1>1, <1>2, <1>3, <1>4, <1>5, <1>6, <1>7, <1>8, <1>9, <1>10, <1>11, <1>12, <1>13,
             <1>14 DEF Next, Handle, Answers

\* No answer, late, cached or logged, is taken for the answer to another question.
THEOREM HumanNoCrossTalk == Spec => []NoCrossTalk
<1>1. Types /\ Belongs => NoCrossTalk
  BY DEF Types, TypeOK, Belongs, NoCrossTalk, Own, Response, NoResponse, Source
<1>. QED  BY <1>1, TypesInit, TypesNext, BelongsInit, BelongsNext, PTL DEF Spec

-----------------------------------------------------------------------------
(* One answer per id: what a human or a model said first stays in the      *)
(* gateway's cache, and run_with_human asks no id again that it resolved.  *)

Given == {"human", "llm_sim"}

Remembers ==
  /\ \A u \in used : u.answer.source \in Given => cache[u.id] = u.answer
  /\ pc = "answered" /\ answer.source \in Given => cache[Current] = answer
  /\ pc = "asking" => cache[Current] = NoResponse
  /\ \A i \in Id : resolved[i] # NoResponse => [id |-> i, answer |-> resolved[i]] \in used
  /\ setup.caller = "loop" =>
       /\ \A u \in used : resolved[u.id] = u.answer
       /\ pc \in Waiting => resolved[Current] = NoResponse

LEMMA RemembersInit == Init => Remembers
BY DEF Init, Remembers, Waiting, Nothing

\* The answer to a request that was really asked.
LEMMA AnsweredRemembers ==
  ASSUME Types, Remembers, pc = "asking", NEW response \in Response, Respond(response),
         cache' = Remembered(response), UNCHANGED <<asks, used, setup, resolved>>
  PROVE  Remembers'
<1>1. Current \in Id /\ cache[Current] = NoResponse /\ Current' = Current
  BY CurrentType DEF Types, Waiting, Remembers, Current, Number
<1>2. cache' = [cache EXCEPT ![Current] = response]
  BY <1>1 DEF Remembered, CacheKey
<1>3. cache'[Current] = response
  BY <1>1, <1>2 DEF Types, TypeOK
<1>4. \A u \in used : u.answer.source \in Given => cache'[u.id] = u.answer
  <2>1. \A u \in used : u.id \in Id /\ u.answer # NoResponse
    BY DEF Types, TypeOK, Response, NoResponse, Source
  <2>. QED  BY <1>1, <1>2, <2>1 DEF Types, TypeOK, Remembers
<1>. QED  BY <1>1, <1>3, <1>4 DEF Respond, Remembers, Waiting

LEMMA RemembersNext == Types /\ Remembers /\ [Next]_vars => Remembers'
<1>. SUFFICES ASSUME Types, Remembers, [Next]_vars  PROVE Remembers'
  OBVIOUS
<1>0. TypeOK /\ (asks # << >> => Current \in Id /\ Number \in Nat)
  BY CurrentType DEF Types
<1>1. ASSUME NEW id \in Id, Ask(id)  PROVE Remembers'
  <2>1. Current' = id
    BY <1>0, <1>1 DEF Ask, TypeOK, Current, Number
  <2>. QED  BY <1>1, <2>1 DEF Ask, Remembers, gateway
<1>2. ASSUME NEW id \in Id, ResolveAgain(id)  PROVE Remembers'
  <2>1. resolved[id] \in Response /\ setup.caller = "loop" /\ pc = "idle"
    BY <1>0, <1>2 DEF ResolveAgain, TypeOK, MaybeResponse
  <2>2. resolved[id].source \in Given => cache[id] = resolved[id]
    BY <1>2, <2>1 DEF Remembers, ResolveAgain
  <2>. QED  BY <1>2, <2>1, <2>2 DEF ResolveAgain, Remembers, asking, Waiting
<1>3. CASE TooMany \/ RefusesToAsk \/ ModelFails \/ FallbackFails
  BY <1>3 DEF TooMany, RefusesToAsk, ModelFails, FallbackFails, Remembers, Waiting, gateway, observers
<1>4. CASE CallGateway
  BY <1>4 DEF CallGateway, CacheKey, Respond, Remembers, Waiting, observers, Current, Number
<1>5. ASSUME NEW reader \in readers, HumanTypes(reader)  PROVE Remembers'
  <2>1. CASE pc = "asking" /\ reader = Number
    <3>1. [source |-> "human", number |-> Number] \in Response
      BY <1>0, <2>1 DEF Types, Waiting, Response, Source
    <3>. QED  BY <1>5, <2>1, <3>1, AnsweredRemembers DEF HumanTypes, observers
  <2>2. CASE ~(pc = "asking" /\ reader = Number)
    BY <1>5, <2>2 DEF HumanTypes, Remembers, observers, Current, Number
  <2>. QED  BY <2>1, <2>2
<1>6. CASE ModelAnswers
  <2>1. [source |-> "llm_sim", number |-> Number] \in Response
    BY <1>0, <1>6 DEF ModelAnswers, Types, Waiting, Response, Source
  <2>. QED  BY <1>6, <2>1, AnsweredRemembers DEF ModelAnswers, observers
<1>7. CASE FallbackAnswers \/ TimesOut
  BY <1>7 DEF FallbackAnswers, TimesOut, OnTimeout, TimeoutResponse, Respond, Given, Remembers,
              Waiting, gateway, observers, Current, Number
<1>8. CASE Apply
  <2>1. asks # << >> /\ answer \in Response /\ Current \in Id
    BY <1>0, <1>8 DEF Apply, Types, Waiting
  <2>2. \A u \in used' : u.answer.source \in Given => cache'[u.id] = u.answer
    BY <1>8 DEF Apply, Remembers
  <2>3. ASSUME setup.caller = "loop"  PROVE \A u \in used' : resolved'[u.id] = u.answer
    <3>1. resolved[Current] = NoResponse
      BY <1>8, <2>3 DEF Apply, Remembers, Waiting
    <3>2. \A u \in used : u.id \in Id /\ u.answer # NoResponse
      BY <1>0 DEF TypeOK, Response, NoResponse, Source
    <3>. QED  BY <1>0, <1>8, <2>1, <2>3, <3>1, <3>2 DEF Apply, Remembers, TypeOK
  <2>4. \A i \in Id : resolved'[i] # NoResponse => [id |-> i, answer |-> resolved'[i]] \in used'
    BY <1>0, <1>8, <2>1 DEF Apply, Remembers, TypeOK
  <2>. QED  BY <1>8, <2>2, <2>3, <2>4 DEF Apply, Remembers, Waiting
<1>9. CASE Handle
  BY <1>9 DEF Handle, HandleRequest, HandleResponse, HandlerFails, Remembers, asking, gateway,
              observers, Current, Number
<1>10. CASE Resume
  BY <1>10 DEF Resume, Remembers, Waiting, Nothing
<1>11. CASE UNCHANGED vars
  BY <1>11 DEF vars, asking, gateway, observers, Remembers, Current, Number
<1>. QED  BY <1>1, <1>2, <1>3, <1>4, <1>5, <1>6, <1>7, <1>8, <1>9, <1>10, <1>11
          DEF Next, Answers

\* An execution that asks twice with one id gets one answer, unless the timeout policy gave
\* one of the two.
THEOREM HumanOneAnswer == Spec => []OneAnswerPerId
<1>1. Types /\ Remembers => OneAnswerPerId
  <2>. SUFFICES ASSUME Types, Remembers, NEW u \in used, NEW v \in used,
                       u.id = v.id, u.answer # v.answer
                PROVE  setup.caller = "node"
                       /\ {u.answer.source, v.answer.source} \cap {"timeout", "fallback"} # {}
    BY DEF OneAnswerPerId
  <2>1. u.answer.source \in Source /\ v.answer.source \in Source /\ setup.caller \in {"node", "loop"}
    BY DEF Types, TypeOK, Response, Setups
  <2>2. ~(u.answer.source \in Given /\ v.answer.source \in Given)
    BY DEF Remembers
  <2>3. setup.caller # "loop"
    BY DEF Remembers
  <2>. QED  BY <2>1, <2>2, <2>3 DEF Source, Given
<1>. QED  BY <1>1, TypesInit, TypesNext, RemembersInit, RemembersNext, PTL DEF Spec

-----------------------------------------------------------------------------
(* Threads left at the terminal: each belongs to a request that timed out, *)
(* and eats one line at most.                                              *)

Behind == IF pc = "asking" THEN readers \ {Number} ELSE readers

Eaten ==
  /\ readers \subseteq 1 .. Number /\ timedOut \subseteq 1 .. Number
  /\ pc = "asking" => Number \notin timedOut
  /\ pc = "requesting" => Number \notin readers \cup timedOut
  /\ setup.gateway = "llm" => readers = {}
  /\ eaten + Cardinality(Behind) <= Cardinality(timedOut)

LEMMA EatenFinite ==
  ASSUME Types, Eaten
  PROVE  /\ IsFiniteSet(readers) /\ IsFiniteSet(timedOut) /\ IsFiniteSet(Behind)
         /\ Cardinality(readers) \in Nat /\ Cardinality(Behind) \in Nat
         /\ Cardinality(timedOut) \in Nat /\ eaten \in Nat /\ Number \in Nat
<1>1. Number \in Nat /\ eaten \in Nat
  BY DEF Types, TypeOK, Number
<1>2. IsFiniteSet(1 .. Number)
  BY <1>1, FS_Interval
<1>3. IsFiniteSet(readers) /\ IsFiniteSet(timedOut) /\ IsFiniteSet(Behind)
  <2>1. Behind \subseteq 1 .. Number
    BY DEF Behind, Eaten
  <2>. QED  BY <1>2, <2>1, FS_Subset DEF Eaten
<1>. QED  BY <1>1, <1>3, FS_CardinalityType

LEMMA EatenInit == Init => Eaten
BY FS_EmptySet DEF Init, Eaten, Behind

LEMMA EatenNext == Types /\ Eaten /\ [Next]_vars => Eaten'
<1>. SUFFICES ASSUME Types, Eaten, [Next]_vars  PROVE Eaten'
  OBVIOUS
<1>0. /\ IsFiniteSet(readers) /\ IsFiniteSet(timedOut) /\ IsFiniteSet(Behind)
      /\ Cardinality(readers) \in Nat /\ Cardinality(Behind) \in Nat
      /\ Cardinality(timedOut) \in Nat /\ eaten \in Nat /\ Number \in Nat
  BY EatenFinite
<1>1. ASSUME NEW id \in Id, Ask(id)  PROVE Eaten'
  <2>1. Number' = Number + 1
    BY <1>1 DEF Ask, Number, Types, TypeOK
  <2>2. UNCHANGED <<readers, timedOut, eaten, setup>> /\ pc = "idle" /\ pc' = "requesting"
    BY <1>1 DEF Ask, gateway
  <2>3. Behind' = Behind
    BY <2>2 DEF Behind
  <2>. QED  BY <1>0, <2>1, <2>2, <2>3 DEF Eaten
<1>2. ASSUME UNCHANGED <<readers, timedOut, eaten, asks, setup>>,
             pc # "asking", pc' \notin {"asking", "requesting"}
      PROVE  Eaten'
  <2>1. Behind' = Behind
    BY <1>2 DEF Behind
  <2>. QED  BY <1>2, <2>1 DEF Eaten, Number
<1>3. CASE (\E id \in Id : ResolveAgain(id)) \/ TooMany \/ RefusesToAsk \/ FallbackAnswers \/ FallbackFails \/ Apply
  BY <1>2, <1>3 DEF ResolveAgain, TooMany, RefusesToAsk, FallbackAnswers, FallbackFails, Apply, Respond,
                    asking, gateway
<1>4. CASE CallGateway
  <2>1. CASE pc' = "asking"
    <3>1. /\ readers' \in {readers, readers \cup {Number}} /\ pc = "requesting"
          /\ UNCHANGED <<timedOut, eaten, asks, setup>>
          /\ setup.gateway = "cli" \/ readers' = readers
      BY <1>4, <2>1 DEF CallGateway, Respond
    <3>2. Behind' = Behind
      BY <2>1, <3>1 DEF Behind, Eaten, Number
    <3>3. asks # << >> /\ Number \in 1 .. Number
      <4>1. asks # << >>
        BY <3>1 DEF Types, Waiting
      <4>. QED  BY <4>1 DEF Types, TypeOK, Number
    <3>4. Number' = Number
      BY <3>1 DEF Number
    <3>. QED  BY <2>1, <3>1, <3>2, <3>3, <3>4 DEF Eaten
  <2>2. CASE pc' # "asking"
    BY <1>2, <1>4, <2>2 DEF CallGateway, Respond
  <2>. QED  BY <2>1, <2>2
<1>5. ASSUME NEW reader \in readers, HumanTypes(reader)  PROVE Eaten'
  <2>1. readers' = readers \ {reader} /\ UNCHANGED <<timedOut, asks, setup>>
    BY <1>5 DEF HumanTypes, ReadersAfter
  <2>2. CASE pc = "asking" /\ reader = Number
    <3>1. pc' = "answered" /\ UNCHANGED eaten
      BY <1>5, <2>2 DEF HumanTypes, Respond
    <3>2. Behind' = Behind
      BY <2>1, <2>2, <3>1 DEF Behind
    <3>. QED  BY <2>1, <3>1, <3>2 DEF Eaten, Number
  <2>3. CASE ~(pc = "asking" /\ reader = Number)
    <3>1. eaten' = eaten + 1 /\ UNCHANGED pc
      BY <1>5, <2>3 DEF HumanTypes
    <3>2. reader \in Behind /\ Behind' = Behind \ {reader}
      BY <2>1, <2>3, <3>1 DEF Behind, Number
    <3>3. Cardinality(Behind') = Cardinality(Behind) - 1
      BY <1>0, <3>2, FS_RemoveElement
    <3>. QED  BY <1>0, <2>1, <3>1, <3>3 DEF Eaten, Number
  <2>. QED  BY <2>2, <2>3
<1>6. CASE ModelAnswers \/ ModelFails
  <2>1. /\ readers = {} /\ pc' \in {"answered", "failed"}
        /\ UNCHANGED <<readers, timedOut, eaten, asks, setup>>
    BY <1>6 DEF ModelAnswers, ModelFails, Respond, gateway, Eaten
  <2>2. Behind' = Behind
    BY <2>1 DEF Behind
  <2>. QED  BY <2>1, <2>2 DEF Eaten, Number
<1>7. CASE TimesOut
  <2>1. /\ pc = "asking" /\ pc' \in {"answered", "failed", "fallback"}
        /\ timedOut' = timedOut \cup {Number} /\ UNCHANGED <<readers, eaten, asks, setup>>
    BY <1>7 DEF TimesOut, OnTimeout, Respond
  <2>2. Behind' \subseteq Behind \cup {Number}
    BY <2>1 DEF Behind
  <2>3. Cardinality(Behind') <= Cardinality(Behind) + 1 /\ Cardinality(Behind') \in Nat
    <3>1. Number \notin Behind
      BY <2>1 DEF Behind
    <3>2. IsFiniteSet(Behind \cup {Number})
          /\ Cardinality(Behind \cup {Number}) = Cardinality(Behind) + 1
      BY <1>0, <3>1, FS_AddElement
    <3>. QED  BY <2>2, <3>2, FS_Subset, FS_CardinalityType
  <2>4. Cardinality(timedOut') = Cardinality(timedOut) + 1
    BY <1>0, <2>1, FS_AddElement DEF Eaten
  <2>5. Number' = Number /\ Number \in 1 .. Number
    <3>1. asks # << >>
      BY <2>1 DEF Types, Waiting
    <3>. QED  BY <2>1, <3>1 DEF Types, TypeOK, Number
  <2>. QED  BY <1>0, <2>1, <2>3, <2>4, <2>5 DEF Eaten
<1>8. CASE Handle
  BY <1>8 DEF Handle, HandleRequest, HandleResponse, HandlerFails, Eaten, Behind, asking, gateway,
              Number
<1>9. CASE Resume
  BY <1>0, <1>9, FS_EmptySet DEF Resume, Eaten, Behind, Number
<1>10. CASE UNCHANGED vars
  BY <1>10 DEF vars, asking, gateway, Eaten, Behind, Number
<1>. QED  BY <1>1, <1>3, <1>4, <1>5, <1>6, <1>7, <1>8, <1>9, <1>10 DEF Next, Answers

\* The terminal swallows no more lines than requests have timed out.
THEOREM HumanLinesEaten == Spec => []EatenBound
<1>1. Types /\ Eaten => EatenBound
  <2>. SUFFICES ASSUME Types, Eaten  PROVE EatenBound
    OBVIOUS
  <2>1. readers \ {Number} \subseteq Behind
    BY DEF Behind
  <2>2. /\ IsFiniteSet(Behind) /\ Cardinality(Behind) \in Nat /\ eaten \in Nat
        /\ Cardinality(timedOut) \in Nat
    BY EatenFinite
  <2>3. Cardinality(readers \ {Number}) <= Cardinality(Behind)
        /\ Cardinality(readers \ {Number}) \in Nat
    BY <2>1, <2>2, FS_Subset, FS_CardinalityType
  <2>. QED  BY <2>2, <2>3 DEF EatenBound, Eaten
<1>. QED  BY <1>1, TypesInit, TypesNext, EatenInit, EatenNext, PTL DEF Spec

-----------------------------------------------------------------------------
(* The log. An event is always about the current request, and the code     *)
(* that sent it waits.                                                     *)

Awaited ==
  event # NoEvent =>
    /\ event.id = Current
    /\ \/ pc = "requesting" /\ event.kind = "human_request"
       \/ pc = "answered" /\ event.kind = "human_response" /\ event.answer = answer

Agrees(i) ==
  CASE pc \notin Waiting \/ i # Current -> log[i] = first[i]
    [] pc = "answered" /\ i = Current ->
         IF event = NoEvent THEN log[i] = Filled(first[i], answer) ELSE log[i] = first[i]
    [] OTHER ->
         \/ log[i] = first[i]
         \/ /\ event # NoEvent /\ log[i] = NoRow
            /\ first[i] = [role |-> event.role, answer |-> NoResponse]

Logged == Awaited /\ \A i \in Id \ lost : Agrees(i)

LEMMA LoggedInit == Init => Logged
BY DEF Init, Logged, Awaited, Agrees, Waiting

LEMMA RespondLogged ==
  ASSUME Types, Logged, event = NoEvent, pc \in {"requesting", "asking", "fallback"},
         NEW response, Respond(response), UNCHANGED <<asks, log, first, lost>>
  PROVE  Logged'
<1>1. Current' = Current
  BY DEF Current, Number
<1>2. event' # NoEvent
  BY DEF Respond, NoEvent
<1>3. Awaited'
  BY <1>1 DEF Respond, Awaited
<1>4. \A i \in Id \ lost : log[i] = first[i]
  BY DEF Logged, Agrees, Waiting
<1>. QED  BY <1>1, <1>2, <1>3, <1>4 DEF Logged, Agrees, Respond, Waiting

\* The steps of a gateway that leave the request unanswered.
LEMMA UnansweredLogged ==
  ASSUME Types, Logged, event = NoEvent, pc \in {"idle", "requesting", "asking", "fallback"},
         pc' \in {"idle", "asking", "fallback", "failed"},
         UNCHANGED <<event, asks, log, first, lost>>
  PROVE  Logged'
<1>1. \A i \in Id \ lost : log[i] = first[i]
  BY DEF Logged, Agrees, Waiting
<1>. QED  BY <1>1 DEF Logged, Awaited, Agrees, Waiting

LEMMA LoggedNext == Types /\ Logged /\ [Next]_vars => Logged'
<1>. SUFFICES ASSUME Types, Logged, [Next]_vars  PROVE Logged'
  OBVIOUS
<1>0. TypeOK /\ (asks # << >> => Current \in Id /\ Number \in Nat)
  BY CurrentType DEF Types
<1>1. ASSUME NEW id \in Id, Ask(id)  PROVE Logged'
  <2>1. PICK role \in RolesPlayed :
          /\ event' = [kind |-> "human_request", id |-> id, role |-> role]
          /\ first' = IF first[id] = NoRow
                      THEN [first EXCEPT ![id] = [role |-> role, answer |-> NoResponse]]
                      ELSE first
    BY <1>1 DEF Ask
  <2>2. Current' = id /\ pc' = "requesting" /\ UNCHANGED <<log, lost>>
    BY <1>0, <1>1 DEF Ask, TypeOK, Current, Number
  <2>3. \A i \in Id \ lost : log[i] = first[i]
    BY <1>1 DEF Ask, Logged, Agrees, Waiting
  <2>4. event' # NoEvent /\ event'.role = role
    BY <2>1 DEF NoEvent
  <2>5. Awaited'
    BY <2>1, <2>2 DEF Awaited
  <2>6. ASSUME NEW i \in Id \ lost'  PROVE Agrees(i)'
    <3>1. CASE i # id
      BY <1>0, <2>1, <2>2, <2>3, <3>1 DEF Agrees, TypeOK
    <3>2. CASE i = id
      <4>1. \/ log'[i] = first'[i]
            \/ log'[i] = NoRow /\ first'[i] = [role |-> role, answer |-> NoResponse]
        BY <1>0, <2>1, <2>2, <2>3, <3>2 DEF TypeOK
      <4>. QED  BY <2>2, <2>4, <3>2, <4>1 DEF Agrees, Waiting
    <3>. QED  BY <3>1, <3>2
  <2>. QED  BY <2>5, <2>6 DEF Logged
<1>2. CASE \E id \in Id : ResolveAgain(id)
  BY <1>2 DEF ResolveAgain, Logged, Awaited, Agrees, asking, records, Current, Number
<1>3. CASE TooMany \/ RefusesToAsk \/ ModelFails \/ FallbackFails
  <2>1. event = NoEvent
    BY <1>3 DEF TooMany, RefusesToAsk, Dispatched, ModelFails, FallbackFails, Logged, Awaited
  <2>. QED  BY <1>3, <2>1, UnansweredLogged
              DEF TooMany, RefusesToAsk, ModelFails, FallbackFails, records, observers
<1>4. CASE CallGateway
  <2>1. event = NoEvent /\ pc = "requesting" /\ UNCHANGED <<asks, log, first, lost>>
    BY <1>4 DEF CallGateway, Dispatched, observers
  <2>. QED  BY <1>4, <2>1, RespondLogged, UnansweredLogged DEF CallGateway
<1>5. ASSUME NEW reader \in readers, HumanTypes(reader)  PROVE Logged'
  <2>1. CASE pc = "asking" /\ reader = Number
    BY <1>5, <2>1, RespondLogged DEF HumanTypes, Logged, Awaited, observers
  <2>2. CASE ~(pc = "asking" /\ reader = Number)
    BY <1>5, <2>2 DEF HumanTypes, Logged, Awaited, Agrees, observers, Current, Number
  <2>. QED  BY <2>1, <2>2
<1>6. CASE ModelAnswers \/ FallbackAnswers
  <2>1. event = NoEvent /\ pc \in {"asking", "fallback"} /\ UNCHANGED <<asks, log, first, lost>>
    BY <1>6 DEF ModelAnswers, FallbackAnswers, Logged, Awaited, observers
  <2>. QED  BY <1>6, <2>1, RespondLogged DEF ModelAnswers, FallbackAnswers
<1>7. CASE TimesOut
  <2>1. event = NoEvent /\ pc = "asking" /\ UNCHANGED <<asks, log, first, lost>>
    BY <1>7 DEF TimesOut, Logged, Awaited, observers
  <2>2. \/ Respond(TimeoutResponse)
        \/ pc' \in {"failed", "fallback"} /\ UNCHANGED <<answer, event>>
    BY <1>7 DEF TimesOut, OnTimeout
  <2>. QED  BY <2>1, <2>2, RespondLogged, UnansweredLogged
<1>8. CASE Apply
  <2>1. /\ asks # << >> /\ event = NoEvent /\ pc = "answered" /\ pc' = "idle"
        /\ UNCHANGED <<event, log, lost>>
        /\ first' = IF first[Current].answer = NoResponse
                    THEN [first EXCEPT ![Current].answer = answer] ELSE first
    BY <1>8 DEF Apply, Dispatched, Types, Waiting, records
  <2>2. first'[Current] = Filled(first[Current], answer)
        /\ \A i \in Id : i # Current => first'[i] = first[i]
    BY <1>0, <2>1 DEF Filled, TypeOK
  <2>3. \A i \in Id \ lost : log[i] = first'[i]
    BY <2>1, <2>2 DEF Logged, Agrees, Waiting
  <2>. QED  BY <2>1, <2>3 DEF Logged, Awaited, Agrees, Waiting
<1>9. CASE HandleRequest
  <2>1. /\ event # NoEvent /\ event.id = Current /\ pc = "requesting" /\ Current \in Id
        /\ Current' = Current /\ event' = NoEvent /\ UNCHANGED <<pc, first, lost>>
        /\ log' = Inserted(Current, [role |-> event.role, answer |-> NoResponse])
    BY <1>0, <1>9 DEF HandleRequest, NoEvent, Logged, Awaited, Types, Waiting, asking, observers,
                      Current, Number
  <2>2. first[Current] # NoRow
    BY <2>1 DEF Types, Waiting
  <2>3. \A i \in Id \ lost : log'[i] = first[i]
    BY <1>0, <2>1, <2>2 DEF Inserted, Logged, Agrees, Waiting, TypeOK
  <2>. QED  BY <2>1, <2>3 DEF Logged, Awaited, Agrees, Waiting
<1>10. CASE HandleResponse
  <2>1. /\ event # NoEvent /\ event.id = Current /\ event.answer = answer /\ pc = "answered"
        /\ Current \in Id /\ Current' = Current /\ event' = NoEvent
        /\ UNCHANGED <<pc, answer, first, lost>>
    BY <1>0, <1>10 DEF HandleResponse, NoEvent, Logged, Awaited, Types, Waiting, asking, observers,
                       Current, Number
  <2>2. first[Current] # NoRow
    BY <2>1 DEF Types, Waiting
  <2>5. log' = IF log[Current] = NoRow
               THEN Inserted(Current, [role |-> "Reviewer", answer |-> answer])
               ELSE [log EXCEPT ![Current] = Filled(log[Current], answer)]
    BY <1>10, <2>1 DEF HandleResponse
  <2>3. \A i \in Id \ lost : i # Current => log'[i] = first[i]
    BY <1>0, <2>5, <2>1 DEF Inserted, Logged, Agrees, TypeOK
  <2>4. Current \notin lost => log'[Current] = Filled(first[Current], answer)
    BY <1>0, <2>5, <2>1, <2>2 DEF Logged, Agrees, Waiting, TypeOK
  <2>. QED  BY <2>1, <2>3, <2>4 DEF Logged, Awaited, Agrees, Waiting
<1>11. CASE HandlerFails
  <2>1. /\ event # NoEvent /\ event.id = Current /\ pc \in {"requesting", "answered"}
        /\ Current' = Current /\ event' = NoEvent /\ lost' = lost \cup {Current}
        /\ UNCHANGED <<pc, answer, first, log>>
    BY <1>11 DEF HandlerFails, Logged, Awaited, asking, Current, Number
  <2>. QED  BY <2>1 DEF Logged, Awaited, Agrees
<1>12. CASE Resume
  <2>1. /\ event' = NoEvent /\ pc' = "idle" /\ UNCHANGED <<log, first>>
        /\ lost' = lost \cup (IF pc = "answered" \/ event # NoEvent THEN {Current} ELSE {})
    BY <1>12 DEF Resume
  <2>2. \A i \in Id \ lost' : log[i] = first[i]
    BY <2>1 DEF Logged, Awaited, Agrees, Waiting
  <2>. QED  BY <2>1, <2>2 DEF Logged, Awaited, Agrees, Waiting
<1>13. CASE UNCHANGED vars
  BY <1>13 DEF vars, asking, gateway, records, observers, Logged, Awaited, Agrees, Current, Number
<1>. QED  BY <1>1, <1>2, <1>3, <1>4, <1>5, <1>6, <1>7, <1>8, <1>9, <1>10, <1>11, <1>12, <1>13
          DEF Next, Handle, Answers

\* Unless an event was refused by the database or died with its process, the log has the
\* first request of an id and the first answer the run went on with.
THEOREM HumanLogIsFirst == Spec => []LogIsFirst
<1>1. Logged => LogIsFirst
  BY DEF Logged, Agrees, LogIsFirst, Waiting
<1>. QED  BY <1>1, TypesInit, TypesNext, LoggedInit, LoggedNext, PTL DEF Spec

\* A response in the log is never replaced, not by a resumed execution that asks again.
THEOREM HumanLoggedForGood == Spec => LoggedForGood
<1> DEFINE Kept == \A i \in Id : log[i].answer # NoResponse => log'[i] = log[i]
<1>1. Types /\ [Next]_vars => [Kept]_vars
  <2>. SUFFICES ASSUME Types, [Next]_vars  PROVE Kept
    OBVIOUS
  <2>1. CASE HandleRequest
    BY <2>1 DEF HandleRequest, Inserted, Types, TypeOK, NoRow
  <2>2. CASE HandleResponse
    <3>1. event.id \in Id
      BY <2>2 DEF HandleResponse, Types, TypeOK, Event, NoEvent
    <3>. QED  BY <2>2, <3>1 DEF HandleResponse, Inserted, Filled, Types, TypeOK, NoRow
  <2>3. CASE UNCHANGED log
    BY <2>3
  <2>4. HandleRequest \/ HandleResponse \/ UNCHANGED log
    BY DEF Next, Handle, Answers, Ask, ResolveAgain, TooMany, RefusesToAsk, CallGateway, HumanTypes,
           ModelAnswers, ModelFails, FallbackAnswers, FallbackFails, TimesOut, Apply,
           HandlerFails, Resume, vars, records
  <2>. QED  BY <2>1, <2>2, <2>3, <2>4
<1>2. Spec => [][Kept]_vars
  BY <1>1, TypesInit, TypesNext, PTL DEF Spec
<1>. QED  BY <1>2 DEF LoggedForGood
=============================================================================
