---------------------------- MODULE AdminConsole ----------------------------
(***************************************************************************)
(* The page of the admin console: the health panel, which starts a load    *)
(* when it is mounted and on every click on Re-check, the requests of      *)
(* api-client.ts, of which several may be in flight, and the error         *)
(* boundary around the page.  The API answers as its middleware and        *)
(* filter do; a proxy and the network in any of their ways; all of them in *)
(* any order, or not at all.                                               *)
(***************************************************************************)
EXTENDS Naturals, FiniteSets

CONSTANT MaxLoads   \* bound: loads

ASSUME MaxLoadsAssumption == MaxLoads \in Nat \ {0}

Loads == 1..MaxLoads   \* a load sends one request
NoId == 0
Ids == 0..(MaxLoads + 1)
ElsewhereId == MaxLoads + 1   \* an id that no load made: the API's own, or a proxy's

VARIABLES
  boundary,  \* "page", or "error" once a render error has replaced it
  status,    \* what the panel shows: loading, ok or error, from which load, with which id
  started,   \* loads started so far
  sentId,    \* the correlation id that each request carries
  flight,    \* each request: none, sent, answered or ended
  answer,    \* what answered it, or none, and the id in the answer's header
  atClick    \* history: the loads in flight after the last start of one

adminVars == <<boundary, status, started, sentId, flight, answer, atClick>>

\* From the API: health, or a 404 in its envelope.  From others: an error, JSON of
\* another shape, and what cannot be read: a page that is no JSON, a failed connection.
ByOthers == {"proxy error", "other json", "unreadable"}
Kinds == {"health", "not found"} \cup ByOthers
Answer(kind, id) == [kind |-> kind, id |-> id]

Loading == [kind |-> "loading", load |-> 0, id |-> NoId]

AdminInit ==
  /\ boundary = "page"
  /\ status = Loading
  /\ started = 0
  /\ sentId = [i \in Loads |-> NoId]
  /\ flight = [i \in Loads |-> "none"]
  /\ answer = [i \in Loads |-> Answer("none", NoId)]
  /\ atClick = {}

InFlight == {i \in Loads : flight[i] \in {"sent", "answered"}}

-----------------------------------------------------------------------------
(* The panel.                                                              *)

\* An id of its own for every load; without crypto.randomUUID it is the clock's, and
\* a load in the millisecond of the one before has the same.
MakesIds(new) ==
  /\ sentId' \in [Loads -> Ids]
  /\ \A i \in Loads : IF i \in new
                      THEN sentId'[i] = i \/ (i > 1 /\ sentId'[i] = sentId'[i - 1])
                      ELSE sentId'[i] = sentId[i]

\* Mutant: what was shown stays until the answer comes.
LoadKeeps(n) ==
  LET new == (started + 1)..(started + n)
  IN /\ started + n <= MaxLoads
     /\ started' = started + n
     /\ MakesIds(new)
     /\ flight' = [i \in Loads |-> IF i \in new THEN "sent" ELSE flight[i]]
     /\ atClick' = InFlight \cup new
     /\ UNCHANGED <<boundary, status, answer>>

\* load(): the panel says loading at once; requests in flight are left alone.
Load(n) ==
  LET new == (started + 1)..(started + n)
  IN /\ started + n <= MaxLoads
     /\ started' = started + n
     /\ MakesIds(new)
     /\ flight' = [i \in Loads |-> IF i \in new THEN "sent" ELSE flight[i]]
     /\ atClick' = InFlight \cup new
     /\ status' = Loading
     /\ UNCHANGED <<boundary, answer>>

\* The effect runs once, and twice under StrictMode in development.
Mount == started = 0 /\ \E n \in {1, 2} : Load(n)

Recheck == started > 0 /\ boundary = "page" /\ Load(1)

\* The page is loaded again: a new panel, and the old page's requests are gone.
Reload ==
  /\ started \in 1..(MaxLoads - 1)
  /\ boundary' = "page"
  /\ status' = Loading
  /\ started' = started + 1
  /\ sentId' = [sentId EXCEPT ![started + 1] = started + 1]
  /\ flight' = [i \in Loads |-> IF i = started + 1 THEN "sent"
                                ELSE IF i <= started THEN "ended" ELSE "none"]
  /\ answer' = [i \in Loads |-> Answer("none", NoId)]
  /\ atClick' = {started + 1}

-----------------------------------------------------------------------------
(* What happens to a request.                                              *)

\* The API's id for a request is the header's, or one of its own where a proxy has
\* removed the header.
ApiId(i) == {sentId[i], ElsewhereId}

Answered(i, a) ==
  /\ flight' = [flight EXCEPT ![i] = "answered"]
  /\ answer' = [answer EXCEPT ![i] = a]
  /\ UNCHANGED <<boundary, status, started, sentId, atClick>>

\* What the API does with a request that the page has given up is left out.
ApiAnswers(i) == flight[i] = "sent" /\ Answered(i, Answer("health", NoId))

\* The base URL has a path, which is no route of the API: the filter answers with the
\* id.  A proxy may take the header from the answer.
ApiRejects(i) ==
  flight[i] = "sent" /\ \E id \in ApiId(i) \cup {NoId} : Answered(i, Answer("not found", id))

\* An error of a proxy may carry a header too, the request's or its own.
OthersAnswer(i) ==
  /\ flight[i] = "sent"
  /\ \E kind \in ByOthers, id \in {NoId, sentId[i], ElsewhereId} :
       (kind = "proxy error" \/ id = NoId) /\ Answered(i, Answer(kind, id))

-----------------------------------------------------------------------------
(* request(), and what load() makes of it.                                 *)

HttpErrors == {"not found", "proxy error"}

\* Mutant: the id is the client's and not the request's.
IdOfClient(i, a) ==
  IF a.kind \notin HttpErrors THEN NoId
  ELSE IF a.id # NoId THEN a.id ELSE sentId[started]

\* Only an ApiError carries an id, the response header's or else the request's own:
\* what is no HTTP error (no JSON, no connection, a timeout) has none.
IdOf(i, a) ==
  IF a.kind \notin HttpErrors THEN NoId
  ELSE IF a.id # NoId THEN a.id ELSE sentId[i]

\* Mutant: load() catches nothing but an ApiError.
OutcomeOrNothing(i, a) ==
  IF a.kind \in {"health", "other json"} THEN [kind |-> "ok", load |-> i, id |-> NoId]
  ELSE IF IdOf(i, a) # NoId THEN [kind |-> "error", load |-> i, id |-> IdOf(i, a)]
  ELSE status

\* JSON is taken for the health summary without looking at it.
Outcome(i, a) ==
  IF a.kind \in {"health", "other json"} THEN [kind |-> "ok", load |-> i, id |-> NoId]
  ELSE [kind |-> "error", load |-> i, id |-> IdOf(i, a)]

\* After its setStatus the panel is rendered, and a summary without dependencies
\* throws then; under the boundary's message there is no panel to set.
Shows(i, a) ==
  IF boundary = "error" THEN UNCHANGED <<boundary, status>>
  ELSE /\ status' = Outcome(i, a)
       /\ boundary' = IF a.kind = "other json" THEN "error" ELSE "page"

Ends(i, a) ==
  /\ flight' = [flight EXCEPT ![i] = "ended"]
  /\ Shows(i, a)
  /\ UNCHANGED <<started, sentId, answer, atClick>>

Settles(i) == flight[i] = "answered" /\ Ends(i, answer[i])

\* Every request is bounded, the reading of its body included.
TimesOut(i) == i \in InFlight /\ Ends(i, Answer("timeout", NoId))

AdminNext ==
  \/ Mount \/ Recheck \/ Reload
  \/ \E i \in Loads : ApiAnswers(i) \/ ApiRejects(i) \/ OthersAnswer(i)
                      \/ Settles(i) \/ TimesOut(i)

AdminSpec == AdminInit /\ [][AdminNext]_adminVars

\* The page is mounted, and AbortSignal.timeout and the event loop are fair.
AdminFairness ==
  /\ WF_adminVars(Mount)
  /\ \A i \in Loads : WF_adminVars(Settles(i) \/ TimesOut(i))

-----------------------------------------------------------------------------
(* Properties.                                                             *)

\* What the panel shows arrived after the last click on Re-check, although it may
\* have been asked for before it and may overwrite a later load's answer
\* (health-panel.tsx 23-36).  It may be an answer to an earlier load than the last.
ShownIsFresh == status.kind # "loading" => status.load \in atClick

\* An id that the panel prints came with the failure that it shows: it is the id in
\* the header of that answer, or else the one that this very request carried, and
\* not that of another load in flight (api-client.ts 87-92).
IdIsOfTheFailure ==
  status.id # NoId =>
    LET a == answer[status.load]
    IN /\ a.kind \in HttpErrors
       /\ status.id = a.id \/ (a.id = NoId /\ status.id = sentId[status.load])

\* The panel does not say loading for ever, whatever the API, a proxy and the
\* network do and however many loads overlap (api-client.ts 57-60).
PanelSettles ==
  (status.kind = "loading" /\ boundary = "page")
    ~> (status.kind # "loading" \/ boundary = "error")
=============================================================================
