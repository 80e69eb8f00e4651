-------------------------- MODULE AdminConsoleProofs --------------------------
(***************************************************************************)
(* For any number of overlapping loads, answered by anybody in any order   *)
(* or not at all: what the health panel shows arrived after the last       *)
(* click, and an id that it prints came with the failure that it shows.    *)
(***************************************************************************)
EXTENDS AdminConsole, TLAPS

Answers == [kind : Kinds \cup {"none", "timeout"}, id : Ids]

AdminTypeOK ==
  /\ boundary \in {"page", "error"}
  /\ status \in [kind : {"loading", "ok", "error"}, load : Nat, id : Nat]
  /\ started \in 0..MaxLoads
  /\ sentId \in [Loads -> Ids]
  /\ flight \in [Loads -> {"none", "sent", "answered", "ended"}]
  /\ answer \in [Loads -> Answers]
  /\ atClick \subseteq Loads

\* No request in flight is older than the last start of a load allows.
InFlightAtClick == InFlight \subseteq atClick

\* What is shown is of one load, whose request is over.
ShownIsOver ==
  /\ status.kind = "loading" => status.id = NoId
  /\ status.kind # "loading" => status.load \in Loads /\ flight[status.load] = "ended"

AdminInv ==
  AdminTypeOK /\ InFlightAtClick /\ ShownIsOver /\ ShownIsFresh /\ IdIsOfTheFailure

-----------------------------------------------------------------------------
(* Starting loads.                                                         *)

\* While the panel says loading it prints no id and shows no answer.
LEMMA LoadingShowsNothing ==
  ASSUME status' = Loading
  PROVE  ShownIsOver' /\ ShownIsFresh' /\ IdIsOfTheFailure'
<1>1. status'.kind = "loading" /\ status'.id = NoId
  BY DEF Loading
<1> QED
  BY <1>1 DEF ShownIsOver, ShownIsFresh, IdIsOfTheFailure

LEMMA LoadStep ==
  ASSUME AdminInv, NEW n \in {1, 2}, Load(n)
  PROVE  AdminInv'
<1> USE MaxLoadsAssumption DEF AdminInv, AdminTypeOK, Loads
<1> DEFINE new == (started + 1)..(started + n)
<1>1. new \subseteq Loads /\ started' \in 0..MaxLoads
  BY DEF Load
<1>2. /\ flight' = [i \in Loads |-> IF i \in new THEN "sent" ELSE flight[i]]
      /\ sentId' \in [Loads -> Ids]
      /\ atClick' = InFlight \cup new
      /\ status' = Loading
      /\ UNCHANGED <<boundary, answer>>
  BY DEF Load, MakesIds
<1>3. InFlight \subseteq Loads
  BY DEF InFlight
<1>4. AdminTypeOK'
  BY <1>1, <1>2, <1>3 DEF Loading, NoId
<1>5. InFlightAtClick'
  BY <1>1, <1>2 DEF InFlightAtClick, InFlight
<1> QED
  BY <1>2, <1>4, <1>5, LoadingShowsNothing

LEMMA ReloadStep == AdminInv /\ Reload => AdminInv'
<1> SUFFICES ASSUME AdminInv, Reload PROVE AdminInv'
  OBVIOUS
<1> USE MaxLoadsAssumption DEF AdminInv, AdminTypeOK, Loads
<1>1. /\ started' \in Loads /\ started' = started + 1
      /\ status' = Loading /\ boundary' = "page"
      /\ sentId' = [sentId EXCEPT ![started + 1] = started + 1]
      /\ flight' = [i \in Loads |-> IF i = started + 1 THEN "sent"
                                    ELSE IF i <= started THEN "ended" ELSE "none"]
      /\ answer' = [i \in Loads |-> Answer("none", NoId)]
      /\ atClick' = {started'}
  BY DEF Reload
<1>2. sentId' \in [Loads -> Ids] /\ Answer("none", NoId) \in Answers
  BY <1>1 DEF Ids, Answer, Answers, NoId
<1>3. AdminTypeOK'
  BY <1>1, <1>2 DEF Loading, NoId
<1>4. InFlightAtClick'
  BY <1>1 DEF InFlightAtClick, InFlight
<1> QED
  BY <1>1, <1>3, <1>4, LoadingShowsNothing

-----------------------------------------------------------------------------
(* What happens to a request.                                              *)

\* A request that is answered is not the one that is shown.
LEMMA AnsweredStep ==
  ASSUME AdminInv, NEW i \in Loads, flight[i] = "sent",
         NEW a \in Answers, Answered(i, a)
  PROVE  AdminInv'
<1> USE DEF AdminInv, AdminTypeOK
<1>1. /\ flight' = [flight EXCEPT ![i] = "answered"] /\ answer' = [answer EXCEPT ![i] = a]
      /\ UNCHANGED <<boundary, status, started, sentId, atClick>>
  BY DEF Answered
<1>2. AdminTypeOK' /\ InFlightAtClick' /\ ShownIsFresh'
  BY <1>1 DEF InFlightAtClick, InFlight, ShownIsFresh
<1>3. status.kind # "loading" => status.load # i
  BY DEF ShownIsOver
<1>4. ShownIsOver' /\ IdIsOfTheFailure'
  BY <1>1, <1>3 DEF ShownIsOver, IdIsOfTheFailure
<1> QED
  BY <1>2, <1>4

LEMMA ReadStep ==
  ASSUME AdminInv, NEW i \in Loads,
         ApiAnswers(i) \/ ApiRejects(i) \/ OthersAnswer(i)
  PROVE  AdminInv'
<1>1. sentId[i] \in Ids /\ NoId \in Ids /\ ElsewhereId \in Ids
  BY MaxLoadsAssumption DEF AdminInv, AdminTypeOK, Ids, NoId, ElsewhereId
<1>2. CASE ApiAnswers(i)
  BY <1>1, <1>2, AnsweredStep DEF ApiAnswers, Answer, Answers, Kinds
<1>3. CASE ApiRejects(i)
  BY <1>1, <1>3, AnsweredStep DEF ApiRejects, ApiId, Answer, Answers, Kinds
<1>4. CASE OthersAnswer(i)
  BY <1>1, <1>4, AnsweredStep DEF OthersAnswer, Answer, Answers, Kinds
<1> QED
  BY <1>2, <1>3, <1>4

\* What load() makes of the answer to a request, or of its timeout.
LEMMA OutcomeOfRequest ==
  ASSUME AdminTypeOK, NEW i \in Loads, NEW a \in Answers
  PROVE  /\ Outcome(i, a) \in [kind : {"ok", "error"}, load : Loads, id : Nat]
         /\ Outcome(i, a).load = i
         /\ Outcome(i, a).id # NoId =>
              /\ a.kind \in HttpErrors
              /\ Outcome(i, a).id = a.id \/ (a.id = NoId /\ Outcome(i, a).id = sentId[i])
<1>1. a.id \in Nat /\ sentId[i] \in Nat /\ NoId \in Nat
  BY MaxLoadsAssumption DEF AdminTypeOK, Ids, Answers, NoId
<1>2. /\ IdOf(i, a) \in Nat
      /\ IdOf(i, a) # NoId =>
           /\ a.kind \in HttpErrors
           /\ IdOf(i, a) = a.id \/ (a.id = NoId /\ IdOf(i, a) = sentId[i])
  BY <1>1 DEF IdOf
<1>3. \/ Outcome(i, a) = [kind |-> "ok", load |-> i, id |-> NoId]
      \/ Outcome(i, a) = [kind |-> "error", load |-> i, id |-> IdOf(i, a)]
  BY DEF Outcome
<1> HIDE DEF IdOf, Outcome
<1> QED
  BY <1>1, <1>2, <1>3

LEMMA EndStep ==
  ASSUME AdminInv, NEW i \in InFlight, NEW a \in Answers, Ends(i, a),
         a = answer[i] \/ a.kind = "timeout"
  PROVE  AdminInv'
<1> USE DEF AdminInv, AdminTypeOK
<1>1. /\ flight' = [flight EXCEPT ![i] = "ended"] /\ i \in Loads
      /\ UNCHANGED <<started, sentId, answer, atClick>>
  BY DEF Ends, InFlight
<1>2. status' \in {status, Outcome(i, a)} /\ boundary' \in {"page", "error"}
  BY DEF Ends, Shows
<1>3. /\ Outcome(i, a) \in [kind : {"ok", "error"}, load : Loads, id : Nat]
      /\ Outcome(i, a).load = i /\ i \in atClick
      /\ Outcome(i, a).id # NoId =>
           /\ a.kind \in HttpErrors
           /\ Outcome(i, a).id = a.id \/ (a.id = NoId /\ Outcome(i, a).id = sentId[i])
  BY <1>1, OutcomeOfRequest DEF InFlightAtClick
<1>4. AdminTypeOK'
  BY <1>1, <1>2, <1>3, MaxLoadsAssumption DEF Loads
<1>5. InFlightAtClick'
  BY <1>1 DEF InFlightAtClick, InFlight
<1>6. ShownIsOver' /\ ShownIsFresh'
  BY <1>1, <1>2, <1>3 DEF ShownIsOver, ShownIsFresh
<1>7. IdIsOfTheFailure'
  <2>1. CASE status' = status
    BY <1>1, <2>1 DEF IdIsOfTheFailure
  <2>2. CASE status' = Outcome(i, a)
    <3>1. a.kind \in HttpErrors => a = answer[i]
      BY DEF HttpErrors
    <3> QED
      BY <1>1, <1>3, <2>2, <3>1 DEF IdIsOfTheFailure
  <2> QED
    BY <1>2, <2>1, <2>2
<1> QED
  BY <1>4, <1>5, <1>6, <1>7

LEMMA AdminStep == AdminInv /\ [AdminNext]_adminVars => AdminInv'
<1> SUFFICES ASSUME AdminInv, [AdminNext]_adminVars PROVE AdminInv'
  OBVIOUS
<1>1. CASE Mount \/ Recheck
  BY <1>1, LoadStep DEF Mount, Recheck
<1>2. CASE Reload
  BY <1>2, ReloadStep
<1>3. ASSUME NEW i \in Loads,
             ApiAnswers(i) \/ ApiRejects(i) \/ OthersAnswer(i)
      PROVE  AdminInv'
  BY <1>3, ReadStep
<1>4. ASSUME NEW i \in Loads, Settles(i) \/ TimesOut(i) PROVE AdminInv'
  <2>1. i \in InFlight /\ answer[i] \in Answers
    BY <1>4 DEF Settles, TimesOut, InFlight, AdminInv, AdminTypeOK
  <2>2. Answer("timeout", NoId) \in Answers /\ Answer("timeout", NoId).kind = "timeout"
    BY MaxLoadsAssumption DEF Answer, Answers, Ids, NoId
  <2> QED
    BY <1>4, <2>1, <2>2, EndStep DEF Settles, TimesOut
<1>5. CASE UNCHANGED adminVars
  BY <1>5 DEF adminVars, AdminInv, AdminTypeOK, InFlightAtClick, InFlight, ShownIsOver,
              ShownIsFresh, IdIsOfTheFailure
<1> QED
  BY <1>1, <1>2, <1>3, <1>4, <1>5 DEF AdminNext

LEMMA AdminInvariance == AdminSpec => []AdminInv
<1>1. AdminInit => AdminInv
  BY MaxLoadsAssumption
  DEF AdminInit, AdminInv, AdminTypeOK, InFlightAtClick, InFlight, ShownIsOver,
      ShownIsFresh, IdIsOfTheFailure, Loading, NoId, Ids, Answer, Answers, Kinds
<1> QED
  BY <1>1, AdminStep, PTL DEF AdminSpec

\* What the panel shows arrived after the last click, and never before it; it may
\* answer a load that was in flight then.
THEOREM PanelIsFresh == AdminSpec => []ShownIsFresh
<1>1. AdminInv => ShownIsFresh
  BY DEF AdminInv
<1> QED
  BY <1>1, AdminInvariance, PTL

\* An id on the panel is the one in the answer that it shows, or the one that very
\* request carried, however many loads overlap and whoever answers.
THEOREM ShownIdIsOfTheFailure == AdminSpec => []IdIsOfTheFailure
<1>1. AdminInv => IdIsOfTheFailure
  BY DEF AdminInv
<1> QED
  BY <1>1, AdminInvariance, PTL
=============================================================================
