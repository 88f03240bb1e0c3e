------------------------ MODULE NavigatePage_proofs ------------------------
(***************************************************************************)
(* Proofs about the driver's page, for any queries, lots and inputs, and   *)
(* answers in any order.                                                   *)
(***************************************************************************)
EXTENDS NavigatePageProperties, FiniteSetTheorems, TLAPS

----------------------------------------------------------------------------
(* Steps, by the part of the page they work on.                             *)

SearchStep ==
    \/ \E q \in Queries : Type(q)
    \/ \E d \in Destinations : Select(d)
    \/ \E s \in searches : SearchAnswered(s) \/ SearchFails(s)

DirectionsStep ==
    \/ PlanRoute
    \/ \E p \in plans : NearestParkingAnswered(p) \/ RouteAnswered(p) \/ PlanFails(p)

GateStep ==
    Load \/ LoadFails \/ Locate \/ Located \/ NotLocated \/ \E g \in Gates : ChooseGate(g)

FetchStep == \E f \in Fetches : Poll(f) \/ Read(f) \/ StateAnswered(f) \/ StateFails(f)

ReportStep == SubmitReport \/ ReportAccepted \/ ReportNotShown \/ Observed \/ ReportAnswered \/ ReportFails

LEMMA Parts == Next <=> SearchStep \/ DirectionsStep \/ GateStep \/ FetchStep \/ ReportStep
  BY DEF Next, SearchStep, DirectionsStep, GateStep, FetchStep, ReportStep

\* Each part keeps to its own variables.
LEMMA Separate ==
    /\ SearchStep => UNCHANGED <<directions, load, locating, gatesAtClick, startGateId, live>>
    /\ DirectionsStep => UNCHANGED <<search, load, locating, gatesAtClick, startGateId, destinationId, live>>
    /\ GateStep => UNCHANGED <<search, directions, destinationId, live>>
    /\ FetchStep => UNCHANGED <<page, reportStatus, report, reports, confirmed, twin>>
    /\ ReportStep => UNCHANGED <<search, directions, load, locating, gatesAtClick, startGateId,
                                 destinationId, parkingState>>
<1>1. SearchStep => UNCHANGED <<directions, load, locating, gatesAtClick, startGateId, live>>
  BY DEF SearchStep, Type, Select, SearchAnswered, SearchFails, SearchEnds
<1>2. DirectionsStep => UNCHANGED <<search, load, locating, gatesAtClick, startGateId, destinationId, live>>
  BY DEF DirectionsStep, PlanRoute, NearestParkingAnswered, RouteAnswered, PlanFails, PlanEnds, search
<1>3. GateStep => UNCHANGED <<search, directions, destinationId, live>>
  BY DEF GateStep, Load, LoadFails, Locate, Located, NotLocated, ChooseGate
<1>4. FetchStep => UNCHANGED <<page, reportStatus, report, reports, confirmed, twin>>
  BY DEF FetchStep, Poll, Read, StateAnswered, StateFails
<1>5. ReportStep => UNCHANGED <<search, directions, load, locating, gatesAtClick, startGateId,
                                destinationId, parkingState>>
  BY DEF ReportStep, SubmitReport, ReportAccepted, ReportNotShown, Observed, ReportAnswered, ReportFails, page
<1> QED BY <1>1, <1>2, <1>3, <1>4, <1>5

----------------------------------------------------------------------------
(* Types, one part at a time.                                               *)

Plan == [gate : Gates, destination : Destinations, lot : Lots \cup {Nothing}]
Requests == {None, Sent} \cup {Served(v) : v \in Versions}

GateTypes ==
    /\ load \in {"loading", "loaded", "failed"} /\ locating \in {"idle", "locating", "error"}
    /\ gatesAtClick \subseteq Gates
    /\ gatesAtClick # {} => load = "loaded"
    /\ startGateId \in IF load = "loaded" THEN Gates ELSE {Nothing}

SearchTypes ==
    /\ destinationId \in Destinations \cup {Nothing}
    /\ searchQuery \in Queries /\ searchResults \subseteq Destinations
    /\ searches \subseteq [query : Queries, live : BOOLEAN]

DirectionsTypes ==
    /\ legToParking \in [start : Gates, target : Lots] \cup {Nothing}
    /\ legToDestination \in [start : Lots, end : Destinations] \cup {Nothing}
    /\ routeError \in BOOLEAN /\ routing \in BOOLEAN
    /\ plans \subseteq Plan /\ lastPlan \in Plan \cup {Nothing}

LiveTypes ==
    /\ reports \in 0..MaxReports
    /\ twin \in Versions /\ confirmed \in Versions /\ parkingState \in Versions \cup {Nothing}
    /\ report \in Requests
    /\ fetches \in [Fetches -> Requests]
    /\ reportStatus \in {"idle", "sending", "sent", "error"}

Types == GateTypes /\ SearchTypes /\ DirectionsTypes /\ LiveTypes /\ inputs \in 0..MaxInputs

LEMMA GateTypesStep ==
    ASSUME GateTypes, [Next]_vars
    PROVE  GateTypes'
<1> USE DEF GateTypes
<1>1. CASE GateStep
  <2>1. CASE Load
    BY <2>1 DEF Load
  <2>2. CASE LoadFails
    BY <2>2 DEF LoadFails
  <2>3. CASE Locate
    BY <2>3 DEF Locate, GatesShown
  <2>4. CASE Located
    BY <2>4 DEF Located, Nearest
  <2>5. CASE NotLocated
    BY <2>5 DEF NotLocated
  <2>6. CASE \E g \in Gates : ChooseGate(g)
    BY <2>6 DEF ChooseGate, GatesShown
  <2> QED BY <1>1, <2>1, <2>2, <2>3, <2>4, <2>5, <2>6 DEF GateStep
<1>2. CASE ~GateStep
  <2>1. UNCHANGED <<load, locating, gatesAtClick, startGateId>>
    BY <1>2, Parts, Separate DEF vars, page
  <2> QED BY <2>1
<1> QED BY <1>1, <1>2

LEMMA SearchTypesStep ==
    ASSUME SearchTypes, [Next]_vars
    PROVE  SearchTypes'
<1> USE DEF SearchTypes
<1>1. ASSUME NEW q \in Queries, NEW results \in SUBSET Destinations, SetQuery(q, results)
      PROVE  /\ searchQuery' \in Queries /\ searchResults' \subseteq Destinations
             /\ searches' \subseteq [query : Queries, live : BOOLEAN]
  <2>1. \A x \in [query : Queries, live : BOOLEAN] :
            [x EXCEPT !.live = FALSE] \in [query : Queries, live : BOOLEAN]
    OBVIOUS
  <2>2. {[x EXCEPT !.live = FALSE] : x \in searches} \subseteq [query : Queries, live : BOOLEAN]
    BY <2>1
  <2>3. {[query |-> q, live |-> TRUE]} \subseteq [query : Queries, live : BOOLEAN]
    OBVIOUS
  <2>4. Searching(q) \subseteq [query : Queries, live : BOOLEAN]
    BY <2>2, <2>3 DEF Searching
  <2> QED BY <1>1, <2>4 DEF SetQuery
<1>2. CASE \E q \in Queries : Type(q)
  BY <1>1, <1>2 DEF Type
<1>3. CASE \E d \in Destinations : Select(d)
  BY <1>1, <1>3, QueriesAreNamed DEF Select
<1>4. CASE \E s \in searches : SearchAnswered(s) \/ SearchFails(s)
  BY <1>4, QueriesAreNamed DEF SearchAnswered, SearchFails, SearchEnds
<1>5. CASE ~SearchStep
  <2>1. UNCHANGED <<destinationId, searchQuery, searchResults, searches>>
    BY <1>5, Parts, Separate DEF vars, page, search
  <2> QED BY <2>1
<1> QED BY <1>2, <1>3, <1>4, <1>5 DEF SearchStep

LEMMA DirectionsTypesStep ==
    ASSUME GateTypes, SearchTypes, DirectionsTypes, [Next]_vars
    PROVE  DirectionsTypes'
<1> USE DEF DirectionsTypes, Plan
<1>1. CASE PlanRoute
  <2>1. startGateId \in Gates /\ destinationId \in Destinations
    BY <1>1 DEF PlanRoute, CanPlan, GateTypes, SearchTypes
  <2>2. [gate |-> startGateId, destination |-> destinationId, lot |-> Nothing] \in Plan
    BY <2>1
  <2>3. lastPlan' \in Plan /\ plans' \subseteq Plan
    BY <1>1, <2>2 DEF PlanRoute
  <2> QED BY <1>1, <2>3 DEF PlanRoute
<1>2. ASSUME NEW p \in plans, NearestParkingAnswered(p) PROVE DirectionsTypes'
  BY <1>2 DEF NearestParkingAnswered
<1>3. ASSUME NEW p \in plans, RouteAnswered(p) PROVE DirectionsTypes'
  BY <1>3 DEF RouteAnswered, PlanEnds
<1>4. ASSUME NEW p \in plans, PlanFails(p) PROVE DirectionsTypes'
  BY <1>4 DEF PlanFails, PlanEnds
<1>5. CASE ~DirectionsStep
  <2>1. UNCHANGED directions
    BY <1>5, Parts, Separate DEF vars, page
  <2> QED BY <2>1 DEF directions
<1> QED BY <1>1, <1>2, <1>3, <1>4, <1>5 DEF DirectionsStep

LEMMA LiveTypesStep ==
    ASSUME LiveTypes, [Next]_vars
    PROVE  LiveTypes'
<1> USE DEF LiveTypes
<1>0. /\ \A v \in Versions : Served(v) \in Requests /\ Served(v).version = v /\ Served(v).at = "served"
      /\ None \in Requests /\ Sent \in Requests
      /\ None.at = "none" /\ Sent.at = "sent"
      /\ \A r \in Requests : r.at = "served" => r.version \in Versions
  <2>1. \A v \in Versions : Served(v).version = v /\ Served(v).at = "served" /\ Served(v) \in Requests
    BY DEF Requests, Served
  <2>2. None \in Requests /\ Sent \in Requests /\ None.at = "none" /\ Sent.at = "sent"
    BY DEF Requests, None, Sent
  <2>3. ASSUME NEW r \in Requests, r.at = "served" PROVE r.version \in Versions
    <3>1. r = None \/ r = Sent \/ \E v \in Versions : r = Served(v)
      BY DEF Requests
    <3> QED BY <2>1, <2>2, <2>3, <3>1
  <2> QED BY <2>1, <2>2, <2>3
<1>1. CASE FetchStep
  <2>1. UNCHANGED <<reportStatus, report, reports, confirmed, twin>>
    BY <1>1, Separate
  <2>2. PICK f \in Fetches : Poll(f) \/ Read(f) \/ StateAnswered(f) \/ StateFails(f)
    BY <1>1 DEF FetchStep
  <2>3. \E r \in Requests : fetches' = [fetches EXCEPT ![f] = r]
    BY <1>0, <2>2 DEF Poll, Read, StateAnswered, StateFails
  <2>4. parkingState' \in Versions \cup {Nothing}
    BY <1>0, <2>2 DEF Poll, Read, StateAnswered, StateFails, Shown
  <2> QED BY <2>1, <2>3, <2>4
<1>2. CASE SubmitReport
  BY <1>0, <1>2, QueriesAreNamed DEF SubmitReport
<1>3. CASE ReportAccepted
  BY <1>0, <1>3, QueriesAreNamed DEF ReportAccepted, Versions
<1>4. CASE Observed
  BY <1>4, QueriesAreNamed DEF Observed, Versions
<1>5. CASE ReportAnswered
  BY <1>0, <1>5 DEF ReportAnswered
<1>6. CASE ReportFails
  BY <1>0, <1>6 DEF ReportFails
<1>7. CASE ReportNotShown
  BY <1>0, <1>7, QueriesAreNamed DEF ReportNotShown, Versions
<1>8. CASE ~FetchStep /\ ~ReportStep
  <2>1. UNCHANGED live
    BY <1>8, Parts, Separate DEF vars
  <2> QED BY <2>1 DEF live
<1> QED BY <1>1, <1>2, <1>3, <1>4, <1>5, <1>6, <1>7, <1>8 DEF ReportStep

LEMMA InputsStep ==
    ASSUME inputs \in 0..MaxInputs, [Next]_vars
    PROVE  inputs' \in 0..MaxInputs
<1>1. inputs' = inputs \/ Input
  BY DEF Next, vars, page, Load, LoadFails, Locate, Located, NotLocated, ChooseGate, Type, Select,
         SearchAnswered, SearchFails, SearchEnds, PlanRoute, NearestParkingAnswered, RouteAnswered,
         PlanFails, PlanEnds, Poll, Read, StateAnswered, StateFails, SubmitReport, ReportAccepted,
         ReportNotShown, Observed, ReportAnswered, ReportFails
<1> QED BY <1>1, QueriesAreNamed DEF Input

LEMMA TypesInit == Init => Types
<1> SUFFICES ASSUME Init PROVE Types
  OBVIOUS
<1>1. GateTypes /\ SearchTypes /\ DirectionsTypes
  BY QueriesAreNamed DEF Init, GateTypes, SearchTypes, DirectionsTypes
<1>2. LiveTypes
  BY QueriesAreNamed DEF Init, LiveTypes, Requests, Versions
<1> QED BY <1>1, <1>2, QueriesAreNamed DEF Init, Types

LEMMA TypesHold == Spec => []Types
<1>1. Types /\ [Next]_vars => Types'
  BY GateTypesStep, SearchTypesStep, DirectionsTypesStep, LiveTypesStep, InputsStep DEF Types
<1> QED BY <1>1, TypesInit, PTL DEF Spec

\* The page keeps its types, whatever is answered when.
THEOREM TypeCorrect == Spec => []TypeOK
<1>1. Types => TypeOK
  BY DEF Types, GateTypes, SearchTypes, DirectionsTypes, LiveTypes, TypeOK, Plan, Requests
<1> QED BY <1>1, TypesHold, PTL

----------------------------------------------------------------------------
(* Searches.                                                                *)

Awaited == {s \in searches : s.live}

\* Only the search for the query in the field is awaited.
SearchFits ==
    /\ \A s \in Awaited : s.query = searchQuery
    /\ Awaited = {} => searchResults \in {{}, Found[searchQuery]}

LEMMA AwaitedIsOne ==
    ASSUME SearchTypes, SearchFits
    PROVE  Awaited = {} \/ Cardinality(Awaited) = 1
<1> DEFINE s0 == [query |-> searchQuery, live |-> TRUE]
<1>1. ASSUME NEW s \in Awaited PROVE s = s0
  <2>1. s \in [query : Queries, live : BOOLEAN] /\ s.live
    BY DEF SearchTypes, Awaited
  <2>2. s.query = searchQuery /\ s.live = TRUE
    BY <1>1, <2>1 DEF SearchFits
  <2> QED BY <2>1, <2>2
<1> HIDE DEF s0
<1>2. Awaited = {} \/ Awaited = {s0}
  BY <1>1
<1> QED BY <1>2, FS_Singleton

LEMMA SearchFitsStep ==
    ASSUME SearchTypes, SearchFits, [Next]_vars
    PROVE  SearchFits'
<1> USE DEF SearchFits, Awaited
<1>1. ASSUME NEW q \in Queries, NEW results, SetQuery(q, results),
             q # searchQuery \/ results = {}
      PROVE  SearchFits'
  <2>1. CASE q = searchQuery
    BY <1>1, <2>1 DEF SetQuery
  <2>2. CASE q # searchQuery
    <3>1. searchQuery' = q /\ searches' = Searching(q) /\ (q \in Short => searchResults' = {})
      BY <1>1, <2>2 DEF SetQuery
    <3>2. \A x \in [query : Queries, live : BOOLEAN] : ~[x EXCEPT !.live = FALSE].live
      OBVIOUS
    <3>3. \A x \in searches : ~[x EXCEPT !.live = FALSE].live
      BY <3>2 DEF SearchTypes
    <3>4. CASE q \in Short
      <4>1. \A x \in searches' : ~x.live
        BY <3>1, <3>3, <3>4 DEF Searching
      <4> QED BY <3>1, <3>4, <4>1
    <3>5. CASE q \notin Short
      <4>1. [query |-> q, live |-> TRUE] \in searches'
        BY <3>1, <3>5 DEF Searching
      <4>2. \A x \in searches' : x.live => x = [query |-> q, live |-> TRUE]
        BY <3>1, <3>3 DEF Searching
      <4> QED BY <3>1, <4>1, <4>2
    <3> QED BY <3>4, <3>5
  <2> QED BY <2>1, <2>2
<1>2. CASE \E q \in Queries : Type(q)
  BY <1>1, <1>2 DEF Type
<1>3. CASE \E d \in Destinations : Select(d)
  BY <1>1, <1>3, QueriesAreNamed DEF Select
<1>4. ASSUME NEW s \in searches, NEW results, SearchEnds(s, results), results \in {{}, Found[s.query]}
      PROVE  SearchFits'
  <2>1. /\ searchQuery' = searchQuery /\ searches' = searches \ {s}
        /\ searchResults' = IF s.live THEN results ELSE searchResults
    BY <1>4 DEF SearchEnds
  <2>2. CASE s.live
    <3>1. s.query = searchQuery
      BY <2>2
    <3> QED BY <1>4, <2>1, <2>2, <3>1
  <2>3. CASE ~s.live
    <3>1. Awaited' = Awaited
      BY <2>1, <2>3
    <3> QED BY <2>1, <2>3, <3>1
  <2> QED BY <2>2, <2>3
<1>5. CASE \E s \in searches : SearchAnswered(s) \/ SearchFails(s)
  BY <1>4, <1>5 DEF SearchAnswered, SearchFails
<1>6. CASE ~SearchStep
  <2>1. UNCHANGED <<searchQuery, searchResults, searches>>
    BY <1>6, Parts, Separate DEF vars, page, search
  <2> QED BY <2>1
<1> QED BY <1>2, <1>3, <1>5, <1>6 DEF SearchStep

\* The results on the page are those of the query in the field, in whatever order
\* the searches are answered: the cleanup of the effect cancels all but the last.
THEOREM ResultsFit == Spec => []ResultsAreOfTheQuery
<1>1. Init => SearchFits
  BY DEF Init, SearchFits, Awaited
<1>2. Types => SearchTypes
  BY DEF Types
<1>3. SearchTypes /\ SearchFits => ResultsAreOfTheQuery
  <2> SUFFICES ASSUME SearchTypes, SearchFits PROVE ResultsAreOfTheQuery
    OBVIOUS
  <2>1. Awaited = {} \/ Cardinality(Awaited) = 1
    BY AwaitedIsOne
  <2> QED BY <2>1 DEF SearchFits, ResultsAreOfTheQuery, Awaited
<1> QED BY <1>1, <1>2, <1>3, SearchFitsStep, TypesHold, PTL DEF Spec

----------------------------------------------------------------------------
(* Directions.                                                              *)

\* At most one planRoute call is under way, and it is the last one.
OnePlan ==
    /\ routing <=> plans # {}
    /\ \A p, q \in plans : p = q
    /\ \A p \in plans : p.gate = lastPlan.gate /\ p.destination = lastPlan.destination
    /\ plans # {} => legToParking = Nothing /\ legToDestination = Nothing /\ ~routeError

LEMMA OnePlanStep ==
    ASSUME DirectionsTypes, OnePlan, DirectionsAreOneJourney, [Next]_vars
    PROVE  OnePlan' /\ DirectionsAreOneJourney'
<1> USE DEF OnePlan, DirectionsAreOneJourney
<1>1. CASE PlanRoute
  <2>1. plans = {} /\ plans' = {lastPlan'} /\ routing' = TRUE
    BY <1>1 DEF PlanRoute, CanPlan, DirectionsTypes
  <2> QED BY <1>1, <2>1 DEF PlanRoute
<1>2. ASSUME NEW p \in plans, NearestParkingAnswered(p)
      PROVE  OnePlan' /\ DirectionsAreOneJourney'
  <2>1. PICK l \in Lots : plans' = (plans \ {p}) \cup {[p EXCEPT !.lot = l]}
    BY <1>2 DEF NearestParkingAnswered
  <2>2. plans' = {[p EXCEPT !.lot = l]}
    BY <2>1
  <2>3. UNCHANGED <<legToParking, legToDestination, routeError, routing, lastPlan>>
    BY <1>2 DEF NearestParkingAnswered
  <2>4. p \in Plan
    BY DEF DirectionsTypes
  <2>5. [p EXCEPT !.lot = l].gate = p.gate /\ [p EXCEPT !.lot = l].destination = p.destination
    BY <2>4 DEF Plan
  <2> QED BY <2>2, <2>3, <2>5
<1>3. ASSUME NEW p \in plans, PlanEnds(p)
      PROVE  plans' = {} /\ routing' = FALSE /\ lastPlan' = lastPlan
  BY <1>3 DEF PlanEnds
<1>4. ASSUME NEW p \in plans, RouteAnswered(p)
      PROVE  OnePlan' /\ DirectionsAreOneJourney'
  <2>1. plans' = {} /\ routing' = FALSE /\ lastPlan' = lastPlan /\ routeError' = routeError
    BY <1>3, <1>4 DEF RouteAnswered
  <2>2. /\ p \in Plan /\ p.lot \in Lots
    BY <1>4 DEF RouteAnswered, DirectionsTypes, Plan
  <2>3. /\ legToParking' = [start |-> p.gate, target |-> p.lot]
        /\ legToDestination' = [start |-> p.lot, end |-> p.destination]
    BY <1>4 DEF RouteAnswered
  <2>4. legToParking' # Nothing /\ legToDestination' # Nothing
    BY <2>2, <2>3, NothingIsNoLeg DEF Plan
  <2>5. ~routeError
    BY <1>4
  <2> QED BY <2>1, <2>3, <2>4, <2>5
<1>5. ASSUME NEW p \in plans, PlanFails(p)
      PROVE  OnePlan' /\ DirectionsAreOneJourney'
  BY <1>3, <1>5 DEF PlanFails
<1>6. CASE ~DirectionsStep
  <2>1. UNCHANGED directions
    BY <1>6, Parts, Separate DEF vars, page
  <2> QED BY <2>1 DEF directions
<1> QED BY <1>1, <1>2, <1>4, <1>5, <1>6 DEF DirectionsStep

\* The legs on the map are one journey, the one asked for last, although nothing
\* cancels the fetches of a route and gate and destination may change meanwhile.
THEOREM OneJourney == Spec => []DirectionsAreOneJourney
<1>1. Init => OnePlan /\ DirectionsAreOneJourney
  BY DEF Init, OnePlan, DirectionsAreOneJourney
<1>2. Types => DirectionsTypes
  BY DEF Types
<1> QED BY <1>1, <1>2, OnePlanStep, TypesHold, PTL DEF Spec

=============================================================================
