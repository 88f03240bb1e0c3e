--------------------------- MODULE NavigatePage ---------------------------
(***************************************************************************)
(* The driver's page (frontend/src/Navigate.tsx): React state changed by   *)
(* clicks and by the answers of fetches, in whatever order they arrive.    *)
(* The lots' live status is the number of observations the twin has shown. *)
(***************************************************************************)
EXTENDS Naturals, FiniteSets

CONSTANTS
    Gates, Destinations, Lots,
    Queries,    \* what may be in the search field
    Short,      \* those of fewer than two characters
    NoQuery,    \* the empty field
    Found,      \* query |-> destinations the server finds for it
    NameOf,     \* destination |-> its name, as a query
    Polls,      \* state fetches the timer may have under way
    MaxReports, \* bound on the reports of this driver
    MaxVersion, \* bound on the observations the twin gets
    MaxInputs,  \* bound on what the driver does
    Nothing     \* null, undefined and the empty id

ASSUME QueriesAreNamed ==
    /\ NoQuery \in Short /\ Short \subseteq Queries
    /\ Found \in [Queries -> SUBSET Destinations]
    /\ NameOf \in [Destinations -> Queries]
    /\ Gates # {}
    /\ MaxReports \in Nat /\ MaxVersion \in Nat /\ MaxInputs \in Nat

ASSUME NothingIsNoLeg ==
    Nothing \notin [start : Gates, target : Lots] \cup [start : Lots, end : Destinations]

VARIABLES
    load,                        \* of gates, destinations and lots
    locating,                    \* status of the location button
    gatesAtClick,                \* gates its handler was created with
    startGateId, destinationId,
    searchQuery, searchResults,
    searches,                    \* search fetches under way; live: not cancelled
                                 \* (several cancelled ones of a query count once)
    legToParking, legToDestination, routeError, routing,
    plans,                       \* planRoute calls under way
    lastPlan,                    \* the call made last
    inputs,                      \* how many there have been
    parkingState,                \* what the markers show
    fetches,                     \* state fetch |-> where it is
    reportStatus,
    report,                      \* the POST under way
    reports,                     \* how many there have been
    confirmed,                   \* the newest the driver was thanked for and the twin took
    twin                         \* observations the server's twin has shown

search == <<searchQuery, searchResults, searches>>
directions == <<legToParking, legToDestination, routeError, routing, plans, lastPlan>>
page == <<load, locating, gatesAtClick, startGateId, destinationId, search, directions, inputs>>
live == <<parkingState, fetches, reportStatus, report, reports, confirmed, twin>>
vars == <<page, live>>

Refreshes == 1..MaxReports
Fetches == Polls \cup Refreshes
Versions == 0..MaxVersion

\* A request to the server that has not been answered, and one that the server has
\* worked on, with the observations the twin had shown then.
None == [at |-> "none", version |-> 0]
Sent == [at |-> "sent", version |-> 0]
Served(version) == [at |-> "served", version |-> version]

Init ==
    /\ load = "loading" /\ locating = "idle" /\ gatesAtClick = {}
    /\ startGateId = Nothing /\ destinationId = Nothing
    /\ searchQuery = NoQuery /\ searchResults = {} /\ searches = {}
    /\ legToParking = Nothing /\ legToDestination = Nothing
    /\ routeError = FALSE /\ routing = FALSE
    /\ plans = {} /\ lastPlan = Nothing /\ inputs = 0
    /\ parkingState = Nothing /\ fetches = [f \in Fetches |-> None]
    /\ reportStatus = "idle" /\ report = None /\ reports = 0 /\ confirmed = 0
    /\ twin = 0

----------------------------------------------------------------------------
(* The campus, the gate and the location button. *)

\* Something the driver does: the page is replaced by a message if loading failed.
Input ==
    /\ load # "failed"
    /\ inputs < MaxInputs /\ inputs' = inputs + 1

Load ==
    /\ load = "loading" /\ load' = "loaded"
    /\ startGateId' \in Gates
    /\ UNCHANGED <<locating, gatesAtClick, destinationId, search, directions, inputs, live>>

LoadFails ==
    /\ load = "loading" /\ load' = "failed"
    /\ UNCHANGED <<locating, gatesAtClick, startGateId, destinationId, search, directions, inputs, live>>

GatesShown == IF load = "loaded" THEN Gates ELSE {}

ChooseGate(g) ==
    /\ Input /\ g \in GatesShown
    /\ startGateId' = g
    /\ UNCHANGED <<load, locating, gatesAtClick, destinationId, search, directions, live>>

Locate ==
    /\ Input /\ locating # "locating"
    /\ locating' = "locating" /\ gatesAtClick' = GatesShown
    /\ UNCHANGED <<load, startGateId, destinationId, search, directions, live>>

\* What onFound is called with: nothing if there was no gate to be near to.
NearestUnguarded == IF gatesAtClick = {} THEN {Nothing} ELSE gatesAtClick
Nearest == IF gatesAtClick = {} THEN {startGateId} ELSE gatesAtClick

\* The answer overrides whatever gate was chosen meanwhile.
Located ==
    /\ load # "failed" /\ locating = "locating"
    /\ locating' = "idle" /\ gatesAtClick' = {} /\ startGateId' \in Nearest
    /\ UNCHANGED <<load, destinationId, search, directions, inputs, live>>

NotLocated ==
    /\ load # "failed" /\ locating = "locating" /\ locating' = "error" /\ gatesAtClick' = {}
    /\ UNCHANGED <<load, startGateId, destinationId, search, directions, inputs, live>>

----------------------------------------------------------------------------
(* Searching a destination. *)

\* The searches after the query has become q: React cleans the old effect up,
\* which cancels its fetch, and runs the new one.
CancelledNever(q) == searches \cup (IF q \in Short THEN {} ELSE {[query |-> q, live |-> TRUE]})
Searching(q) ==
    {[s EXCEPT !.live = FALSE] : s \in searches}
        \cup (IF q \in Short THEN {} ELSE {[query |-> q, live |-> TRUE]})

\* The effect runs only if the query has changed; a short one clears the results.
SetQuery(q, results) ==
    /\ searchQuery' = q
    /\ searches' = IF q = searchQuery THEN searches ELSE Searching(q)
    /\ searchResults' = IF q # searchQuery /\ q \in Short THEN {} ELSE results

Type(q) ==
    /\ Input /\ q # searchQuery
    /\ SetQuery(q, searchResults)
    /\ UNCHANGED <<load, locating, gatesAtClick, startGateId, destinationId, directions, live>>

\* A click on a result puts its name into the field, which searches for it again.
Select(d) ==
    /\ Input /\ d \in searchResults
    /\ destinationId' = d
    /\ SetQuery(NameOf[d], {})
    /\ UNCHANGED <<load, locating, gatesAtClick, startGateId, directions, live>>

SearchEnds(s, results) ==
    /\ searches' = searches \ {s}
    /\ searchResults' = IF s.live THEN results ELSE searchResults
    /\ UNCHANGED <<load, locating, gatesAtClick, startGateId, destinationId, searchQuery, directions, inputs, live>>

SearchAnswered(s) == SearchEnds(s, Found[s.query])
SearchFails(s) == SearchEnds(s, {})

----------------------------------------------------------------------------
(* Directions: two fetches, the second from where the first one leads. *)

CanPlanTwice == startGateId # Nothing /\ destinationId # Nothing
CanPlan == startGateId # Nothing /\ destinationId # Nothing /\ ~routing

\* planRoute works with the gate and destination of the click.
PlanRoute ==
    /\ Input /\ CanPlan
    /\ lastPlan' = [gate |-> startGateId, destination |-> destinationId, lot |-> Nothing]
    /\ plans' = plans \cup {lastPlan'}
    /\ routing' = TRUE /\ routeError' = FALSE
    /\ legToParking' = Nothing /\ legToDestination' = Nothing
    /\ UNCHANGED <<load, locating, gatesAtClick, startGateId, destinationId, search, live>>

NearestParkingAnswered(p) ==
    /\ p.lot = Nothing
    /\ \E l \in Lots : plans' = (plans \ {p}) \cup {[p EXCEPT !.lot = l]}
    /\ UNCHANGED <<load, locating, gatesAtClick, startGateId, destinationId, search,
                   legToParking, legToDestination, routeError, routing, lastPlan, inputs, live>>

PlanEnds(p) ==
    /\ plans' = plans \ {p} /\ routing' = FALSE
    /\ UNCHANGED <<load, locating, gatesAtClick, startGateId, destinationId, search, lastPlan, inputs, live>>

RouteAnswered(p) ==
    /\ p.lot # Nothing /\ PlanEnds(p)
    /\ legToParking' = [start |-> p.gate, target |-> p.lot]
    /\ legToDestination' = [start |-> p.lot, end |-> p.destination]
    /\ UNCHANGED routeError

\* Either fetch: a 409, another error of the server, or no answer.
PlanFails(p) ==
    /\ PlanEnds(p)
    /\ routeError' = TRUE
    /\ UNCHANGED <<legToParking, legToDestination>>

----------------------------------------------------------------------------
(* Live status: a poll every 30 seconds, a report, and a refresh after it. *)

\* The timer does not look whether its last fetch has been answered.
Poll(f) ==
    /\ f \in Polls /\ fetches[f] = None
    /\ fetches' = [fetches EXCEPT ![f] = Sent]
    /\ UNCHANGED <<page, parkingState, reportStatus, report, reports, confirmed, twin>>

\* The server reads the twin for it.
Read(f) ==
    /\ fetches[f] = Sent
    /\ fetches' = [fetches EXCEPT ![f] = Served(twin)]
    /\ UNCHANGED <<page, parkingState, reportStatus, report, reports, confirmed, twin>>

\* Whichever answer comes last is shown.
ShownFirst(version) == IF parkingState = Nothing THEN version ELSE parkingState
Shown(version) == version

StateAnswered(f) ==
    /\ fetches[f].at = "served"
    /\ parkingState' = Shown(fetches[f].version)
    /\ fetches' = [fetches EXCEPT ![f] = None]
    /\ UNCHANGED <<page, reportStatus, report, reports, confirmed, twin>>

\* The markers stay as they are.
StateFails(f) ==
    /\ fetches[f] # None
    /\ fetches' = [fetches EXCEPT ![f] = None]
    /\ UNCHANGED <<page, parkingState, reportStatus, report, reports, confirmed, twin>>

SubmitReport ==
    /\ Input /\ load = "loaded" /\ reportStatus # "sending"
    /\ reports < MaxReports /\ reports' = reports + 1
    /\ reportStatus' = "sending" /\ report' = Sent
    /\ UNCHANGED <<load, locating, gatesAtClick, startGateId, destinationId, search, directions,
                   parkingState, fetches, confirmed, twin>>

\* The report is on record, but _sync_twin swallowed the twin's refusal: the
\* answer is the same 201, for an observation that will never be shown.
ReportNotShown ==
    /\ report = Sent /\ report' = Served(0)
    /\ UNCHANGED <<page, parkingState, fetches, reportStatus, reports, confirmed, twin>>

\* An observation reaches the twin: this driver's, or somebody else's.
ReportAccepted ==
    /\ report = Sent /\ twin < MaxVersion
    /\ twin' = twin + 1 /\ report' = Served(twin')
    /\ UNCHANGED <<page, parkingState, fetches, reportStatus, reports, confirmed>>

Observed ==
    /\ twin < MaxVersion /\ twin' = twin + 1
    /\ UNCHANGED <<page, parkingState, fetches, reportStatus, report, reports, confirmed>>

ReportAnswered ==
    /\ report.at = "served" /\ report' = None
    /\ reportStatus' = "sent"
    /\ confirmed' = IF report.version = 0 THEN confirmed ELSE report.version
    /\ fetches' = [fetches EXCEPT ![reports] = Sent]
    /\ UNCHANGED <<page, parkingState, reports, twin>>

\* Rejected, or no answer: then it may have been accepted nevertheless.
ReportFails ==
    /\ report # None /\ report' = None
    /\ reportStatus' = "error"
    /\ UNCHANGED <<page, parkingState, fetches, reports, confirmed, twin>>

----------------------------------------------------------------------------
Next ==
    \/ Load \/ LoadFails \/ Locate \/ Located \/ NotLocated
    \/ \E g \in Gates : ChooseGate(g)
    \/ \E q \in Queries : Type(q)
    \/ \E d \in Destinations : Select(d)
    \/ \E s \in searches : SearchAnswered(s) \/ SearchFails(s)
    \/ PlanRoute
    \/ \E p \in plans : NearestParkingAnswered(p) \/ RouteAnswered(p) \/ PlanFails(p)
    \/ \E f \in Fetches : Poll(f) \/ Read(f) \/ StateAnswered(f) \/ StateFails(f)
    \/ SubmitReport \/ ReportAccepted \/ ReportNotShown \/ Observed \/ ReportAnswered \/ ReportFails

\* The timer goes on for as long as the page is open, and however often fetches
\* fail, again and again one succeeds.
Fairness ==
    /\ \A f \in Polls : WF_vars(Poll(f))
    /\ \A f \in Fetches : SF_vars(Read(f)) /\ SF_vars(StateAnswered(f))

Spec == Init /\ [][Next]_vars /\ Fairness
============================================================================
