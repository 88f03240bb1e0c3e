---------------------- MODULE NavigatePageProperties ----------------------
(* What the driver may believe of the page. *)
EXTENDS NavigatePage

TypeOK ==
    /\ load \in {"loading", "loaded", "failed"} /\ locating \in {"idle", "locating", "error"}
    /\ gatesAtClick \subseteq Gates
    /\ startGateId \in IF load = "loaded" THEN Gates ELSE {Nothing}
    /\ destinationId \in Destinations \cup {Nothing}
    /\ searchQuery \in Queries /\ searchResults \subseteq Destinations
    /\ searches \subseteq [query : Queries, live : BOOLEAN]
    /\ legToParking \in [start : Gates, target : Lots] \cup {Nothing}
    /\ legToDestination \in [start : Lots, end : Destinations] \cup {Nothing}
    /\ routeError \in BOOLEAN /\ routing \in BOOLEAN
    /\ plans \cup ({lastPlan} \ {Nothing}) \subseteq
           [gate : Gates, destination : Destinations, lot : Lots \cup {Nothing}]
    /\ inputs \in 0..MaxInputs /\ reports \in 0..MaxReports
    /\ twin \in Versions /\ confirmed \in Versions /\ parkingState \in Versions \cup {Nothing}
    /\ {report} \cup {fetches[f] : f \in Fetches} \subseteq {None, Sent} \cup {Served(v) : v \in Versions}
    /\ DOMAIN fetches = Fetches
    /\ reportStatus \in {"idle", "sending", "sent", "error"}

\* However the answers of successive searches overtake each other, the list ends
\* up with what was found for the query in the field, or empty; and while a search
\* is awaited, it is for that query and it is the only one.
ResultsAreOfTheQuery ==
    LET awaited == {s \in searches : s.live}
    IN IF awaited = {} THEN searchResults \in {{}, Found[searchQuery]}
       ELSE Cardinality(awaited) = 1 /\ \A s \in awaited : s.query = searchQuery

\* The two legs on the map are always one journey, and the one asked for last:
\* the walk starts at the lot the drive ends at, an error or a search for a new
\* route never stands beside an old one, although gate and destination may be
\* changed while the route is computed and nothing cancels its fetches.
DirectionsAreOneJourney ==
    /\ routing <=> plans # {}
    /\ (legToParking # Nothing) <=> (legToDestination # Nothing)
    /\ legToParking # Nothing =>
           /\ ~routing /\ ~routeError
           /\ legToParking.start = lastPlan.gate
           /\ legToParking.target = legToDestination.start
           /\ legToDestination.end = lastPlan.destination

\* A report the driver was thanked for, and that the twin took, shows on the markers
\* eventually and for good, although the refresh that follows may fail and an older
\* poll may be answered after it.  The thanks ("status updated") alone promise less:
\* they are given, too, for a report the twin refused (ReportNotShown), which no
\* marker ever shows.
ReportStaysVisible ==
    confirmed > 0 ~> [](parkingState # Nothing /\ parkingState >= confirmed)
============================================================================
