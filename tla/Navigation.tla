---------------------------- MODULE Navigation ----------------------------
(***************************************************************************)
(* Routing over the campus (backend/app/services/navigation.py): the graph *)
(* built from the stored route edges and the closures a request has read,  *)
(* shortest paths in it, and the nearest of several targets.  Coordinates, *)
(* geometry and wording are left out.                                      *)
(***************************************************************************)
EXTENDS Integers, Sequences, FiniteSets, SequencesExt

CONSTANTS
    Gates, Roads, Destinations,
    LotOrder,    \* the lots in the order of their ids
    RouteEdges   \* the campus' route edges in the order of their ids

Lots == Range(LotOrder)
Nodes == Gates \cup Lots \cup Destinations
Modes == {"drive", "walk"}
Places == [gate |-> Gates, parking_lot |-> Lots, destination |-> Destinations]

EdgeRecord ==
    [road_id : Roads, mode : Modes, from_node : Nodes, to_node : Nodes,
     travel_time : Nat, distance : Nat]

ASSUME CampusAssumption ==
    /\ LotOrder \in Seq(Lots) /\ IsFiniteSet(Gates)
    /\ \A i, j \in DOMAIN LotOrder : LotOrder[i] = LotOrder[j] => i = j
    /\ RouteEdges \in Seq(EdgeRecord)

----------------------------------------------------------------------------
(* _build_graph: an edge takes part unless its road or one of its ends is   *)
(* closed.  A DiGraph has one edge per ordered pair, the one added last.    *)

Usable(mode, closedNodes, closedRoads) ==
    {i \in DOMAIN RouteEdges :
        LET e == RouteEdges[i]
        IN /\ e.mode = mode
           /\ e.road_id \notin closedRoads
           /\ {e.from_node, e.to_node} \cap closedNodes = {}}

Pair(i) == <<RouteEdges[i].from_node, RouteEdges[i].to_node>>

GraphOf(usable) ==
    [p \in {Pair(i) : i \in usable} |-> RouteEdges[Max({i \in usable : Pair(i) = p})]]

Graph(mode, closedNodes, closedRoads) == GraphOf(Usable(mode, closedNodes, closedRoads))

Vertices(graph) == UNION {{p[1], p[2]} : p \in DOMAIN graph}

\* travel_time or distance
Weight(edge) == IF edge.travel_time # 0 THEN edge.travel_time ELSE edge.distance

\* Sequences of distinct nodes.
NodePaths ==
    {p \in UNION {[1..n -> Nodes] : n \in 1..Cardinality(Nodes)} :
        \A i, j \in DOMAIN p : p[i] = p[j] => i = j}

PathsTo(graph, a, B) ==
    {p \in NodePaths :
        /\ p[1] = a /\ p[Len(p)] \in B
        /\ \A i \in 1..Len(p) - 1 : <<p[i], p[i + 1]>> \in DOMAIN graph}

Edges(graph, path) == [i \in 1..Len(path) - 1 |-> graph[<<path[i], path[i + 1]>>]]
Length(graph, path) ==
    LET edges == Edges(graph, path) IN SumFunction([i \in DOMAIN edges |-> Weight(edges[i])])

\* networkx' dijkstra returns one of the shortest paths.
Shortest(graph, paths) ==
    {p \in paths : \A q \in paths : Length(graph, p) <= Length(graph, q)}

\* _assemble_route
Leg(graph, path) ==
    LET edges == Edges(graph, path)
    IN [path |-> path, travel_time_s |-> SumFunction([i \in DOMAIN edges |-> edges[i].travel_time])]

LegsTo(graph, start, targets) ==
    UNION {{Leg(graph, p) : p \in Shortest(graph, paths)} : paths \in {PathsTo(graph, start, targets)}}

\* The legs find_route may answer with; none is NoFeasibleRouteError.
Route(start, end, mode, closedNodes, closedRoads) ==
    IF start = end THEN {[path |-> <<start>>, travel_time_s |-> 0]}
    ELSE UNION {LegsTo(graph, start, {end}) : graph \in {Graph(mode, closedNodes, closedRoads)}}

\* find_route_to_nearest, of targets that are not known to be unusable.  A start
\* without an edge of this mode is not in the graph, even if it is a target.
RouteToNearest(start, targets, mode, closedNodes, closedRoads) ==
    UNION {LegsTo(graph, start, targets) :
              graph \in {g \in {Graph(mode, closedNodes, closedRoads)} : start \in Vertices(g)}}
============================================================================
