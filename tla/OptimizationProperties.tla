---------------------- MODULE OptimizationProperties ----------------------
(* What a driver may rely on, whatever happens to the twin meanwhile. *)
EXTENDS Optimization

TypeOK ==
    /\ DOMAIN lots = Lots /\ DOMAIN gates = Gates /\ DOMAIN roads = Roads
    /\ predicted \in [Lots -> Estimates \cup {Nothing}]
    /\ stored \subseteq Lots \X Estimates
    /\ trained \subseteq Lots
    /\ registry \in [Lots -> Cached]
    /\ updates \in 0..MaxUpdates /\ requests \in 0..MaxRequests
    /\ pc \in {"idle", "gate", "lot", "nodes", "roads", "assess", "sync", "resolve", "available", "answered"}
    /\ kind \in Kinds /\ gate \in Gates \cup {Nothing}
    /\ closedSeen \subseteq Gates \cup Lots
    /\ left \subseteq Lots
    /\ \A l \in Lots : evaluations[l].travel_time_s \in Nat /\ evaluations[l].pct \in Int \cup {Nothing}
    /\ answer.outcome \in {"none_yet", "lot", "no_feasible_lot", "risk", "error"}
    /\ answer.outcome = "lot" <=> answer.best \in Lots

\* What has been closed during the whole request.
AllAlong(E, status) == {e \in E : \A c \in since[e] : c[1] = status}

\* docs/OPTIMIZATION.md: an infeasible candidate "is structurally impossible to
\* return".  Although the twin changes while it is read row by row, and rows are
\* held while others are re-read, the lot an answer names had room and was open
\* (for nearest-parking: was not closed) at one moment of the request, so was the
\* gate, and there is a way between them no part of which was closed throughout.
RecommendedWasFeasible ==
    answer.outcome = "lot" =>
        /\ \E c \in since[answer.best] :
               ~c[2] /\ IF kind = "nearest_parking" THEN c[1] # "closed" ELSE c[1] = "open"
        /\ kind \in Strategies => \E c \in since[gate] : c[1] = "open"
        /\ PathsTo(Graph("drive", AllAlong(Gates \cup Lots, "closed"), AllAlong(Roads, "closed")),
                   gate, {answer.best}) # {}

\* docs/OPTIMIZATION.md: without a feasible candidate there is "a normal result ...
\* never an exception".  An exception needs a candidate that stopped being open
\* during the request, or a model whose evaluation is not in the database.
FailsOnlyWhenCandidateCloses ==
    answer.outcome = "error" =>
        \/ \E l \in Feasible : \E c \in since[l] : c[1] # "open"
        \/ \E l \in Lots \ Recorded : registry[l] = "loaded"

\* The forecast the twin shows of a lot is on record in predictions, although the
\* two are written in transactions of their own and the process may die between.
ForecastIsOnRecord ==
    \A l \in Lots : predicted[l] # Nothing => <<l, predicted[l]>> \in stored

Worse(l, m) ==
    /\ \A t \in Terms : Raw(l)[t] >= Raw(m)[t]
    /\ (\E t \in Terms : Raw(l)[t] > Raw(m)[t]) \/ Position(m) < Position(l)

\* The optimizer never recommends a lot while another candidate is at least as good
\* in every term of the objective and better in one, or equal and first by its id:
\* whatever the normalisation divides by, the profile weighs and the fallbacks
\* stand in for.
NotDominated ==
    (kind = "optimizer" /\ answer.outcome = "lot" /\ ~answer.fallback)
        => \A m \in Feasible : ~Worse(answer.best, m)

\* The combined risk lies between the least and the greatest of the dimensions it
\* includes ("renormalized across whichever dimensions are actually available"),
\* is unknown only if there is none, and a trigger that fires is a high overflow risk.
RiskWithinItsParts ==
    risk # Nothing =>
        LET scores == {risk.components[d].score : d \in Included(risk.components)}
        IN /\ IF scores = {} THEN risk.combined = Unknown
              ELSE Min(scores) <= risk.combined.score /\ risk.combined.score <= Max(scores)
           /\ risk.fired <=> risk.components.overflow.level \in {"HIGH", "CRITICAL"}

\* Every request gets its answer, unless the server is restarted under it.
RequestsEnd == (pc # "idle") ~> (pc = "idle")
============================================================================
