---------------------- MODULE CampusConfigProperties ----------------------
(* What loading campus files must keep, whatever loads overlap or die. *)
EXTENDS CampusConfig

\* Each column of a campus row is that of some validated file.
CampusRow ==
    {row \in [CampusColumns -> UNION {{f.campus[c] : c \in CampusColumns} : f \in Files}] :
        \A c \in CampusColumns : \E f \in Files : Valid(f) /\ row[c] = f.campus[c]}

CampusOfFiles == campus \in CampusRow /\ base \in [Sessions -> CampusRow]

TypeOK ==
    /\ version \in 1..MaxVersion
    /\ CampusOfFiles
    /\ DOMAIN rows = Keys
    /\ twin \subseteq Keys
    /\ pc \in [Sessions -> {"idle", "read", "write", "select", "insert"}]
    /\ file \in [Sessions -> Files]
    /\ step \in [Sessions -> 1..6]
    /\ \A s \in Sessions : pc[s] # "write" => step[s] <= 4
    /\ seen \in [Sessions -> 0..MaxVersion - 1]
    /\ \A s \in Sessions : DOMAIN work[s] = Keys
    /\ todo \in [Sessions -> SUBSET Keys]
    /\ inserted \in [Sessions -> SUBSET Keys]
    /\ outcome \in [Sessions -> {"failed", "loaded"}]

\* Whatever loads overlap, fail half way or die, the committed rows of the five
\* tables and the route edges are those of one validated file, all under the
\* version in force: the lock on the campus row keeps whole loads apart, although
\* the version is read before it (upsert_campus_config: "every written row is
\* stamped with the new configuration_version").  It does not do so for the campus
\* row's own columns, which a load compares with what it read before the lock: the
\* name of one file may stand beside the time zone, and the rows, of another.
RowsAreOneFile ==
    \E f \in Files : Valid(f) /\ rows = RowsOf(f, version) /\ edges = EdgesOf(f, version)

\* Pruning never takes the configuration away from under a twin row, although
\* the twin's rows are written in transactions of their own.
TwinWithinConfig == \A key \in twin : rows[key] # NoRow

\* When no load is running, and every session's last load went well, every lot,
\* gate and road of the configuration has its twin row: init_campus of an earlier
\* load may have read the tables before, between and after a later one.
TwinCompleteWhenQuiet ==
    (\A s \in Sessions : pc[s] = "idle" /\ outcome[s] = "loaded")
        => \A k \in DOMAIN TwinTables : \A e \in Entities :
               rows[<<TwinTables[k], e>>] # NoRow => <<TwinTables[k], e>> \in twin

\* Every load ends, although loads wait for the campus row, for each other's
\* uncommitted twin rows and for each other's deletions.
LoadsEnd == \A s \in Sessions : (pc[s] # "idle") ~> (pc[s] = "idle")

\* upsert_campus_config's docstring: "entities removed from the file are
\* pruned".  A valid file that is loaded while no other load runs is in the
\* database when the script ends.
RemovedEntitiesArePruned ==
    [][\A s \in Sessions : outcome[s]' # "failed"]_vars
============================================================================
