---------------------------- MODULE TwinHistory ----------------------------
(***************************************************************************)
(* The digital twin with two history variables that watch init_campus: the *)
(* code reads the configuration in four SELECTs and the twin row by row,   *)
(* so what a run of it is worth depends on who committed meanwhile.        *)
(***************************************************************************)
EXTENDS TwinProperties

VARIABLES
    alone,        \* sessions in init_campus that nobody has overtaken
    mirrored      \* the last to touch the copies was such a session

historyVars == <<vars, alone, mirrored>>

\* In this step session s commits another configuration, or what its
\* init_campus made of the rows.
Overtakes(s) ==
    /\ pc'[s] # pc[s]
    /\ \/ pc'[s] = "init" /\ version' # version
       \/ pc[s] = "init" /\ rows' # rows

HistoryInit == Init /\ alone = {} /\ mirrored = FALSE

HistoryNext ==
    /\ Next
    /\ alone' = {s \in Sessions :
                    /\ pc'[s] = "init"
                    /\ pc[s] = "init" => s \in alone
                    /\ \A q \in Sessions \ {s} : ~Overtakes(q)}
    /\ mirrored' = \/ \E s \in alone : CommitInit(s)
                   \/ mirrored /\ \A s \in Sessions : ~Overtakes(s)

HistorySpec == HistoryInit /\ [][HistoryNext]_historyVars

\* An init_campus that nobody overtakes puts the twin right, whatever inits
\* that did overlap have mixed and loaders that died have left: from then on,
\* through updates, resets, forecasts and inits still under way, the twin's
\* copies of the capacities and of the version are those of the configuration
\* in force, until the next configuration or overtaken init is committed.
MirrorsConfig ==
    mirrored =>
        /\ rows[Campus] # NoRow /\ rows[Campus].config_version = version
        /\ \A l \in Lots \cap DOMAIN Config[version] :
              rows[l] # NoRow /\ rows[l].total_capacity = Config[version][l].total
============================================================================
