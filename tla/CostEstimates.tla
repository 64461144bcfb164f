---------------------------- MODULE CostEstimates ----------------------------
(***************************************************************************)
(* What a backend's plan of a query is estimated to cost: the shared       *)
(* classification of core/interfaces/cost.py and the three readings of a   *)
(* plan before it, plugins/mongodb/cost.py and plugins/sql/cost.py.        *)
(*                                                                         *)
(* A plan is a record                                                      *)
(*   stages    its operators from the top down, the access to the data last *)
(*   examined  the documents or rows it reads                              *)
(*   returned  the documents or rows it hands out                          *)
(* and access is "scan" or "index".  What is above it is "wrapper", such as *)
(* a sort the normalizers know of, or "other".                             *)
(***************************************************************************)
EXTENDS PolicyDecision, Sequences

Backends == {"mongodb", "postgres", "mysql"}

NoDocs == -1

LowDocs == 1000
HighDocs == 10000
CriticalDocs == 1000000

\* classify_cost(): a scan is at least HIGH, the rest goes by volume.
ClassifyCost(docs, scan, index) ==
    IF docs >= CriticalDocs THEN Critical
    ELSE IF scan \/ docs >= HighDocs THEN High
    ELSE IF docs >= LowDocs THEN Medium
    ELSE IF docs # NoDocs \/ index THEN Low ELSE Unknown

\* The accesses each reader sees: MongoDB's follows inputStage to the end,
\* PostgreSQL's looks at the top node, MySQL's goes through known wrappers.
Accesses(backend, plan) ==
    CASE backend = "mongodb"  -> {plan.stages[i] : i \in DOMAIN plan.stages}
      [] backend = "postgres" -> {plan.stages[1]}
      [] backend = "mysql"    ->
            IF \A i \in 1 .. Len(plan.stages) - 1 : plan.stages[i] = "wrapper"
            THEN {plan.stages[Len(plan.stages)]} ELSE {"none"}

\* The volume: what the server examined, or what PostgreSQL's top node returns.
\* Without a table node MySQL's plan says nothing.
Volume(backend, plan) ==
    IF backend = "postgres" THEN plan.returned
    ELSE IF Accesses(backend, plan) = {"none"} THEN NoDocs ELSE plan.examined

\* An estimate of a find, of a pipeline, or of the read a mutation starts with.
\* The SQL plugins explain no pipeline.
Estimate(backend, action, plan) ==
    LET seen == Accesses(backend, plan) IN
    IF backend # "mongodb" /\ action \in {"aggregate", "aggregate_db"} THEN Unknown
    ELSE ClassifyCost(Volume(backend, plan), "scan" \in seen, "index" \in seen)

=============================================================================
