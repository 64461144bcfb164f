--------------------------- MODULE PolicyDecision ---------------------------
(***************************************************************************)
(* What one request is told under one policy: the policy record with its   *)
(* per-database scopes (core/policy/models.py), the gates GuardPipeline    *)
(* .evaluate() applies before the engine, the engine's rules               *)
(* (core/policy/engine.py), the risk ladder (core/risk/engine.py) and the  *)
(* cost escalation of run().  Everything here is a pure operator: the code *)
(* decides without awaiting, so one step of a caller is one decision.      *)
(*                                                                         *)
(* A request is a record                                                   *)
(*   coll      the collection it names                                     *)
(*   action    one of Actions                                              *)
(*   db        the target database, or NoDb for the connection's default   *)
(*   unscoped  its filter is empty or missing                              *)
(*   refs      the collections its aggregation pipeline refers to          *)
(*   uses      the field paths its aggregation pipeline refers to          *)
(* and a policy one with window, mode, flat, dbAllow, blocks, default,     *)
(* actAllow, actDeny, high, critical and maxCost.  A scope is a record of  *)
(* allow, deny and mask, the last a set of <<bucket, field>>: a flat list  *)
(* of fields is the bucket Star.                                            *)
(***************************************************************************)
EXTENDS Integers

CONSTANTS
    NoPolicy,     \* PolicyLoader.get() found none for the agent
    NoDb,         \* database = None
    NoScope,      \* default_database_scope = None
    Star           \* the "*" of allow lists and mask buckets

Low == 1
Medium == 2
High == 3
Critical == 4

\* CostLevel.UNKNOWN, and a policy without max_cost.
Unknown == 0
NoMaxCost == -1

NoRisk == 0

LowActions ==
    {"find", "count", "explain", "collection_schema", "collection_indexes",
     "list_databases", "db_stats", "collection_storage_size", "mongodb_logs"}

MediumActions == {"insert_one", "insert_many", "create_index", "create_collection"}

HighActions ==
    {"aggregate", "aggregate_db", "update_one", "update_many", "delete_one",
     "drop_index", "rename_collection"}

CriticalActions == {"delete_many", "drop"}

Actions == LowActions \union MediumActions \union HighActions \union CriticalActions

WriteActions ==
    {"insert_one", "insert_many", "update_one", "update_many", "delete_one",
     "delete_many", "drop", "create_index", "drop_index", "create_collection",
     "rename_collection"}

DbLevelActions == {"list_databases", "db_stats", "mongodb_logs", "aggregate_db"}

\* _SCOPE_SENSITIVE, and with the same members _SCAN_LIKE_ACTIONS.
ScopeSensitive == {"update_one", "update_many", "delete_one", "delete_many"}

Statuses == {"allowed", "approval_required", "denied"}

----------------------------------------------------------------------------
(* The policy record.                                                      *)

\* Deny wins, then "*", then membership; an empty allow list permits nothing.
CollectionPermitted(name, s) ==
    name \notin s.deny /\ (Star \in s.allow \/ name \in s.allow)

\* The databases_allow gate; no list and no database are no restriction.
DatabasePermitted(p, db) ==
    db = NoDb \/ p.dbAllow = {} \/ db \in p.dbAllow

\* The block that governs db: its own, else "default", else none.
BlockFor(p, db) ==
    IF db = NoDb THEN NoScope
    ELSE IF db \in DOMAIN p.blocks THEN p.blocks[db] ELSE p.default

\* Mutant: a block without an allow list takes its collections from the flat
\* scope, whatever it denies.
ScopeFor_AllowOnly(p, db) ==
    LET b == BlockFor(p, db) IN
    IF b = NoScope THEN p.flat
    ELSE [allow |-> IF b.allow # {} THEN b.allow ELSE p.flat.allow,
          deny  |-> IF b.allow # {} THEN b.deny ELSE p.flat.deny,
          mask  |-> IF b.mask # {} THEN b.mask ELSE p.flat.mask]

\* A block replaces the flat collections when it names any, and the flat mask
\* when it masks anything.
ScopeFor(p, db) ==
    LET b == BlockFor(p, db)
        own == b.allow # {} \/ b.deny # {}
    IN  IF b = NoScope THEN p.flat
        ELSE [allow |-> IF own THEN b.allow ELSE p.flat.allow,
              deny  |-> IF own THEN b.deny ELSE p.flat.deny,
              mask  |-> IF b.mask # {} THEN b.mask ELSE p.flat.mask]

\* Mutant: the collection's own bucket replaces the "*" bucket.
MaskFieldsFor_OwnOnly(p, coll, db) ==
    LET m == ScopeFor(p, db).mask
        own == {x \in m : x[1] = coll}
    IN  {x[2] : x \in IF own # {} THEN own ELSE {y \in m : y[1] = Star}}

\* Bucket "*" together with the collection's own bucket.
MaskFieldsFor(p, coll, db) ==
    {m[2] : m \in {x \in ScopeFor(p, db).mask : x[1] \in {Star, coll}}}

----------------------------------------------------------------------------
(* Risk.                                                                   *)

BaseRisk(action) ==
    IF action \in LowActions THEN Low
    ELSE IF action \in MediumActions THEN Medium
    ELSE IF action \in HighActions THEN High ELSE Critical

\* A mutation with an empty filter reaches the whole collection: CRITICAL.
Classify(req) ==
    IF req.action \in ScopeSensitive /\ req.unscoped THEN Critical
    ELSE BaseRisk(req.action)

\* max(base, floor of the cost); costs below HIGH and UNKNOWN have no floor.
EscalateRisk(base, cost) ==
    IF cost \in {High, Critical} /\ cost > base THEN cost ELSE base

----------------------------------------------------------------------------
(* The decision.                                                           *)

InWindow(p, now) == p.window[1] <= now /\ now <= p.window[2]

\* C1 and C2: every collection the pipeline joins is permitted, and it touches
\* no masked field, whose value could come back under another name.
PipelinePermitted(p, req) ==
    /\ \A ref \in req.refs : CollectionPermitted(ref, ScopeFor(p, req.db))
    /\ req.uses \intersect MaskFieldsFor(p, req.coll, req.db) = {}

\* Rules 1 to 5 of the engine.
Forbidden(p, req) ==
    \/ p.mode = "readonly" /\ req.action \in WriteActions
    \/ /\ req.action \notin DbLevelActions
       /\ ~CollectionPermitted(req.coll, ScopeFor(p, req.db))
    \/ req.action \in p.actDeny
    \/ p.actAllow # {} /\ req.action \notin p.actAllow

\* Rule 6: each flag gates exactly its own level.
NeedsApproval(p, risk) ==
    (risk = Critical /\ p.critical) \/ (risk = High /\ p.high)

\* PolicyEngine.evaluate().
EngineDecision(p, req, risk) ==
    [risk   |-> risk,
     status |-> IF Forbidden(p, req) THEN "denied"
                ELSE IF NeedsApproval(p, risk) THEN "approval_required"
                ELSE "allowed"]

\* GuardPipeline.evaluate(): the gates, then the engine at the classified risk.
Evaluate(p, req, now) ==
    IF \/ p = NoPolicy
       \/ ~InWindow(p, now)
       \/ ~DatabasePermitted(p, req.db)
       \/ ~PipelinePermitted(p, req)
    THEN [risk |-> NoRisk, status |-> "denied"]
    ELSE EngineDecision(p, req, Classify(req))

\* run() asks the backend for an estimate before it acts on this decision.
Estimated(p, req, d) ==
    /\ p # NoPolicy
    /\ p.maxCost # NoMaxCost
    /\ d.status # "denied"
    /\ req.action \in {"find", "aggregate", "aggregate_db"} \union ScopeSensitive

\* max_cost: UNKNOWN validates, but has no entry in _COST_ORDER: a KeyError.
CostRaises(p, cost) == cost # Unknown /\ p.maxCost = Unknown

\* Mutant: only an escalation to HIGH is held against the approval flags.
EscalateForCost_HighOnly(p, d, cost) ==
    LET risk == EscalateRisk(d.risk, cost) IN
    IF cost = Unknown \/ cost < p.maxCost THEN d
    ELSE [risk   |-> risk,
          status |-> IF risk # d.risk /\ risk = High /\ p.high
                     THEN "approval_required" ELSE d.status]

\* The decision after an estimate of this cost.
EscalateForCost(p, d, cost) ==
    LET risk == EscalateRisk(d.risk, cost) IN
    IF cost = Unknown \/ cost < p.maxCost THEN d
    ELSE [risk   |-> risk,
          status |-> IF risk # d.risk /\ d.status = "allowed" /\ NeedsApproval(p, risk)
                     THEN "approval_required" ELSE d.status]

=============================================================================
