------------------------------ MODULE Planning -------------------------------
(***************************************************************************)
(* One call of guardmcp_context: server/tools/meta/plan_query.py over      *)
(* core/planning/ and the discovery half of core/pipeline.py.  The planner *)
(* looks the agent's collections up, describes one of them and weighs      *)
(* plans for the intent; the cross-database block describes every          *)
(* collection of every allowed database and samples the join keys; the     *)
(* last part describes the most connected collections.                     *)
(*                                                                         *)
(* The policy is read anew by every one of those lookups, and another      *)
(* version can come into force between any two of them.  A lookup that     *)
(* fails ends the call in the planner and is left out in the other parts.  *)
(*                                                                         *)
(* data is the content of the connection: for each location its fields,    *)
(* for each field its values.  The stamps of known_stamps are left out:    *)
(* they only shorten what the caller already has.                          *)
(***************************************************************************)
EXTENDS PolicyDecision, CrossDb

CONSTANTS
    Home,         \* the connection's own database
    Worlds,       \* what the connection may hold
    Target,       \* _target_of(): the name in front of "_id", or NoRef
    Unique,       \* endpoints with a unique single-field index, near-unique in the sample
    Indexed,      \* endpoints with any index
    Concept,      \* the fields one concept of _CONCEPTS may stand for
    Policies,     \* the versions a reload can put into force
    Requests,     \* [resource, mentions, concept]: argument and intent
    Costs,        \* what an estimate may say; Unknown also stands for none
    Composite,    \* values that are documents or arrays
    SampleCap,    \* SAMPLE_CAP
    TenantMin,    \* TENANT_FANIN_MIN
    TopN,         \* DEFAULT_CENTRALITY_TOP_N
    MaxReloads,   \* bound: reloads during the call
    MaxFailures   \* bound: lookups that fail

ASSUME PlanningAssumption ==
    /\ Costs \subseteq Unknown .. Critical
    /\ SampleCap \in Nat /\ TenantMin \in Nat /\ TopN \in Nat
    /\ MaxReloads \in Nat /\ MaxFailures \in Nat
    /\ \A i \in DOMAIN Locations : Locations[i][1] # NoDb
    /\ \A p \in Policies \ {NoPolicy} : NoDb \notin p.dbAllow
    /\ \A w \in Worlds :
          /\ DOMAIN w \subseteq Range(Locations)
          /\ \A l \in DOMAIN w : \A f \in DOMAIN w[l] : IsFiniteSet(w[l][f])

VARIABLES
    policy,       \* the version in force
    reloads,
    failures,
    pc,
    ask,          \* [resource, mentions, concept]
    data,
    names,        \* the collections the planner may speak of
    chosen,       \* [coll, fields]: the one it described
    graph,        \* the relationships among names: [from, field, to]
    plans,        \* plans weighed: [kind, cost, status, indexed]
    queue,        \* what the current part still has to look at
    held,         \* the description at hand: [at, fields]
    databases,    \* whose collections are still to be listed
    inventory,    \* endpoints of the cross-database block
    roles,        \* their roles
    matched,      \* edges of signals 1 and 2
    aligned,      \* edges of signal 3
    sampled,      \* endpoints whose values were read (history)
    semantics,    \* endpoints described at the end, and the names they refer to
    seen          \* the versions in force since the call began (history)

world == <<policy, reloads, seen, data, ask>>
plan  == <<names, chosen, graph, plans>>
cross == <<databases, inventory, roles, matched, aligned, sampled>>
vars  == <<world, failures, pc, plan, queue, held, cross, semantics>>

None == <<>>

\* database = None is the connection's own one.
Opened(db) == IF db = NoDb THEN Home ELSE db

Stored(db) == {l[2] : l \in {k \in DOMAIN data : k[1] = Opened(db)}}

FieldsAt(db, coll) ==
    IF coll \in Stored(db) THEN DOMAIN data[<<Opened(db), coll>>] ELSE {}

\* discover_collections().
Discovered(p, db) ==
    IF p = NoPolicy THEN {} ELSE {k \in Stored(db) : CollectionPermitted(k, ScopeFor(p, db))}

Init ==
    /\ policy \in Policies /\ reloads = 0 /\ failures = 0
    /\ seen = {policy}
    /\ data \in Worlds /\ ask \in Requests
    /\ pc = "discover"
    /\ names = {} /\ chosen = None /\ graph = {} /\ plans = {}
    /\ queue = {} /\ held = None
    /\ databases = {} /\ inventory = {} /\ roles = <<>> /\ matched = {} /\ aligned = {} /\ sampled = {}
    /\ semantics = {}

Endpoints(locs) == UNION {{<<loc, f>> : f \in DOMAIN data[loc]} : loc \in locs}

TypeOK ==
    /\ policy \in Policies \union {NoPolicy} /\ policy \in seen /\ Cardinality(seen) <= reloads + 1
    /\ names \subseteq Stored(NoDb) /\ failures \in 0 .. MaxFailures
    /\ inventory \subseteq Endpoints(DOMAIN data)
    /\ DOMAIN roles \subseteq Endpoints(DOMAIN data) /\ sampled \subseteq Endpoints(DOMAIN data)
    /\ \A e \in matched \union aligned :
          /\ {e.from, e.to} \subseteq sampled /\ e.conf \in 5000 .. 9500
          /\ e.kind \in {"value_overlap", "shared_name", "identifier_alignment"}

----------------------------------------------------------------------------
(* The planner.                                                            *)

\* A lookup fails, within the bound.
Fails == failures < MaxFailures /\ failures' = failures + 1

\* Nothing in the planner catches it: the tool answers BACKEND_ERROR.
PlanFails ==
    /\ pc \in {"discover", "describe"} /\ Fails /\ pc' = "failed"
    /\ UNCHANGED <<world, plan, queue, held, cross, semantics>>

Discover ==
    /\ pc = "discover"
    /\ names' = Discovered(policy, NoDb)
    /\ pc' = IF names' = {} THEN "databases" ELSE "describe"
    /\ UNCHANGED <<world, failures, chosen, graph, plans, queue, held, cross, semantics>>

\* The argument if authorized, else one the intent mentions, else the first
\* one listed, in the server's order.
Picked ==
    IF ask.resource \in names THEN {ask.resource}
    ELSE IF ask.mentions \intersect names # {} THEN ask.mentions \intersect names
    ELSE names

\* describe_collection() with the version now in force.  Masked fields are in
\* the schema too, with the type "masked".
DescribePicked ==
    /\ pc = "describe" /\ pc' = "graph"
    /\ \E k \in Picked :
          chosen' = [coll   |-> k,
                     fields |-> IF k \in Discovered(policy, NoDb) THEN FieldsAt(NoDb, k) ELSE {}]
    /\ UNCHANGED <<world, failures, names, graph, plans, queue, held, cross, semantics>>

\* RelationshipResolver.graph(), whose cache lives for one call, over
\* infer_relationships(): a field that names another of the collections and
\* ends in "_id" refers to it.  The plugin looks at the connection's own
\* database and masks nothing; unread are the ones it could not sample.
Inferred(colls, unread) ==
    {r \in [from : colls \ unread, field : DOMAIN Target, to : colls] :
        /\ r.field \in FieldsAt(Home, r.from) \ {DocId}
        /\ Target[r.field] # NoRef /\ r.to # r.from
        /\ r.to = Target[r.field] \/ <<Target[r.field], r.to>> \in Plural}

\* AmbiguityDetector.detect(): the fields the concept may stand for.
Interpretations == IF ask.concept THEN Concept \intersect chosen.fields ELSE {}

\* Two readings are for the caller to choose from: nothing is planned.  With
\* one the read gets a filter, and Mongo offers the pipeline form beside it.
Kinds ==
    IF Cardinality(Interpretations) >= 2 THEN {}
    ELSE IF Interpretations = {} THEN {"find"} ELSE {"find", "aggregate"}

Relate ==
    /\ pc = "graph"
    /\ \E unread \in SUBSET names :
          /\ failures + Cardinality(unread) <= MaxFailures
          /\ failures' = failures + Cardinality(unread)
          /\ graph' = Inferred(names, unread)
    /\ queue' = Kinds /\ pc' = IF Kinds = {} THEN "databases" ELSE "plans"
    /\ UNCHANGED <<world, names, chosen, plans, held, cross, semantics>>

\* The request of a plan, as the guard evaluates it: no database is named.
Planned(kind) ==
    [coll |-> chosen.coll, action |-> kind, db |-> NoDb, unscoped |-> FALSE,
     refs |-> {}, uses |-> IF kind = "aggregate" THEN Interpretations ELSE {}]

\* An estimate, and the decision of the version in force after it.  A failed
\* index lookup only costs the plan its index.
Weigh(kind) ==
    /\ pc = "plans" /\ kind \in queue
    /\ kind = "find" \/ "find" \notin queue
    /\ \E cost \in Costs, used \in BOOLEAN :
          /\ used => kind = "find" /\ \E f \in Interpretations : <<<<Home, chosen.coll>>, f>> \in Indexed
          /\ plans' = plans \union
                {[kind |-> kind, cost |-> cost, indexed |-> used,
                  status |-> Evaluate(policy, Planned(kind), 0).status]}
    /\ queue' = queue \ {kind}
    /\ pc' = IF queue' = {} THEN "databases" ELSE pc
    /\ UNCHANGED <<world, failures, names, chosen, graph, held, cross, semantics>>

\* RecommendationEngine.rank(): governance, then cost, then index, then the
\* order they were made in.
Score(pl) ==
    LET gov == IF pl.status = "denied" THEN 2 ELSE IF pl.status = "allowed" THEN 0 ELSE 1
        cost == IF pl.cost = Unknown THEN 2 ELSE pl.cost - Low
    IN  1000 * gov + 100 * cost + (IF pl.indexed THEN 0 ELSE 10) + (IF pl.kind = "find" THEN 0 ELSE 1)

Recommended ==
    {pl \in plans : pl.status # "denied" /\ \A other \in plans : Score(pl) <= Score(other)}

----------------------------------------------------------------------------
(* Descriptions in the two other parts.                                    *)

\* One fixed element at a time: the code sorts, and the order changes nothing.
One(S) == CHOOSE x \in S : TRUE

\* The unmasked fields of the schema, with the version now in force.
Visible(p, db, coll) ==
    IF coll \in Discovered(p, db) THEN FieldsAt(db, coll) \ MaskFieldsFor(p, coll, db) ELSE {}

\* Mutant: what the schema lists, masked or not.
Described_All(p, x) == IF x[2] \in Discovered(p, x[1]) THEN FieldsAt(x[1], x[2]) ELSE {}

Described(p, x) == Visible(p, x[1], x[2])

Describe ==
    /\ pc \in {"cross", "semantics"} /\ held = None /\ queue # {}
    /\ LET x == One(queue) IN
       /\ queue' = queue \ {x}
       /\ \/ held' = [at |-> x, fields |-> Described(policy, x)] /\ UNCHANGED failures
          \/ Fails /\ UNCHANGED held
    /\ UNCHANGED <<world, pc, plan, cross, semantics>>

\* FieldSemanticsAnalyzer.analyze(): what is known of a field, from the edges
\* among the collections colls and the unique fields.
RoleOf(x, f, colls, unique) ==
    LET edges == Inferred(colls, {})
        own   == {r \in edges : r.from = x[2] /\ r.field = f}
        fanIn == {r.from : r \in {s \in edges : s.field = f}}
        role(name) == [role |-> name, refs |-> IF own = {} THEN NoRef ELSE One(own).to]
    IN  IF f = DocId THEN [role |-> "primary_identifier", refs |-> NoRef]
        ELSE IF own # {} THEN role(IF Cardinality(fanIn) >= TenantMin THEN "tenant_key" ELSE "foreign_identifier")
        ELSE role(IF <<<<Opened(x[1]), x[2]>>, f>> \in unique THEN "primary_identifier" ELSE "none")

\* _field_semantics() reads the policy again for the collections a field may
\* refer to.  If the plugin fails the roles are made without references, if the
\* indexes or the samples cannot be read without unique fields.
Characterize ==
    /\ held # None /\ held' = None
    /\ \E colls \in {Discovered(policy, held.at[1]), {}}, unique \in {Unique, {}} :
          LET found == [y \in {<<held.at, f>> : f \in held.fields} |-> RoleOf(held.at, y[2], colls, unique)] IN
          /\ IF colls = Discovered(policy, held.at[1]) /\ unique = Unique THEN UNCHANGED failures ELSE Fails
          /\ IF pc = "cross"
             THEN /\ inventory' = inventory \union DOMAIN found
                  /\ roles' = [y \in DOMAIN found \union DOMAIN roles |->
                                  IF y \in DOMAIN found THEN found[y] ELSE roles[y]]
                  /\ UNCHANGED semantics
             ELSE /\ semantics' = semantics \union
                       {[at |-> y[1], field |-> y[2], refs |-> found[y].refs] : y \in DOMAIN found}
                  /\ UNCHANGED <<inventory, roles>>
    /\ UNCHANGED <<world, pc, plan, queue, databases, matched, aligned, sampled>>

----------------------------------------------------------------------------
(* The cross-database block.                                               *)

\* _cross_db_block() spans the databases the version now in force lists.
OpenBlock ==
    /\ pc = "databases" /\ pc' = "cross"
    /\ databases' = IF policy = NoPolicy THEN {} ELSE policy.dbAllow
    /\ queue' = {}
    /\ UNCHANGED <<world, failures, plan, held, inventory, roles, matched, aligned, sampled, semantics>>

\* Discovery in the next of them, once the last one's collections are described.
List ==
    /\ pc = "cross" /\ queue = {} /\ held = None /\ databases # {}
    /\ LET d == One(databases) IN
       /\ databases' = databases \ {d}
       /\ \/ queue' = {<<d, k>> : k \in Discovered(policy, d)} /\ UNCHANGED failures
          \/ Fails /\ UNCHANGED queue
    /\ UNCHANGED <<world, pc, plan, held, inventory, roles, matched, aligned, sampled, semantics>>

\* The loops end: the next part starts with what the last one left.
BeginMatching ==
    /\ pc = "cross" /\ databases = {} /\ queue = {} /\ held = None /\ pc' = "match"
    /\ queue' = Candidates(inventory)
    /\ UNCHANGED <<world, failures, plan, held, cross, semantics>>

\* sample_field_values(): the different values of the first SampleCap documents.
Samples(x) ==
    LET values == data[x[1]][x[2]] IN
    {v \in SUBSET values : Cardinality(v) <= SampleCap /\ (v = {} => values = {} \/ SampleCap = 0)}

\* Both endpoints of a candidate are sampled, no policy asked; a sample that
\* fails is empty.
Sample(edges, edges_) ==
    LET c == One(queue)
        edgeOf(va, vb) == IF pc = "match" THEN MatchEdge(c, va, vb) ELSE AlignEdge(c, va, vb)
    IN
    /\ queue # {} /\ queue' = queue \ {c}
    /\ sampled' = sampled \union {c[1], c[2]}
    /\ \/ /\ \E va \in Samples(c[1]), vb \in Samples(c[2]) :
                /\ (va \union vb) \intersect Composite = {}
                /\ edges_ = edges \union {edgeOf(va, vb)}
          /\ UNCHANGED failures
       \/ Fails /\ edges_ = edges \union {edgeOf({}, {})}
    /\ UNCHANGED <<world, pc, plan, held, databases, inventory, roles, semantics>>

\* set() of a document or an array raises, outside the sampler's try: the
\* whole block answers with empty lists.
Unhashable ==
    /\ pc \in {"match", "align"} /\ queue # {} /\ pc' = "unhashable"
    /\ LET c == One(queue) IN
       /\ sampled' = sampled \union {c[1], c[2]}
       /\ \E va \in Samples(c[1]), vb \in Samples(c[2]) : (va \union vb) \intersect Composite # {}
    /\ queue' = {} /\ matched' = {} /\ aligned' = {}
    /\ UNCHANGED <<world, failures, plan, held, databases, inventory, roles, semantics>>

Match == pc = "match" /\ Sample(matched, matched') /\ UNCHANGED aligned

BeginAligning ==
    /\ pc = "match" /\ queue = {} /\ pc' = "align"
    /\ queue' = AlignCandidates(roles)
    /\ UNCHANGED <<world, failures, plan, held, cross, semantics>>

Align == pc = "align" /\ Sample(aligned, aligned') /\ UNCHANGED matched

\* What the block answers.
CrossEdges == Merge({Boost(roles, e) : e \in matched}, aligned)

CrossPaths == Chains(CrossEdges)

----------------------------------------------------------------------------
(* Semantics of the most connected collections.                            *)

Degree(k) == Cardinality({r \in graph : r.from = k}) + Cardinality({r \in graph : r.to = k})

\* rank_by_centrality(): any choice among equals stands for the order of names.
MostConnected ==
    {S \in kSubset(Min({TopN, Cardinality(names)}), names) :
        \A k \in S, other \in names \ S : Degree(k) >= Degree(other)}

CloseBlock ==
    /\ pc \in {"align", "unhashable"} /\ queue = {} /\ pc' = "semantics"
    /\ \E S \in MostConnected : queue' = {<<NoDb, k>> : k \in S}
    /\ UNCHANGED <<world, failures, plan, held, cross, semantics>>

Reply ==
    /\ pc = "semantics" /\ queue = {} /\ held = None /\ pc' = "done"
    /\ UNCHANGED <<world, failures, plan, queue, held, cross, semantics>>

\* The watcher puts another version, or none, into force.
Reload(p) ==
    /\ pc \notin {"done", "failed"}
    /\ reloads < MaxReloads /\ reloads' = reloads + 1
    /\ p # policy /\ policy' = p /\ seen' = seen \union {p}
    /\ UNCHANGED <<data, ask, failures, pc, plan, queue, held, cross, semantics>>

Next ==
    \/ PlanFails
    \/ Discover
    \/ DescribePicked
    \/ Relate
    \/ \E kind \in {"find", "aggregate"} : Weigh(kind)
    \/ OpenBlock
    \/ List
    \/ Describe
    \/ Characterize
    \/ BeginMatching
    \/ Match
    \/ BeginAligning
    \/ Align
    \/ Unhashable
    \/ CloseBlock
    \/ Reply
    \/ \E p \in Policies \union {NoPolicy} : Reload(p)

Spec == Init /\ [][Next]_vars

----------------------------------------------------------------------------
(* Properties.                                                             *)

Governed(p, db, coll, f) ==
    /\ p # NoPolicy /\ CollectionPermitted(coll, ScopeFor(p, db))
    /\ f \notin MaskFieldsFor(p, coll, db)

\* docs/PROJECT_SSOT.md:713: "masked fields never sampled".  However versions
\* come and go between the lookups, an endpoint is sampled only if one version
\* in force during the call both permitted its collection and left the field
\* unmasked, and one listed its database.  Descriptions, relationships and the
\* recommended plan are held to the same.
ContextIsGoverned ==
    /\ \A x \in sampled :
          /\ \E p \in seen : Governed(p, x[1][1], x[1][2], x[2])
          /\ \E p \in seen : p # NoPolicy /\ x[1][1] \in p.dbAllow
    /\ \A s \in semantics :
          /\ \E p \in seen : Governed(p, s.at[1], s.at[2], s.field)
          /\ s.refs # NoRef => \E p \in seen : s.refs \in Discovered(p, s.at[1])
    /\ \A r \in graph : \E p \in seen : {r.from, r.to} \subseteq Discovered(p, NoDb)
    /\ \A pl \in Recommended : \E p \in seen : Evaluate(p, Planned(pl.kind), 0).status = pl.status

Ends(e) == {e.from, e.to}

\* A call nothing disturbed.
Undisturbed == reloads = 0 /\ failures = 0

Answered == pc = "align" /\ queue = {}

\* The endpoints an agent may join on.
Joinable ==
    IF policy = NoPolicy THEN {}
    ELSE UNION {UNION {{<<<<d, k>>, f>> : f \in Visible(policy, d, k)} : k \in Stored(d)} : d \in policy.dbAllow}

RoleAt(x) == RoleOf(x[1], x[2], Discovered(policy, x[1][1]), Unique)

\* One id-shaped name.
SharesName(x, y) == x[2] = y[2] /\ x[2] \in IdShaped

\* x refers to the collection of y, and y identifies its documents: by "_id",
\* if the agent sees that one, else by some unique field.
RefersTo(x, y) ==
    /\ RoleAt(x).role = "foreign_identifier" /\ MatchesResource(RoleAt(x).refs, y[1][2])
    /\ RoleAt(y).role = "primary_identifier"
    /\ y[2] # DocId => <<y[1], DocId>> \notin Joinable

\* An edge joins what an agent may join, in different databases, for a name or
\* a reference; a reference is marked as one.
Justified(e) ==
    /\ Ends(e) \subseteq Joinable /\ e.from[1][1] # e.to[1][1]
    /\ SharesName(e.from, e.to) \/ RefersTo(e.from, e.to)
    /\ (RefersTo(e.from, e.to) \/ RefersTo(e.to, e.from)) => e.kind = "identifier_alignment"

\* The reference of x is told, to one of the fields that identify the
\* collection of y.
ReferenceTold(x, y) ==
    \E e \in CrossEdges, z \in Joinable :
        /\ z[1] = y[1] /\ RefersTo(x, z) /\ Ends(e) = {x, z}
        /\ e.kind = "identifier_alignment" /\ e.conf >= 7500

\* cross_db.py:24, :115 and :178-179: each pair of endpoints is told once, under
\* the stronger of its signals.  In a call nothing disturbs, every edge told is
\* justified and none is left out: every two endpoints of one id-shaped name in
\* different databases are told, and every reference across databases.
PairsToldOnce ==
    Answered =>
        /\ \A e, f \in CrossEdges : Ends(e) = Ends(f) => e = f
        /\ Undisturbed =>
              /\ \A e \in CrossEdges : Justified(e)
              /\ \A x, y \in Joinable : x[1][1] # y[1][1] =>
                    /\ SharesName(x, y) => \E e \in CrossEdges : Ends(e) = {x, y}
                    /\ RefersTo(x, y) => ReferenceTold(x, y)

\* The locations an edge joins.
Passes(e) == {e.from[1], e.to[1]}

\* Whether the edges of S, in some order, lead through Cardinality(S) + 1
\* different locations.
IsChain(S) ==
    LET nodes == UNION {Passes(e) : e \in S}
    IN  /\ IsFiniteSet(S) /\ Cardinality(nodes) = Cardinality(S) + 1
        /\ \A n \in nodes : Cardinality({e \in S : n \in Passes(e)}) <= 2
        /\ \A T \in (SUBSET S) \ {{}, S} : \E e \in T, f \in S \ T : Passes(e) \intersect Passes(f) # {}

\* cross_db.py:219-223: the paths are exactly the chains of two to MaxHops join
\* keys that visit no collection twice, each told once and as strong as its
\* weakest link.
PathsAreTheChains ==
    Answered =>
        LET paths == CrossPaths IN
        /\ {p.edges : p \in paths} =
              {S \in SUBSET CrossEdges : Cardinality(S) \in 2 .. MaxHops /\ IsChain(S)}
        /\ \A p, q \in paths : p.edges = q.edges => p = q
        /\ \A p \in paths : \E e \in p.edges : p.conf = e.conf /\ \A f \in p.edges : e.conf <= f.conf

\* docs/PROJECT_SSOT.md:713: masked fields "can't be relationship/alignment
\* endpoints".  Said of a call during which no other version came into force.
MaskedIsNoEndpoint ==
    Undisturbed => \A r \in graph : r.field \notin MaskFieldsFor(policy, r.from, NoDb)

\* tests/integration/test_planning_security.py:77: a masked field "must not
\* appear as an ambiguity interpretation".
MaskedIsNoInterpretation ==
    Undisturbed /\ pc = "graph" =>
        Interpretations \intersect MaskFieldsFor(policy, chosen.coll, NoDb) = {}

=============================================================================
