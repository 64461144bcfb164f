---------------------------- MODULE PlanningProofs ----------------------------
(***************************************************************************)
(* What one call of guardmcp_context samples, describes, relates and       *)
(* recommends was permitted when it was looked up, for any contents,       *)
(* policies, requests, failures and reloads.  The argument follows an      *)
(* endpoint through the queues: it enters only as an unmasked field of a   *)
(* collection a version permitted, in a database a version listed, and the *)
(* versions a call has seen only grow.                                     *)
(*                                                                         *)
(* And the join keys it tells are told once each, and in a call nothing    *)
(* disturbs they are exactly the ones the policy shows: an edge is made of *)
(* each pair that leaves a queue, no pair stands in a queue twice or the   *)
(* other way round, and the inventory grows by what leaves the queues of   *)
(* databases and of locations.                                             *)
(*                                                                         *)
(* And its paths are the chains of those join keys.  The edges of a walk   *)
(* are a chain.  The other way, the longest walk along the edges of a      *)
(* chain uses all of them: its inner locations have their two edges, so an *)
(* edge left over that touches the walk touches it at an end, and leads to *)
(* a location it has not visited, for a cycle has as many edges as         *)
(* locations and none of them free.  And two walks over the same edges     *)
(* that start at the same location are the same walk, so the search tells  *)
(* none twice.                                                             *)
(***************************************************************************)
EXTENDS Planning, TLAPS, FiniteSetTheorems, SequenceTheorems, WellFoundedInduction

\* A version in force during the call listed database d.
Listed(d) == \E p \in seen : p # NoPolicy /\ d \in p.dbAllow

\* A version in force during the call showed endpoint x.
Open(x) == \E p \in seen : Governed(p, x[1][1], x[1][2], x[2])

JoinKey(x) == Open(x) /\ Listed(x[1][1]) /\ x = <<x[1], x[2]>>

PlanInv ==
    /\ policy \in seen
    /\ \E p \in seen : names \subseteq Discovered(p, NoDb)
    /\ \A r \in graph : r.from \in names /\ r.to \in names
    /\ pc \in {"discover", "describe"} => graph = {} /\ plans = {}
    /\ \A pl \in plans : \E p \in seen : Evaluate(p, Planned(pl.kind), 0).status = pl.status

\* The parts of a call before the cross-database block.
Before == {"discover", "describe", "graph", "plans", "databases"}

\* What stands in the queue depends on the part of the call.
QueueInv ==
    /\ pc \in Before => inventory = {}
    /\ pc = "cross" =>
          /\ \A d \in databases : Listed(d)
          /\ \A l \in queue : Listed(l[1])
          /\ held # None => Listed(held.at[1])
    /\ pc \in {"match", "align"} => \A c \in queue : JoinKey(c[1]) /\ JoinKey(c[2])

HeldInv == held # None => pc \in {"cross", "semantics"} /\ \A f \in held.fields : Open(<<held.at, f>>)

KeysInv ==
    /\ \A x \in inventory : JoinKey(x)
    /\ \A x \in DOMAIN roles : JoinKey(x)
    /\ \A x \in sampled : JoinKey(x)

SemanticsInv ==
    \A s \in semantics :
        /\ \E p \in seen : Governed(p, s.at[1], s.at[2], s.field)
        /\ s.refs # NoRef => \E p \in seen : s.refs \in Discovered(p, s.at[1])

CrossInv == QueueInv /\ HeldInv /\ KeysInv /\ SemanticsInv

----------------------------------------------------------------------------
(* Facts about the operators.                                              *)

LEMMA OneIsMember == ASSUME NEW S, S # {} PROVE One(S) \in S
  BY DEF One

\* A visible field is one the version permits.
LEMMA VisibleIsGoverned ==
  ASSUME NEW p, NEW db, NEW coll, NEW f \in Visible(p, db, coll)
  PROVE  Governed(p, db, coll, f)
  BY DEF Visible, Discovered, Governed

LEMMA InferredIsAmong ==
  ASSUME NEW colls, NEW unread, NEW r \in Inferred(colls, unread)
  PROVE  r.from \in colls /\ r.to \in colls
  BY DEF Inferred

\* A role refers to nothing, or to one of the collections it was made from.
LEMMA RoleRefersAmong ==
  ASSUME NEW x, NEW f, NEW colls, NEW unique
  PROVE  RoleOf(x, f, colls, unique).refs \in {NoRef} \union colls
  <1> DEFINE own == {r \in Inferred(colls, {}) : r.from = x[2] /\ r.field = f}
  <1>1. RoleOf(x, f, colls, unique).refs \in {NoRef, IF own = {} THEN NoRef ELSE One(own).to}
    BY DEF RoleOf
  <1>2. ASSUME own # {} PROVE One(own).to \in colls
    <2>1. One(own) \in own
      BY <1>2, OneIsMember
    <2>2. One(own) \in Inferred(colls, {})
      BY <2>1
    <2> HIDE DEF own
    <2> QED BY <2>2, InferredIsAmong
  <1> QED BY <1>1, <1>2

LEMMA CandidatesAreKeys ==
  ASSUME NEW S, NEW c \in Candidates(S)
  PROVE  c[1] \in S /\ c[2] \in S
  BY DEF Candidates

\* The endpoints to be aligned have roles.
LEMMA AlignedHaveRoles ==
  ASSUME NEW R, \A x \in DOMAIN R : x = <<x[1], x[2]>>,
         NEW c \in AlignCandidates(R)
  PROVE  c[1] \in DOMAIN R /\ c[2] \in DOMAIN R
  <1>1. PICK x \in DOMAIN R, loc \in {y[1] : y \in DOMAIN R} :
          c = <<x, <<loc, PrimaryField(R, loc)>>>> /\ Primaries(R, loc) # {}
    BY DEF AlignCandidates
  <1>2. PrimaryField(R, loc) \in Primaries(R, loc)
    BY <1>1 DEF PrimaryField
  <1>3. PICK y \in DOMAIN R : y[1] = loc /\ y[2] = PrimaryField(R, loc)
    BY <1>2 DEF Primaries
  <1> QED BY <1>1, <1>3

----------------------------------------------------------------------------
(* What leaves a part of the call alone.                                   *)

LEMMA WorldStands ==
  ASSUME data' = data, seen \subseteq seen'
  PROVE  /\ \A p, db : Discovered(p, db)' = Discovered(p, db)
         /\ \A d : Listed(d) => Listed(d)'
         /\ \A x : Open(x) => Open(x)'
         /\ \A x : JoinKey(x) => JoinKey(x)'
  <1>1. \A p, db : Discovered(p, db)' = Discovered(p, db)
    BY DEF Discovered, Stored
  <1>2. \A d : Listed(d) => Listed(d)'
    BY DEF Listed
  <1>3. \A x : Open(x) => Open(x)'
    BY DEF Open, Governed
  <1>4. \A x : JoinKey(x) => JoinKey(x)'
    BY <1>2, <1>3 DEF JoinKey
  <1> QED BY <1>1, <1>2, <1>3, <1>4

LEMMA PlanStands ==
  ASSUME PlanInv, data' = data, ask' = ask, seen \subseteq seen', policy' \in seen',
         UNCHANGED plan, pc' = pc \/ pc' \notin {"discover", "describe"}
  PROVE  PlanInv'
  <1>1. \A p, db : Discovered(p, db)' = Discovered(p, db)
    BY WorldStands
  <1>2. \A kind : Planned(kind)' = Planned(kind)
    BY DEF plan, Planned, Interpretations
  <1>3. UNCHANGED <<names, graph, plans>>
    BY DEF plan
  <1>4. (\E p \in seen : names \subseteq Discovered(p, NoDb))'
    BY <1>1, <1>3 DEF PlanInv
  <1>5. (\A pl \in plans : \E p \in seen : Evaluate(p, Planned(pl.kind), 0).status = pl.status)'
    BY <1>2, <1>3 DEF PlanInv
  <1> QED BY <1>3, <1>4, <1>5 DEF PlanInv

LEMMA SemanticsStand ==
  ASSUME SemanticsInv, data' = data, seen \subseteq seen', UNCHANGED semantics
  PROVE  SemanticsInv'
  <1>1. \A p, db : Discovered(p, db)' = Discovered(p, db)
    BY WorldStands
  <1> QED BY <1>1 DEF SemanticsInv, Governed

LEMMA KeysStand ==
  ASSUME KeysInv, data' = data, seen \subseteq seen', UNCHANGED <<inventory, roles, sampled>>
  PROVE  KeysInv'
  BY WorldStands DEF KeysInv

\* Outside the cross-database block the queue carries no promise.
LEMMA QuietStands ==
  ASSUME CrossInv, data' = data, seen \subseteq seen', UNCHANGED <<cross, semantics>>,
         held = None, held' = None,
         pc \notin {"cross", "match", "align"}, pc' \notin {"cross", "match", "align"},
         pc \in Before \/ pc' \notin Before
  PROVE  CrossInv'
  <1>1. UNCHANGED <<inventory, roles, sampled>>
    BY DEF cross
  <1>2. KeysInv' /\ SemanticsInv'
    BY <1>1, KeysStand, SemanticsStand DEF CrossInv
  <1> QED BY <1>1, <1>2 DEF Before, CrossInv, QueueInv, HeldInv

----------------------------------------------------------------------------
(* The planner.                                                            *)

LEMMA InitInv == Init => PlanInv /\ CrossInv
  <1> SUFFICES ASSUME Init PROVE PlanInv /\ CrossInv
    OBVIOUS
  <1>1. PlanInv
    BY DEF Init, PlanInv
  <1>2. DOMAIN roles = {}
    BY DEF Init
  <1>3. CrossInv
    BY <1>2 DEF Init, Before, CrossInv, QueueInv, HeldInv, KeysInv, SemanticsInv
  <1> QED BY <1>1, <1>3

LEMMA DiscoverKeeps ==
  ASSUME PlanInv, CrossInv, Discover
  PROVE  PlanInv' /\ CrossInv'
  <1>1. /\ pc = "discover" /\ pc' \in {"databases", "describe"}
        /\ names' = Discovered(policy, NoDb) /\ data' = data /\ seen' = seen /\ policy' = policy
        /\ UNCHANGED <<graph, plans, held, cross, semantics>>
    BY DEF Discover, world
  <1>2. names' = Discovered(policy, NoDb)'
    BY <1>1 DEF Discovered, Stored
  <1>3. PlanInv'
    BY <1>1, <1>2 DEF PlanInv
  <1>4. held = None
    BY <1>1 DEF CrossInv, HeldInv
  <1> QED BY <1>1, <1>3, <1>4, QuietStands DEF Before

\* One description; there is neither a plan nor a relationship yet.
LEMMA DescribePickedKeeps ==
  ASSUME PlanInv, CrossInv, DescribePicked
  PROVE  PlanInv' /\ CrossInv'
  <1>1. /\ pc = "describe" /\ pc' = "graph" /\ data' = data /\ seen' = seen /\ policy' = policy
        /\ UNCHANGED <<names, graph, plans, held, cross, semantics>>
    BY DEF DescribePicked, world
  <1>2. \A p, db : Discovered(p, db)' = Discovered(p, db)
    BY <1>1, WorldStands
  <1>3. PlanInv'
    BY <1>1, <1>2 DEF PlanInv
  <1>4. held = None
    BY <1>1 DEF CrossInv, HeldInv
  <1> QED BY <1>1, <1>3, <1>4, QuietStands DEF Before

LEMMA RelateKeeps ==
  ASSUME PlanInv, CrossInv, Relate
  PROVE  PlanInv' /\ CrossInv'
  <1>1. /\ pc = "graph" /\ pc' \in {"databases", "plans"} /\ data' = data /\ seen' = seen /\ policy' = policy
        /\ UNCHANGED <<ask, names, chosen, plans, held, cross, semantics>>
        /\ \E unread : graph' = Inferred(names, unread)
    BY DEF Relate, world
  <1>2. \A r \in graph' : r.from \in names /\ r.to \in names
    BY <1>1, InferredIsAmong
  <1>3. (\A p, db : Discovered(p, db)' = Discovered(p, db)) /\ \A kind : Planned(kind)' = Planned(kind)
    BY <1>1, WorldStands DEF Planned, Interpretations
  <1>4. PlanInv'
    BY <1>1, <1>2, <1>3 DEF PlanInv
  <1>5. held = None
    BY <1>1 DEF CrossInv, HeldInv
  <1> QED BY <1>1, <1>4, <1>5, QuietStands DEF Before

LEMMA WeighKeeps ==
  ASSUME PlanInv, CrossInv, NEW kind \in {"find", "aggregate"}, Weigh(kind)
  PROVE  PlanInv' /\ CrossInv'
  <1>1. /\ pc = "plans" /\ pc' \in {"databases", "plans"} /\ data' = data /\ seen' = seen /\ policy' = policy
        /\ UNCHANGED <<ask, names, chosen, graph, held, cross, semantics>>
    BY DEF Weigh, world
  <1>2. \A pl \in plans' : pl \in plans
          \/ (pl.kind = kind /\ pl.status = Evaluate(policy, Planned(kind), 0).status)
    BY DEF Weigh
  <1>3. (\A p, db : Discovered(p, db)' = Discovered(p, db)) /\ \A k : Planned(k)' = Planned(k)
    BY <1>1, WorldStands DEF Planned, Interpretations
  <1>4. (\A pl \in plans : \E p \in seen : Evaluate(p, Planned(pl.kind), 0).status = pl.status)'
    BY <1>1, <1>2, <1>3 DEF PlanInv
  <1>5. PlanInv'
    BY <1>1, <1>3, <1>4 DEF PlanInv
  <1>6. held = None
    BY <1>1 DEF CrossInv, HeldInv
  <1> QED BY <1>1, <1>5, <1>6, QuietStands DEF Before

LEMMA PlanFailsKeeps ==
  ASSUME PlanInv, CrossInv, PlanFails
  PROVE  PlanInv' /\ CrossInv'
  <1>1. /\ pc \in {"discover", "describe"} /\ pc' = "failed" /\ UNCHANGED <<world, plan, held, cross, semantics>>
    BY DEF PlanFails
  <1>2. held = None
    BY <1>1 DEF CrossInv, HeldInv
  <1>3. PlanInv'
    BY <1>1, PlanStands DEF world, PlanInv
  <1> QED BY <1>1, <1>2, <1>3, QuietStands DEF world, Before

----------------------------------------------------------------------------
(* The cross-database block.                                               *)

LEMMA OpenBlockKeeps ==
  ASSUME PlanInv, CrossInv, OpenBlock
  PROVE  CrossInv'
  <1>1. /\ pc = "databases" /\ pc' = "cross" /\ data' = data /\ seen' = seen /\ policy' = policy
        /\ databases' = IF policy = NoPolicy THEN {} ELSE policy.dbAllow
        /\ queue' = {} /\ UNCHANGED <<inventory, roles, sampled, held, semantics>>
    BY DEF OpenBlock, world
  <1>2. \A d \in databases' : Listed(d)
    BY <1>1 DEF PlanInv, Listed
  <1>4. held = None
    BY <1>1 DEF CrossInv, HeldInv
  <1>5. KeysInv' /\ SemanticsInv'
    BY <1>1, KeysStand, SemanticsStand DEF CrossInv
  <1>6. QueueInv' /\ HeldInv'
    BY <1>1, <1>2, <1>4 DEF Before, QueueInv, HeldInv, Listed
  <1> QED BY <1>5, <1>6 DEF CrossInv

LEMMA ListKeeps ==
  ASSUME PlanInv, CrossInv, List
  PROVE  CrossInv'
  <1> DEFINE d == One(databases)
  <1>1. /\ pc = "cross" /\ pc' = "cross" /\ databases # {} /\ databases' = databases \ {d}
        /\ held = None /\ data' = data /\ seen' = seen
        /\ UNCHANGED <<inventory, roles, sampled, held, semantics>>
    BY DEF List, world
  <1>2. \A l \in queue' : l \in queue \/ l[1] = d
    BY DEF List
  <1>3. Listed(d)
    BY <1>1, OneIsMember DEF CrossInv, QueueInv
  <1> HIDE DEF d
  <1>5. QueueInv' /\ HeldInv'
    BY <1>1, <1>2, <1>3 DEF Before, CrossInv, QueueInv, HeldInv, Listed
  <1>6. KeysInv' /\ SemanticsInv'
    BY <1>1, KeysStand, SemanticsStand DEF CrossInv
  <1> QED BY <1>5, <1>6 DEF CrossInv

\* What is held is what one version shows of the location.
LEMMA DescribeKeeps ==
  ASSUME PlanInv, CrossInv, Describe
  PROVE  CrossInv'
  <1> DEFINE x == One(queue)
  <1>1. /\ pc \in {"cross", "semantics"} /\ pc' = pc /\ held = None /\ queue # {} /\ queue' = queue \ {x}
        /\ data' = data /\ seen' = seen /\ UNCHANGED <<databases, inventory, roles, sampled, semantics>>
        /\ held' = [at |-> x, fields |-> Described(policy, x)] \/ held' = held
    BY DEF Describe, world, cross
  <1>2. x \in queue
    BY <1>1, OneIsMember
  <1>3. \A f \in Described(policy, x) : Open(<<x, f>>)
    BY VisibleIsGoverned DEF Described, Open, PlanInv
  <1> HIDE DEF x
  <1>4. HeldInv'
    BY <1>1, <1>3 DEF HeldInv, Open, Governed
  <1>5. QueueInv'
    BY <1>1, <1>2 DEF Before, CrossInv, QueueInv, Listed
  <1>6. KeysInv' /\ SemanticsInv'
    BY <1>1, KeysStand, SemanticsStand DEF CrossInv
  <1> QED BY <1>4, <1>5, <1>6 DEF CrossInv

LEMMA CharacterizeKeeps ==
  ASSUME PlanInv, CrossInv, Characterize
  PROVE  CrossInv'
  <1>1. PICK colls \in {Discovered(policy, held.at[1]), {}}, unique \in {Unique, {}} :
          LET found == [y \in {<<held.at, f>> : f \in held.fields} |-> RoleOf(held.at, y[2], colls, unique)] IN
          IF pc = "cross"
          THEN /\ inventory' = inventory \union DOMAIN found
               /\ roles' = [y \in DOMAIN found \union DOMAIN roles |->
                               IF y \in DOMAIN found THEN found[y] ELSE roles[y]]
               /\ UNCHANGED semantics
          ELSE /\ semantics' = semantics \union
                    {[at |-> y[1], field |-> y[2], refs |-> found[y].refs] : y \in DOMAIN found}
               /\ UNCHANGED <<inventory, roles>>
    BY DEF Characterize
  <1> DEFINE ends == {<<held.at, f>> : f \in held.fields}
             found == [y \in ends |-> RoleOf(held.at, y[2], colls, unique)]
  <1>2. /\ held # None /\ held' = None /\ pc' = pc /\ data' = data /\ seen' = seen
        /\ UNCHANGED <<queue, databases, sampled>>
    BY DEF Characterize, world
  <1>3. pc \in {"cross", "semantics"} /\ \A y \in ends : Open(y) /\ y[1] = held.at /\ y = <<y[1], y[2]>>
    BY <1>2 DEF CrossInv, HeldInv
  <1>4. QueueInv' /\ HeldInv'
    BY <1>2 DEF Before, CrossInv, QueueInv, HeldInv, Listed, JoinKey, Open, Governed
  <1>5. CASE pc = "cross"
    <2>1. inventory' = inventory \union ends /\ UNCHANGED semantics
      BY <1>1, <1>5
    <2>2. DOMAIN roles' = ends \union DOMAIN roles
      BY <1>1, <1>5
    <2>3. \A y \in ends : JoinKey(y)
      BY <1>2, <1>3, <1>5 DEF Before, CrossInv, QueueInv, JoinKey
    <2> HIDE DEF ends, found
    <2>4. KeysInv'
      BY <1>2, <1>5, <2>1, <2>2, <2>3, WorldStands DEF CrossInv, KeysInv
    <2>5. SemanticsInv'
      BY <1>2, <2>1, SemanticsStand DEF CrossInv
    <2> QED BY <1>4, <2>4, <2>5 DEF CrossInv
  <1>6. CASE pc = "semantics"
    <2>1. /\ semantics' = semantics \union
                {[at |-> y[1], field |-> y[2], refs |-> found[y].refs] : y \in ends}
          /\ UNCHANGED <<inventory, roles>>
      BY <1>1, <1>6
    <2>2. \A y \in ends : found[y].refs = NoRef \/ found[y].refs \in Discovered(policy, y[1][1])
      BY <1>3, RoleRefersAmong
    <2>3. \A y \in ends : \E p \in seen : Governed(p, y[1][1], y[1][2], y[2])
      BY <1>3 DEF Open
    <2> HIDE DEF ends, found
    <2>4. \A s \in semantics' : s \in semantics
            \/ /\ \E p \in seen : Governed(p, s.at[1], s.at[2], s.field)
               /\ s.refs # NoRef => s.refs \in Discovered(policy, s.at[1])
      BY <2>1, <2>2, <2>3
    <2>5. SemanticsInv'
      <3>1. \A p, db : Discovered(p, db)' = Discovered(p, db)
        BY <1>2, WorldStands
      <3> QED BY <1>2, <2>4, <3>1 DEF CrossInv, SemanticsInv, Governed, PlanInv
    <2>6. KeysInv'
      BY <1>2, <1>6, <2>1, KeysStand DEF CrossInv
    <2> QED BY <1>4, <2>5, <2>6 DEF CrossInv
  <1> QED BY <1>3, <1>5, <1>6

LEMMA BeginMatchingKeeps ==
  ASSUME PlanInv, CrossInv, BeginMatching \/ BeginAligning
  PROVE  CrossInv'
  <1>1. /\ pc \in {"cross", "match"} /\ pc' \in {"match", "align"} /\ data' = data /\ seen' = seen
        /\ UNCHANGED <<inventory, roles, sampled, held, semantics>>
        /\ queue' = Candidates(inventory) \/ queue' = AlignCandidates(roles)
    BY DEF BeginMatching, BeginAligning, world, cross
  <1>2. held = None
    BY <1>1 DEF CrossInv, HeldInv, BeginMatching, BeginAligning
  <1>3. \A x \in DOMAIN roles : JoinKey(x) /\ x = <<x[1], x[2]>>
    BY DEF CrossInv, KeysInv, JoinKey
  <1>4. \A c \in queue' : JoinKey(c[1]) /\ JoinKey(c[2])
    BY <1>1, <1>3, CandidatesAreKeys, AlignedHaveRoles DEF CrossInv, KeysInv
  <1>5. QueueInv' /\ HeldInv'
    BY <1>1, <1>2, <1>4, WorldStands DEF Before, QueueInv, HeldInv
  <1>6. KeysInv' /\ SemanticsInv'
    BY <1>1, KeysStand, SemanticsStand DEF CrossInv
  <1> QED BY <1>5, <1>6 DEF CrossInv

\* Only what stands in the queue is sampled.
LEMMA SamplingKeeps ==
  ASSUME PlanInv, CrossInv, Match \/ Align \/ Unhashable
  PROVE  CrossInv'
  <1> DEFINE c == One(queue)
  <1>1. /\ pc \in {"match", "align"} /\ pc' \in {pc, "unhashable"} /\ data' = data /\ seen' = seen
        /\ queue # {} /\ queue' \subseteq queue /\ sampled' = sampled \union {c[1], c[2]}
        /\ UNCHANGED <<inventory, roles, held, semantics>>
    BY DEF Match, Align, Unhashable, Sample, world
  <1>2. JoinKey(c[1]) /\ JoinKey(c[2])
    BY <1>1, OneIsMember DEF Before, CrossInv, QueueInv
  <1>3. held = None
    BY <1>1 DEF CrossInv, HeldInv
  <1> HIDE DEF c
  <1>4. QueueInv' /\ HeldInv'
    BY <1>1, <1>3, WorldStands DEF Before, CrossInv, QueueInv, HeldInv
  <1>5. KeysInv' /\ SemanticsInv'
    BY <1>1, <1>2, WorldStands, SemanticsStand DEF CrossInv, KeysInv
  <1> QED BY <1>4, <1>5 DEF CrossInv

LEMMA EndKeeps ==
  ASSUME PlanInv, CrossInv, CloseBlock \/ Reply
  PROVE  CrossInv'
  <1>1. /\ pc \in {"align", "unhashable", "semantics"} /\ pc' \in {"semantics", "done"}
        /\ data' = data /\ seen' = seen /\ UNCHANGED <<inventory, roles, sampled, held, semantics>>
    BY DEF CloseBlock, Reply, world, cross
  <1>2. held = None
    BY DEF CrossInv, HeldInv, CloseBlock, Reply
  <1>3. QueueInv' /\ HeldInv'
    BY <1>1, <1>2 DEF Before, QueueInv, HeldInv
  <1>4. KeysInv' /\ SemanticsInv'
    BY <1>1, KeysStand, SemanticsStand DEF CrossInv
  <1> QED BY <1>3, <1>4 DEF CrossInv

\* Another version comes into force, or nothing happens.
LEMMA ReloadKeeps ==
  ASSUME PlanInv, CrossInv, data' = data, ask' = ask, seen \subseteq seen', policy' \in seen',
         UNCHANGED <<pc, plan, queue, held, cross, semantics>>
  PROVE  PlanInv' /\ CrossInv'
  <1>1. PlanInv'
    BY PlanStands
  <1>2. KeysInv' /\ SemanticsInv'
    BY KeysStand, SemanticsStand DEF CrossInv, cross
  <1>3. HeldInv'
    BY WorldStands DEF CrossInv, HeldInv
  <1>4. QueueInv'
    BY WorldStands DEF Before, CrossInv, QueueInv, cross
  <1> QED BY <1>1, <1>2, <1>3, <1>4 DEF CrossInv

----------------------------------------------------------------------------

LEMMA StepKeeps ==
  ASSUME PlanInv, CrossInv, [Next]_vars
  PROVE  PlanInv' /\ CrossInv'
  <1>1. CASE PlanFails \/ Discover \/ DescribePicked \/ Relate \/ \E kind \in {"find", "aggregate"} : Weigh(kind)
    BY <1>1, PlanFailsKeeps, DiscoverKeeps, DescribePickedKeeps, RelateKeeps, WeighKeeps
  <1>2. CASE \/ OpenBlock \/ List \/ Describe \/ Characterize \/ BeginMatching \/ BeginAligning
             \/ Match \/ Align \/ Unhashable \/ CloseBlock \/ Reply
    <2>1. UNCHANGED <<world, plan>> /\ (pc' = pc \/ pc' \notin {"discover", "describe"})
      BY <1>2 DEF OpenBlock, List, Describe, Characterize, BeginMatching, BeginAligning,
                  Match, Align, Unhashable, Sample, CloseBlock, Reply
    <2>2. PlanInv'
      BY <2>1, PlanStands DEF world, PlanInv
    <2>3. CrossInv'
      BY <1>2, OpenBlockKeeps, ListKeeps, DescribeKeeps, CharacterizeKeeps,
         BeginMatchingKeeps, SamplingKeeps, EndKeeps
    <2> QED BY <2>2, <2>3
  <1>3. ASSUME NEW p \in Policies \union {NoPolicy}, Reload(p) PROVE PlanInv' /\ CrossInv'
    BY <1>3, ReloadKeeps DEF Reload
  <1>4. CASE UNCHANGED vars
    BY <1>4, ReloadKeeps DEF vars, world, PlanInv
  <1> QED BY <1>1, <1>2, <1>3, <1>4 DEF Next

\* Nothing a planning call tells, samples or recommends was withheld by every
\* version of the policy in force while it ran.
THEOREM ContextGoverned == Spec => []ContextIsGoverned
  <1>1. PlanInv /\ CrossInv => ContextIsGoverned
    BY DEF PlanInv, CrossInv, KeysInv, SemanticsInv, JoinKey, Open, Listed, Recommended, ContextIsGoverned
  <1>2. PlanInv /\ CrossInv /\ [Next]_vars => (PlanInv /\ CrossInv)'
    BY StepKeeps
  <1> QED BY InitInv, <1>1, <1>2, PTL DEF Spec

----------------------------------------------------------------------------
(* Join keys: one edge for each pair of endpoints.                         *)

LEMMA LesserOfTwo ==
  ASSUME NEW a \in Int, NEW b \in Int
  PROVE  Min({a, b}) \in {a, b} /\ Min({a, b}) <= a /\ Min({a, b}) <= b
  <1>1. \E x \in {a, b} : \A y \in {a, b} : x <= y
    OBVIOUS
  <1> QED BY <1>1 DEF Min

\* A quotient of naturals is one.
LEMMA QuotientIsNat == ASSUME NEW a \in Nat, NEW b \in Nat \ {0} PROVE a \div b \in Nat
  OBVIOUS

\* However much two samples share.
LEMMA ShareIsNat ==
  ASSUME NEW k \in Nat, NEW va, NEW vb, IsFiniteSet(va), IsFiniteSet(vb)
  PROVE  Share(k, Overlap(va, vb)) \in Nat
  <1> DEFINE o == Overlap(va, vb)
  <1>1. Cardinality(va) \in Nat /\ Cardinality(vb) \in Nat /\ Cardinality(va \intersect vb) \in Nat
    BY FS_CardinalityType, FS_Intersection
  <1>m. Min({Cardinality(va), Cardinality(vb)}) \in Nat
    <2> DEFINE a == Cardinality(va)
               b == Cardinality(vb)
    <2>1. a \in Int /\ b \in Int /\ a \in Nat /\ b \in Nat
      BY <1>1
    <2> HIDE DEF a, b
    <2>2. Min({a, b}) \in {a, b}
      BY <2>1, LesserOfTwo
    <2> QED BY <2>1, <2>2 DEF a, b
  <1>2. o.shared \in Nat /\ o.of \in Nat
    BY <1>1, <1>m DEF Overlap
  <1> HIDE DEF o
  <1> DEFINE a == 2 * k * o.shared + o.of
             b == 2 * o.of
  <1>3. CASE o.of # 0
    <2>1. a \in Nat /\ b \in Nat \ {0}
      BY <1>2, <1>3
    <2> HIDE DEF a, b
    <2>2. a \div b \in Nat
      BY <2>1, QuotientIsNat
    <2> QED BY <1>3, <2>2 DEF Share, o, a, b
  <1> QED BY <1>3 DEF Share, o

\* An edge as the two signals make them.
IsEdge(e) ==
    /\ e = [from |-> e.from, to |-> e.to, kind |-> e.kind, conf |-> e.conf]
    /\ e.conf \in Int

LEMMA MatchEdgeIs ==
  ASSUME NEW c, NEW va, NEW vb, IsFiniteSet(va), IsFiniteSet(vb)
  PROVE  IsEdge(MatchEdge(c, va, vb)) /\ MatchEdge(c, va, vb).from = c[1] /\ MatchEdge(c, va, vb).to = c[2]
  <1> DEFINE s == Share(4000, Overlap(va, vb))
  <1>s. s \in Nat
    BY ShareIsNat
  <1>1. Min({9000, 5000 + s}) \in Int
    <2> HIDE DEF s
    <2> DEFINE r == 5000 + s
    <2>1. r \in Int
      BY <1>s
    <2> HIDE DEF r
    <2>2. Min({9000, r}) \in {9000, r}
      BY <2>1, LesserOfTwo
    <2> QED BY <2>1, <2>2 DEF r
  <1> QED BY <1>1 DEF MatchEdge, Edge, IsEdge

LEMMA AlignEdgeIs ==
  ASSUME NEW c, NEW va, NEW vb, IsFiniteSet(va), IsFiniteSet(vb)
  PROVE  LET e == AlignEdge(c, va, vb)
         IN  IsEdge(e) /\ e.from = c[1] /\ e.to = c[2] /\ e.kind = "identifier_alignment" /\ e.conf >= 7500
  <1> DEFINE s == Share(2000, Overlap(va, vb))
  <1>s. s \in Nat
    BY ShareIsNat
  <1>1. Min({9500, 7500 + s}) \in Int /\ Min({9500, 7500 + s}) >= 7500
    <2> HIDE DEF s
    <2> DEFINE r == 7500 + s
    <2>1. r \in Int /\ r >= 7500
      BY <1>s
    <2> HIDE DEF r
    <2>2. Min({9500, r}) \in {9500, r}
      BY <2>1, LesserOfTwo
    <2> QED BY <2>1, <2>2 DEF r
  <1> QED BY <1>1 DEF AlignEdge, Edge, IsEdge

LEMMA BoostIs ==
  ASSUME NEW R, NEW e, IsEdge(e)
  PROVE  /\ IsEdge(Boost(R, e)) /\ Boost(R, e).from = e.from /\ Boost(R, e).to = e.to
         /\ RolesAlign(R, e) => Boost(R, e).kind = "identifier_alignment"
  <1>1. Min({9500, e.conf + 1500}) \in Int
    BY LesserOfTwo DEF IsEdge
  <1>2. CASE RolesAlign(R, e)
    <2>1. Boost(R, e) = [from |-> e.from, to |-> e.to, kind |-> "identifier_alignment",
                         conf |-> Min({9500, e.conf + 1500})]
      <3> DEFINE m == Min({9500, e.conf + 1500})
      <3>1. Boost(R, e) = [e EXCEPT !.kind = "identifier_alignment", !.conf = m]
        BY <1>2 DEF Boost
      <3> HIDE DEF m
      <3>2. PICK a, b, k, n : e = [from |-> a, to |-> b, kind |-> k, conf |-> n]
        BY DEF IsEdge
      <3>3. [e EXCEPT !.kind = "identifier_alignment", !.conf = m]
              = [from |-> a, to |-> b, kind |-> "identifier_alignment", conf |-> m]
        <4>1. [e EXCEPT !.kind = "identifier_alignment", !.conf = m]
                = [[e EXCEPT !.kind = "identifier_alignment"] EXCEPT !.conf = m]
          BY <3>2
        <4>2. PICK d : d = [e EXCEPT !.kind = "identifier_alignment"]
          OBVIOUS
        <4>3. d = [from |-> a, to |-> b, kind |-> "identifier_alignment", conf |-> n]
          BY <3>2, <4>2
        <4>4. [d EXCEPT !.conf = m] = [from |-> a, to |-> b, kind |-> "identifier_alignment", conf |-> m]
          BY <4>3
        <4> QED BY <4>1, <4>2, <4>4
      <3> QED BY <3>1, <3>2, <3>3 DEF m
    <2> QED BY <1>1, <2>1 DEF IsEdge
  <1>3. CASE ~RolesAlign(R, e)
    BY <1>3 DEF Boost
  <1> QED BY <1>2, <1>3

\* The edges of E tell every pair of C once, and no other.
Told(E, C) ==
    /\ \A e \in E : IsEdge(e) /\ <<e.from, e.to>> \in C
    /\ \A c \in C : \E e \in E : e.from = c[1] /\ e.to = c[2]
    /\ \A e, f \in E : e.from = f.from /\ e.to = f.to => e = f

LEMMA ToldIs ==
  ASSUME NEW E, NEW C, Told(E, C), NEW e \in E
  PROVE  IsEdge(e) /\ e.conf \in Int /\ <<e.from, e.to>> \in C
  <1>1. IsEdge(e) /\ <<e.from, e.to>> \in C
    BY DEF Told
  <1>2. e.conf \in Int
    BY <1>1 DEF IsEdge
  <1> QED BY <1>1, <1>2

\* A pair stands in C one way round only.
OneWay(C) ==
    /\ \A c \in C : c = <<c[1], c[2]>>
    /\ \A c, d \in C : {c[1], c[2]} = {d[1], d[2]} => c = d

LEMMA ToldOfDrawn ==
  ASSUME NEW E, NEW C, NEW queue_, OneWay(C), queue_ \subseteq C, Told(E, C \ queue_),
         NEW c \in queue_, NEW e, IsEdge(e), e.from = c[1], e.to = c[2]
  PROVE  Told(E \union {e}, C \ (queue_ \ {c}))
  <1>1. c = <<c[1], c[2]>> /\ c \in C
    BY DEF OneWay
  <1>2. \A f \in E : f.from = e.from /\ f.to = e.to => FALSE
    BY <1>1 DEF Told
  <1>3. \A f \in E \union {e} : IsEdge(f) /\ <<f.from, f.to>> \in C \ (queue_ \ {c})
    BY <1>1 DEF Told
  <1>4. \A d \in C \ (queue_ \ {c}) : \E f \in E \union {e} : f.from = d[1] /\ f.to = d[2]
    BY <1>1 DEF Told
  <1>5. \A f, g \in E \union {e} : f.from = g.from /\ f.to = g.to => f = g
    BY <1>2 DEF Told
  <1> QED BY <1>3, <1>4, <1>5 DEF Told

\* Edges with the same ends are the same edge.
LEMMA EndsTellApart ==
  ASSUME NEW E, NEW C, OneWay(C), Told(E, C)
  PROVE  \A e, f \in E : Pair(e) = Pair(f) => e = f
  <1> SUFFICES ASSUME NEW e \in E, NEW f \in E, Pair(e) = Pair(f) PROVE e = f
    OBVIOUS
  <1> DEFINE c == <<e.from, e.to>>
             d == <<f.from, f.to>>
  <1>1. c \in C /\ d \in C
    BY DEF Told
  <1>2. {c[1], c[2]} = {d[1], d[2]}
    BY DEF Pair
  <1>3. c = d
    BY <1>1, <1>2, Zenon DEF OneWay
  <1> QED BY <1>3 DEF Told

\* Boosting changes no pair.
LEMMA BoostedAreTold ==
  ASSUME NEW R, NEW E, NEW C, Told(E, C)
  PROVE  Told({Boost(R, e) : e \in E}, C)
  <1> DEFINE B == {Boost(R, e) : e \in E}
  <1>1. \A e \in E : IsEdge(Boost(R, e)) /\ Boost(R, e).from = e.from /\ Boost(R, e).to = e.to
    <2> TAKE e \in E
    <2>1. IsEdge(e)
      BY DEF Told
    <2> QED BY <2>1, BoostIs
  <1>2. \A b \in B : \E e \in E : b = Boost(R, e)
    OBVIOUS
  <1>3. \A b \in B : IsEdge(b) /\ <<b.from, b.to>> \in C
    <2> TAKE b \in B
    <2>1. PICK e \in E : b = Boost(R, e)
      BY <1>2
    <2>2. IsEdge(b) /\ b.from = e.from /\ b.to = e.to
      BY <1>1, <2>1
    <2> QED BY <2>2 DEF Told
  <1>4. \A c \in C : \E b \in B : b.from = c[1] /\ b.to = c[2]
    BY <1>1 DEF Told
  <1>5. \A a, b \in B : a.from = b.from /\ a.to = b.to => a = b
    BY <1>1, <1>2 DEF Told
  <1> HIDE DEF B
  <1>6. Told(B, C)
    BY <1>3, <1>4, <1>5 DEF Told
  <1> QED BY <1>6 DEF B

\* What merge_edges() keeps of two lists of which neither names a pair twice:
\* of each pair one edge, and none that is weaker than one it drops.
LEMMA MergeTellsOnce ==
  ASSUME NEW A, NEW B, \A e, f \in A : Pair(e) = Pair(f) => e = f, \A e, f \in B : Pair(e) = Pair(f) => e = f
  PROVE  \A e, f \in Merge(A, B) : Pair(e) = Pair(f) => e = f
  BY DEF Merge

LEMMA MergeKeepsTheBetter ==
  ASSUME NEW A, NEW B, \A e, f \in A : Pair(e) = Pair(f) => e = f, \A e, f \in B : Pair(e) = Pair(f) => e = f,
         \A e \in A \union B : e.conf \in Int
  PROVE  \A e \in A \union B : \E f \in Merge(A, B) : Pair(f) = Pair(e) /\ f.conf >= e.conf
  <1> SUFFICES ASSUME NEW e \in A \union B
               PROVE  \E f \in Merge(A, B) : Pair(f) = Pair(e) /\ f.conf >= e.conf
    OBVIOUS
  <1>1. CASE e \in Merge(A, B)
    BY <1>1
  <1>2. CASE e \in A /\ e \notin Merge(A, B)
    <2>1. PICK f \in B : Pair(f) = Pair(e) /\ Better(f, e)
      BY <1>2 DEF Merge
    <2>2. \A d \in A : Pair(d) = Pair(f) => d = e
      BY <1>2, <2>1
    <2>3. f \in Merge(A, B)
      BY <2>1, <2>2 DEF Merge
    <2> QED BY <2>1, <2>3 DEF Better
  <1>3. CASE e \in B /\ e \notin Merge(A, B)
    <2>1. PICK f \in A : Pair(f) = Pair(e) /\ ~Better(e, f)
      BY <1>3 DEF Merge
    <2>2. \A d \in B : Pair(d) = Pair(f) => d = e
      BY <1>3, <2>1
    <2>3. f \in Merge(A, B)
      BY <2>1, <2>2 DEF Merge
    <2> QED BY <2>1, <2>3 DEF Better
  <1> QED BY <1>1, <1>2, <1>3
----------------------------------------------------------------------------
(* No pair of endpoints is looked at twice.                                *)

LEMMA PositionIs ==
  ASSUME NEW loc \in Range(Locations)
  PROVE  Position(loc) \in Int
  <1>1. \E i \in DOMAIN Locations : Locations[i] = loc
    BY DEF Range
  <1>2. Position(loc) \in DOMAIN Locations
    BY <1>1 DEF Position
  <1> QED BY <1>2, CrossDbAssumption

\* Of two locations one stands before the other in the list.
LEMMA CandidatesOneWay ==
  ASSUME NEW S, \A x \in S : x[1] \in Range(Locations)
  PROVE  OneWay(Candidates(S))
  <1>1. \A c \in Candidates(S) : /\ c = <<c[1], c[2]>> /\ c[1] \in S /\ c[2] \in S
                                 /\ Position(c[1][1]) < Position(c[2][1])
    BY DEF Candidates
  <1>2. ASSUME NEW c \in Candidates(S), NEW d \in Candidates(S), {c[1], c[2]} = {d[1], d[2]}
        PROVE  c = d
    <2>1. CASE c[1] = d[1] /\ c[2] = d[2]
      BY <1>1, <2>1
    <2>2. CASE c[1] = d[2] /\ c[2] = d[1]
      <3> DEFINE m == Position(c[1][1])
                 n == Position(c[2][1])
      <3>1. m \in Int /\ n \in Int
        BY <1>1, PositionIs
      <3>2. m < n /\ n < m
        BY <1>1, <2>2
      <3> HIDE DEF m, n
      <3> QED BY <3>1, <3>2
    <2> QED BY <1>2, <2>1, <2>2
  <1> QED BY <1>1, <1>2 DEF OneWay

\* What an alignment joins: a foreign identifier, and the field that
\* identifies the documents of the collection it refers to.
LEMMA AlignmentIs ==
  ASSUME NEW R, \A x \in DOMAIN R : x = <<x[1], x[2]>>, NEW c \in AlignCandidates(R)
  PROVE  /\ c = <<c[1], c[2]>> /\ c[1] \in DOMAIN R /\ c[2] \in DOMAIN R
         /\ c[2][1][1] # c[1][1][1]
         /\ R[c[1]].role = "foreign_identifier" /\ R[c[1]].refs # NoRef
         /\ MatchesResource(R[c[1]].refs, c[2][1][2])
         /\ R[c[2]].role = "primary_identifier"
         /\ c[2][2] # DocId => DocId \notin Primaries(R, c[2][1])
  <1> DEFINE P == {b \in (DOMAIN R) \X {y[1] : y \in DOMAIN R} :
            /\ R[b[1]].role = "foreign_identifier" /\ R[b[1]].refs # NoRef
            /\ b[2][1] # b[1][1][1]
            /\ MatchesResource(R[b[1]].refs, b[2][2])
            /\ Primaries(R, b[2]) # {}}
  <1>1. PICK a \in P : c = <<a[1], <<a[2], PrimaryField(R, a[2])>>>>
    BY DEF AlignCandidates
  <1>2. /\ a[1] \in DOMAIN R
        /\ R[a[1]].role = "foreign_identifier" /\ R[a[1]].refs # NoRef
        /\ a[2][1] # a[1][1][1]
        /\ MatchesResource(R[a[1]].refs, a[2][2])
        /\ Primaries(R, a[2]) # {}
    OBVIOUS
  <1> HIDE DEF P
  <1>3. /\ PrimaryField(R, a[2]) \in Primaries(R, a[2])
        /\ PrimaryField(R, a[2]) # DocId => DocId \notin Primaries(R, a[2])
    BY <1>2 DEF PrimaryField
  <1>4. PICK y \in DOMAIN R : y[1] = a[2] /\ y[2] = PrimaryField(R, a[2]) /\ R[y].role = "primary_identifier"
    BY <1>3 DEF Primaries
  <1>5. c = <<a[1], y>>
    BY <1>1, <1>4
  <1>6. c[1] = a[1] /\ c[2] = y /\ y[1] = a[2]
    BY <1>4, <1>5
  <1> QED BY <1>2, <1>3, <1>4, <1>5, <1>6

\* Neither endpoint of an alignment can have the role of the other.
LEMMA AlignmentsOneWay ==
  ASSUME NEW R, \A x \in DOMAIN R : x = <<x[1], x[2]>>
  PROVE  OneWay(AlignCandidates(R))
  <1>1. \A c \in AlignCandidates(R) :
          c = <<c[1], c[2]>> /\ R[c[1]].role = "foreign_identifier" /\ R[c[2]].role = "primary_identifier"
    BY AlignmentIs
  <1>2. ASSUME NEW c \in AlignCandidates(R), NEW d \in AlignCandidates(R), {c[1], c[2]} = {d[1], d[2]}
        PROVE  c = d
    <2>1. CASE c[1] = d[1] /\ c[2] = d[2]
      BY <1>1, <2>1
    <2>2. CASE c[1] = d[2] /\ c[2] = d[1]
      BY <1>1, <2>2
    <2> QED BY <1>2, <2>1, <2>2
  <1> QED BY <1>1, <1>2 DEF OneWay

\* Every reference is looked at.
LEMMA ReferencesAreAligned ==
  ASSUME NEW R, NEW x \in DOMAIN R, NEW y \in DOMAIN R,
         R[x].role = "foreign_identifier", R[x].refs # NoRef, y[1][1] # x[1][1],
         MatchesResource(R[x].refs, y[1][2]), R[y].role = "primary_identifier"
  PROVE  <<x, <<y[1], PrimaryField(R, y[1])>>>> \in AlignCandidates(R)
  <1> DEFINE L == {z[1] : z \in DOMAIN R}
             P == {b \in (DOMAIN R) \X L :
            /\ R[b[1]].role = "foreign_identifier" /\ R[b[1]].refs # NoRef
            /\ b[2][1] # b[1][1][1]
            /\ MatchesResource(R[b[1]].refs, b[2][2])
            /\ Primaries(R, b[2]) # {}}
  <1>1. y[2] \in Primaries(R, y[1])
    BY DEF Primaries
  <1>2. <<x, y[1]>> \in P
    <2>1. y[1] \in L
      OBVIOUS
    <2>2. Primaries(R, y[1]) # {}
      BY <1>1
    <2> QED BY <2>1, <2>2
  <1> HIDE DEF L
  <1>3. AlignCandidates(R) = {<<a[1], <<a[2], PrimaryField(R, a[2])>>>> : a \in P}
    BY DEF AlignCandidates, L
  <1> HIDE DEF P
  <1> QED BY <1>2, <1>3
----------------------------------------------------------------------------
(* What the answer tells: the invariant.                                   *)

WorldInv ==
    /\ data \in Worlds /\ policy \in Policies \union {NoPolicy}
    /\ reloads \in Nat /\ failures \in Nat
    /\ names \subseteq Stored(NoDb)

\* Nothing is found before its part of the call.
IdleInv ==
    /\ pc \in Before => inventory = {}
    /\ pc \in Before => DOMAIN roles = {}
    /\ pc \in Before \union {"cross"} => matched = {} /\ aligned = {}

\* Queue and inventory hold what the connection has.
SpotInv ==
    /\ pc = "cross" =>
          /\ NoDb \notin databases
          /\ queue \subseteq DOMAIN data
          /\ held # None => held.at \in DOMAIN data /\ held.fields \subseteq DOMAIN data[held.at]
    /\ pc \in {"cross", "match", "align"} =>
          /\ inventory = DOMAIN roles
          /\ \A x \in inventory : x = <<x[1], x[2]>> /\ x[1] \in DOMAIN data /\ x[2] \in DOMAIN data[x[1]]

\* The edges tell what has left the queue.
EdgeInv ==
    /\ pc = "match" =>
          /\ queue \subseteq Candidates(inventory) /\ aligned = {}
          /\ Told(matched, Candidates(inventory) \ queue)
    /\ pc = "align" =>
          /\ Told(matched, Candidates(inventory))
          /\ queue \subseteq AlignCandidates(roles)
          /\ Told(aligned, AlignCandidates(roles) \ queue)
          /\ \A e \in aligned : e.kind = "identifier_alignment" /\ e.conf >= 7500

Dbs == IF policy = NoPolicy THEN {} ELSE policy.dbAllow

Reach(l) == l = <<l[1], l[2]>> /\ l[1] \in Dbs /\ l[2] \in Discovered(policy, l[1])

Shown(l, f) == Reach(l) /\ f \in Visible(policy, l[1], l[2])

\* In a call nothing disturbs, what has been found and what is still to be
\* looked at are together what the policy shows.
ExactInv ==
    Undisturbed =>
        /\ pc = "cross" =>
              /\ databases \subseteq Dbs
              /\ \A l \in queue : Reach(l) /\ l[1] \notin databases
              /\ held # None => /\ Reach(held.at) /\ held.at \notin queue /\ held.at[1] \notin databases
                                /\ held.fields = Visible(policy, held.at[1], held.at[2])
              /\ \A l, f : <<l, f>> \in inventory <=>
                              /\ Shown(l, f) /\ l[1] \notin databases /\ l \notin queue
                              /\ held # None => held.at # l
        /\ pc \in {"match", "align"} => \A l, f : <<l, f>> \in inventory <=> Shown(l, f)
        /\ pc \in {"cross", "match", "align"} => \A x \in DOMAIN roles : roles[x] = RoleAt(x)

TellInv == WorldInv /\ IdleInv /\ SpotInv /\ EdgeInv /\ ExactInv

LEMMA StoredIs ==
  ASSUME data \in Worlds, NEW d, d # NoDb, NEW k \in Stored(d)
  PROVE  <<d, k>> \in DOMAIN data /\ FieldsAt(d, k) = DOMAIN data[<<d, k>>] /\ k # NoRef
  <1>1. PICK l \in DOMAIN data : l[1] = d /\ l[2] = k
    BY DEF Stored, Opened
  <1>2. PICK i \in DOMAIN Locations : l = Locations[i]
    BY PlanningAssumption DEF Range
  <1>3. l = <<l[1], l[2]>> /\ l[2] # NoRef
    BY <1>2, CrossDbAssumption
  <1>4. l = <<d, k>>
    BY <1>1, <1>3
  <1> QED BY <1>1, <1>3, <1>4 DEF FieldsAt, Opened

LEMMA DiscoveredAreStored == ASSUME NEW p, NEW d PROVE Discovered(p, d) \subseteq Stored(d)
  BY DEF Discovered

LEMMA NoUnnamedDb ==
  ASSUME policy \in Policies \union {NoPolicy}
  PROVE  NoDb \notin Dbs
  BY PlanningAssumption DEF Dbs

\* The names of the collections are finitely many.
LEMMA StoredIsFinite ==
  ASSUME data \in Worlds, NEW d
  PROVE  IsFiniteSet(Stored(d))
  <1> DEFINE I == 1 .. Len(Locations)
             T == {Locations[i][2] : i \in I}
             f == [i \in I |-> Locations[i][2]]
  <1>1. Len(Locations) \in Nat /\ DOMAIN Locations = I
    BY CrossDbAssumption
  <1>2. IsFiniteSet(I)
    BY <1>1, FS_Interval
  <1>3. f \in Surjection(I, T)
    BY DEF Surjection
  <1>4. IsFiniteSet(T)
    <2> HIDE DEF f, T, I
    <2> QED BY <1>2, <1>3, FS_Surjection
  <1>5. Stored(d) \subseteq T
    BY <1>1, PlanningAssumption DEF Stored, Range
  <1> HIDE DEF T
  <1> QED BY <1>4, <1>5, FS_Subset

\* While neither the policy nor the contents change, the same is shown.
LEMMA ShownStands ==
  ASSUME data' = data, policy' = policy
  PROVE  /\ \A l : Reach(l)' = Reach(l)
         /\ \A l, f : Shown(l, f)' = Shown(l, f)
         /\ \A x : RoleAt(x)' = RoleAt(x)
         /\ Dbs' = Dbs
         /\ \A p, db, coll : Visible(p, db, coll)' = Visible(p, db, coll)
  <1>1. /\ \A db : Stored(db)' = Stored(db)
        /\ \A p, db : Discovered(p, db)' = Discovered(p, db)
        /\ \A db, coll : FieldsAt(db, coll)' = FieldsAt(db, coll)
    BY DEF Discovered, Stored, FieldsAt
  <1>2. \A p, db, coll : Visible(p, db, coll)' = Visible(p, db, coll)
    BY <1>1 DEF Visible
  <1>3. Dbs' = Dbs
    BY DEF Dbs
  <1>4. \A l : Reach(l)' = Reach(l)
    BY <1>1, <1>3 DEF Reach
  <1>5. \A l, f : Shown(l, f)' = Shown(l, f)
    BY <1>2, <1>4 DEF Shown
  <1>6. \A colls, unread : Inferred(colls, unread)' = Inferred(colls, unread)
    BY <1>1 DEF Inferred
  <1>7. \A x : RoleAt(x)' = RoleAt(x)
    <2> TAKE x
    <2>1. Discovered(policy, x[1][1])' = Discovered(policy, x[1][1])
      BY <1>1
    <2>2. \A colls : RoleOf(x[1], x[2], colls, Unique)' = RoleOf(x[1], x[2], colls, Unique)
      BY <1>6 DEF RoleOf
    <2> QED BY <2>1, <2>2 DEF RoleAt
  <1> QED BY <1>2, <1>3, <1>4, <1>5, <1>7

LEMMA TellInit == Init => TellInv
  <1> SUFFICES ASSUME Init PROVE TellInv
    OBVIOUS
  <1>1. WorldInv
    BY DEF Init, WorldInv
  <1>2. DOMAIN roles = {}
    BY DEF Init
  <1>3. IdleInv /\ SpotInv /\ EdgeInv /\ ExactInv
    BY <1>2 DEF Init, IdleInv, SpotInv, EdgeInv, ExactInv, Before
  <1> QED BY <1>1, <1>3 DEF TellInv
----------------------------------------------------------------------------
(* What the answer tells: the steps.                                       *)

LEMMA WorldKept ==
  ASSUME WorldInv, data' = data, policy' = policy, reloads' = reloads, failures' \in Nat,
         names' = names \/ names' = Discovered(policy, NoDb)
  PROVE  WorldInv' /\ \A S : IsFiniteSet(S) => Cardinality(S) \in Nat
  <1>1. Stored(NoDb)' = Stored(NoDb)
    BY DEF Stored
  <1>2. names' \subseteq Stored(NoDb)
    BY DiscoveredAreStored DEF WorldInv
  <1> QED BY <1>1, <1>2, FS_CardinalityType DEF WorldInv

\* One more failure, or as many as before.
Counted == failures' = failures \/ Fails

LEMMA CountedIsNat ==
  ASSUME WorldInv, Counted
  PROVE  /\ failures' \in Nat
         /\ (UNCHANGED world /\ Undisturbed') => (Undisturbed /\ failures' = failures)
  BY DEF WorldInv, Counted, Fails, Undisturbed, world

\* The planner, and the last part of the call.
LEMMA QuietTells ==
  ASSUME TellInv, WorldInv', pc' \notin {"cross", "match", "align"},
         pc' \in Before => pc \in Before /\ UNCHANGED <<inventory, roles, matched, aligned>>
  PROVE  TellInv'
  <1>1. IdleInv'
    BY DEF TellInv, IdleInv, Before
  <1>2. SpotInv' /\ EdgeInv' /\ ExactInv'
    BY DEF SpotInv, EdgeInv, ExactInv
  <1> QED BY <1>1, <1>2 DEF TellInv

LEMMA PlannerTells ==
  ASSUME TellInv,
         PlanFails \/ Discover \/ DescribePicked \/ Relate \/ \E kind \in {"find", "aggregate"} : Weigh(kind)
  PROVE  TellInv'
  <1>1. /\ UNCHANGED <<data, policy, reloads, inventory, roles, matched, aligned>>
        /\ pc \in Before /\ pc' \in Before \union {"failed"}
        /\ names' = names \/ names' = Discovered(policy, NoDb)
    BY DEF PlanFails, Discover, DescribePicked, Relate, Weigh, world, plan, cross, Before
  <1>2. failures' \in Nat
    <2>1. CASE Relate
      <3>1. PICK unread \in SUBSET names : failures' = failures + Cardinality(unread)
        BY <2>1 DEF Relate
      <3>2. IsFiniteSet(names)
        BY StoredIsFinite, FS_Subset DEF TellInv, WorldInv
      <3>3. Cardinality(unread) \in Nat
        BY <3>2, FS_Subset, FS_CardinalityType
      <3> QED BY <3>1, <3>3 DEF TellInv, WorldInv
    <2>2. CASE ~Relate
      <3>1. Counted
        BY <2>2 DEF Counted, PlanFails, Discover, DescribePicked, Weigh
      <3> QED BY <3>1, CountedIsNat DEF TellInv
    <2> QED BY <2>1, <2>2
  <1>3. WorldInv'
    BY <1>1, <1>2, WorldKept DEF TellInv
  <1> QED BY <1>1, <1>3, QuietTells DEF Before

LEMMA EndTells ==
  ASSUME TellInv,
         CloseBlock \/ Reply \/ Unhashable \/ (pc = "semantics" /\ (Describe \/ Characterize))
  PROVE  TellInv'
  <1>1. UNCHANGED <<data, policy, reloads, names>> /\ pc' \in {"semantics", "done", "unhashable"}
    BY DEF CloseBlock, Reply, Unhashable, Describe, Characterize, world, plan
  <1>2. Counted
    <2>1. CASE Characterize
      BY <2>1 DEF Characterize, Counted
    <2> QED BY <2>1 DEF CloseBlock, Reply, Unhashable, Describe, Counted
  <1>3. WorldInv'
    BY <1>1, <1>2, WorldKept, CountedIsNat DEF TellInv
  <1> QED BY <1>1, <1>3, QuietTells DEF Before

LEMMA OpenTells ==
  ASSUME TellInv, CrossInv, OpenBlock
  PROVE  TellInv'
  <1>1. /\ pc = "databases" /\ pc' = "cross" /\ databases' = Dbs /\ queue' = {} /\ held' = held
        /\ UNCHANGED <<data, policy, reloads, failures, names, inventory, roles, matched, aligned>>
    BY DEF OpenBlock, world, plan, Dbs
  <1>2. WorldInv'
    BY <1>1, WorldKept DEF TellInv, WorldInv
  <1>3. inventory = {} /\ DOMAIN roles = {} /\ matched = {} /\ aligned = {} /\ held = None
    BY <1>1 DEF TellInv, IdleInv, Before, CrossInv, HeldInv
  <1>4. NoDb \notin Dbs
    BY NoUnnamedDb DEF TellInv, WorldInv
  <1>5. Dbs' = Dbs /\ \A l, f : Shown(l, f)' = Shown(l, f)
    BY <1>1, ShownStands
  <1>6. \A l, f : Shown(l, f) => l[1] \in Dbs
    BY DEF Shown, Reach
  <1>7. IdleInv' /\ SpotInv' /\ EdgeInv'
    BY <1>1, <1>3, <1>4 DEF IdleInv, SpotInv, EdgeInv, Before
  <1>8. ExactInv'
    BY <1>1, <1>3, <1>5, <1>6 DEF ExactInv
  <1> QED BY <1>2, <1>7, <1>8 DEF TellInv

\* The collections of one more database stand in the queue.
LEMMA ListTells ==
  ASSUME TellInv, List
  PROVE  TellInv'
  <1> DEFINE d == One(databases)
             new == {<<d, k>> : k \in Discovered(policy, d)}
  <1>1. /\ pc = "cross" /\ pc' = "cross" /\ queue = {} /\ held = None /\ held' = None
        /\ databases # {} /\ databases' = databases \ {d}
        /\ UNCHANGED <<data, policy, reloads, names, inventory, roles, matched, aligned>> /\ UNCHANGED world
        /\ \/ queue' = new /\ UNCHANGED failures
           \/ Fails /\ UNCHANGED queue
    BY DEF List, world, plan
  <1>2. Counted
    BY <1>1 DEF Counted
  <1>3. WorldInv'
    BY <1>1, <1>2, WorldKept, CountedIsNat DEF TellInv
  <1>4. d \in databases /\ d # NoDb
    BY <1>1, OneIsMember DEF TellInv, SpotInv
  <1>5. new \subseteq DOMAIN data
    BY <1>4, StoredIs, DiscoveredAreStored DEF TellInv, WorldInv
  <1>6. \A l : l \in new <=> l = <<l[1], l[2]>> /\ l[1] = d /\ l[2] \in Discovered(policy, d)
    OBVIOUS
  <1> HIDE DEF d, new
  <1>7. IdleInv' /\ SpotInv' /\ EdgeInv'
    BY <1>1, <1>5 DEF TellInv, IdleInv, SpotInv, EdgeInv, Before
  <1>8. ExactInv'
    <2> SUFFICES ASSUME Undisturbed'
                 PROVE  /\ databases' \subseteq Dbs'
                        /\ \A l \in queue' : Reach(l)' /\ l[1] \notin databases'
                        /\ \A l, f : <<l, f>> \in inventory <=> Shown(l, f)' /\ l[1] \notin databases' /\ l \notin queue'
                        /\ \A y \in DOMAIN roles : roles[y] = RoleAt(y)'
      BY <1>1 DEF ExactInv
    <2>1. Undisturbed /\ failures' = failures
      BY <1>1, <1>2, CountedIsNat DEF TellInv
    <2>2. queue' = new
      BY <1>1, <2>1 DEF Fails, TellInv, WorldInv
    <2>3. /\ databases \subseteq Dbs
          /\ \A l, f : <<l, f>> \in inventory <=> Shown(l, f) /\ l[1] \notin databases
          /\ \A y \in DOMAIN roles : roles[y] = RoleAt(y)
      BY <1>1, <2>1 DEF TellInv, ExactInv
    <2>4. /\ Dbs' = Dbs /\ \A l : Reach(l)' = Reach(l)
          /\ \A l, f : Shown(l, f)' = Shown(l, f)
          /\ \A y : RoleAt(y)' = RoleAt(y)
      BY <1>1, ShownStands
    <2>5. \A l : l \in new <=> Reach(l) /\ l[1] = d
      BY <1>4, <1>6, <2>3 DEF Reach
    <2>6. \A l, f : Shown(l, f) => Reach(l)
      BY DEF Shown
    <2>7. \A l, f : <<l, f>> \in inventory <=> Shown(l, f)' /\ l[1] \notin databases' /\ l \notin queue'
      BY <1>1, <1>4, <2>2, <2>3, <2>4, <2>5, <2>6
    <2> QED BY <1>1, <2>2, <2>3, <2>4, <2>5, <2>7
  <1> QED BY <1>3, <1>7, <1>8 DEF TellInv

\* A description: what is held is what the policy shows of the location.
LEMMA DescribeTells ==
  ASSUME TellInv, Describe, pc = "cross"
  PROVE  TellInv'
  <1>0. PICK x : x = One(queue)
    OBVIOUS
  <1>1. /\ pc' = "cross" /\ held = None /\ queue # {} /\ queue' = queue \ {x}
        /\ UNCHANGED <<data, policy, reloads, names, databases, inventory, roles, matched, aligned>> /\ UNCHANGED world
        /\ \/ held' = [at |-> x, fields |-> Visible(policy, x[1], x[2])] /\ UNCHANGED failures
           \/ Fails /\ UNCHANGED held
    BY <1>0 DEF Describe, Described, world, plan, cross
  <1>2. Counted
    BY <1>1 DEF Counted
  <1>3. WorldInv'
    BY <1>1, <1>2, WorldKept, CountedIsNat DEF TellInv
  <1>4. x \in queue /\ x \in DOMAIN data
    BY <1>0, <1>1, OneIsMember DEF TellInv, SpotInv
  <1>5. Visible(policy, x[1], x[2]) \subseteq DOMAIN data[x]
    <2>1. PICK i \in DOMAIN Locations : x = Locations[i]
      BY <1>4, PlanningAssumption DEF Range, TellInv, WorldInv
    <2>2. x = <<x[1], x[2]>> /\ x[1] # NoDb
      BY <2>1, CrossDbAssumption, PlanningAssumption
    <2>3. Visible(policy, x[1], x[2]) \subseteq FieldsAt(x[1], x[2])
      BY DEF Visible
    <2> QED BY <2>2, <2>3 DEF FieldsAt, Opened
  <1>6. SpotInv'
    <2>1. queue' \subseteq DOMAIN data
      BY <1>1 DEF TellInv, SpotInv
    <2>2. held' # None => held'.at \in DOMAIN data /\ held'.fields \subseteq DOMAIN data[held'.at]
      BY <1>1, <1>4, <1>5
    <2> QED BY <1>1, <2>1, <2>2 DEF TellInv, SpotInv
  <1>7. IdleInv' /\ EdgeInv'
    BY <1>1 DEF TellInv, IdleInv, EdgeInv, Before
  <1>8. ExactInv'
    <2> SUFFICES ASSUME Undisturbed'
                 PROVE  /\ databases \subseteq Dbs'
                        /\ \A l \in queue' : Reach(l)' /\ l[1] \notin databases
                        /\ held' # None => /\ Reach(held.at)' /\ held'.at \notin queue'
                                           /\ held'.at[1] \notin databases
                                           /\ held'.fields = Visible(policy, held.at[1], held.at[2])'
                        /\ \A l, f : <<l, f>> \in inventory <=>
                                        /\ Shown(l, f)' /\ l[1] \notin databases /\ l \notin queue'
                                        /\ held' # None => held'.at # l
                        /\ \A y \in DOMAIN roles : roles[y] = RoleAt(y)'
      BY <1>1 DEF ExactInv
    <2>1. Undisturbed /\ failures' = failures
      BY <1>1, <1>2, CountedIsNat DEF TellInv
    <2>2. held' = [at |-> x, fields |-> Visible(policy, x[1], x[2])]
      BY <1>1, <2>1 DEF Fails, TellInv, WorldInv
    <2>3. held' # None /\ held'.at = x /\ held'.fields = Visible(policy, x[1], x[2])
      BY <2>2 DEF None
    <2>4. /\ databases \subseteq Dbs
          /\ \A l \in queue : Reach(l) /\ l[1] \notin databases
          /\ \A l, f : <<l, f>> \in inventory <=> Shown(l, f) /\ l[1] \notin databases /\ l \notin queue
          /\ \A y \in DOMAIN roles : roles[y] = RoleAt(y)
      BY <1>1, <2>1 DEF TellInv, ExactInv
    <2>5. /\ Dbs' = Dbs /\ \A l : Reach(l)' = Reach(l)
          /\ \A l, f : Shown(l, f)' = Shown(l, f)
          /\ \A y : RoleAt(y)' = RoleAt(y)
          /\ \A p, db, coll : Visible(p, db, coll)' = Visible(p, db, coll)
      BY <1>1, ShownStands
    <2>6. \A l \in queue' : Reach(l)' /\ l[1] \notin databases
      BY <1>1, <2>4, <2>5
    <2>7. Reach(held.at)' /\ held'.at \notin queue' /\ held'.at[1] \notin databases
      <3>1. Reach(x)'
        BY <1>4, <2>4, <2>5
      <3>2. Reach(held.at)' <=> Reach(x)'
        BY <2>3 DEF Reach
      <3> QED BY <1>1, <1>4, <2>3, <2>4, <3>1, <3>2
    <2>8. held'.fields = Visible(policy, held.at[1], held.at[2])'
      <3>1. Visible(policy, held.at[1], held.at[2])' = Visible(policy, x[1], x[2])'
        BY <1>1, <2>3
      <3>2. Visible(policy, x[1], x[2])' = Visible(policy, x[1], x[2])
        BY <1>1, <2>5
      <3> QED BY <2>3, <3>1, <3>2
    <2>9. \A l, f : <<l, f>> \in inventory <=>
                       /\ Shown(l, f)' /\ l[1] \notin databases /\ l \notin queue'
                       /\ held' # None => held'.at # l
      BY <1>1, <1>4, <2>3, <2>4, <2>5
    <2> QED BY <2>4, <2>5, <2>6, <2>7, <2>8, <2>9
  <1> QED BY <1>3, <1>6, <1>7, <1>8 DEF TellInv

\* The roles of one collection are made: they are those the policy gives.
LEMMA CharacterizeTells ==
  ASSUME TellInv, Characterize, pc = "cross"
  PROVE  TellInv'
  <1>0. PICK at, fields : at = held.at /\ fields = held.fields
    OBVIOUS
  <1>a. PICK colls \in {Discovered(policy, held.at[1]), {}}, unique \in {Unique, {}} :
          LET found == [y \in {<<held.at, f>> : f \in held.fields} |-> RoleOf(held.at, y[2], colls, unique)] IN
          /\ IF colls = Discovered(policy, held.at[1]) /\ unique = Unique THEN UNCHANGED failures ELSE Fails
          /\ IF pc = "cross"
             THEN /\ inventory' = inventory \union DOMAIN found
                  /\ roles' = [y \in DOMAIN found \union DOMAIN roles |->
                                  IF y \in DOMAIN found THEN found[y] ELSE roles[y]]
                  /\ UNCHANGED semantics
             ELSE /\ semantics' = semantics \union
                       {[at |-> y[1], field |-> y[2], refs |-> found[y].refs] : y \in DOMAIN found}
                  /\ UNCHANGED <<inventory, roles>>
    BY Zenon DEF Characterize
  <1> DEFINE ends == {<<at, f>> : f \in fields}
             found == [y \in ends |-> RoleOf(at, y[2], colls, unique)]
  <1>1. /\ IF colls = Discovered(policy, at[1]) /\ unique = Unique THEN UNCHANGED failures ELSE Fails
        /\ inventory' = inventory \union DOMAIN found
        /\ roles' = [y \in DOMAIN found \union DOMAIN roles |->
                        IF y \in DOMAIN found THEN found[y] ELSE roles[y]]
    BY <1>0, <1>a
  <1>2. /\ held # None /\ held' = None /\ pc' = "cross"
        /\ UNCHANGED <<data, policy, reloads, names, queue, databases, matched, aligned>>
    BY DEF Characterize, world, plan
  <1>3. /\ Counted /\ inventory' = inventory \union ends
        /\ DOMAIN roles' = ends \union DOMAIN roles
        /\ \A y \in ends : roles'[y] = found[y]
        /\ \A y \in DOMAIN roles \ ends : roles'[y] = roles[y]
    BY <1>1 DEF Counted
  <1>4. \A y \in ends : /\ y = <<y[1], y[2]>> /\ y[1] = at /\ y[2] \in fields
                        /\ found[y] = RoleOf(y[1], y[2], colls, unique)
    OBVIOUS
  <1>5. \A f : <<at, f>> \in ends <=> f \in fields
    OBVIOUS
  <1>6. WorldInv'
    BY <1>2, <1>3, WorldKept, CountedIsNat DEF TellInv
  <1>7. at \in DOMAIN data /\ fields \subseteq DOMAIN data[at]
    BY <1>0, <1>2 DEF TellInv, SpotInv
  <1>8. CASE ~Undisturbed'
    <2> HIDE DEF ends, found
    <2>1. SpotInv'
      BY <1>2, <1>3, <1>4, <1>7 DEF TellInv, SpotInv
    <2>2. IdleInv' /\ EdgeInv'
      BY <1>2 DEF TellInv, IdleInv, EdgeInv, Before
    <2> QED BY <1>6, <1>8, <2>1, <2>2 DEF TellInv, ExactInv
  <1>9. CASE Undisturbed'
    <2>1. Undisturbed /\ failures' = failures
      <3>1. Counted /\ WorldInv /\ UNCHANGED world
        BY <1>3 DEF TellInv, Characterize
      <3> HIDE DEF ends, found
      <3> QED BY <1>9, <3>1, CountedIsNat
    <2>2. colls = Discovered(policy, at[1]) /\ unique = Unique
      BY <1>1, <2>1 DEF Fails, TellInv, WorldInv
    <2>3. \A y \in ends : found[y] = RoleAt(y)
      BY <1>4, <2>2 DEF RoleAt
    <2> HIDE DEF ends, found
    <2>4. SpotInv'
      BY <1>2, <1>3, <1>4, <1>7 DEF TellInv, SpotInv
    <2>5. IdleInv' /\ EdgeInv'
      BY <1>2 DEF TellInv, IdleInv, EdgeInv, Before
    <2>6. /\ databases \subseteq Dbs
          /\ \A l \in queue : Reach(l) /\ l[1] \notin databases
          /\ Reach(at) /\ at \notin queue /\ at[1] \notin databases /\ fields = Visible(policy, at[1], at[2])
          /\ \A l, f : <<l, f>> \in inventory <=>
                           Shown(l, f) /\ l[1] \notin databases /\ l \notin queue /\ at # l
          /\ \A y \in DOMAIN roles : roles[y] = RoleAt(y)
      BY <1>0, <1>2, <2>1 DEF TellInv, ExactInv
    <2>7. /\ Dbs' = Dbs /\ \A l : Reach(l)' = Reach(l)
          /\ \A l, f : Shown(l, f)' = Shown(l, f)
          /\ \A y : RoleAt(y)' = RoleAt(y)
      BY <1>2, ShownStands
    <2>8. \A f : Shown(at, f) <=> f \in fields
      BY <2>6 DEF Shown
    <2>9. \A l, f : <<l, f>> \in inventory' <=> Shown(l, f)' /\ l[1] \notin databases /\ l \notin queue
      <3> TAKE l, f
      <3>1. CASE l = at
        BY <1>3, <1>5, <2>6, <2>7, <2>8, <3>1
      <3>2. CASE l # at
        <4>1. <<l, f>> \notin ends
          BY <1>4, <3>2
        <4> QED BY <1>3, <2>6, <2>7, <3>2, <4>1
      <3> QED BY <3>1, <3>2
    <2>10. \A y \in DOMAIN roles' : roles'[y] = RoleAt(y)'
      BY <1>3, <2>3, <2>6, <2>7
    <2>11. ExactInv'
      BY <1>2, <2>6, <2>7, <2>9, <2>10 DEF ExactInv
    <2> QED BY <1>6, <2>4, <2>5, <2>11 DEF TellInv
  <1> QED BY <1>8, <1>9

LEMMA BeginMatchingTells ==
  ASSUME TellInv, BeginMatching
  PROVE  TellInv'
  <1>1. /\ pc = "cross" /\ pc' = "match" /\ databases = {} /\ queue = {} /\ held = None
        /\ queue' = Candidates(inventory)
        /\ UNCHANGED <<data, policy, reloads, failures, names, inventory, roles, matched, aligned>>
    BY DEF BeginMatching, world, plan, cross
  <1>2. WorldInv'
    BY <1>1, WorldKept DEF TellInv, WorldInv
  <1>3. IdleInv' /\ SpotInv'
    BY <1>1 DEF TellInv, IdleInv, SpotInv, Before
  <1>4. EdgeInv'
    BY <1>1 DEF TellInv, IdleInv, EdgeInv, Told
  <1>5. ExactInv'
    <2>1. /\ \A l, f : Shown(l, f)' = Shown(l, f)
          /\ \A y : RoleAt(y)' = RoleAt(y)
      BY <1>1, ShownStands
    <2> QED BY <1>1, <2>1 DEF TellInv, ExactInv, Undisturbed
  <1> QED BY <1>2, <1>3, <1>4, <1>5 DEF TellInv

LEMMA BeginAligningTells ==
  ASSUME TellInv, BeginAligning
  PROVE  TellInv'
  <1>1. /\ pc = "match" /\ pc' = "align" /\ queue = {} /\ queue' = AlignCandidates(roles)
        /\ UNCHANGED <<data, policy, reloads, failures, names, inventory, roles, matched, aligned>>
    BY DEF BeginAligning, world, plan, cross
  <1>2. WorldInv'
    BY <1>1, WorldKept DEF TellInv, WorldInv
  <1>3. IdleInv' /\ SpotInv'
    BY <1>1 DEF TellInv, IdleInv, SpotInv, Before
  <1>4. EdgeInv'
    <2>1. aligned = {} /\ Told(matched, Candidates(inventory))
      BY <1>1 DEF TellInv, EdgeInv
    <2>2. Told(aligned, AlignCandidates(roles) \ AlignCandidates(roles))
      BY <2>1 DEF Told
    <2> QED BY <1>1, <2>1, <2>2 DEF EdgeInv
  <1>5. ExactInv'
    <2>1. /\ \A l, f : Shown(l, f)' = Shown(l, f)
          /\ \A y : RoleAt(y)' = RoleAt(y)
      BY <1>1, ShownStands
    <2> QED BY <1>1, <2>1 DEF TellInv, ExactInv, Undisturbed
  <1> QED BY <1>2, <1>3, <1>4, <1>5 DEF TellInv

\* Samples are finite, as what they are taken from is.
LEMMA SamplesAreFinite ==
  ASSUME data \in Worlds, NEW x, x[1] \in DOMAIN data, x[2] \in DOMAIN data[x[1]], NEW S \in Samples(x)
  PROVE  IsFiniteSet(S)
  <1>1. IsFiniteSet(data[x[1]][x[2]])
    BY PlanningAssumption
  <1>2. S \subseteq data[x[1]][x[2]]
    BY DEF Samples
  <1> QED BY <1>1, <1>2, FS_Subset

\* A pair leaves the queue when its edge is made.
LEMMA SampledIs ==
  ASSUME TellInv, NEW edges, NEW edges_, Sample(edges, edges_), pc \in {"match", "align"},
         \A d \in queue : d[1] \in inventory /\ d[2] \in inventory
  PROVE  /\ One(queue) \in queue /\ queue' = queue \ {One(queue)} /\ Counted
         /\ UNCHANGED <<world, pc, plan, held, inventory, roles, semantics>>
         /\ \E va, vb : /\ IsFiniteSet(va) /\ IsFiniteSet(vb)
                        /\ edges_ = edges \union {IF pc = "match" THEN MatchEdge(One(queue), va, vb)
                                                  ELSE AlignEdge(One(queue), va, vb)}
  <1> DEFINE c == One(queue)
             edge(va, vb) == IF pc = "match" THEN MatchEdge(c, va, vb) ELSE AlignEdge(c, va, vb)
  <1>1. /\ queue # {} /\ queue' = queue \ {c}
        /\ UNCHANGED <<world, pc, plan, held, inventory, roles, semantics>>
        /\ \/ /\ \E va \in Samples(c[1]), vb \in Samples(c[2]) : edges_ = edges \union {edge(va, vb)}
              /\ UNCHANGED failures
           \/ Fails /\ edges_ = edges \union {edge({}, {})}
    BY DEF Sample
  <1>2. c \in queue
    BY <1>1, OneIsMember
  <1>3. /\ c[1][1] \in DOMAIN data /\ c[1][2] \in DOMAIN data[c[1][1]]
        /\ c[2][1] \in DOMAIN data /\ c[2][2] \in DOMAIN data[c[2][1]]
    BY <1>2 DEF TellInv, SpotInv
  <1>4. \A va \in Samples(c[1]) : IsFiniteSet(va)
    BY <1>3, SamplesAreFinite DEF TellInv, WorldInv
  <1>5. \A vb \in Samples(c[2]) : IsFiniteSet(vb)
    BY <1>3, SamplesAreFinite DEF TellInv, WorldInv
  <1>6. \E va, vb : IsFiniteSet(va) /\ IsFiniteSet(vb) /\ edges_ = edges \union {edge(va, vb)}
    <2>1. IsFiniteSet({})
      BY FS_EmptySet
    <2> HIDE DEF edge, c
    <2> QED BY <1>1, <1>4, <1>5, <2>1
  <1>7. Counted
    <2> HIDE DEF edge, c
    <2> QED BY <1>1 DEF Counted
  <1> QED BY <1>1, <1>2, <1>6, <1>7

LEMMA InventoryIsListed ==
  ASSUME TellInv, pc \in {"match", "align"}
  PROVE  OneWay(Candidates(inventory)) /\ OneWay(AlignCandidates(roles))
  <1>1. \A x \in inventory : x[1] \in Range(Locations)
    BY PlanningAssumption DEF TellInv, WorldInv, SpotInv
  <1>2. \A x \in DOMAIN roles : x = <<x[1], x[2]>>
    BY DEF TellInv, SpotInv
  <1> QED BY <1>1, <1>2, CandidatesOneWay, AlignmentsOneWay

LEMMA MatchTells ==
  ASSUME TellInv, Match
  PROVE  TellInv'
  <1>1. pc = "match" /\ Sample(matched, matched') /\ aligned' = aligned
    BY DEF Match
  <1>2. queue \subseteq Candidates(inventory) /\ aligned = {} /\ Told(matched, Candidates(inventory) \ queue)
    BY <1>1 DEF TellInv, EdgeInv
  <1>3. \A d \in queue : d[1] \in inventory /\ d[2] \in inventory
    BY <1>2, CandidatesAreKeys
  <1>4. PICK c : c = One(queue)
    OBVIOUS
  <1>5. /\ c \in queue /\ queue' = queue \ {c} /\ Counted
        /\ UNCHANGED <<world, pc, plan, held, inventory, roles, semantics>>
        /\ \E va, vb : IsFiniteSet(va) /\ IsFiniteSet(vb) /\ matched' = matched \union {MatchEdge(c, va, vb)}
    BY <1>1, <1>3, <1>4, SampledIs
  <1>6. PICK va, vb : IsFiniteSet(va) /\ IsFiniteSet(vb) /\ matched' = matched \union {MatchEdge(c, va, vb)}
    BY <1>5
  <1>7. Told(matched', Candidates(inventory) \ (queue \ {c}))
    <2> DEFINE e == MatchEdge(c, va, vb)
    <2>1. IsEdge(e) /\ e.from = c[1] /\ e.to = c[2]
      BY <1>6, MatchEdgeIs
    <2> HIDE DEF e
    <2>2. OneWay(Candidates(inventory))
      BY <1>1, InventoryIsListed
    <2>3. Told(matched \union {e}, Candidates(inventory) \ (queue \ {c}))
      BY <1>2, <1>5, <2>1, <2>2, ToldOfDrawn
    <2> QED BY <1>6, <2>3 DEF e
  <1>8. UNCHANGED <<data, policy, reloads, names>>
    BY <1>5 DEF world, plan
  <1>9. WorldInv'
    BY <1>5, <1>8, WorldKept, CountedIsNat DEF TellInv
  <1>10. IdleInv' /\ SpotInv' /\ EdgeInv'
    BY <1>1, <1>2, <1>5, <1>7, <1>8 DEF TellInv, IdleInv, SpotInv, EdgeInv, Before
  <1>11. ExactInv'
    <2>1. Undisturbed' => Undisturbed
      BY <1>5, CountedIsNat DEF TellInv
    <2>2. /\ \A l, f : Shown(l, f)' = Shown(l, f)
          /\ \A y : RoleAt(y)' = RoleAt(y)
      BY <1>8, ShownStands
    <2> QED BY <1>1, <1>5, <2>1, <2>2 DEF TellInv, ExactInv
  <1> QED BY <1>9, <1>10, <1>11 DEF TellInv

LEMMA AlignTells ==
  ASSUME TellInv, Align
  PROVE  TellInv'
  <1>1. pc = "align" /\ Sample(aligned, aligned') /\ matched' = matched
    BY DEF Align
  <1>2. /\ queue \subseteq AlignCandidates(roles) /\ Told(matched, Candidates(inventory))
        /\ Told(aligned, AlignCandidates(roles) \ queue)
        /\ \A e \in aligned : e.kind = "identifier_alignment" /\ e.conf >= 7500
    BY <1>1 DEF TellInv, EdgeInv
  <1>3. \A d \in queue : d[1] \in inventory /\ d[2] \in inventory
    <2>1. inventory = DOMAIN roles /\ \A x \in DOMAIN roles : x = <<x[1], x[2]>>
      BY <1>1 DEF TellInv, SpotInv
    <2> QED BY <1>2, <2>1, AlignedHaveRoles
  <1>4. PICK c : c = One(queue)
    OBVIOUS
  <1>5. /\ c \in queue /\ queue' = queue \ {c} /\ Counted
        /\ UNCHANGED <<world, pc, plan, held, inventory, roles, semantics>>
        /\ \E va, vb : IsFiniteSet(va) /\ IsFiniteSet(vb) /\ aligned' = aligned \union {AlignEdge(c, va, vb)}
    BY <1>1, <1>3, <1>4, SampledIs
  <1>6. PICK va, vb : IsFiniteSet(va) /\ IsFiniteSet(vb) /\ aligned' = aligned \union {AlignEdge(c, va, vb)}
    BY <1>5
  <1>7. /\ Told(aligned', AlignCandidates(roles) \ (queue \ {c}))
        /\ \A e \in aligned' : e.kind = "identifier_alignment" /\ e.conf >= 7500
    <2> DEFINE e == AlignEdge(c, va, vb)
    <2>1. IsEdge(e) /\ e.from = c[1] /\ e.to = c[2] /\ e.kind = "identifier_alignment" /\ e.conf >= 7500
      BY <1>6, AlignEdgeIs
    <2> HIDE DEF e
    <2>2. OneWay(AlignCandidates(roles))
      BY <1>1, InventoryIsListed
    <2>3. Told(aligned \union {e}, AlignCandidates(roles) \ (queue \ {c}))
      BY <1>2, <1>5, <2>1, <2>2, ToldOfDrawn
    <2>4. aligned' = aligned \union {e}
      BY <1>6 DEF e
    <2> QED BY <1>2, <2>1, <2>3, <2>4
  <1>8. UNCHANGED <<data, policy, reloads, names>>
    BY <1>5 DEF world, plan
  <1>9. WorldInv'
    BY <1>5, <1>8, WorldKept, CountedIsNat DEF TellInv
  <1>10. IdleInv' /\ SpotInv' /\ EdgeInv'
    BY <1>1, <1>2, <1>5, <1>7, <1>8 DEF TellInv, IdleInv, SpotInv, EdgeInv, Before
  <1>11. ExactInv'
    <2>1. Undisturbed' => Undisturbed
      BY <1>5, CountedIsNat DEF TellInv
    <2>2. /\ \A l, f : Shown(l, f)' = Shown(l, f)
          /\ \A y : RoleAt(y)' = RoleAt(y)
      BY <1>8, ShownStands
    <2> QED BY <1>1, <1>5, <2>1, <2>2 DEF TellInv, ExactInv
  <1> QED BY <1>9, <1>10, <1>11 DEF TellInv

\* A reload disturbs the call.
LEMMA ReloadTells ==
  ASSUME TellInv, NEW p \in Policies \union {NoPolicy}, Reload(p)
  PROVE  TellInv'
  <1>1. /\ reloads' = reloads + 1 /\ policy' = p
        /\ UNCHANGED <<data, failures, pc, queue, held, names, databases, inventory, roles, matched, aligned>>
    BY DEF Reload, plan, cross
  <1>2. ~Undisturbed'
    BY <1>1 DEF TellInv, WorldInv, Undisturbed
  <1>3. Stored(NoDb)' = Stored(NoDb)
    BY <1>1 DEF Stored
  <1>4. WorldInv'
    BY <1>1, <1>3 DEF TellInv, WorldInv
  <1>5. IdleInv' /\ SpotInv' /\ EdgeInv'
    BY <1>1 DEF TellInv, IdleInv, SpotInv, EdgeInv
  <1> QED BY <1>2, <1>4, <1>5 DEF TellInv, ExactInv

LEMMA StutterTells ==
  ASSUME TellInv, UNCHANGED vars
  PROVE  TellInv'
  <1>1. UNCHANGED <<data, policy, reloads, failures, pc, queue, held, names, databases, inventory, roles, matched, aligned>>
    BY DEF vars, world, plan, cross
  <1>2. Stored(NoDb)' = Stored(NoDb)
    BY <1>1 DEF Stored
  <1>3. WorldInv' /\ IdleInv' /\ SpotInv' /\ EdgeInv'
    BY <1>1, <1>2 DEF TellInv, WorldInv, IdleInv, SpotInv, EdgeInv
  <1>4. ExactInv'
    <2>1. /\ \A l : Reach(l)' = Reach(l)
          /\ \A l, f : Shown(l, f)' = Shown(l, f)
          /\ \A x : RoleAt(x)' = RoleAt(x)
          /\ Dbs' = Dbs
      BY <1>1, ShownStands
    <2>2. held # None => Reach(held.at)' = Reach(held.at)
      BY <1>1 DEF Reach, Dbs, Discovered, Stored
    <2>3. Visible(policy, held.at[1], held.at[2])' = Visible(policy, held.at[1], held.at[2])
      BY <1>1 DEF Visible, Discovered, Stored, FieldsAt
    <2>4. Undisturbed' = Undisturbed
      BY <1>1 DEF Undisturbed
    <2> QED BY <1>1, <2>1, <2>2, <2>3, <2>4 DEF TellInv, ExactInv
  <1> QED BY <1>3, <1>4 DEF TellInv

LEMMA StepTells ==
  ASSUME TellInv, CrossInv, [Next]_vars
  PROVE  TellInv'
  <1>1. CASE PlanFails \/ Discover \/ DescribePicked \/ Relate \/ \E kind \in {"find", "aggregate"} : Weigh(kind)
    BY <1>1, PlannerTells
  <1>2. CASE CloseBlock \/ Reply \/ Unhashable
    BY <1>2, EndTells
  <1>3. CASE Describe \/ Characterize
    <2>1. pc \in {"cross", "semantics"}
      BY <1>3 DEF Describe, Characterize, CrossInv, HeldInv
    <2> QED BY <1>3, <2>1, EndTells, DescribeTells, CharacterizeTells
  <1>4. CASE OpenBlock \/ List \/ BeginMatching \/ Match \/ BeginAligning \/ Align
    BY <1>4, OpenTells, ListTells, BeginMatchingTells, MatchTells, BeginAligningTells,
       AlignTells
  <1>5. ASSUME NEW p \in Policies \union {NoPolicy}, Reload(p) PROVE TellInv'
    BY <1>5, ReloadTells
  <1>6. CASE UNCHANGED vars
    BY <1>6, StutterTells
  <1> QED BY <1>1, <1>2, <1>3, <1>4, <1>5, <1>6 DEF Next

----------------------------------------------------------------------------
(* What the answer tells.                                                  *)

LEMMA RolesRefer ==
  ASSUME data \in Worlds, NEW x, RoleAt(x).role = "foreign_identifier", x[1][1] # NoDb
  PROVE  RoleAt(x).refs # NoRef
  <1> DEFINE colls == Discovered(policy, x[1][1])
             own == {r \in Inferred(colls, {}) : r.from = x[1][2] /\ r.field = x[2]}
  <1>1. own # {} /\ RoleAt(x).refs = One(own).to
    BY DEF RoleAt, RoleOf
  <1>2. One(own) \in Inferred(colls, {})
    BY <1>1, OneIsMember
  <1> HIDE DEF own
  <1>3. One(own).to \in colls
    BY <1>2, InferredIsAmong
  <1> QED BY <1>1, <1>3, StoredIs, DiscoveredAreStored

LEMMA IdIsPrimary == ASSUME NEW x, x[2] = DocId PROVE RoleAt(x).role = "primary_identifier"
  BY DEF RoleAt, RoleOf

LEMMA JoinableIs ==
  ASSUME policy # NoPolicy \/ policy = NoPolicy
  PROVE  \A x : x \in Joinable <=> x = <<x[1], x[2]>> /\ Shown(x[1], x[2])
  <1> SUFFICES ASSUME NEW x PROVE x \in Joinable <=> x = <<x[1], x[2]>> /\ Shown(x[1], x[2])
    OBVIOUS
  <1>1. CASE policy = NoPolicy
    BY <1>1 DEF Joinable, Shown, Reach, Dbs
  <1>2. CASE policy # NoPolicy
    <2>1. x \in Joinable <=> \E d \in policy.dbAllow : \E k \in Stored(d) : \E f \in Visible(policy, d, k) :
                                x = <<<<d, k>>, f>>
      BY <1>2 DEF Joinable
    <2>2. ASSUME x = <<x[1], x[2]>>, Shown(x[1], x[2])
          PROVE  \E d \in policy.dbAllow : \E k \in Stored(d) : \E f \in Visible(policy, d, k) :
                     x = <<<<d, k>>, f>>
      BY <1>2, <2>2, DiscoveredAreStored DEF Shown, Reach, Dbs
    <2>3. ASSUME NEW d \in policy.dbAllow, NEW k \in Stored(d), NEW f \in Visible(policy, d, k), x = <<<<d, k>>, f>>
          PROVE  x = <<x[1], x[2]>> /\ Shown(x[1], x[2])
      <3>1. x[1] = <<d, k>> /\ x[2] = f /\ x[1][1] = d /\ x[1][2] = k
        BY <2>3
      <3>2. k \in Discovered(policy, d)
        BY DEF Visible
      <3> QED BY <1>2, <2>3, <3>1, <3>2 DEF Shown, Reach, Dbs
    <2> QED BY <2>1, <2>2, <2>3
  <1> QED BY <1>1, <1>2

\* An edge between a reference and what it refers to is marked as one.
Marked(e) == RolesAlign(roles, e) => e.kind = "identifier_alignment"

\* The answer: the boosted edges of one name, and the alignments.
LEMMA CrossEdgesAre ==
  ASSUME TellInv, Answered
  PROVE  /\ \A e, f \in CrossEdges : Pair(e) = Pair(f) => e = f
         /\ \A e \in CrossEdges :
               /\ <<e.from, e.to>> \in Candidates(inventory) \union AlignCandidates(roles)
               /\ Marked(e)
         /\ \A c \in Candidates(inventory) : \E e \in CrossEdges : Pair(e) = {c[1], c[2]}
         /\ \A c \in AlignCandidates(roles) : \E e \in CrossEdges : Pair(e) = {c[1], c[2]} /\ e.conf >= 7500
  <1> DEFINE B == {Boost(roles, e) : e \in matched}
             C == Candidates(inventory)
             D == AlignCandidates(roles)
  <1>1. /\ Told(matched, C) /\ Told(aligned, D)
        /\ \A e \in aligned : e.kind = "identifier_alignment" /\ e.conf >= 7500
    <2>1. D \ queue = D
      BY DEF Answered
    <2> QED BY <2>1 DEF Answered, TellInv, EdgeInv
  <1>t. Told(matched, C)
    BY <1>1
  <1>u. Told(aligned, D)
    BY <1>1
  <1>2. Told(B, C)
    BY <1>1, BoostedAreTold
  <1>3. OneWay(C) /\ OneWay(D)
    BY InventoryIsListed DEF Answered
  <1>4. \A e \in B : RolesAlign(roles, e) => e.kind = "identifier_alignment"
    <2> SUFFICES ASSUME NEW m \in matched, RolesAlign(roles, Boost(roles, m))
                 PROVE  Boost(roles, m).kind = "identifier_alignment"
      OBVIOUS
    <2> HIDE DEF B, C, D
    <2>1. IsEdge(m)
      BY <1>t, ToldIs, Zenon
    <2>2. Boost(roles, m).from = m.from /\ Boost(roles, m).to = m.to
      BY <2>1, BoostIs
    <2>3. RolesAlign(roles, m)
      BY <2>2 DEF RolesAlign
    <2> QED BY <2>1, <2>3, BoostIs
  <1> HIDE DEF B, C, D
  <1>5. CrossEdges = Merge(B, aligned)
    BY DEF CrossEdges, B
  <1>6. /\ \A e, f \in B : Pair(e) = Pair(f) => e = f
        /\ \A e, f \in aligned : Pair(e) = Pair(f) => e = f
    BY <1>1, <1>2, <1>3, EndsTellApart
  <1>7. \A e \in B \union aligned : e.conf \in Int
    <2>1. \A e \in B : e.conf \in Int /\ <<e.from, e.to>> \in C
      BY <1>2, ToldIs, Zenon
    <2>2. \A e \in aligned : e.conf \in Int /\ <<e.from, e.to>> \in D
      BY <1>u, ToldIs, Zenon
    <2> QED BY <2>1, <2>2
  <1>8. \A e, f \in CrossEdges : Pair(e) = Pair(f) => e = f
    BY <1>5, <1>6, MergeTellsOnce
  <1>9. \A e \in B \union aligned : \E f \in CrossEdges : Pair(f) = Pair(e) /\ f.conf >= e.conf
    BY <1>5, <1>6, <1>7, MergeKeepsTheBetter
  <1>10. \A e \in CrossEdges : e \in B \/ e \in aligned
    BY <1>5 DEF Merge
  <1>11. \A e \in CrossEdges : <<e.from, e.to>> \in C \union D /\ Marked(e)
    <2>1. \A e \in B : e.conf \in Int /\ <<e.from, e.to>> \in C
      BY <1>2, ToldIs, Zenon
    <2>2. \A e \in aligned : e.conf \in Int /\ <<e.from, e.to>> \in D
      BY <1>u, ToldIs, Zenon
    <2>3. \A e \in aligned : e.kind = "identifier_alignment"
      BY <1>1
    <2> QED BY <1>4, <1>10, <2>1, <2>2, <2>3 DEF Marked
  <1>12. \A c \in C : \E e \in CrossEdges : Pair(e) = {c[1], c[2]}
    <2> TAKE c \in C
    <2>1. PICK b \in B : b.from = c[1] /\ b.to = c[2]
      BY <1>2 DEF Told
    <2>2. Pair(b) = {c[1], c[2]}
      BY <2>1 DEF Pair
    <2> QED BY <1>9, <2>2
  <1>13. \A c \in D : \E e \in CrossEdges : Pair(e) = {c[1], c[2]} /\ e.conf >= 7500
    <2> TAKE c \in D
    <2>1. PICK b \in aligned : b.from = c[1] /\ b.to = c[2]
      BY <1>1 DEF Told
    <2>2. Pair(b) = {c[1], c[2]} /\ b.conf >= 7500 /\ b.conf \in Int
      BY <1>1, <1>7, <2>1 DEF Pair
    <2>3. PICK f \in CrossEdges : Pair(f) = Pair(b) /\ f.conf >= b.conf
      BY <1>9
    <2>4. f.conf \in Int
      BY <1>7, <1>10
    <2> QED BY <2>2, <2>3, <2>4
  <1> QED BY <1>8, <1>11, <1>12, <1>13 DEF C, D

LEMMA EdgesAreMarked == ASSUME TellInv, Answered PROVE \A f \in CrossEdges : Marked(f)
  <1> SUFFICES ASSUME NEW f \in CrossEdges PROVE Marked(f)
    OBVIOUS
  <1>1. \A e \in CrossEdges : <<e.from, e.to>> \in Candidates(inventory) \union AlignCandidates(roles) /\ Marked(e)
    BY CrossEdgesAre
  <1> QED BY <1>1

\* The answer tells each pair once, tells only what may be joined, and leaves
\* no pair out.
LEMMA PairsAreToldOnce ==
  ASSUME TellInv PROVE PairsToldOnce
  <1> SUFFICES ASSUME Answered, Undisturbed PROVE
          /\ \A e \in CrossEdges : Justified(e)
          /\ \A x, y \in Joinable : x[1][1] # y[1][1] =>
                /\ SharesName(x, y) => \E e \in CrossEdges : Ends(e) = {x, y}
                /\ RefersTo(x, y) => ReferenceTold(x, y)
    <2>1. Answered => \A e, f \in CrossEdges : Ends(e) = Ends(f) => e = f
      BY CrossEdgesAre DEF Ends, Pair
    <2> QED BY <2>1 DEF PairsToldOnce
  <1>3. /\ pc = "align" /\ inventory = DOMAIN roles
        /\ \A x \in inventory : x = <<x[1], x[2]>> /\ x[1] \in DOMAIN data /\ x[2] \in DOMAIN data[x[1]]
    BY DEF Answered, TellInv, SpotInv
  <1>4. inventory = Joinable
    <2>1. \A l, f : <<l, f>> \in inventory <=> Shown(l, f)
      BY <1>3 DEF TellInv, ExactInv
    <2>2. \A x : x \in inventory <=> x = <<x[1], x[2]>> /\ Shown(x[1], x[2])
      <3> TAKE x
      <3>1. CASE x = <<x[1], x[2]>>
        BY <2>1, <3>1
      <3>2. CASE x # <<x[1], x[2]>>
        BY <1>3, <3>2
      <3> QED BY <3>1, <3>2
    <2> QED BY <2>2, JoinableIs
  <1>5. \A x \in Joinable : roles[x] = RoleAt(x)
    BY <1>3, <1>4 DEF TellInv, ExactInv
  <1>6. \A x \in Joinable : x = <<x[1], x[2]>> /\ x[1] = <<x[1][1], x[1][2]>> /\ x[1][1] # NoDb
    <2> TAKE x \in Joinable
    <2>1. x = <<x[1], x[2]>> /\ x[1] \in DOMAIN data
      BY <1>3, <1>4
    <2>2. PICK i \in DOMAIN Locations : x[1] = Locations[i]
      BY <2>1, PlanningAssumption DEF Range, TellInv, WorldInv
    <2> QED BY <2>1, <2>2, CrossDbAssumption, PlanningAssumption
  <1>7. \A loc : DocId \in Primaries(roles, loc) <=> <<loc, DocId>> \in Joinable
    <2> TAKE loc
    <2>1. ASSUME DocId \in Primaries(roles, loc) PROVE <<loc, DocId>> \in Joinable
      <3>1. PICK y \in DOMAIN roles : y[1] = loc /\ y[2] = DocId
        BY <2>1 DEF Primaries
      <3>2. y = <<y[1], y[2]>>
        BY <1>3
      <3> QED BY <1>3, <1>4, <3>1, <3>2
    <2>2. ASSUME <<loc, DocId>> \in Joinable PROVE DocId \in Primaries(roles, loc)
      <3> DEFINE y == <<loc, DocId>>
      <3>1. y[1] = loc /\ y[2] = DocId
        OBVIOUS
      <3>2. y \in DOMAIN roles /\ roles[y] = RoleAt(y)
        BY <1>3, <1>4, <1>5, <2>2
      <3> HIDE DEF y
      <3>3. roles[y].role = "primary_identifier"
        BY <3>1, <3>2, IdIsPrimary
      <3> QED BY <3>1, <3>2, <3>3 DEF Primaries
    <2> QED BY <2>1, <2>2
  <1>8. \A c \in AlignCandidates(roles) :
          c[1] \in Joinable /\ c[2] \in Joinable /\ c[1][1][1] # c[2][1][1] /\ RefersTo(c[1], c[2])
    <2> TAKE c \in AlignCandidates(roles)
    <2>1. /\ c[1] \in DOMAIN roles /\ c[2] \in DOMAIN roles
          /\ c[2][1][1] # c[1][1][1]
          /\ roles[c[1]].role = "foreign_identifier"
          /\ MatchesResource(roles[c[1]].refs, c[2][1][2])
          /\ roles[c[2]].role = "primary_identifier"
          /\ c[2][2] # DocId => DocId \notin Primaries(roles, c[2][1])
      BY <1>3, AlignmentIs
    <2> QED BY <1>3, <1>4, <1>5, <1>7, <2>1 DEF RefersTo
  <1>9. \A c \in Candidates(inventory) :
          c[1] \in Joinable /\ c[2] \in Joinable /\ c[1][1][1] # c[2][1][1] /\ SharesName(c[1], c[2])
    BY <1>4 DEF Candidates, SharesName
  <1>10. ASSUME NEW e \in CrossEdges
         PROVE  Justified(e)
    <2> DEFINE c == <<e.from, e.to>>
    <2>1. c \in Candidates(inventory) \union AlignCandidates(roles) /\ c[1] = e.from /\ c[2] = e.to
      BY CrossEdgesAre
    <2> HIDE DEF c
    <2>5. Marked(e)
      <3>1. \A f \in CrossEdges : Marked(f)
        BY EdgesAreMarked, Zenon
      <3> QED BY <3>1
    <2>2. Ends(e) \subseteq Joinable /\ e.from[1][1] # e.to[1][1]
      BY <1>8, <1>9, <2>1 DEF Ends
    <2>3. SharesName(e.from, e.to) \/ RefersTo(e.from, e.to)
      BY <1>8, <1>9, <2>1
    <2>4. ASSUME RefersTo(e.from, e.to) \/ RefersTo(e.to, e.from) PROVE e.kind = "identifier_alignment"
      <3>1. {e.from, e.to} \subseteq DOMAIN roles /\ roles[e.from] = RoleAt(e.from) /\ roles[e.to] = RoleAt(e.to)
        BY <1>3, <1>4, <1>5, <2>2 DEF Ends
      <3>2. RolesAlign(roles, e)
        BY <2>4, <3>1 DEF RolesAlign, RefersTo
      <3> QED BY <2>5, <3>2 DEF Marked
    <2> QED BY <2>2, <2>3, <2>4 DEF Justified
  <1>11. ASSUME NEW x \in Joinable, NEW y \in Joinable, x[1][1] # y[1][1], SharesName(x, y)
         PROVE  \E e \in CrossEdges : Ends(e) = {x, y}
    <2>1. x[1] \in Range(Locations) /\ y[1] \in Range(Locations) /\ x[1] # y[1]
      BY <1>3, <1>4, <1>11, PlanningAssumption DEF TellInv, WorldInv
    <2>2. Position(x[1]) < Position(y[1]) \/ Position(y[1]) < Position(x[1])
      <3> DEFINE m == Position(x[1])
                 n == Position(y[1])
      <3>1. m \in DOMAIN Locations /\ n \in DOMAIN Locations /\ Locations[m] = x[1] /\ Locations[n] = y[1]
        BY <2>1 DEF Position, Range
      <3>2. m \in Int /\ n \in Int
        BY <2>1, PositionIs
      <3> HIDE DEF m, n
      <3>3. m # n
        BY <2>1, <3>1
      <3>4. m < n \/ n < m
        BY <3>2, <3>3
      <3> QED BY <3>4 DEF m, n
    <2>3. <<x, y>> \in Candidates(inventory) \/ <<y, x>> \in Candidates(inventory)
      BY <1>4, <1>11, <2>2 DEF Candidates, SharesName
    <2>4. \E e \in CrossEdges : Pair(e) = {x, y}
      <3>1. CASE <<x, y>> \in Candidates(inventory)
        BY <3>1, CrossEdgesAre
      <3>2. CASE <<y, x>> \in Candidates(inventory)
        <4>1. \E e \in CrossEdges : Pair(e) = {y, x}
          BY <3>2, CrossEdgesAre
        <4> QED BY <4>1
      <3> QED BY <2>3, <3>1, <3>2
    <2> QED BY <2>4 DEF Pair, Ends
  <1>12. ASSUME NEW x \in Joinable, NEW y \in Joinable, x[1][1] # y[1][1], RefersTo(x, y)
         PROVE  ReferenceTold(x, y)
    <2> DEFINE z == <<y[1], PrimaryField(roles, y[1])>>
    <2>1. /\ x \in DOMAIN roles /\ y \in DOMAIN roles /\ y = <<y[1], y[2]>>
          /\ roles[x].role = "foreign_identifier" /\ MatchesResource(roles[x].refs, y[1][2])
          /\ roles[y].role = "primary_identifier"
      BY <1>3, <1>4, <1>5, <1>12 DEF RefersTo
    <2>2. roles[x].refs # NoRef
      BY <1>5, <1>6, <2>1, RolesRefer DEF TellInv, WorldInv
    <2>3. <<x, z>> \in AlignCandidates(roles)
      BY <1>12, <2>1, <2>2, ReferencesAreAligned
    <2>4. z[1] = y[1]
      OBVIOUS
    <2> HIDE DEF z
    <2>5. z \in Joinable /\ RefersTo(x, z)
      BY <1>8, <2>3
    <2>6. PICK e \in CrossEdges : Pair(e) = {x, z} /\ e.conf >= 7500
      BY <2>3, CrossEdgesAre
    <2>7. e.kind = "identifier_alignment"
      <3>1. (e.from = x /\ e.to = z) \/ (e.from = z /\ e.to = x)
        BY <2>6 DEF Pair
      <3>2. Justified(e)
        BY <1>10
      <3> QED BY <2>5, <3>1, <3>2 DEF Justified
    <2> QED BY <2>4, <2>5, <2>6, <2>7 DEF Pair, Ends, ReferenceTold
  <1> QED BY <1>10, <1>11, <1>12

\* Of every call, whatever the connection holds and whatever the roles say: the
\* cross-database block tells a pair of endpoints once, and, undisturbed, tells
\* every join key the policy in force shows and nothing else.
THEOREM JoinKeysToldOnce == Spec => []PairsToldOnce
  <1>1. Init => PlanInv /\ CrossInv /\ TellInv
    BY InitInv, TellInit
  <1>2. PlanInv /\ CrossInv /\ TellInv /\ [Next]_vars => (PlanInv /\ CrossInv /\ TellInv)'
    BY StepKeeps, StepTells
  <1>3. TellInv => PairsToldOnce
    BY PairsAreToldOnce
  <1> QED BY <1>1, <1>2, <1>3, PTL DEF Spec

----------------------------------------------------------------------------
(* Paths: walks that visit no location twice, and the chains they make.    *)

\* Counting up.
LEMMA UpTo ==
  ASSUME NEW N \in Nat, NEW S, 0 \in S, \A n \in 0 .. N - 1 : n \in S => n + 1 \in S
  PROVE  \A n \in 0 .. N : n \in S
  <1> DEFINE T == {n \in 0 .. N : n \notin S}
  <1>1. SUFFICES ASSUME T # {} PROVE FALSE
    OBVIOUS
  <1>2. T \in SUBSET Nat
    OBVIOUS
  <1>3. PICK m \in T : \A i \in T : <<i, m>> \notin OpToRel(<, Nat)
    BY <1>1, <1>2, WFMin, NatLessThanWellFounded, Zenon
  <1>4. \A i \in T : ~(i < m)
    BY <1>2, <1>3, Zenon DEF OpToRel
  <1> USE DEF T
  <1>5. m # 0
    OBVIOUS
  <1>6. m - 1 \in 0 .. N - 1 /\ m - 1 \notin T
    BY <1>4, <1>5
  <1> QED
    BY <1>6

----------------------------------------------------------------------------
(* A walk of n edges: the locations v it visits, each once, and its edges s. *)

Leads(E, v, s, n) ==
    /\ v \in [1 .. n + 1 -> Range(Locations)] /\ s \in [1 .. n -> E]
    /\ \A i, j \in 1 .. n + 1 : v[i] = v[j] => i = j
    /\ \A i \in 1 .. n : Passes(s[i]) = {v[i], v[i + 1]}

\* A walk passes each location by the edge before and the edge after it.
LEMMA MetAt ==
  ASSUME NEW E, NEW v, NEW s, NEW n \in Nat, Leads(E, v, s, n),
         NEW i \in 1 .. n + 1, NEW j \in 1 .. n, v[i] \in Passes(s[j])
  PROVE  j = i \/ j + 1 = i
  <1>1. v[i] = v[j] \/ v[i] = v[j + 1]
    BY DEF Leads
  <1>2. j \in 1 .. n + 1 /\ j + 1 \in 1 .. n + 1
    OBVIOUS
  <1> QED
    BY <1>1, <1>2 DEF Leads

LEMMA EdgesDiffer ==
  ASSUME NEW E, NEW v, NEW s, NEW n \in Nat, Leads(E, v, s, n)
  PROVE  \A i, j \in 1 .. n : s[i] = s[j] => i = j
  <1> SUFFICES ASSUME NEW i \in 1 .. n, NEW j \in 1 .. n, s[i] = s[j] PROVE i = j
    OBVIOUS
  <1>1. i \in 1 .. n + 1 /\ i + 1 \in 1 .. n + 1
    OBVIOUS
  <1>2. v[i] \in Passes(s[j]) /\ v[i + 1] \in Passes(s[j])
    BY DEF Leads
  <1>3. (j = i \/ j + 1 = i) /\ (j = i + 1 \/ j + 1 = i + 1)
    BY <1>1, <1>2, MetAt
  <1> QED
    BY <1>3

LEMMA CountOf ==
  ASSUME NEW m \in Nat, NEW f, DOMAIN f = 1 .. m, \A i, j \in 1 .. m : f[i] = f[j] => i = j
  PROVE  IsFiniteSet(Range(f)) /\ Cardinality(Range(f)) = m
  <1>1. IsFiniteSet(1 .. m) /\ Cardinality(1 .. m) = m
    BY FS_Interval
  <1> DEFINE g == [i \in 1 .. m |-> f[i]]
  <1>2. g \in Bijection(1 .. m, Range(f))
    BY DEF Range, Bijection, Injection, Surjection, IsInjective
  <1>3. ExistsBijection(1 .. m, Range(f))
    BY <1>2 DEF ExistsBijection
  <1> QED
    BY <1>1, <1>3, FS_Bijection

LEMMA CountOfWalk ==
  ASSUME NEW E, NEW v, NEW s, NEW n \in Nat, Leads(E, v, s, n)
  PROVE  /\ IsFiniteSet(Range(s)) /\ Cardinality(Range(s)) = n
         /\ IsFiniteSet(Range(v)) /\ Cardinality(Range(v)) = n + 1
  <1>1. DOMAIN s = 1 .. n /\ DOMAIN v = 1 .. n + 1 /\ n + 1 \in Nat
    BY DEF Leads
  <1>2. \A i, j \in 1 .. n + 1 : v[i] = v[j] => i = j
    BY DEF Leads
  <1> QED
    BY <1>1, <1>2, EdgesDiffer, CountOf

LEMMA LocationsOfWalk ==
  ASSUME NEW E, NEW v, NEW s, NEW n \in Nat \ {0}, Leads(E, v, s, n)
  PROVE  UNION {Passes(e) : e \in Range(s)} = Range(v)
  <1>1. DOMAIN s = 1 .. n /\ DOMAIN v = 1 .. n + 1
    BY DEF Leads
  <1>2. \A i \in 1 .. n : Passes(s[i]) = {v[i], v[i + 1]} /\ i \in 1 .. n + 1 /\ i + 1 \in 1 .. n + 1
    BY DEF Leads
  <1>3. \A i \in 1 .. n + 1 : \E j \in 1 .. n : v[i] \in Passes(s[j])
    <2> SUFFICES ASSUME NEW i \in 1 .. n + 1 PROVE \E j \in 1 .. n : v[i] \in Passes(s[j])
      OBVIOUS
    <2>1. CASE i \in 1 .. n
      BY <1>2, <2>1
    <2>2. CASE i = n + 1
      <3>1. n \in 1 .. n
        OBVIOUS
      <3> QED
        BY <1>2, <2>2, <3>1
    <2> QED
      BY <2>1, <2>2
  <1>4. \A x : (\E e \in Range(s) : x \in Passes(e)) <=> \E j \in 1 .. n : x \in Passes(s[j])
    BY <1>1 DEF Range
  <1>5. \A x : x \in Range(v) <=> \E i \in 1 .. n + 1 : x = v[i]
    BY <1>1 DEF Range
  <1>6. ASSUME NEW x PROVE x \in Range(v) <=> \E e \in Range(s) : x \in Passes(e)
    <2>1. ASSUME x \in Range(v) PROVE \E j \in 1 .. n : x \in Passes(s[j])
      BY <1>3, <1>5, <2>1
    <2>2. ASSUME NEW j \in 1 .. n, x \in Passes(s[j]) PROVE x \in Range(v)
      <3>1. x = v[j] \/ x = v[j + 1]
        BY <1>2, <2>2
      <3> QED
        BY <1>2, <1>5, <3>1
    <2> QED
      BY <1>4, <2>1, <2>2
  <1> QED
    BY <1>6

LEMMA AtMostTwo == ASSUME NEW T, NEW a, NEW b, T \subseteq {a, b} PROVE Cardinality(T) <= 2
  <1>1. /\ IsFiniteSet({a}) /\ Cardinality({a}) = 1
        /\ IsFiniteSet({a} \union {b})
        /\ Cardinality({a} \union {b}) = IF b \in {a} THEN Cardinality({a}) ELSE Cardinality({a}) + 1
    BY FS_Singleton, FS_AddElement
  <1>2. T \in SUBSET ({a} \union {b})
    OBVIOUS
  <1>3. Cardinality(T) <= Cardinality({a} \union {b}) /\ IsFiniteSet(T)
    BY <1>1, <1>2, FS_Subset
  <1>4. Cardinality(T) \in Nat
    BY <1>3, FS_CardinalityType
  <1> QED
    BY <1>1, <1>3, <1>4

LEMMA AtLeastThree ==
  ASSUME NEW T, IsFiniteSet(T), NEW a \in T, NEW b \in T, NEW c \in T, a # b, a # c, b # c
  PROVE  Cardinality(T) > 2
  <1>1. IsFiniteSet({a}) /\ Cardinality({a}) = 1
    BY FS_Singleton
  <1>2. IsFiniteSet({a} \union {b}) /\ Cardinality({a} \union {b}) = 2
    <2> DEFINE A == {a}
    <2>1. b \notin A /\ IsFiniteSet(A) /\ Cardinality(A) = 1
      BY <1>1
    <2> HIDE DEF A
    <2>2. IsFiniteSet(A \union {b}) /\ Cardinality(A \union {b}) = 2
      BY <2>1, FS_AddElement
    <2> QED
      BY <2>2 DEF A
  <1>3. Cardinality({a} \union {b} \union {c}) = 3
    BY <1>2, FS_AddElement
  <1>4. {a} \union {b} \union {c} \in SUBSET T
    OBVIOUS
  <1>5. Cardinality({a} \union {b} \union {c}) <= Cardinality(T) /\ Cardinality(T) \in Nat
    BY <1>4, FS_Subset, FS_CardinalityType
  <1> QED
    BY <1>3, <1>5

\* What is not closed under going along the walk is left somewhere along it.
LEMMA SomewhereLeft ==
  ASSUME NEW E, NEW v, NEW s, NEW n \in Nat \ {0}, Leads(E, v, s, n),
         NEW T, NEW a \in 1 .. n, s[a] \in T, NEW b \in 1 .. n, s[b] \notin T
  PROVE  \E i \in 1 .. n - 1 : (s[i] \in T /\ s[i + 1] \notin T) \/ (s[i] \notin T /\ s[i + 1] \in T)
  <1> SUFFICES ASSUME \A i \in 1 .. n - 1 : s[i] \in T <=> s[i + 1] \in T PROVE FALSE
    OBVIOUS
  <1> DEFINE M == {k \in 0 .. n - 1 : s[k + 1] \in T <=> s[1] \in T}
  <1>1. 0 \in M
    OBVIOUS
  <1>2. ASSUME NEW k \in 0 .. (n - 1) - 1, k \in M PROVE k + 1 \in M
    <2>1. k + 1 \in 1 .. n - 1 /\ k + 1 \in 0 .. n - 1
      OBVIOUS
    <2>2. s[k + 1] \in T <=> s[(k + 1) + 1] \in T
      BY <2>1
    <2> QED
      BY <1>2, <2>1, <2>2
  <1> HIDE DEF M
  <1>3. n - 1 \in Nat
    OBVIOUS
  <1>4. \A k \in 0 .. n - 1 : k \in M
    BY <1>1, <1>2, <1>3, UpTo
  <1>5. \A k \in 1 .. n : s[k] \in T <=> s[1] \in T
    <2> SUFFICES ASSUME NEW k \in 1 .. n PROVE s[k] \in T <=> s[1] \in T
      OBVIOUS
    <2>1. k - 1 \in 0 .. n - 1 /\ (k - 1) + 1 = k
      OBVIOUS
    <2> QED
      BY <1>4, <2>1 DEF M
  <1> QED
    BY <1>5

\* The edges of a walk are a chain.
LEMMA WalkIsChain ==
  ASSUME NEW E, NEW v, NEW s, NEW n \in Nat \ {0}, Leads(E, v, s, n)
  PROVE  IsChain(Range(s))
  <1> DEFINE S == Range(s)
  <1>1. DOMAIN s = 1 .. n /\ DOMAIN v = 1 .. n + 1
    BY DEF Leads
  <1>2. /\ IsFiniteSet(S) /\ Cardinality(S) = n
        /\ Cardinality(UNION {Passes(e) : e \in S}) = Cardinality(S) + 1
    <2>1. n \in Nat
      OBVIOUS
    <2>2. UNION {Passes(e) : e \in S} = Range(v)
      BY LocationsOfWalk
    <2>3. /\ IsFiniteSet(Range(s)) /\ Cardinality(Range(s)) = n
          /\ Cardinality(Range(v)) = n + 1
      BY <2>1, CountOfWalk
    <2> QED
      BY <2>2, <2>3
  <1>3. ASSUME NEW x \in UNION {Passes(e) : e \in S} PROVE Cardinality({e \in S : x \in Passes(e)}) <= 2
    <2>1. PICK i \in 1 .. n + 1 : x = v[i]
      BY <1>1, <1>3, LocationsOfWalk DEF Range
    <2>2. {e \in S : x \in Passes(e)} \subseteq {s[i], s[i - 1]}
      <3> SUFFICES ASSUME NEW j \in 1 .. n, x \in Passes(s[j]) PROVE s[j] \in {s[i], s[i - 1]}
        BY <1>1 DEF Range
      <3>1. j = i \/ j + 1 = i
        BY <2>1, MetAt
      <3>2. j = i \/ j = i - 1
        BY <3>1
      <3> QED
        BY <3>2
    <2> QED
      BY <2>2, AtMostTwo
  <1>4. ASSUME NEW T \in (SUBSET S) \ {{}, S}
        PROVE  \E e \in T, f \in S \ T : Passes(e) \intersect Passes(f) # {}
    <2>r. \A x \in S : \E i \in 1 .. n : s[i] = x
      BY <1>1 DEF Range
    <2>0. (\E x \in S : x \in T) /\ (\E x \in S : x \notin T)
      <3> HIDE DEF S
      <3>1. T \subseteq S /\ T # {} /\ T # S
        OBVIOUS
      <3>2. \E x \in S : x \in T
        BY <3>1
      <3>3. \E x \in S : x \notin T
        BY <3>1, Zenon
      <3> QED
        BY <3>2, <3>3
    <2>1. PICK a \in 1 .. n : s[a] \in T
      BY <2>0, <2>r
    <2>2. PICK b \in 1 .. n : s[b] \notin T
      BY <2>0, <2>r
    <2>3. PICK i \in 1 .. n - 1 : (s[i] \in T /\ s[i + 1] \notin T) \/ (s[i] \notin T /\ s[i + 1] \in T)
      BY <2>1, <2>2, SomewhereLeft
    <2>4. i \in 1 .. n /\ i + 1 \in 1 .. n
      OBVIOUS
    <2>5. v[i + 1] \in Passes(s[i]) /\ v[i + 1] \in Passes(s[i + 1])
      BY <2>4 DEF Leads
    <2>6. s[i] \in S /\ s[i + 1] \in S
      BY <1>1, <2>4 DEF Range
    <2> QED
      BY <2>3, <2>5, <2>6
  <1> HIDE DEF S
  <1> QED
    BY <1>2, <1>3, <1>4 DEF IsChain, S

\* From where it starts, a set of edges can be walked in one way only.
LEMMA WalksAgree ==
  ASSUME NEW E, NEW v, NEW s, NEW n \in Nat, Leads(E, v, s, n),
         NEW w, NEW t, NEW m \in Nat, Leads(E, w, t, m), v[1] = w[1], Range(s) = Range(t)
  PROVE  v = w /\ s = t
  <1>1. n = m
    BY CountOfWalk
  <1>2. /\ DOMAIN s = 1 .. n /\ DOMAIN v = 1 .. n + 1 /\ DOMAIN t = 1 .. n /\ DOMAIN w = 1 .. n + 1
        /\ s = [i \in 1 .. n |-> s[i]] /\ t = [i \in 1 .. n |-> t[i]]
        /\ v = [i \in 1 .. n + 1 |-> v[i]] /\ w = [i \in 1 .. n + 1 |-> w[i]]
    BY <1>1 DEF Leads
  <1>e. Leads(E, w, t, n)
    BY <1>1
  <1> DEFINE M == {k \in 0 .. n : v[k + 1] = w[k + 1] /\ \A i \in 1 .. k : v[i] = w[i] /\ s[i] = t[i]}
  <1>3. 0 \in M
    OBVIOUS
  <1>4. ASSUME NEW k \in 0 .. n - 1, k \in M PROVE k + 1 \in M
    <2>1. k + 1 \in 1 .. n /\ k + 1 \in 1 .. n + 1 /\ k + 2 \in 1 .. n + 1 /\ (k + 1) + 1 = k + 2
      OBVIOUS
    <2>2. v[k + 1] = w[k + 1] /\ \A i \in 1 .. k : v[i] = w[i] /\ s[i] = t[i]
      BY <1>4
    <2>3. PICK j \in 1 .. n : t[j] = s[k + 1]
      <3>1. s[k + 1] \in Range(s) /\ \A x \in Range(t) : \E j \in 1 .. n : t[j] = x
        BY <1>2, <2>1 DEF Range
      <3> QED
        BY <3>1
    <2>4. Passes(s[k + 1]) = {v[k + 1], v[k + 2]} /\ Passes(t[k + 1]) = {w[k + 1], w[k + 2]}
      BY <1>e, <2>1 DEF Leads
    <2>5. w[k + 1] \in Passes(t[j])
      BY <2>2, <2>3, <2>4
    <2>6. j = k + 1 \/ j + 1 = k + 1
      BY <1>e, <2>1, <2>5, MetAt
    <2>7. j = k + 1
      <3> SUFFICES ASSUME j = k PROVE FALSE
        BY <2>6
      <3>1. s[k] = s[k + 1] /\ k \in 1 .. n
        BY <2>2, <2>3
      <3> QED
        BY <2>1, <3>1, EdgesDiffer
    <2>8. s[k + 1] = t[k + 1]
      BY <2>3, <2>7
    <2>9. v[k + 2] = w[k + 2]
      <3>1. v[k + 2] # v[k + 1] /\ w[k + 2] # w[k + 1]
        BY <1>e, <2>1 DEF Leads
      <3> QED
        BY <2>2, <2>4, <2>8, <3>1
    <2>10. \A i \in 1 .. k + 1 : v[i] = w[i] /\ s[i] = t[i]
      BY <2>2, <2>8
    <2> QED
      BY <2>1, <2>9, <2>10
  <1> HIDE DEF M
  <1>5. \A k \in 0 .. n : k \in M
    BY <1>3, <1>4, UpTo
  <1>6. v[n + 1] = w[n + 1] /\ \A i \in 1 .. n : v[i] = w[i] /\ s[i] = t[i]
    BY <1>5 DEF M
  <1>7. \A i \in 1 .. n + 1 : v[i] = w[i]
    BY <1>6
  <1> QED
    BY <1>2, <1>6, <1>7

----------------------------------------------------------------------------
(* The longest walk through a chain uses it up.                            *)

\* Edges join two different locations.
Links(S) == \A e \in S : \E x, y \in Range(Locations) : x # y /\ Passes(e) = {x, y}

\* No third edge leads to an inner location of a walk.
LEMMA InnerIsFull ==
  ASSUME NEW S, IsChain(S), NEW v, NEW s, NEW n \in Nat \ {0}, Leads(S, v, s, n),
         NEW i \in 2 .. n, NEW f \in S \ Range(s), v[i] \in Passes(f)
  PROVE  FALSE
  <1>1. i \in 1 .. n /\ i - 1 \in 1 .. n /\ (i - 1) + 1 = i /\ i - 1 # i
    OBVIOUS
  <1>2. v[i] \in Passes(s[i]) /\ v[i] \in Passes(s[i - 1])
    BY <1>1 DEF Leads
  <1>3. s[i] \in S /\ s[i - 1] \in S /\ s[i] \in Range(s) /\ s[i - 1] \in Range(s)
    BY <1>1 DEF Leads, Range
  <1>4. s[i] # s[i - 1]
    BY <1>1, EdgesDiffer
  <1> DEFINE T == {e \in S : v[i] \in Passes(e)}
  <1>5. IsFiniteSet(T) /\ Cardinality(T) <= 2
    <2>1. v[i] \in UNION {Passes(e) : e \in S}
      OBVIOUS
    <2> QED
      BY <2>1, FS_Subset DEF IsChain
  <1>6. s[i] \in T /\ s[i - 1] \in T /\ f \in T /\ f # s[i] /\ f # s[i - 1]
    BY <1>2, <1>3
  <1>7. Cardinality(T) \in Nat
    BY <1>5, FS_CardinalityType
  <1> HIDE DEF T
  <1>8. Cardinality(T) > 2
    BY <1>4, <1>5, <1>6, AtLeastThree
  <1> QED
    BY <1>5, <1>7, <1>8

\* Nor do both ends of a walk meet at another edge.
LEMMA EndsStayOpen ==
  ASSUME NEW S, IsChain(S), NEW v, NEW s, NEW n \in Nat \ {0}, Leads(S, v, s, n),
         NEW f \in S \ Range(s), Passes(f) = {v[1], v[n + 1]}
  PROVE  FALSE
  <1> DEFINE T == Range(s) \union {f}
  <1>1. DOMAIN s = 1 .. n /\ DOMAIN v = 1 .. n + 1 /\ Range(s) \subseteq S
    BY DEF Leads, Range
  <1>2. /\ IsFiniteSet(Range(s)) /\ Cardinality(Range(s)) = n
        /\ Cardinality(Range(v)) = n + 1
    <2>1. n \in Nat
      OBVIOUS
    <2> QED
      BY <2>1, CountOfWalk
  <1>3. IsFiniteSet(T) /\ Cardinality(T) = n + 1
    BY <1>2, FS_AddElement
  <1>4. UNION {Passes(e) : e \in T} = Range(v)
    <2>1. Passes(f) \subseteq Range(v)
      BY <1>1 DEF Range
    <2>2. UNION {Passes(e) : e \in Range(s)} = Range(v)
      BY LocationsOfWalk
    <2>3. ASSUME NEW x PROVE (\E e \in T : x \in Passes(e)) <=> x \in Range(v)
      <3>1. (\E e \in T : x \in Passes(e)) <=> (\E e \in Range(s) : x \in Passes(e)) \/ x \in Passes(f)
        OBVIOUS
      <3>2. (\E e \in Range(s) : x \in Passes(e)) <=> x \in Range(v)
        BY <2>2
      <3> QED
        BY <2>1, <3>1, <3>2
    <2> QED
      BY <2>3
  <1>5. CASE T = S
    <2>1. Cardinality(Range(v)) = Cardinality(T) + 1
      BY <1>4, <1>5 DEF IsChain
    <2> QED
      BY <1>2, <1>3, <2>1
  <1>6. CASE T # S
    <2>1. T \in (SUBSET S) \ {{}, S}
      BY <1>1, <1>6
    <2>2. PICK e \in T, g \in S \ T : Passes(e) \intersect Passes(g) # {}
      BY <2>1 DEF IsChain
    <2>3. PICK x : x \in Passes(e) /\ x \in Passes(g)
      BY <2>2
    <2>4. x \in Range(v)
      BY <1>4, <2>2, <2>3
    <2>5. PICK i \in 1 .. n + 1 : x = v[i]
      BY <1>1, <2>4 DEF Range
    <2>6. CASE i \in 2 .. n
      <3>1. g \in S \ Range(s)
        BY <2>2
      <3> QED
        BY <2>3, <2>5, <2>6, <3>1, InnerIsFull
    <2>7. CASE i = 1 \/ i = n + 1
      <3>1. PICK k \in 1 .. n : x \in Passes(s[k])
        <4>1. 1 \in 1 .. n /\ n \in 1 .. n
          OBVIOUS
        <4>2. v[1] \in Passes(s[1]) /\ v[n + 1] \in Passes(s[n])
          BY <4>1 DEF Leads
        <4> QED
          BY <2>5, <2>7, <4>1, <4>2
      <3>2. s[k] \in Range(s) /\ s[k] \in S
        BY <1>1 DEF Range
      <3>3. x \in Passes(f)
        BY <2>5, <2>7
      <3> DEFINE A == {d \in S : x \in Passes(d)}
      <3>4. s[k] \in A /\ f \in A /\ g \in A /\ s[k] # f /\ s[k] # g /\ f # g
        BY <2>2, <2>3, <3>1, <3>2, <3>3
      <3>5. IsFiniteSet(A) /\ Cardinality(A) <= 2
        <4>1. x \in UNION {Passes(d) : d \in S}
          BY <3>3
        <4> QED
          BY <4>1, FS_Subset DEF IsChain
      <3>6. Cardinality(A) \in Nat
        BY <3>5, FS_CardinalityType
      <3> HIDE DEF A
      <3>7. Cardinality(A) > 2
        BY <3>4, <3>5, AtLeastThree
      <3> QED
        BY <3>5, <3>6, <3>7
    <2> QED
      BY <2>6, <2>7
  <1> QED
    BY <1>5, <1>6

\* A walk through a chain that leaves an edge out can go on, at one end or the other.
LEMMA WalkGoesOn ==
  ASSUME NEW S, Links(S), IsChain(S), NEW v, NEW s, NEW n \in Nat \ {0}, Leads(S, v, s, n), Range(s) # S
  PROVE  \E w, t : Leads(S, w, t, n + 1)
  <1> DEFINE L == Range(Locations)
  <1>1. /\ DOMAIN s = 1 .. n /\ DOMAIN v = 1 .. n + 1 /\ Range(s) \subseteq S
        /\ v \in [1 .. n + 1 -> L] /\ s \in [1 .. n -> S]
        /\ \A i, j \in 1 .. n + 1 : v[i] = v[j] => i = j
        /\ \A i \in 1 .. n : Passes(s[i]) = {v[i], v[i + 1]}
    BY DEF Leads, Range
  <1>2. PICK f \in S \ Range(s), i \in 1 .. n + 1 : v[i] \in Passes(f)
    <2>1. Range(s) \in (SUBSET S) \ {{}, S}
      <3>1. s[1] \in Range(s)
        BY <1>1 DEF Range
      <3> QED
        BY <1>1, <3>1
    <2>2. PICK e \in Range(s), f \in S \ Range(s) : Passes(e) \intersect Passes(f) # {}
      BY <2>1 DEF IsChain
    <2>3. PICK j \in 1 .. n : e = s[j]
      BY <1>1, <2>2 DEF Range
    <2>4. v[j] \in Passes(f) \/ v[j + 1] \in Passes(f)
      BY <1>1, <2>2, <2>3
    <2> QED
      BY <2>2, <2>4
  <1>3. PICK y \in L : Passes(f) = {v[i], y} /\ y # v[i]
    <2>1. PICK a, b \in L : a # b /\ Passes(f) = {a, b}
      BY <1>2 DEF Links
    <2> QED
      BY <1>2, <2>1
  <1>4. i = 1 \/ i = n + 1
    <2>1. i \notin 2 .. n
      BY <1>2, InnerIsFull
    <2> QED
      BY <2>1
  <1>5. y \notin Range(v)
    <2> SUFFICES ASSUME NEW j \in 1 .. n + 1, y = v[j] PROVE FALSE
      BY <1>1 DEF Range
    <2>1. j \notin 2 .. n
      BY <1>2, <1>3, InnerIsFull
    <2>2. j = 1 \/ j = n + 1
      BY <2>1
    <2>3. Passes(f) = {v[1], v[n + 1]}
      BY <1>3, <1>4, <2>2
    <2> QED
      BY <1>2, <2>3, EndsStayOpen
  <1>6. \A j \in 1 .. n + 1 : v[j] # y
    BY <1>1, <1>5 DEF Range
  <1>7. CASE i = n + 1
    <2> DEFINE w == [j \in 1 .. n + 2 |-> IF j = n + 2 THEN y ELSE v[j]]
               t == [j \in 1 .. n + 1 |-> IF j = n + 1 THEN f ELSE s[j]]
    <2>1. w \in [1 .. (n + 1) + 1 -> L] /\ t \in [1 .. n + 1 -> S]
      BY <1>1, <1>2, <1>3
    <2>2. \A j, k \in 1 .. (n + 1) + 1 : w[j] = w[k] => j = k
      BY <1>1, <1>6
    <2>3. ASSUME NEW j \in 1 .. n + 1 PROVE Passes(t[j]) = {w[j], w[j + 1]}
      BY <1>1, <1>3, <1>7
    <2>4. Leads(S, w, t, n + 1)
      BY <2>1, <2>2, <2>3 DEF Leads
    <2> QED
      BY <2>4
  <1>8. CASE i = 1
    <2> DEFINE w == [j \in 1 .. n + 2 |-> IF j = 1 THEN y ELSE v[j - 1]]
               t == [j \in 1 .. n + 1 |-> IF j = 1 THEN f ELSE s[j - 1]]
    <2>1. w \in [1 .. (n + 1) + 1 -> L] /\ t \in [1 .. n + 1 -> S]
      BY <1>1, <1>2, <1>3
    <2>2. \A j, k \in 1 .. (n + 1) + 1 : w[j] = w[k] => j = k
      BY <1>1, <1>6
    <2>3. ASSUME NEW j \in 1 .. n + 1 PROVE Passes(t[j]) = {w[j], w[j + 1]}
      BY <1>1, <1>3, <1>8
    <2>4. Leads(S, w, t, n + 1)
      BY <2>1, <2>2, <2>3 DEF Leads
    <2> QED
      BY <2>4
  <1> QED
    BY <1>4, <1>7, <1>8

LEMMA ChainIsWalked ==
  ASSUME NEW S, Links(S), IsChain(S), Cardinality(S) \in Nat \ {0}
  PROVE  \E v, s : Leads(S, v, s, Cardinality(S)) /\ Range(s) = S
  <1> DEFINE N == Cardinality(S)
             M == {n \in 0 .. N : n = 0 \/ \E v, s : Leads(S, v, s, n)}
  <1>1. 1 \in M
    <2>1. PICK e : e \in S
      BY FS_EmptySet
    <2>2. PICK x, y \in Range(Locations) : x # y /\ Passes(e) = {x, y}
      BY <2>1 DEF Links
    <2> DEFINE v == [i \in 1 .. 2 |-> IF i = 1 THEN x ELSE y]
               s == [i \in 1 .. 1 |-> e]
    <2>3. Leads(S, v, s, 1)
      BY <2>1, <2>2 DEF Leads
    <2>4. 1 \in 0 .. N
      OBVIOUS
    <2> HIDE DEF v, s, N
    <2> QED
      BY <2>3, <2>4
  <1>2. SUFFICES ASSUME \A v, s : Leads(S, v, s, N) => Range(s) # S PROVE FALSE
    OBVIOUS
  <1>3. \A n \in 1 .. N : \A v, s : Leads(S, v, s, n) => Range(s) # S
    <2> SUFFICES ASSUME NEW n \in 1 .. N, NEW v, NEW s, Leads(S, v, s, n), Range(s) = S PROVE FALSE
      OBVIOUS
    <2>1. n \in Nat
      OBVIOUS
    <2>2. n = N
      BY <2>1, CountOfWalk
    <2> QED
      BY <1>2, <2>2
  <1>4. ASSUME NEW n \in 1 .. N, NEW v, NEW s, Leads(S, v, s, n) PROVE \E w, t : Leads(S, w, t, n + 1)
    <2>1. n \in Nat \ {0} /\ Range(s) # S
      BY <1>3, <1>4
    <2> QED
      BY <1>4, <2>1, WalkGoesOn
  <1>5. N \in M
    <2>1. 0 \in M
      OBVIOUS
    <2>2. ASSUME NEW n \in 0 .. N - 1, n \in M PROVE n + 1 \in M
      <3>1. CASE n = 0
        BY <1>1, <3>1
      <3>2. CASE n \in 1 .. N
        <4>1. \E w, t : Leads(S, w, t, n + 1)
          BY <1>4, <2>2, <3>2
        <4> QED
          BY <4>1
      <3> QED
        BY <3>1, <3>2
    <2> HIDE DEF M
    <2>3. N \in Nat /\ \A n \in 0 .. N : n \in M
      BY <2>1, <2>2, UpTo
    <2> QED
      BY <2>3
  <1>6. PICK w, t : Leads(S, w, t, N + 1)
    <2>1. \E v, s : Leads(S, v, s, N)
      BY <1>5
    <2>2. N \in 1 .. N
      OBVIOUS
    <2> QED
      BY <1>4, <2>1, <2>2
  <1>7. IsFiniteSet(S) /\ IsFiniteSet(Range(t)) /\ Cardinality(Range(t)) = N + 1
    <2>1. N + 1 \in Nat
      OBVIOUS
    <2> QED
      BY <1>6, <2>1, CountOfWalk DEF IsChain
  <1>8. Range(t) \in SUBSET S
    BY <1>6 DEF Leads, Range
  <1> QED
    BY <1>7, <1>8, FS_Subset

----------------------------------------------------------------------------
(* The search from a location comes by every walk from there, and no more. *)

\* The walks of X, gone on by one edge.
GoneOn(E, X) ==
    {[nodes |-> Append(s[1].nodes, s[2][1]), edges |-> Append(s[1].edges, s[2][2])] :
        s \in UNION {{w} \X {a \in Adjacent(E, Last(w.nodes)) : a[1] \notin Range(w.nodes)} : w \in X}}

LEMMA WalksByLength ==
  ASSUME NEW E, NEW start
  PROVE  \E walk : /\ walk[0] = {[nodes |-> <<start>>, edges |-> <<>>]}
                   /\ \A n \in 1 .. MaxHops : walk[n] = GoneOn(E, walk[n - 1])
                   /\ Walks(E, start) = UNION {walk[n] : n \in 0 .. MaxHops}
  <1> DEFINE N == MaxHops
             Entry(f, n) ==
                IF n = 0 THEN {[nodes |-> <<start>>, edges |-> <<>>]}
                ELSE {[nodes |-> Append(s[1].nodes, s[2][1]), edges |-> Append(s[1].edges, s[2][2])] :
                        s \in UNION {{w} \X {a \in Adjacent(E, Last(w.nodes)) : a[1] \notin Range(w.nodes)} :
                                        w \in f[n - 1]}}
             Is(f, m) == f = [n \in 0 .. m |-> Entry(f, n)]
             M == {m \in 0 .. N : \E f : Is(f, m)}
  <1> HIDE DEF N
  <1>n. N \in Nat
    BY CrossDbAssumption DEF N
  <1>1. 0 \in M
    <2>1. Is([n \in 0 .. 0 |-> {[nodes |-> <<start>>, edges |-> <<>>]}], 0)
      OBVIOUS
    <2>2. 0 \in 0 .. N
      BY <1>n
    <2> HIDE DEF Is
    <2> QED
      BY <2>1, <2>2, Zenon
  <1>2. ASSUME NEW m \in 0 .. N - 1, m \in M PROVE m + 1 \in M
    <2>1. PICK f : Is(f, m)
      BY <1>2
    <2> DEFINE g == [n \in 0 .. m + 1 |-> IF n = m + 1 THEN Entry(f, n) ELSE f[n]]
    <2> HIDE DEF Entry
    <2>2. \A n \in 0 .. m : g[n] = f[n]
      BY <1>n
    <2>3. ASSUME NEW n \in 0 .. m + 1 PROVE g[n] = Entry(g, n)
      <3>1. n # 0 => n - 1 \in 0 .. m
        BY <1>n
      <3>2. Entry(g, n) = Entry(f, n)
        <4>1. CASE n = 0
          BY <4>1 DEF Entry
        <4>2. CASE n # 0
          <5>1. g[n - 1] = f[n - 1]
            BY <2>2, <3>1, <4>2
          <5> HIDE DEF g
          <5> QED
            BY <5>1, Zenon DEF Entry
        <4> QED
          BY <4>1, <4>2
      <3>3. CASE n = m + 1
        BY <3>2, <3>3
      <3>4. CASE n # m + 1
        <4>1. n \in 0 .. m
          BY <1>n, <3>4
        <4>2. f[n] = Entry(f, n)
          BY <2>1, <4>1
        <4> QED
          BY <2>2, <3>2, <4>1, <4>2
      <3> QED
        BY <3>3, <3>4
    <2>4. Is(g, m + 1)
      BY <2>3
    <2>5. m + 1 \in 0 .. N
      BY <1>n
    <2> HIDE DEF Is
    <2> QED
      BY <2>4, <2>5, Zenon
  <1>3. N \in M
    <2> HIDE DEF M
    <2>1. \A n \in 0 .. N : n \in M
      BY <1>n, <1>1, <1>2, UpTo, Zenon
    <2> QED
      BY <1>n, <2>1
  <1> DEFINE walk == CHOOSE f : Is(f, N)
  <1>4. Is(walk, N)
    BY <1>3
  <1>5. Walks(E, start) = UNION {walk[n] : n \in 0 .. N}
    BY DEF Walks, N
  <1> HIDE DEF walk
  <1>6. \A n \in 0 .. N : walk[n] = Entry(walk, n)
    <2> HIDE DEF Entry
    <2> QED
      BY <1>4
  <1>7. walk[0] = {[nodes |-> <<start>>, edges |-> <<>>]}
    <2>1. 0 \in 0 .. N
      BY <1>n
    <2>2. walk[0] = Entry(walk, 0)
      BY <1>6, <2>1, Zenon
    <2> QED
      BY <2>2
  <1>8. \A n \in 1 .. N : walk[n] = GoneOn(E, walk[n - 1])
    <2> SUFFICES ASSUME NEW n \in 1 .. N PROVE walk[n] = GoneOn(E, walk[n - 1])
      OBVIOUS
    <2>1. n \in 0 .. N /\ n # 0
      BY <1>n
    <2>2. walk[n] = Entry(walk, n)
      BY <1>6, <2>1
    <2> QED
      BY <2>1, <2>2, Zenon DEF GoneOn
  <1> QED
    BY <1>5, <1>7, <1>8, Zenon DEF N

\* To go on is to take an edge of the last location to one not visited yet.
Prolongs(E, z, w) ==
    \E e \in E : \E y :
       /\ Passes(e) = {Last(w.nodes), y} /\ y # Last(w.nodes) /\ y \notin Range(w.nodes)
       /\ z = [nodes |-> Append(w.nodes, y), edges |-> Append(w.edges, e)]

LEMMA GoneOnIs ==
  ASSUME NEW E, Links(E), NEW X, NEW z
  PROVE  z \in GoneOn(E, X) <=> \E w \in X : Prolongs(E, z, w)
  <1>1. ASSUME NEW loc, NEW a
        PROVE  a \in Adjacent(E, loc) <=>
                  \E e \in E : \E y : a = <<y, e>> /\ Passes(e) = {loc, y} /\ y # loc
    <2>1. \A e \in E : e.from[1] # e.to[1]
      <3> SUFFICES ASSUME NEW e \in E PROVE e.from[1] # e.to[1]
        OBVIOUS
      <3>1. PICK x, y \in Range(Locations) : x # y /\ Passes(e) = {x, y}
        BY DEF Links
      <3> QED
        BY <3>1 DEF Passes
    <2>2. ASSUME a \in Adjacent(E, loc)
          PROVE  \E e \in E : \E y : a = <<y, e>> /\ Passes(e) = {loc, y} /\ y # loc
      <3>1. PICK e \in E : (a = <<e.to[1], e>> /\ e.from[1] = loc) \/ (a = <<e.from[1], e>> /\ e.to[1] = loc)
        BY <2>2 DEF Adjacent
      <3> QED
        BY <2>1, <3>1 DEF Passes
    <2>3. ASSUME NEW e \in E, NEW y, a = <<y, e>>, Passes(e) = {loc, y}, y # loc
          PROVE  a \in Adjacent(E, loc)
      <3>1. (e.from[1] = loc /\ e.to[1] = y) \/ (e.from[1] = y /\ e.to[1] = loc)
        BY <2>3 DEF Passes
      <3> QED
        BY <2>3, <3>1 DEF Adjacent
    <2> QED
      BY <2>2, <2>3
  <1> DEFINE Next1(w) == {a \in Adjacent(E, Last(w.nodes)) : a[1] \notin Range(w.nodes)}
  <1>2. z \in GoneOn(E, X) <=>
           \E w \in X : \E a \in Next1(w) :
              z = [nodes |-> Append(w.nodes, a[1]), edges |-> Append(w.edges, a[2])]
    <2> DEFINE Step(s) == [nodes |-> Append(s[1].nodes, s[2][1]), edges |-> Append(s[1].edges, s[2][2])]
               P == UNION {{w} \X Next1(w) : w \in X}
    <2>1. z \in GoneOn(E, X) <=> \E s \in P : z = Step(s)
      BY DEF GoneOn
    <2> HIDE DEF Next1
    <2>2. \A s : s \in P <=> \E w \in X : \E a \in Next1(w) : s = <<w, a>>
      OBVIOUS
    <2>3. \A w, a : Step(<<w, a>>) = [nodes |-> Append(w.nodes, a[1]), edges |-> Append(w.edges, a[2])]
      OBVIOUS
    <2> HIDE DEF P, Step
    <2>4. (\E s \in P : z = Step(s)) <=> \E w \in X : \E a \in Next1(w) : z = Step(<<w, a>>)
      <3>1. ASSUME NEW s \in P, z = Step(s) PROVE \E w \in X : \E a \in Next1(w) : z = Step(<<w, a>>)
        <4>1. PICK w \in X : \E a \in Next1(w) : s = <<w, a>>
          BY <2>2
        <4> QED
          BY <3>1, <4>1
      <3>2. ASSUME NEW w \in X, NEW a \in Next1(w), z = Step(<<w, a>>) PROVE \E s \in P : z = Step(s)
        <4>1. <<w, a>> \in P
          BY <2>2
        <4> QED
          BY <3>2, <4>1
      <3> QED
        BY <3>1, <3>2
    <2> QED
      BY <2>1, <2>3, <2>4
  <1>3. ASSUME NEW w
        PROVE  (\E a \in Next1(w) : z = [nodes |-> Append(w.nodes, a[1]), edges |-> Append(w.edges, a[2])])
               <=> \E e \in E : \E y :
                     /\ Passes(e) = {Last(w.nodes), y} /\ y # Last(w.nodes) /\ y \notin Range(w.nodes)
                     /\ z = [nodes |-> Append(w.nodes, y), edges |-> Append(w.edges, e)]
    <2>1. \A a : a \in Next1(w) <=>
             \E e \in E : \E y : a = <<y, e>> /\ Passes(e) = {Last(w.nodes), y} /\ y # Last(w.nodes)
                              /\ y \notin Range(w.nodes)
      BY <1>1
    <2> HIDE DEF Next1
    <2>2. \A a, e, y : a = <<y, e>> => a[1] = y /\ a[2] = e
      OBVIOUS
    <2>3. ASSUME NEW a \in Next1(w), z = [nodes |-> Append(w.nodes, a[1]), edges |-> Append(w.edges, a[2])]
          PROVE  \E e \in E : \E y :
                     /\ Passes(e) = {Last(w.nodes), y} /\ y # Last(w.nodes) /\ y \notin Range(w.nodes)
                     /\ z = [nodes |-> Append(w.nodes, y), edges |-> Append(w.edges, e)]
      <3>1. PICK e \in E : \E y : a = <<y, e>> /\ Passes(e) = {Last(w.nodes), y} /\ y # Last(w.nodes)
                              /\ y \notin Range(w.nodes)
        BY <2>1
      <3>2. PICK y : a = <<y, e>> /\ Passes(e) = {Last(w.nodes), y} /\ y # Last(w.nodes)
                     /\ y \notin Range(w.nodes)
        BY <3>1
      <3>3. a[1] = y /\ a[2] = e
        BY <3>2
      <3> QED
        BY <2>3, <3>2, <3>3
    <2>4. ASSUME NEW e \in E, NEW y,
                 /\ Passes(e) = {Last(w.nodes), y} /\ y # Last(w.nodes) /\ y \notin Range(w.nodes)
                 /\ z = [nodes |-> Append(w.nodes, y), edges |-> Append(w.edges, e)]
          PROVE  \E a \in Next1(w) : z = [nodes |-> Append(w.nodes, a[1]), edges |-> Append(w.edges, a[2])]
      <3>1. <<y, e>> \in Next1(w)
        BY <2>1, <2>4
      <3> QED
        BY <2>4, <3>1
    <2> QED
      BY <2>3, <2>4
  <1> HIDE DEF Next1
  <1> QED
    BY <1>2, <1>3 DEF Prolongs

\* To go on, and to go back by one edge.
LEMMA LeadsOn ==
  ASSUME NEW E, Links(E), NEW v, NEW s, NEW n \in Nat, Leads(E, v, s, n),
         NEW e \in E, NEW y, Passes(e) = {Last(v), y}, y # Last(v), y \notin Range(v)
  PROVE  Leads(E, Append(v, y), Append(s, e), n + 1) /\ Append(v, y)[1] = v[1]
  <1> DEFINE L == Range(Locations)
  <1>1. /\ v \in Seq(L) /\ Len(v) = n + 1 /\ s \in Seq(E) /\ Len(s) = n
        /\ DOMAIN v = 1 .. n + 1
    BY DEF Leads
  <1>2. y \in L
    <2>1. PICK a, b \in L : a # b /\ Passes(e) = {a, b}
      BY DEF Links
    <2> QED
      BY <2>1
  <1> HIDE DEF L
  <1> DEFINE w == Append(v, y)
             t == Append(s, e)
  <1>3. /\ w \in [1 .. (n + 1) + 1 -> L] /\ t \in [1 .. n + 1 -> E]
        /\ w[(n + 1) + 1] = y /\ \A i \in 1 .. n + 1 : w[i] = v[i]
        /\ t[n + 1] = e /\ \A i \in 1 .. n : t[i] = s[i]
    <2>1. /\ w \in Seq(L) /\ Len(w) = (n + 1) + 1 /\ t \in Seq(E) /\ Len(t) = n + 1
          /\ w[(n + 1) + 1] = y /\ \A i \in 1 .. n + 1 : w[i] = v[i]
          /\ t[n + 1] = e /\ \A i \in 1 .. n : t[i] = s[i]
      BY <1>1, <1>2
    <2> HIDE DEF w, t
    <2> QED
      BY <2>1, LenProperties
  <1> HIDE DEF w, t
  <1>4. \A i \in 1 .. n + 1 : v[i] # y
    BY <1>1 DEF Range
  <1>5. \A i, j \in 1 .. (n + 1) + 1 : w[i] = w[j] => i = j
    <2>1. \A i, j \in 1 .. n + 1 : v[i] = v[j] => i = j
      BY DEF Leads
    <2>2. \A i \in 1 .. (n + 1) + 1 : i \in 1 .. n + 1 \/ i = (n + 1) + 1
      OBVIOUS
    <2> QED
      BY <1>3, <1>4, <2>1, <2>2
  <1>6. ASSUME NEW i \in 1 .. n + 1 PROVE Passes(t[i]) = {w[i], w[i + 1]}
    <2>1. CASE i \in 1 .. n
      <3>1. Passes(s[i]) = {v[i], v[i + 1]} /\ i + 1 \in 1 .. n + 1
        BY <2>1 DEF Leads
      <3> QED
        BY <1>3, <2>1, <3>1
    <2>2. CASE i = n + 1
      <3>1. Last(v) = v[n + 1]
        BY <1>1 DEF Last
      <3> QED
        BY <1>3, <2>2, <3>1
    <2> QED
      BY <2>1, <2>2
  <1>7. w[1] = v[1]
    BY <1>3
  <1> QED
    BY <1>3, <1>5, <1>6, <1>7 DEF Leads, L, w, t

ComesFrom(E, v, s, n) ==
    \E w, t : \E e \in E : \E y :
       /\ Leads(E, w, t, n) /\ w[1] = v[1] /\ v = Append(w, y) /\ s = Append(t, e)
       /\ Passes(e) = {Last(w), y} /\ y # Last(w) /\ y \notin Range(w)

LEMMA LeadsBack ==
  ASSUME NEW E, NEW v, NEW s, NEW n \in Nat, Leads(E, v, s, n + 1)
  PROVE  ComesFrom(E, v, s, n)
  <1> DEFINE L == Range(Locations)
             w == [i \in 1 .. n + 1 |-> v[i]]
             t == [i \in 1 .. n |-> s[i]]
             y == v[n + 2]
             e == s[n + 1]
  <1>1. /\ v \in [1 .. n + 2 -> L] /\ s \in [1 .. n + 1 -> E]
        /\ \A i, j \in 1 .. n + 2 : v[i] = v[j] => i = j
        /\ \A i \in 1 .. n + 1 : Passes(s[i]) = {v[i], v[i + 1]}
    BY DEF Leads
  <1>2. Leads(E, w, t, n)
    BY <1>1 DEF Leads
  <1>3. /\ w \in Seq(L) /\ Len(w) = n + 1 /\ t \in Seq(E) /\ Len(t) = n /\ y \in L /\ e \in E
        /\ v \in Seq(L) /\ Len(v) = n + 2 /\ s \in Seq(E) /\ Len(s) = n + 1
    BY <1>1
  <1>4. v = Append(w, y)
    <2>1. Append(w, y) \in Seq(L) /\ Len(Append(w, y)) = n + 2
      BY <1>3
    <2>2. \A i \in 1 .. n + 2 : v[i] = Append(w, y)[i]
      BY <1>3
    <2> HIDE DEF w, y
    <2> QED
      BY <1>3, <2>1, <2>2, SeqEqual
  <1>5. s = Append(t, e)
    <2>1. Append(t, e) \in Seq(E) /\ Len(Append(t, e)) = n + 1
      BY <1>3
    <2>2. \A i \in 1 .. n + 1 : s[i] = Append(t, e)[i]
      BY <1>3
    <2> HIDE DEF t, e
    <2> QED
      BY <1>3, <2>1, <2>2, SeqEqual
  <1>6. Last(w) = v[n + 1] /\ w[1] = v[1]
    BY <1>3 DEF Last
  <1>7. Passes(e) = {Last(w), y} /\ y # Last(w)
    BY <1>1, <1>6
  <1>8. y \notin Range(w)
    BY <1>1 DEF Range
  <1>9. e \in E
    BY <1>3
  <1> HIDE DEF w, t, y, e
  <1> QED
    BY <1>2, <1>4, <1>5, <1>6, <1>7, <1>8, <1>9 DEF ComesFrom

\* As a record with the sequences of its locations and edges.
Record(v, s) == [nodes |-> v, edges |-> s]

LEMMA WalksLead ==
  ASSUME NEW E, Links(E), NEW start \in Range(Locations)
  PROVE  \A z : z \in Walks(E, start) <=>
            \E n \in 0 .. MaxHops : \E v, s : Leads(E, v, s, n) /\ v[1] = start /\ z = Record(v, s)
  <1> DEFINE N == MaxHops
             L == Range(Locations)
  <1>n. N \in Nat
    BY CrossDbAssumption
  <1>1. PICK walk : /\ walk[0] = {[nodes |-> <<start>>, edges |-> <<>>]}
                    /\ \A n \in 1 .. N : walk[n] = GoneOn(E, walk[n - 1])
                    /\ Walks(E, start) = UNION {walk[n] : n \in 0 .. N}
    BY WalksByLength
  <1> HIDE DEF N
  <1> DEFINE Right(n) == \A z : z \in walk[n] <=>
                            \E v, s : Leads(E, v, s, n) /\ v[1] = start /\ z = Record(v, s)
             M == {n \in 0 .. N : Right(n)}
  <1>2. 0 \in M
    <2>1. ASSUME NEW v, NEW s, Leads(E, v, s, 0), v[1] = start PROVE v = <<start>> /\ s = <<>>
      BY <2>1 DEF Leads
    <2>2. Leads(E, <<start>>, <<>>, 0) /\ <<start>>[1] = start
      BY DEF Leads
    <2>3. Right(0)
      BY <1>1, <2>1, <2>2 DEF Record
    <2> QED
      BY <1>n, <2>3
  <1>3. ASSUME NEW n \in 0 .. N - 1, n \in M PROVE n + 1 \in M
    <2>0. Right(n)
      BY <1>3
    <2>1. n \in Nat /\ n + 1 \in 1 .. N /\ n + 1 \in 0 .. N /\ (n + 1) - 1 = n
      BY <1>n
    <2>2. walk[n + 1] = GoneOn(E, walk[n])
      BY <1>1, <2>1
    <2>3. ASSUME NEW z \in walk[n + 1]
          PROVE  \E v, s : Leads(E, v, s, n + 1) /\ v[1] = start /\ z = Record(v, s)
      <3>0. z \in GoneOn(E, walk[n])
        BY <2>2, <2>3
      <3>1. PICK w \in walk[n] : Prolongs(E, z, w)
        BY <3>0, GoneOnIs
      <3>3. PICK e \in E : \E y :
               /\ Passes(e) = {Last(w.nodes), y} /\ y # Last(w.nodes) /\ y \notin Range(w.nodes)
               /\ z = [nodes |-> Append(w.nodes, y), edges |-> Append(w.edges, e)]
        BY <3>1 DEF Prolongs
      <3>7. PICK y :
               /\ Passes(e) = {Last(w.nodes), y} /\ y # Last(w.nodes) /\ y \notin Range(w.nodes)
               /\ z = [nodes |-> Append(w.nodes, y), edges |-> Append(w.edges, e)]
        BY <3>3
      <3>2. PICK v, s : Leads(E, v, s, n) /\ v[1] = start /\ w = Record(v, s)
        BY <2>0, <3>1
      <3>4. w.nodes = v /\ w.edges = s
        BY <3>2 DEF Record
      <3>5. Leads(E, Append(v, y), Append(s, e), n + 1) /\ Append(v, y)[1] = v[1]
        <4>1. Passes(e) = {Last(v), y} /\ y # Last(v) /\ y \notin Range(v) /\ e \in E
          BY <3>3, <3>7, <3>4
        <4>2. Leads(E, v, s, n)
          BY <3>2
        <4> QED
          BY <2>1, <4>1, <4>2, LeadsOn
      <3>6. z = Record(Append(v, y), Append(s, e))
        BY <3>7, <3>4 DEF Record
      <3> QED
        BY <3>2, <3>5, <3>6
    <2>4. ASSUME NEW v, NEW s, Leads(E, v, s, n + 1), v[1] = start
          PROVE  Record(v, s) \in walk[n + 1]
      <3>1. PICK w, t : \E e \in E : \E y :
               /\ Leads(E, w, t, n) /\ w[1] = v[1] /\ v = Append(w, y) /\ s = Append(t, e)
               /\ Passes(e) = {Last(w), y} /\ y # Last(w) /\ y \notin Range(w)
        <4>1. n \in Nat /\ Leads(E, v, s, n + 1)
          BY <2>1, <2>4
        <4>2. ComesFrom(E, v, s, n)
          BY <4>1, LeadsBack
        <4> QED
          BY <4>2 DEF ComesFrom
      <3>2. Record(w, t) \in walk[n]
        BY <2>0, <2>4, <3>1
      <3>3. Prolongs(E, Record(v, s), Record(w, t))
        <4>1. Record(w, t).nodes = w /\ Record(w, t).edges = t
          BY DEF Record
        <4> QED
          BY <3>1, <4>1 DEF Record, Prolongs
      <3>4. Record(v, s) \in GoneOn(E, walk[n])
        BY <3>2, <3>3, GoneOnIs
      <3> QED
        BY <2>2, <3>4
    <2>5. Right(n + 1)
      BY <2>3, <2>4
    <2> HIDE DEF Right
    <2> QED
      BY <2>1, <2>5
  <1>4. \A n \in 0 .. N : Right(n)
    <2> HIDE DEF M
    <2>1. \A n \in 0 .. N : n \in M
      BY <1>n, <1>2, <1>3, UpTo
    <2> QED
      BY <2>1 DEF M
  <1> SUFFICES ASSUME NEW z
               PROVE  z \in Walks(E, start) <=>
                        \E n \in 0 .. N : \E v, s : Leads(E, v, s, n) /\ v[1] = start /\ z = Record(v, s)
    BY DEF N
  <1>5. z \in Walks(E, start) <=> \E n \in 0 .. N : z \in walk[n]
    BY <1>1
  <1>6. \A n \in 0 .. N : z \in walk[n] <=>
           \E v, s : Leads(E, v, s, n) /\ v[1] = start /\ z = Record(v, s)
    BY <1>4
  <1> HIDE DEF Right, M
  <1> QED
    BY <1>5, <1>6

----------------------------------------------------------------------------
(* The paths told.                                                         *)

\* The paths found from a location are its walks of two edges or more.
LEMMA FoundIs ==
  ASSUME NEW E, Links(E), NEW start \in Range(Locations), NEW p
  PROVE  p \in Found(E, start) <=>
            \E n \in 2 .. MaxHops : \E v, s : Leads(E, v, s, n) /\ v[1] = start /\ p = Path(Record(v, s))
  <1>1. p \in Found(E, start) <=> \E w \in Walks(E, start) : Len(w.edges) >= 2 /\ p = Path(w)
    BY DEF Found
  <1>2. ASSUME NEW n \in Nat, NEW v, NEW s, Leads(E, v, s, n)
        PROVE  Record(v, s).edges = s /\ Len(s) = n
    <2>1. s \in [1 .. n -> E]
      BY <1>2 DEF Leads
    <2> QED BY <2>1 DEF Record
  <1>3. ASSUME NEW w \in Walks(E, start), Len(w.edges) >= 2, p = Path(w)
        PROVE  \E n \in 2 .. MaxHops : \E v, s : Leads(E, v, s, n) /\ v[1] = start /\ p = Path(Record(v, s))
    <2>1. PICK n \in 0 .. MaxHops : \E v, s : Leads(E, v, s, n) /\ v[1] = start /\ w = Record(v, s)
      BY WalksLead
    <2>2. PICK v, s : Leads(E, v, s, n) /\ v[1] = start /\ w = Record(v, s)
      BY <2>1
    <2>3. n \in Nat /\ MaxHops \in Nat
      BY CrossDbAssumption
    <2>4. n >= 2
      BY <1>2, <1>3, <2>2, <2>3
    <2>5. n \in 2 .. MaxHops
      BY <2>3, <2>4
    <2> QED BY <1>3, <2>2, <2>5
  <1>4. ASSUME NEW n \in 2 .. MaxHops, NEW v, NEW s, Leads(E, v, s, n), v[1] = start, p = Path(Record(v, s))
        PROVE  \E w \in Walks(E, start) : Len(w.edges) >= 2 /\ p = Path(w)
    <2>1. n \in Nat /\ n \in 0 .. MaxHops /\ n >= 2
      BY CrossDbAssumption
    <2>2. Record(v, s) \in Walks(E, start)
      BY <1>4, <2>1, WalksLead
    <2>3. Len(Record(v, s).edges) >= 2
      BY <1>2, <1>4, <2>1
    <2> QED BY <1>4, <2>2, <2>3
  <1> QED BY <1>1, <1>3, <1>4

\* Of finitely many edges one is the weakest.
LEMMA WeakestLink ==
  ASSUME NEW n \in Nat \ {0}, NEW s, DOMAIN s = 1 .. n, \A i \in 1 .. n : s[i].conf \in Int
  PROVE  LET conf == Min({e.conf : e \in Range(s)})
         IN  \E e \in Range(s) : conf = e.conf /\ \A f \in Range(s) : e.conf <= f.conf
  <1> DEFINE M == {k \in 0 .. n - 1 : \E i \in 1 .. k + 1 : \A j \in 1 .. k + 1 : s[i].conf <= s[j].conf}
  <1>1. 0 \in M
    OBVIOUS
  <1>2. ASSUME NEW k \in 0 .. (n - 1) - 1, k \in M PROVE k + 1 \in M
    <2>1. PICK i \in 1 .. k + 1 : \A j \in 1 .. k + 1 : s[i].conf <= s[j].conf
      BY <1>2
    <2>2. k + 2 \in 1 .. n /\ i \in 1 .. n /\ i \in 1 .. (k + 1) + 1 /\ k + 2 \in 1 .. (k + 1) + 1
      OBVIOUS
    <2>3. \A j \in 1 .. (k + 1) + 1 : j \in 1 .. n /\ (j \in 1 .. k + 1 \/ j = k + 2)
      OBVIOUS
    <2>4. \E l \in 1 .. (k + 1) + 1 : \A j \in 1 .. (k + 1) + 1 : s[l].conf <= s[j].conf
      <3>1. CASE s[i].conf <= s[k + 2].conf
        BY <2>1, <2>2, <2>3, <3>1
      <3>2. CASE ~(s[i].conf <= s[k + 2].conf)
        <4>1. \A j \in 1 .. (k + 1) + 1 : s[k + 2].conf <= s[j].conf
          BY <2>1, <2>2, <2>3, <3>2
        <4> QED BY <2>2, <4>1
      <3> QED BY <3>1, <3>2
    <2> QED BY <2>4
  <1>3. n - 1 \in M
    <2> HIDE DEF M
    <2>1. n - 1 \in Nat /\ n - 1 \in 0 .. n - 1
      OBVIOUS
    <2>2. \A k \in 0 .. n - 1 : k \in M
      BY <1>1, <1>2, <2>1, UpTo
    <2> QED BY <2>1, <2>2
  <1>4. PICK i \in 1 .. n : \A j \in 1 .. n : s[i].conf <= s[j].conf
    <2>1. (n - 1) + 1 = n
      OBVIOUS
    <2> QED BY <1>3, <2>1
  <1>5. \A f : f \in Range(s) <=> \E j \in 1 .. n : f = s[j]
    BY DEF Range
  <1> DEFINE C == {e.conf : e \in Range(s)}
  <1>6. \E x \in C : \A y \in C : x <= y
    <2>1. s[i].conf \in C
      BY <1>5
    <2>2. ASSUME NEW y \in C PROVE s[i].conf <= y
      <3>1. PICK f \in Range(s) : y = f.conf
        OBVIOUS
      <3>2. PICK j \in 1 .. n : f = s[j]
        BY <1>5
      <3> QED BY <1>4, <3>1, <3>2
    <2> HIDE DEF C
    <2> QED BY <2>1, <2>2
  <1>7. Min(C) \in C /\ \A y \in C : Min(C) <= y
    <2> HIDE DEF C
    <2> QED BY <1>6 DEF Min
  <1> QED BY <1>7

\* The first location from which a set of edges is found.
LEMMA FirstOf ==
  ASSUME NEW M, M \subseteq Nat, M # {}
  PROVE  \E m \in M : \A i \in M : ~(i < m)
  <1>1. PICK m \in M : \A i \in M : <<i, m>> \notin OpToRel(<, Nat)
    BY WFMin, NatLessThanWellFounded, Zenon
  <1>2. \A i \in M : ~(i < m)
    BY <1>1, Zenon DEF OpToRel
  <1> QED BY <1>2

\* What is told of the paths found from the locations in turn.
LEMMA ChainsAre ==
  ASSUME NEW E, NEW p
  PROVE  p \in Chains(E) <=>
            \E n \in DOMAIN Locations :
               /\ p \in Found(E, Locations[n])
               /\ \A m \in 1 .. n - 1 : \A q \in Found(E, Locations[m]) : Key(q) # Key(p)
  BY DEF Chains

\* Where no two edges have the same ends, the ends tell sets of edges apart.
LEMMA KeysTellApart ==
  ASSUME NEW E, \A e, f \in E : Pair(e) = Pair(f) => e = f,
         NEW p, NEW q, p.edges \subseteq E, q.edges \subseteq E, Key(p) = Key(q)
  PROVE  p.edges = q.edges
  <1>1. \A a, b : a.edges \subseteq E /\ b.edges \subseteq E /\ Key(a) = Key(b) => a.edges \subseteq b.edges
    <2> SUFFICES ASSUME NEW a, NEW b, a.edges \subseteq E, b.edges \subseteq E, Key(a) = Key(b), NEW e \in a.edges
                 PROVE  e \in b.edges
      OBVIOUS
    <2>1. Pair(e) \in Key(b)
      BY DEF Key
    <2>2. PICK f \in b.edges : Pair(e) = Pair(f)
      BY <2>1 DEF Key
    <2> QED BY <2>2
  <1>2. p.edges \subseteq q.edges
    BY <1>1
  <1>3. q.edges \subseteq p.edges
    BY <1>1
  <1> QED BY <1>2, <1>3

\* A path found is a chain, and as strong as its weakest link.
LEMMA FoundIsChain ==
  ASSUME NEW E, Links(E), \A e \in E : e.conf \in Int, NEW start \in Range(Locations), NEW p \in Found(E, start)
  PROVE  /\ p.edges \subseteq E /\ Cardinality(p.edges) \in 2 .. MaxHops /\ IsChain(p.edges)
         /\ \E e \in p.edges : p.conf = e.conf /\ \A f \in p.edges : e.conf <= f.conf
  <1>1. PICK n \in 2 .. MaxHops : \E v, s : Leads(E, v, s, n) /\ v[1] = start /\ p = Path(Record(v, s))
    BY FoundIs
  <1>2. PICK v, s : Leads(E, v, s, n) /\ v[1] = start /\ p = Path(Record(v, s))
    BY <1>1
  <1>3. n \in Nat /\ n \in Nat \ {0}
    BY CrossDbAssumption
  <1>4. p.edges = Range(s) /\ p.conf = Min({e.conf : e \in Range(s)})
    BY <1>2 DEF Path, Record
  <1>5. Cardinality(Range(s)) = n /\ IsChain(Range(s))
    BY <1>2, <1>3, CountOfWalk, WalkIsChain
  <1>6. s \in [1 .. n -> E]
    BY <1>2 DEF Leads
  <1>7. Range(s) \subseteq E /\ DOMAIN s = 1 .. n /\ \A i \in 1 .. n : s[i].conf \in Int
    BY <1>6 DEF Range
  <1>8. \E e \in Range(s) : p.conf = e.conf /\ \A f \in Range(s) : e.conf <= f.conf
    BY <1>3, <1>4, <1>7, WeakestLink
  <1> QED BY <1>4, <1>5, <1>7, <1>8

\* Two paths of the same edges found from one location are the same.
LEMMA FoundOnce ==
  ASSUME NEW E, Links(E), NEW start \in Range(Locations),
         NEW p \in Found(E, start), NEW q \in Found(E, start), p.edges = q.edges
  PROVE  p = q
  <1>1. PICK n \in 2 .. MaxHops : \E v, s : Leads(E, v, s, n) /\ v[1] = start /\ p = Path(Record(v, s))
    BY FoundIs
  <1>2. PICK v, s : Leads(E, v, s, n) /\ v[1] = start /\ p = Path(Record(v, s))
    BY <1>1
  <1>3. PICK m \in 2 .. MaxHops : \E w, t : Leads(E, w, t, m) /\ w[1] = start /\ q = Path(Record(w, t))
    BY FoundIs
  <1>4. PICK w, t : Leads(E, w, t, m) /\ w[1] = start /\ q = Path(Record(w, t))
    BY <1>3
  <1>5. n \in Nat /\ m \in Nat
    BY CrossDbAssumption
  <1>6. p.edges = Range(s) /\ q.edges = Range(t)
    BY <1>2, <1>4 DEF Path, Record
  <1>7. v = w /\ s = t
    BY <1>2, <1>4, <1>5, <1>6, WalksAgree
  <1> QED BY <1>2, <1>4, <1>7

\* Every chain is found from one of the locations.
LEMMA ChainIsFound ==
  ASSUME NEW E, Links(E), NEW S \in SUBSET E, Cardinality(S) \in 2 .. MaxHops, IsChain(S)
  PROVE  \E m \in DOMAIN Locations : \E p \in Found(E, Locations[m]) : p.edges = S
  <1> DEFINE n == Cardinality(S)
  <1>1. n \in Nat \ {0} /\ n \in Nat
    BY CrossDbAssumption
  <1>2. Links(S)
    BY DEF Links
  <1>3. PICK v, s : Leads(S, v, s, n) /\ Range(s) = S
    BY <1>1, <1>2, ChainIsWalked
  <1> HIDE DEF n
  <1>4. Leads(E, v, s, n)
    BY <1>3 DEF Leads
  <1>5. v[1] \in Range(Locations)
    <2>1. 1 \in 1 .. n + 1
      BY <1>1
    <2> QED BY <1>4, <2>1 DEF Leads
  <1>6. PICK m \in DOMAIN Locations : v[1] = Locations[m]
    BY <1>5 DEF Range
  <1>7. Path(Record(v, s)) \in Found(E, Locations[m])
    BY <1>4, <1>5, <1>6, FoundIs DEF n
  <1>8. Path(Record(v, s)).edges = S
    BY <1>3 DEF Path, Record
  <1> QED BY <1>7, <1>8

\* The chains of E, each told once, as strong as its weakest link.
TellsChains(E, paths) ==
    /\ {p.edges : p \in paths} = {S \in SUBSET E : Cardinality(S) \in 2 .. MaxHops /\ IsChain(S)}
    /\ \A p, q \in paths : p.edges = q.edges => p = q
    /\ \A p \in paths : \E e \in p.edges : p.conf = e.conf /\ \A f \in p.edges : e.conf <= f.conf

LEMMA ChainsAreTold ==
  ASSUME NEW E, Links(E), \A e \in E : e.conf \in Int, \A e, f \in E : Pair(e) = Pair(f) => e = f
  PROVE  TellsChains(E, Chains(E))
  <1>0. \A n \in DOMAIN Locations : Locations[n] \in Range(Locations) /\ n \in Nat \ {0}
    BY CrossDbAssumption DEF Range
  <1>1. \A n \in DOMAIN Locations : \A m \in Nat \ {0} : m < n => m \in 1 .. n - 1 /\ m \in DOMAIN Locations
    BY CrossDbAssumption
  <1>d. \A n \in DOMAIN Locations : \A p \in Found(E, Locations[n]) :
           /\ p.edges \subseteq E /\ Cardinality(p.edges) \in 2 .. MaxHops /\ IsChain(p.edges)
           /\ \E e \in p.edges : p.conf = e.conf /\ \A f \in p.edges : e.conf <= f.conf
    BY <1>0, FoundIsChain
  <1>2. ASSUME NEW p \in Chains(E)
        PROVE  /\ p.edges \subseteq E /\ Cardinality(p.edges) \in 2 .. MaxHops /\ IsChain(p.edges)
               /\ \E e \in p.edges : p.conf = e.conf /\ \A f \in p.edges : e.conf <= f.conf
    BY <1>d, ChainsAre
  <1>3. ASSUME NEW S \in SUBSET E, Cardinality(S) \in 2 .. MaxHops, IsChain(S)
        PROVE  \E p \in Chains(E) : p.edges = S
    <2> DEFINE M == {m \in DOMAIN Locations : \E p \in Found(E, Locations[m]) : p.edges = S}
    <2>1. M # {} /\ M \subseteq Nat
      BY <1>0, <1>3, ChainIsFound
    <2>2. PICK n \in M : \A i \in M : ~(i < n)
      <3> HIDE DEF M
      <3> QED BY <2>1, FirstOf
    <2>3. PICK p \in Found(E, Locations[n]) : p.edges = S
      OBVIOUS
    <2>4. ASSUME NEW m \in 1 .. n - 1, NEW q \in Found(E, Locations[m]), Key(q) = Key(p) PROVE FALSE
      <3>1. m \in DOMAIN Locations /\ m < n
        BY <1>0, <1>1
      <3>2. q.edges \subseteq E
        BY <1>d, <3>1
      <3>3. q.edges = S
        BY <2>3, <2>4, <3>2, KeysTellApart
      <3> QED BY <2>2, <3>1, <3>3
    <2>5. p \in Chains(E)
      BY <2>3, <2>4, ChainsAre
    <2> QED BY <2>3, <2>5
  <1>4. ASSUME NEW p \in Chains(E), NEW q \in Chains(E), p.edges = q.edges PROVE p = q
    <2>1. PICK n \in DOMAIN Locations :
               /\ p \in Found(E, Locations[n])
               /\ \A m \in 1 .. n - 1 : \A r \in Found(E, Locations[m]) : Key(r) # Key(p)
      BY ChainsAre
    <2>2. PICK k \in DOMAIN Locations :
               /\ q \in Found(E, Locations[k])
               /\ \A m \in 1 .. k - 1 : \A r \in Found(E, Locations[m]) : Key(r) # Key(q)
      BY ChainsAre
    <2>3. Key(p) = Key(q)
      BY <1>4 DEF Key
    <2>4. ~(n < k) /\ ~(k < n)
      BY <1>0, <1>1, <2>1, <2>2, <2>3
    <2>5. n = k
      BY <1>0, <2>4
    <2> QED BY <1>0, <1>4, <2>1, <2>2, <2>5, FoundOnce
  <1>5. {p.edges : p \in Chains(E)} = {S \in SUBSET E : Cardinality(S) \in 2 .. MaxHops /\ IsChain(S)}
    BY <1>2, <1>3
  <1> QED BY <1>2, <1>4, <1>5 DEF TellsChains

\* The edges told join locations of the connection, and have a confidence.
LEMMA CrossEdgesLink ==
  ASSUME TellInv, Answered
  PROVE  /\ Links(CrossEdges) /\ \A e \in CrossEdges : e.conf \in Int
         /\ \A e, f \in CrossEdges : Pair(e) = Pair(f) => e = f
  <1> DEFINE B == {Boost(roles, e) : e \in matched}
             C == Candidates(inventory)
             D == AlignCandidates(roles)
  <1>0. /\ pc = "align" /\ inventory = DOMAIN roles
        /\ \A x \in inventory : x = <<x[1], x[2]>> /\ x[1] \in Range(Locations)
    BY PlanningAssumption DEF Answered, TellInv, WorldInv, SpotInv
  <1>1. Told(matched, C) /\ Told(aligned, D)
    <2>1. D \ queue = D
      BY DEF Answered
    <2> QED BY <1>0, <2>1 DEF TellInv, EdgeInv
  <1>2. Told(B, C)
    <2> HIDE DEF C, D
    <2> QED BY <1>1, BoostedAreTold
  <1>3. \A e \in CrossEdges : e \in B \/ e \in aligned
    BY DEF CrossEdges, Merge
  <1>4. \A e \in CrossEdges : e.conf \in Int
    <2> HIDE DEF B, C, D
    <2> QED BY <1>1, <1>2, <1>3, ToldIs
  <1>5. ASSUME NEW e \in CrossEdges
        PROVE  /\ e.from[1] \in Range(Locations) /\ e.to[1] \in Range(Locations) /\ e.from[1] # e.to[1]
    <2> DEFINE c == <<e.from, e.to>>
    <2>1. c \in C \/ c \in D
      BY CrossEdgesAre
    <2>2. CASE c \in C
      <3>1. c[1] \in inventory /\ c[2] \in inventory /\ c[1][1][1] # c[2][1][1]
        BY <2>2 DEF Candidates
      <3> QED BY <1>0, <3>1
    <2>3. CASE c \in D
      <3> HIDE DEF c
      <3>1. c[1] \in DOMAIN roles /\ c[2] \in DOMAIN roles /\ c[2][1][1] # c[1][1][1]
        BY <1>0, <2>3, AlignmentIs
      <3> QED BY <1>0, <3>1 DEF c
    <2> QED BY <2>1, <2>2, <2>3
  <1>6. Links(CrossEdges)
    BY <1>5 DEF Links, Passes
  <1>7. \A e, f \in CrossEdges : Pair(e) = Pair(f) => e = f
    BY CrossEdgesAre
  <1> QED BY <1>4, <1>6, <1>7

LEMMA PathsAreTold ==
  ASSUME TellInv PROVE PathsAreTheChains
  <1> SUFFICES ASSUME Answered PROVE TellsChains(CrossEdges, CrossPaths)
    BY DEF PathsAreTheChains, TellsChains
  <1> QED BY CrossEdgesLink, ChainsAreTold DEF CrossPaths

\* Of every call: the paths it tells are the chains of two to MaxHops of its
\* join keys through different collections, all of them, each told once with
\* the confidence of its weakest link.
THEOREM PathsTold == Spec => []PathsAreTheChains
  <1>1. Init => PlanInv /\ CrossInv /\ TellInv
    BY InitInv, TellInit
  <1>2. PlanInv /\ CrossInv /\ TellInv /\ [Next]_vars => (PlanInv /\ CrossInv /\ TellInv)'
    BY StepKeeps, StepTells
  <1>3. TellInv => PathsAreTheChains
    BY PathsAreTold
  <1> QED BY <1>1, <1>2, <1>3, PTL DEF Spec

==============================================================================
