----------------------------- MODULE PolicyEdits -----------------------------
(***************************************************************************)
(* An operator tightens the policy files of a running gateway, an agent's  *)
(* or the roles' it extends, one entry at a time, and the watcher loads    *)
(* each version that resolves.  An edit is what the models of              *)
(* core/policy/models.py let a YAML file say; which requests it shuts out  *)
(* is what the decision of PolicyDecision makes of the merged policy.      *)
(*                                                                         *)
(* Two edits that look like tightenings are not: emptying a list whose     *)
(* emptiness means "no restriction" or "as in the flat scope", and giving  *)
(* a block a mask of its own, which replaces the flat mask.  Emptying      *)
(* switches them on.  A third is left out: a bound of the time window that *)
(* a child did not have replaces its base's, be that ever so narrow.       *)
(***************************************************************************)
EXTENDS PolicyFiles, CostEstimates, FiniteSets

CONSTANTS
    Collections, Databases, Fields, ConnectionNames,
    Agent,        \* whose policy is looked at
    Templates,    \* the files the operator may start from
    Requests,     \* the requests judged against every version
    Plans,        \* the plans a backend may have for them
    EditedActions,\* actions the operator denies or strikes out
    Emptying,     \* BOOLEAN: the edits that empty a list are among them
    Window,       \* the times looked at, and the bounds a window is given
    MaxEdits      \* bound: edits of one run

\* What models.py lets a file say: the collections, fields and databases it names.
Scopes ==
    [allow : SUBSET (Collections \union {Star}), deny : SUBSET Collections,
     mask  : SUBSET ((Collections \union {Star}) \X Fields)]

PoliciesOver(D) ==
    [window : (Earliest .. Latest) \X (Earliest .. Latest), mode : {"readonly", "readwrite"}, flat : Scopes,
     dbAllow : SUBSET Databases, blocks : [D -> Scopes], default : Scopes \union {NoScope},
     actAllow : SUBSET Actions, actDeny : SUBSET Actions,
     fields : SUBSET Fields, connections : SUBSET ConnectionNames,
     high : BOOLEAN, critical : BOOLEAN, maxCost : NoMaxCost .. Critical]

IsPolicy(p) == \E D \in SUBSET Databases : p \in PoliciesOver(D)

\* Every file is a valid policy and the agent has one.  What stands for "none" is
\* no policy, scope, name or database; plans count what they read and return.
EditsAssumption ==
    /\ \A t \in Templates :
          /\ Agent \in DOMAIN t /\ NoBase \notin DOMAIN t
          /\ t = [n \in DOMAIN t |-> [own |-> t[n].own, extends |-> t[n].extends]]
          /\ \A n \in DOMAIN t : IsPolicy(t[n].own)
    /\ \A D \in SUBSET Databases : NoPolicy \notin PoliciesOver(D)
    /\ NoScope \notin Scopes /\ NoDb \notin Databases
    /\ EditedActions \subseteq Actions /\ Window \subseteq Earliest .. Latest
    /\ \A req \in Requests : req.action \in Actions /\ req.db \in Databases \union {NoDb}
    /\ Plans \subseteq [stages : Seq({"scan", "index", "wrapper", "other"}) \ {<<>>},
                        examined : Nat, returned : Nat]

ASSUME EditsAssumption

VARIABLES
    files,        \* what is on disk
    policy,       \* the agent's policy as last loaded
    edits         \* how many edits were made

vars == <<files, policy, edits>>

Init ==
    /\ files \in Templates /\ Loadable(files)
    /\ policy = Resolve(files, Agent)
    /\ edits = 0

\* The watcher sees the file of n say p instead.
Save(n, p) ==
    LET new == [files EXCEPT ![n].own = p] IN
    /\ files' = new
    /\ policy' = IF Loadable(new) THEN Resolve(new, Agent) ELSE policy

\* The places a list of collections or masked fields can stand in.
Places(n) == {NoDb} \union DOMAIN files[n].own.blocks

ScopeAt(n, d) == IF d = NoDb THEN files[n].own.flat ELSE files[n].own.blocks[d]

Put(n, d, s) ==
    Save(n, IF d = NoDb THEN [files[n].own EXCEPT !.flat = s]
            ELSE [files[n].own EXCEPT !.blocks[d] = s])

\* A collection moves to the deny list; no_overlap forbids it on both.
DenyCollection(n, d, c) ==
    LET s == ScopeAt(n, d) IN
    /\ c \notin s.deny
    /\ Put(n, d, [s EXCEPT !.allow = @ \ {c}, !.deny = @ \union {c}])

\* A collection, or the "*", is struck off the allow list.
RevokeCollection(n, d, c) ==
    LET s == ScopeAt(n, d) IN
    /\ c \in s.allow
    /\ d = NoDb \/ Emptying \/ s.allow # {c} \/ s.deny # {}
    /\ Put(n, d, [s EXCEPT !.allow = @ \ {c}])

\* A field is masked in one collection, or in all.
MaskField(n, d, bucket, f) ==
    LET s == ScopeAt(n, d) IN
    /\ <<bucket, f>> \notin s.mask
    /\ d = NoDb \/ Emptying \/ s.mask # {}
    /\ Put(n, d, [s EXCEPT !.mask = @ \union {<<bucket, f>>}])

DenyAction(n, a) ==
    /\ a \notin files[n].own.actDeny
    /\ Save(n, [files[n].own EXCEPT !.actDeny = @ \union {a}])

RevokeAction(n, a) ==
    /\ a \in files[n].own.actAllow
    /\ Emptying \/ files[n].own.actAllow # {a}
    /\ Save(n, [files[n].own EXCEPT !.actAllow = @ \ {a}])

RevokeDatabase(n, d) ==
    /\ d \in files[n].own.dbAllow
    /\ Emptying \/ files[n].own.dbAllow # {d}
    /\ Save(n, [files[n].own EXCEPT !.dbAllow = @ \ {d}])

RevokeField(n, f) ==
    /\ f \in files[n].own.fields
    /\ Emptying \/ files[n].own.fields # {f}
    /\ Save(n, [files[n].own EXCEPT !.fields = @ \ {f}])

RevokeConnection(n, x) ==
    /\ x \in files[n].own.connections
    /\ Emptying \/ files[n].own.connections # {x}
    /\ Save(n, [files[n].own EXCEPT !.connections = @ \ {x}])

\* not_before moves on, or not_after back.
NarrowWindow(n, b, e) ==
    LET w == files[n].own.window IN
    /\ w[1] <= b /\ b <= e /\ e <= w[2] /\ w # <<b, e>>
    /\ \/ files[n].extends = NoBase
       \/ (b # w[1] => w[1] # Earliest) /\ (e # w[2] => w[2] # Latest)
    /\ Save(n, [files[n].own EXCEPT !.window = <<b, e>>])

GoReadonly(n) ==
    /\ files[n].own.mode = "readwrite"
    /\ Save(n, [files[n].own EXCEPT !.mode = "readonly"])

RequireApproval(n) ==
    \/ ~files[n].own.high /\ Save(n, [files[n].own EXCEPT !.high = TRUE])
    \/ ~files[n].own.critical /\ Save(n, [files[n].own EXCEPT !.critical = TRUE])

Edit(n) ==
    \/ \E d \in Places(n) :
          \/ \E c \in Collections : DenyCollection(n, d, c)
          \/ \E c \in Collections \union {Star} : RevokeCollection(n, d, c)
          \/ \E b \in Collections \union {Star}, f \in Fields : MaskField(n, d, b, f)
    \/ \E a \in EditedActions : DenyAction(n, a) \/ RevokeAction(n, a)
    \/ \E d \in Databases : RevokeDatabase(n, d)
    \/ \E f \in Fields : RevokeField(n, f)
    \/ \E x \in ConnectionNames : RevokeConnection(n, x)
    \/ \E b, e \in Window : NarrowWindow(n, b, e)
    \/ GoReadonly(n)
    \/ RequireApproval(n)

Next == edits < MaxEdits /\ edits' = edits + 1 /\ \E n \in DOMAIN files : Edit(n)

Spec == Init /\ [][Next]_vars

----------------------------------------------------------------------------

Rank(status) == CASE status = "denied" -> 0
                  [] status = "approval_required" -> 1
                  [] status = "allowed" -> 2

\* No tightening edit of any part of the policy, flat or per database, lets a
\* request through that the version before it held back, whether by its own
\* collection or by one its pipeline joins.
TighteningNeverWidens ==
    [][\A req \in Requests, now \in Window :
          Rank(Evaluate(policy', req, now).status) <= Rank(Evaluate(policy, req, now).status)]_vars

\* What a list of fields or connections lets through: if empty, everything.
Through(list, all) == IF list = {} THEN all ELSE list

\* Nor does it show a field that was masked, in any database, or left out of
\* fields_allow, or open a connection.
TighteningNeverUnmasks ==
    [][/\ \A req \in Requests :
             MaskFieldsFor(policy, req.coll, req.db) \subseteq MaskFieldsFor(policy', req.coll, req.db)
       /\ Through(policy'.fields, Fields) \subseteq Through(policy.fields, Fields)
       /\ Through(policy'.connections, ConnectionNames) \subseteq Through(policy.connections, ConnectionNames)]_vars

\* The plans differ in nothing but what q reads and returns more, or scans where
\* p has an index.
Costlier(p, q) ==
    /\ p.examined <= q.examined /\ p.returned <= q.returned /\ Len(p.stages) = Len(q.stages)
    /\ \A i \in DOMAIN p.stages : q.stages[i] \in {p.stages[i]} \union (IF p.stages[i] = "index" THEN {"scan"} ELSE {})

\* The classes a backend puts two such plans in, the cheaper one's first.
CostSteps ==
    {<<Estimate(x[1], x[2], x[3]), Estimate(x[1], x[2], x[4])>> :
        x \in {y \in Backends \X {"find", "aggregate"} \X Plans \X Plans : Costlier(y[3], y[4])}}

\* models.py:94-103: whatever a backend's plan of the request is, its estimate
\* only holds the request back, and at the escalated risk it is held exactly as
\* strictly as the engine holds that risk.  And where approval.high comes with
\* approval.critical, reading more never gets a request through more easily.
EscalationSound ==
    \A req \in Requests, now \in Window :
        LET d == Evaluate(policy, req, now)
            After(cost) == EscalateForCost(policy, d, cost)
        IN  Estimated(policy, req, d) =>
                \A x \in CostSteps :
                    /\ \A cost \in {x[1], x[2]} :
                          /\ Rank(After(cost).status) <= Rank(d.status)
                          /\ Rank(After(cost).status) <= Rank(EngineDecision(policy, req, After(cost).risk).status)
                          /\ After(cost).risk >= d.risk
                    /\ (policy.high => policy.critical)
                          => Rank(After(x[2]).status) <= Rank(After(x[1]).status)

\* The names n's policy is merged from: those in every set that holds n and, with
\* a name, the name it extends.
Lineage(n) ==
    {m \in DOMAIN files :
        \A S \in SUBSET DOMAIN files :
            n \in S /\ (\A x \in S : files[x].extends \in S \union {NoBase}) => m \in S}

Chain(n) == {files[m].own : m \in Lineage(n)}

\* loader.py:45-47, "Lists: union", "Approval: per-field OR": whatever the file of
\* the agent or of a role it extends denies, masks or holds for approval in
\* its flat part is denied, masked or held under the merged policy.
InheritedLimitsHold ==
    Loadable(files) =>
        \A p \in Chain(Agent), now \in Window : \A req \in {x \in Requests : x.db = NoDb} :
            LET d == Evaluate(policy, req, now) IN
            /\ req.coll \in p.flat.deny /\ req.action \notin DbLevelActions => d.status = "denied"
            /\ req.action \in p.actDeny => d.status = "denied"
            /\ NeedsApproval(p, Classify(req)) => d.status # "allowed"
            /\ MaskFieldsFor(p, req.coll, NoDb) \subseteq MaskFieldsFor(policy, req.coll, NoDb)

\* The same for the databases an agent's own file allows: where the file alone
\* refuses a database and no role allows any, the merged policy refuses it.
OwnDatabasesHold ==
    Loadable(files) =>
        \A req \in Requests, now \in Window :
            LET own == files[Agent].own IN
            ~DatabasePermitted(own, req.db) /\ (\A p \in Chain(Agent) \ {own} : p.dbAllow = {})
                => Evaluate(policy, req, now).status = "denied"

SameElsewhere(p, q) ==
    /\ p.dbAllow = q.dbAllow /\ p.blocks = q.blocks /\ p.default = q.default /\ p.maxCost = q.maxCost

\* If the simulator rates the step from p to q LOW, then q lets no request through
\* that p held back, and shows no field and opens no connection that p did not.
LowNarrows(p, q) ==
    SameElsewhere(p, q) /\ Impact(p, q) = "LOW" =>
        /\ \A req \in Requests :
              /\ \A now \in Window : Rank(Evaluate(q, req, now).status) <= Rank(Evaluate(p, req, now).status)
              /\ MaskFieldsFor(p, req.coll, req.db) \subseteq MaskFieldsFor(q, req.coll, req.db)
        /\ Through(q.fields, Fields) \subseteq Through(p.fields, Fields)
        /\ Through(q.connections, ConnectionNames) \subseteq Through(p.connections, ConnectionNames)

\* The times of v are among those of w.
Within(v, w) == w[1] <= v[1] /\ v[2] <= w[2]

\* explain.py:236-238: a change rated LOW "only narrows or is a no-op".  Seen from
\* either end of an edit that leaves the databases alone and empties no list, this
\* holds of every change that does not widen the time window.
RatedLowIsNoWider ==
    [][/\ Within(policy'.window, policy.window) => LowNarrows(policy, policy')
       /\ Within(policy.window, policy'.window) => LowNarrows(policy', policy)]_vars

\* Without that exception it fails: the simulator lists a change of not_before or
\* not_after and rates it nothing, so a window taken away is a LOW change.
RatedLowIsNoWiderInTime ==
    [][LowNarrows(policy, policy') /\ LowNarrows(policy', policy)]_vars

\* core/risk/engine.py:55-57 calls a mutation with an empty filter far more
\* dangerous than a targeted one and escalates it; so it is not let through more
\* easily than the same mutation with a filter.
WiderFilterNotEasier ==
    \A req \in Requests, now \in Window :
        req.action \in ScopeSensitive =>
            Rank(Evaluate(policy, [req EXCEPT !.unscoped = TRUE], now).status)
                <= Rank(Evaluate(policy, [req EXCEPT !.unscoped = FALSE], now).status)

=============================================================================
