----------------------------- MODULE Connections -----------------------------
(***************************************************************************)
(* Which connection, database and policy a tool call works with, from the  *)
(* moment its handler starts to its answer: core/registry/connections.py,  *)
(* the handlers of server/tools/read.py, and the discovery half of         *)
(* core/pipeline.py.                                                       *)
(*                                                                         *)
(* Two context variables say what is active.  The transport runs every     *)
(* request in a copy of the session's context, so a call reads what the    *)
(* session had when it began and what it sets is gone when it ends.  The   *)
(* policy, in contrast, is shared: it may be reloaded at each await, and a *)
(* handler that reads it twice can see two versions.                       *)
(***************************************************************************)
EXTENDS PolicyDecision, FiniteSets

CONSTANTS
    Calls,        \* tool calls; each is made at most once
    Registered,   \* the names in the registry
    Default,      \* the connection named "default"
    Setups,       \* which connections may be SQL ones, behind the adapter
    Names,        \* what an agent may ask for
    Databases,
    Home,         \* the database each connection was built with
    Stored,       \* Stored[n][d]: the collections of database d on connection n
    Fields,       \* the fields a sampled document has
    Policies,     \* versions of the agent's policy: PolicyDecision's, and conns
    MaxReloads    \* bound: reloads of one run

ASSUME ConnectionsAssumption ==
    /\ Default \in Registered /\ Registered \subseteq Names /\ Setups \subseteq SUBSET Registered
    /\ Home \in [Registered -> Databases]
    /\ NoDb \notin Databases
    /\ NoPolicy \notin Policies /\ MaxReloads \in Nat

\* A name in an answer is a collection's, a field's or a database's.
ASSUME NamesAreTold ==
    /\ Fields \intersect Databases = {}
    /\ \A n \in Registered : \A d \in Databases : Stored[n][d] \intersect (Fields \union Databases) = {}

VARIABLES
    sql,          \* the SQL connections of this process
    reloads,
    policy,       \* what PolicyLoader.get(agent) answers now
    session,      \* the context a new request is run in a copy of
    pc,           \* where each call stands
    ask,          \* [tool, name, db, coll]: what it was called with
    ctx,          \* its own copy: [conn, dbs]
    target,       \* its effective database, resolved when it began
    held,         \* the policy it read last
    verdict,      \* what its audit line says
    trail,        \* the calls with an audit line
    reads,        \* <<call, connection, database>>: what the backends were asked
    shown,        \* what each answer names: <<collection, field or database>>
    seen          \* the versions in force during each call (history)

vars == <<sql, reloads, policy, session, pc, ask, ctx, target, held, verdict, trail, reads, shown, seen>>

Tools == {"switch", "use", "collections", "describe", "databases", "find"}

\* Sentinels only: no tool call carries them.
NoAsk == [tool |-> "find", name |-> Default, db |-> NoDb, coll |-> Star]

\* ContextVar defaults: connection "default", no database remembered.
Fresh == [conn |-> Default, dbs |-> [n \in Registered |-> NoDb]]

TypeOK ==
    /\ sql \in Setups
    /\ policy \in Policies \union {NoPolicy} /\ reloads \in 0 .. MaxReloads
    /\ pc \in [Calls -> {"idle", "record", "backend", "stats", "edges", "done"}]
    /\ verdict \in [Calls -> {"allowed", "denied"}]
    /\ \A c \in Calls : ask[c].tool \in Tools /\ target[c] \in Databases \union {NoDb}
    /\ trail \subseteq Calls
    /\ reads \subseteq Calls \X Registered \X Databases

Init ==
    /\ sql \in Setups
    /\ policy \in Policies /\ reloads = 0
    /\ session = Fresh
    /\ pc = [c \in Calls |-> "idle"]
    /\ ask = [c \in Calls |-> NoAsk]
    /\ ctx = [c \in Calls |-> Fresh]
    /\ target = [c \in Calls |-> NoDb]
    /\ held = [c \in Calls |-> NoPolicy]
    /\ verdict = [c \in Calls |-> "denied"]
    /\ trail = {} /\ reads = {}
    /\ shown = [c \in Calls |-> {}]
    /\ seen = [c \in Calls |-> {}]

----------------------------------------------------------------------------
(* The context of a call.                                                  *)

\* Mutant: the active connection lives in the session, not in a copy of it.
AfterSet_Shared(own) == own

\* What a later request will find when a call has set its own variables.
AfterSet(own) == session

\* set_active_database(): the map is copied, then replaced.
UseDatabase(own, d) == [own EXCEPT !.dbs[own.conn] = d]

\* The database argument, or what is active on the active connection.
ResolveDatabase(own, d) == IF d # NoDb THEN d ELSE own.dbs[own.conn]

\* The database the driver opens when it is given db.
Opened(conn, db) == IF db = NoDb THEN Home[conn] ELSE db

----------------------------------------------------------------------------
(* A handler up to its first await, where it writes its audit line.        *)

\* connections_allow: no policy and an empty list are no restriction.
MaySwitch(p, n) ==
    /\ p = NoPolicy \/ p.conns = {} \/ n \in p.conns
    /\ n \in Registered

MayRead(p, action, coll, db) ==
    Evaluate(p, [coll |-> coll, action |-> action, db |-> db, unscoped |-> FALSE, refs |-> {}, uses |-> {}], 0)
        .status = "allowed"

\* Mutant: schemas are judged by the flat scope.
Permits_Flat(p, a, db) ==
    CASE a.tool = "switch"      -> MaySwitch(p, a.name)
      [] a.tool = "use"         -> p # NoPolicy /\ DatabasePermitted(p, a.db)
      [] a.tool = "collections" -> p # NoPolicy
      [] a.tool = "describe"    -> p # NoPolicy /\ CollectionPermitted(a.coll, p.flat)
      [] a.tool = "databases"   -> MayRead(p, "list_databases", Star, NoDb)
      [] OTHER                  -> MayRead(p, "find", a.coll, db)

\* What the handler decides under policy p.  Discovery asks for a policy, and
\* a schema for a permitted collection; only a find goes through evaluate().
Permits(p, a, db) ==
    CASE a.tool = "switch"      -> MaySwitch(p, a.name)
      [] a.tool = "use"         -> p # NoPolicy /\ DatabasePermitted(p, a.db)
      [] a.tool = "collections" -> p # NoPolicy
      [] a.tool = "describe"    -> p # NoPolicy /\ CollectionPermitted(a.coll, ScopeFor(p, db))
      [] a.tool = "databases"   -> MayRead(p, "list_databases", Star, NoDb)
      [] OTHER                  -> MayRead(p, "find", a.coll, db)

\* A request arrives: its context is copied, its database resolved, the policy
\* read; a permitted switch takes place before its line is written.
Begin(c, a) ==
    LET db == IF a.tool \in {"switch", "use", "databases"} THEN NoDb ELSE ResolveDatabase(session, a.db)
        ok == Permits(policy, a, db)
        own == IF ok /\ a.tool = "switch" THEN [session EXCEPT !.conn = a.name] ELSE session
    IN  /\ pc[c] = "idle" /\ pc' = [pc EXCEPT ![c] = "record"]
        /\ ask' = [ask EXCEPT ![c] = a]
        /\ target' = [target EXCEPT ![c] = db]
        /\ ctx' = [ctx EXCEPT ![c] = own]
        /\ session' = AfterSet(own)
        /\ held' = [held EXCEPT ![c] = policy]
        /\ verdict' = [verdict EXCEPT ![c] = IF ok THEN "allowed" ELSE "denied"]
        /\ seen' = [seen EXCEPT ![c] = {policy}]
        /\ UNCHANGED <<sql, reloads, policy, trail, reads, shown>>

\* The line is on disk.  A denied call ends, and so do the two that only set
\* their context; the others turn to the backend of their connection.
Record(c) ==
    LET ok == verdict[c] = "allowed"
        own == IF ok /\ ask[c].tool = "use" THEN UseDatabase(ctx[c], ask[c].db) ELSE ctx[c]
    IN  /\ pc[c] = "record"
        /\ pc' = [pc EXCEPT ![c] = IF ok /\ ask[c].tool \notin {"switch", "use"} THEN "backend" ELSE "done"]
        /\ ctx' = [ctx EXCEPT ![c] = own]
        /\ session' = IF own # ctx[c] THEN AfterSet(own) ELSE session
        /\ trail' = trail \union {c}
        /\ UNCHANGED <<sql, reloads, policy, ask, target, held, verdict, reads, shown, seen>>

\* Fail-closed: no line, no operation.
RecordLost(c) ==
    /\ pc[c] = "record" /\ pc' = [pc EXCEPT ![c] = "done"]
    /\ UNCHANGED <<sql, reloads, policy, session, ask, ctx, target, held, verdict, trail, reads, shown, seen>>

----------------------------------------------------------------------------
(* The backend's part.                                                     *)

Reading(c, dbs) == reads' = reads \union {<<c, ctx[c].conn, d>> : d \in dbs}

Rest(c) == UNCHANGED <<sql, reloads, policy, session, ask, ctx, target, verdict, trail, seen>>

\* The adapter's methods take no database: the call is a TypeError, before
\* anything reaches the plugin.
AdapterRefuses(c) ==
    /\ pc[c] = "backend" /\ ctx[c].conn \in sql
    /\ pc' = [pc EXCEPT ![c] = "done"]
    /\ UNCHANGED <<held, reads, shown>> /\ Rest(c)

Serves(c) == pc[c] = "backend" /\ ctx[c].conn \notin sql

Here(c) == Opened(ctx[c].conn, target[c])

Visible(p, c) == {k \in Stored[ctx[c].conn][Here(c)] : CollectionPermitted(k, ScopeFor(p, target[c]))}

\* discover_collections(): the names the policy read at the start permits.
ListCollections(c) ==
    /\ Serves(c) /\ ask[c].tool = "collections"
    /\ Reading(c, {Here(c)})
    /\ shown' = [shown EXCEPT ![c] = Visible(held[c], c)]
    /\ pc' = [pc EXCEPT ![c] = "done"]
    /\ UNCHANGED held /\ Rest(c)

\* A find: its rows, without the masked fields.
Find(c) ==
    /\ Serves(c) /\ ask[c].tool = "find"
    /\ Reading(c, {Here(c)})
    /\ shown' = [shown EXCEPT ![c] = Fields \ MaskFieldsFor(held[c], ask[c].coll, target[c])]
    /\ pc' = [pc EXCEPT ![c] = "done"]
    /\ UNCHANGED held /\ Rest(c)

\* db_list_databases: the handler reads the policy again to filter the answer.
ListDatabases(c) ==
    /\ Serves(c) /\ ask[c].tool = "databases"
    /\ Reading(c, {Home[ctx[c].conn]})
    /\ shown' = [shown EXCEPT ![c] = {d \in Databases : policy = NoPolicy \/ DatabasePermitted(policy, d)}]
    /\ held' = [held EXCEPT ![c] = policy]
    /\ pc' = [pc EXCEPT ![c] = "done"]
    /\ Rest(c)

\* describe_collection(): the schema of a sample, masked fields without type.
\* An empty collection ends the call.
Sample(c) ==
    LET found == ask[c].coll \in Stored[ctx[c].conn][Here(c)] IN
    /\ Serves(c) /\ ask[c].tool = "describe"
    /\ Reading(c, {Here(c)})
    /\ shown' = [shown EXCEPT ![c] =
                    IF found THEN Fields \ MaskFieldsFor(held[c], ask[c].coll, target[c]) ELSE {}]
    /\ pc' = [pc EXCEPT ![c] = IF found THEN "stats" ELSE "done"]
    /\ UNCHANGED held /\ Rest(c)

\* _field_semantics(): indexes and value statistics of the unmasked fields;
\* then the policy is read a second time, for the references.
Stats(c) ==
    /\ pc[c] = "stats" /\ pc' = [pc EXCEPT ![c] = "edges"]
    /\ held' = [held EXCEPT ![c] = policy]
    /\ Reading(c, {Here(c)})
    /\ UNCHANGED shown /\ Rest(c)

\* References to the collections that version permits.  The plugin is given
\* names without a database and looks at its own one; it never raises.
Edges(c) ==
    /\ pc[c] = "edges" /\ pc' = [pc EXCEPT ![c] = "done"]
    /\ LET allowed == IF held[c] = NoPolicy THEN {} ELSE Visible(held[c], c) IN
       /\ shown' = [shown EXCEPT ![c] = @ \union allowed]
       /\ Reading(c, {Here(c)} \union {Home[ctx[c].conn] : k \in allowed})
    /\ UNCHANGED held /\ Rest(c)

\* The watcher puts another version, or none, into force.
Reload(p) ==
    /\ reloads < MaxReloads /\ reloads' = reloads + 1
    /\ p # policy /\ policy' = p
    /\ seen' = [c \in Calls |-> IF pc[c] \in {"idle", "done"} THEN seen[c] ELSE seen[c] \union {p}]
    /\ UNCHANGED <<sql, session, pc, ask, ctx, target, held, verdict, trail, reads, shown>>

\* Which arguments each tool has.
Asks ==
    {a \in [tool : Tools, name : Names, db : Databases \union {NoDb},
            coll : {Star} \union UNION {Stored[Default][d] : d \in Databases}] :
        /\ a.tool # "switch" => a.name = Default
        /\ a.tool \in {"switch", "databases"} => a.db = NoDb
        /\ a.tool = "use" => a.db # NoDb
        /\ a.coll = Star <=> a.tool \notin {"describe", "find"}}

Next ==
    \/ \E c \in Calls :
          \/ \E a \in Asks : Begin(c, a)
          \/ Record(c)
          \/ RecordLost(c)
          \/ AdapterRefuses(c)
          \/ ListCollections(c)
          \/ Find(c)
          \/ ListDatabases(c)
          \/ Sample(c)
          \/ Stats(c)
          \/ Edges(c)
    \/ \E p \in Policies \union {NoPolicy} : Reload(p)

Spec == Init /\ [][Next]_vars

----------------------------------------------------------------------------
(* Properties.                                                             *)

\* connections.py:36-45: a switch or an active database set by one request
\* never reaches another.  Whatever ran before or runs beside it, a call's
\* backend reads go to the default connection, and there to the database its
\* own argument names or to the connection's own one.
Confined ==
    \A r \in reads :
        /\ r[2] = Default
        /\ r[3] \in {Opened(Default, ask[r[1]].db), Home[Default]}

\* CR-2: no backend is read by a call that has no audit line, or one that
\* says "denied".
ReadsAreRecorded == \A r \in reads : r[1] \in trail /\ verdict[r[1]] = "allowed"

ReadsAreGoverned == Confined /\ ReadsAreRecorded

\* Policy versions come and go at every await of a handler, and a handler may
\* read the policy twice.  Still, everything an answer names was permitted, in
\* the database the call was about, by one version in force during the call.
\* The list of databases is exempt if the agent's policy was removed meanwhile.
ShownWasPermitted ==
    \A c \in Calls : \A x \in shown[c] : \E p \in seen[c] :
        \/ p = NoPolicy /\ ask[c].tool = "databases"
        \/ /\ p # NoPolicy
           /\ CASE x \in Databases -> DatabasePermitted(p, x)
                [] x \in Fields -> /\ CollectionPermitted(ask[c].coll, ScopeFor(p, target[c]))
                                   /\ x \notin MaskFieldsFor(p, ask[c].coll, target[c])
                [] OTHER -> CollectionPermitted(x, ScopeFor(p, target[c]))

\* read.py:255 and :262: switching "changes which database subsequent calls
\* target", and so does db_use_database.  A call that began after an earlier
\* one had switched works on the connection that one named.
SwitchIsRemembered ==
    [][\A c, e \in Calls :
          /\ pc[c] = "idle" /\ pc'[c] = "record" /\ ask'[c].tool # "switch"
          /\ pc[e] = "done" /\ ask[e].tool = "switch" /\ verdict[e] = "allowed"
          /\ \A x \in Calls \ {c, e} : pc[x] = "idle"
          => ctx'[c].conn = ask[e].name]_vars

\* docs/superpowers/plans/2026-07-03-multi-db-governance-phase1.md:14: a
\* database outside a non-empty databases_allow is denied.
DatabaseAxisHeld ==
    \A c \in Calls :
        pc[c] # "idle" /\ verdict[c] = "allowed" /\ ask[c].tool # "databases"
            => \E p \in seen[c] : p = NoPolicy \/ DatabasePermitted(p, target[c])

=============================================================================
