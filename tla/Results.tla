------------------------------- MODULE Results -------------------------------
(***************************************************************************)
(* From what the server holds to what an agent is shown: the limits of     *)
(* plugins/mongodb/executor.py and core/response_limits.py, the masking of *)
(* core/masking/masker.py through the transformers a policy caches, paging *)
(* with skip and next_skip, and files written by db_export.                *)
(*                                                                         *)
(* One agent calls; the policy may be reloaded while a call waits for the  *)
(* server, and the call goes on with the one it was judged by.  Documents  *)
(* are JSON trees whose values carry the names they are stored under, at   *)
(* any depth.  A policy's scopes have a set fields (fields_allow) as well, and *)
(* a mask entry is a sequence of keys: <<"a">> for a, <<"b","a">> for b.a. *)
(***************************************************************************)
EXTENDS Aggregation, PolicyDecision, Integers, FiniteSets, SequencesExt

CONSTANTS
    Coll,         \* the collection calls name, present in every database
    Output(_, _), \* the server: what a pipeline makes of the collection's documents
    Databases,    \* what calls name as database, NoDb included
    Stores,       \* what the collection may hold
    Policies,
    Pipelines,    \* the pipelines calls carry
    Limits,
    MaxLimit,     \* max_limit: the server's own cap
    Budget,       \* DEFAULT_MAX_RESPONSE_BYTES, in nodes
    MaxDepth,     \* _MAX_DEPTH
    MaxReloads    \* bound: reloads of one run

IsSeq(s) == s \in Seq(Range(s))

\* JSON objects that the parsers take.
AreDocuments(docs) ==
    IsSeq(docs) /\ \A d \in Range(docs) : IsObject(d) /\ Fits(d) /\ IsFiniteSet(Nodes(d))

\* Pipelines, what is stored and what the server answers are JSON; there is room
\* to repeat a document in a plan.
ResultsAssumption ==
    /\ NoPolicy \notin Policies /\ NoDb \in Databases
    /\ Limits \subseteq Nat \ {0} /\ MaxLimit \in Nat \ {0} /\ MaxNesting \in Nat \ {0}
    /\ {Budget, MaxDepth, MaxReloads} \subseteq Nat
    /\ \A docs \in Stores :
          AreDocuments(docs) /\ \A d \in Range(docs) : Fits(Object([plan |-> d]))
    /\ \A p \in Pipelines :
          Fits([list |-> p]) /\ \A docs \in Stores : AreDocuments(Output(p, docs))

ASSUME ResultsAssumption

VARIABLES
    store,        \* the collection's documents, in the order find returns them
    policy,       \* what PolicyLoader.get(agent) answers now
    reloads,
    ask,          \* the call in flight, or NoCall
    held,         \* the policy it was judged by
    built,        \* transformers cached on policies: <<policy, key>> -> rules
    answer,       \* the last success, inline or in a file, until the next call
    book          \* what the agent read page by page: [next, got, more]

vars == <<store, policy, reloads, ask, held, built, answer, book>>

NoCall == [tool |-> "none"]

Init ==
    /\ store \in Stores
    /\ policy \in Policies /\ reloads = 0
    /\ ask = NoCall /\ held = NoPolicy
    /\ built = <<>>
    /\ answer = NoCall
    /\ book = [next |-> 0, got |-> <<>>, more |-> TRUE]

----------------------------------------------------------------------------
(* Masking.                                                                *)

Masked   == [literal |-> "***masked***"]
Redacted == Object([k \in {"***"} |-> [literal |-> "depth-limit-exceeded"]])

Rules(mask, fields) == [mask |-> mask, fields |-> fields]

\* A bare name at any depth, or the whole path from the root.
Hides(r, path) == <<Last(path)>> \in r.mask \/ path \in r.mask

\* fields_allow, with _id kept unless it is listed.
Projects(r, key) == r.fields = {} \/ key \in r.fields \/ ("_id" \notin r.fields /\ key = "_id")

\* The keys on the way to a place: a step into a list adds none.
Names(place) ==
    LET upTo[n \in 0 .. Len(place)] ==
            IF n = 0 THEN <<>>
            ELSE IF IsKey(place[n]) THEN Append(upTo[n - 1], place[n].key) ELSE upTo[n - 1]
    IN  upTo[Len(place)]

\* What is shown under a key, when walk tells what is shown of each object.
Shown(r, walk, y) ==
    IF Hides(r, Names(y[1])) THEN Masked
    ELSE IF IsObject(y[2]) THEN walk[y]
    ELSE IF IsList(y[2])
    THEN [list |-> [i \in DOMAIN y[2].list |->
            IF IsObject(y[2].list[i]) THEN walk[ItemNode(y, i)] ELSE y[2].list[i]]]
    ELSE y[2]

Visit(r, walk, x) ==
    IF Len(Names(x[1])) > MaxDepth THEN Redacted
    ELSE Object([k \in {n \in DOMAIN x[2].object : x[1] = <<>> => Projects(r, n)} |->
                    Shown(r, walk, KeyNode(x, k))])

Objects(doc) == {x \in Nodes(doc) : IsObject(x[2])}

\* ResultTransformer._doc(), and FieldMasker.mask() when no fields are given.
Walk(r, doc) ==
    LET walk[x \in Objects(doc)] == Visit(r, walk, x) IN walk[Root(doc)]

\* Mutant: only the collection is part of the key.
CacheKey_Collection(db) == <<Coll, NoDb>>

CacheKey(db) == <<Coll, db>>

FieldsFor(p, db) ==
    LET b == BlockFor(p, db) IN IF b = NoScope \/ b.fields = {} THEN p.flat.fields ELSE b.fields

RulesOf(p, db) == Rules(MaskFieldsFor(p, Coll, db), FieldsFor(p, db))

\* result_transformer() and audit_masker(): built once per policy and key.
Cached(p, db) ==
    LET key == <<p, CacheKey(db)>> IN
    [k \in DOMAIN built \union {key} |-> IF k \in DOMAIN built THEN built[k] ELSE RulesOf(p, db)]

\* Without rules the documents are returned as they are.
Transform(r, docs) ==
    IF r.mask = {} /\ r.fields = {} THEN docs ELSE [i \in DOMAIN docs |-> Walk(r, docs[i])]

----------------------------------------------------------------------------
(* Limits.                                                                 *)

\* The JSON size, counted in nodes: scalars and containers.
Size(t) == Cardinality(Nodes(t))

SizeOf(docs) ==
    LET sum[n \in 0 .. Len(docs)] == IF n = 0 THEN 0 ELSE sum[n - 1] + Size(docs[n])
    IN  sum[Len(docs)]

\* Mutant: a document that does not fit is left out, the next may fit again.
Capped_Skipping(docs) == SelectSeq(docs, LAMBDA d : Size(d) <= Budget)

\* cap_by_bytes(): the longest prefix within the budget.
Capped(docs) ==
    SubSeq(docs, 1, CHOOSE n \in 0 .. Len(docs) :
                        /\ SizeOf(SubSeq(docs, 1, n)) <= Budget
                        /\ n < Len(docs) => SizeOf(SubSeq(docs, 1, n + 1)) > Budget)

\* The n documents after skip, or as many as there are.
Slice(docs, skip, n) == SubSeq(docs, skip + 1, IF skip + n < Len(docs) THEN skip + n ELSE Len(docs))

\* _exec_find().
Page(skip, limit) ==
    LET docs == Slice(store, skip, limit)
        kept == Capped(docs)
    IN  [docs |-> kept,
         next |-> skip + Len(kept),
         more |-> Len(docs) = limit \/ Len(kept) < Len(docs),
         cut  |-> Len(kept) < Len(docs) \/ skip + Len(docs) < Len(store)]

Marker == Object([k \in {"_guardmcp_truncated", "_note"} |-> [literal |-> k]])

\* _exec_aggregate(): no more than MaxLimit, and a marker when anything is cut.
Aggregated(stages) ==
    LET all  == Output(stages, store)
        kept == Capped(Slice(all, 0, MaxLimit))
        cut  == Len(kept) < Len(all)
    IN  [docs |-> IF cut THEN Append(kept, Marker) ELSE kept,
         next |-> 0, more |-> FALSE, cut |-> cut]

\* The plan of a query by example repeats the example.
Plan(filter) == [docs |-> <<Object([plan |-> filter])>>, next |-> 0, more |-> FALSE, cut |-> FALSE]

----------------------------------------------------------------------------
(* A call.                                                                 *)

Request(a) ==
    LET tree == [list |-> a.stages] IN
    [coll |-> Coll, action |-> a.action, db |-> a.db, unscoped |-> FALSE,
     refs |-> Collections(tree), uses |-> Heads(tree)]

\* The handler validates the stages, the pipeline judges the request.
Ask(a) ==
    /\ ask = NoCall
    /\ a.action = "aggregate" => ValidStages(a.stages)
    /\ Evaluate(policy, Request(a), 0).status = "allowed"
    /\ ask' = a /\ held' = policy /\ answer' = NoCall
    /\ UNCHANGED <<store, policy, reloads, built, book>>

Executed(a) ==
    CASE a.action = "find"      -> Page(a.skip, IF a.limit < MaxLimit THEN a.limit ELSE MaxLimit)
      [] a.action = "aggregate" -> Aggregated(a.stages)
      [] OTHER                  -> Plan(a.filter)

\* The server answers; _build_success() masks by the policy of the call, for an
\* explanation without the projection.
Returned(a, rules, docs) ==
    Transform(IF a.action = "explain" THEN [rules EXCEPT !.fields = {}] ELSE rules, docs)

Success(a, raw, rules) ==
    [tool |-> a.tool, action |-> a.action, db |-> a.db, by |-> held,
     docs |-> Returned(a, rules, raw.docs), more |-> raw.more, next |-> raw.next, cut |-> raw.cut,
     raw |-> raw.docs, stages |-> a.stages, reads |-> {Coll} \union ReadsOf(a.stages), writes |-> WritesOf(a.stages)]

\* An agent that reads on where its last page ended keeps the pages.
Read(a, raw) ==
    IF a.tool = "db" /\ a.action = "find" /\ book.more
    THEN [next |-> raw.next, got |-> book.got \o raw.docs, more |-> raw.more]
    ELSE book

\* db_export puts what the same call would have answered into a new file.
Respond ==
    LET raw == Executed(ask)
        s == Success(ask, raw, Cached(held, ask.db)[<<held, CacheKey(ask.db)>>])
    IN  /\ ask # NoCall /\ ask' = NoCall
        /\ built' = Cached(held, ask.db)
        /\ answer' = s
        /\ book' = Read(ask, raw)
        /\ held' = NoPolicy
        /\ UNCHANGED <<store, policy, reloads>>

Reload(p) ==
    /\ reloads < MaxReloads /\ p # policy
    /\ policy' = p /\ reloads' = reloads + 1
    /\ UNCHANGED <<store, ask, held, built, answer, book>>

\* What may be asked next.  A find goes on from the last page.
Calls ==
    LET Call(tool, action, db, limit, stages, filter) ==
            [tool |-> tool, action |-> action, db |-> db, stages |-> stages, filter |-> filter,
             limit |-> limit, skip |-> IF tool = "db" THEN book.next ELSE 0]
    IN  {Call(t, "find", db, n, <<>>, Object(<<>>)) : t \in {"db", "export"}, db \in Databases, n \in Limits}
        \union {Call(t, "aggregate", db, 1, p, Object(<<>>)) :
                   t \in {"db", "export"}, db \in Databases, p \in Pipelines}
        \union {Call("db", "explain", db, 1, <<>>, d) : db \in Databases, d \in Range(store)}

Next ==
    \/ \E a \in Calls : Ask(a)
    \/ Respond
    \/ \E p \in Policies : Reload(p)

Spec == Init /\ [][Next]_vars

----------------------------------------------------------------------------
(* Properties.                                                             *)

\* What agents were given, inline or in a file.
Given == IF answer = NoCall THEN {} ELSE {answer}

Leaves(t) == {x \in Nodes(t) : ~IsObject(x[2]) /\ ~IsList(x[2])}

\* The masker does not look into a list that lies directly in a list.
Visited(place) == \A i \in 1 .. Len(place) - 1 : IsKey(place[i]) \/ IsKey(place[i + 1])

\* What the rules say of a key that the masker comes to.
Cut(r, place) ==
    LET names == Names(place) IN
    \/ Hides(r, names)
    \/ Len(place) = 1 /\ ~Projects(r, names[1])
    \/ (r.mask # {} \/ r.fields # {}) /\ Len(names) > MaxDepth + 1

\* Told off a place, without walking: what is there must not be seen.
Hidden(r, place) ==
    \E n \in 1 .. Len(place) :
        IsKey(place[n]) /\ Visited(SubSeq(place, 1, n - 1)) /\ Cut(r, SubSeq(place, 1, n))

\* Where stored scalars stand in d, and the names on the way that the masker sees.
Stored(d) == {x \in Leaves(d) : "value" \in DOMAIN x[2]}

NamesOver(x) ==
    {x[1][n].key : n \in {i \in 1 .. Len(x[1]) : IsKey(x[1][i]) /\ Visited(SubSeq(x[1], 1, i - 1))}}

\* What the guard does not compare with the mask m: variables, names that are data,
\* and the keys of a path after its first.
PassesGuard(stages, m) ==
    LET t == [list |-> stages] IN
    \/ Variables(t) # {} \/ ReadsByName(t)
    \/ \E q \in Paths(t) : m \in Range(Tail(q))

\* What a value is stored under is what it says; and a pipeline takes it from under
\* one of those names only by a path with that name, by a variable or by its name
\* as a datum.
ServerAssumption ==
    \A docs \in Stores :
        /\ \A d \in Range(docs) : \A x \in Stored(d) : x[2].value = NamesOver(x)
        /\ \A p \in Pipelines : \A d \in Range(Output(p, docs)) : \A x \in Stored(d) :
              \A m \in x[2].value :
                 \/ m \in NamesOver(x)
                 \/ \E q \in Paths([list |-> p]) : q[1] = m
                 \/ PassesGuard(p, m)

ASSUME ServerAssumption

Marks == {Masked, [literal |-> "depth-limit-exceeded"]}

\* masker.py and policy/models.py:185-216.  Under the policy a call was judged
\* by, whatever was reloaded or cached since for the same collection name in
\* another database: everything hidden is hidden, and nothing else is missing.
MasksExactly ==
    \A g \in Given :
        LET r == IF g.action = "explain" THEN Rules(MaskFieldsFor(g.by, Coll, g.db), {})
                 ELSE RulesOf(g.by, g.db)
        IN  /\ Len(g.docs) = Len(g.raw)
            /\ \A i \in DOMAIN g.docs :
                  {x \in Leaves(g.docs[i]) : x[2] \notin Marks}
                     = {x \in Leaves(g.raw[i]) : x[2] \notin Marks /\ ~Hidden(r, x[1])}

\* guard.py:100-131.  A scalar stored under a masked name, at any depth, never
\* comes back under another, whatever the pipeline groups by, joins or nests,
\* unless it uses what the guard does not compare with that name.  (Masks that are
\* dotted paths are not covered.)
HiddenUnderAnyName ==
    \A g \in Given : \A i \in DOMAIN g.docs : \A x \in Stored(g.docs[i]) :
        \A m \in x[2].value :
            <<m>> \in MaskFieldsFor(g.by, Coll, g.db) => PassesGuard(g.stages, m)

\* guard.py:92-97: any reference to a masked field, anywhere in the pipeline, is
\* detected.  "$$ROOT.email" and "$contact.email" are not.
NoMaskedReferencePasses ==
    \A g \in Given : \A i \in DOMAIN g.docs : \A x \in Stored(g.docs[i]) :
        \A m \in x[2].value : <<m>> \notin MaskFieldsFor(g.by, Coll, g.db)

\* guard.py:52-89.  However deep a pipeline nests its joins, it reads only
\* collections the policy of that database permits, and it writes nothing.
JoinsOnlyPermitted ==
    \A g \in Given :
        /\ \A c \in g.reads : CollectionPermitted(c, ScopeFor(g.by, g.db))
        /\ g.writes = {}

\* executor.py:385-394.  An agent that follows next_skip has read each document
\* once and in order, however the byte budget cut its pages.  Where has_more is
\* false nothing is left, and an empty page comes only at the end or before a
\* document that exceeds the budget alone.
PagesTile ==
    /\ book.got = SubSeq(store, 1, book.next)
    /\ ~book.more => book.next = Len(store)
    /\ answer # NoCall /\ answer.action = "find" /\ answer.docs = <<>> /\ answer.more
          => Size(store[answer.next + 1]) > Budget

\* docs/FEATURE_STATUS.md:42: "never a silent truncation".  An answer that leaves
\* something out says so, by has_more or by the marker document.
TruncationIsTold ==
    \A g \in Given : g.tool = "db" /\ g.cut => g.more \/ Marker \in Range(g.docs)

=============================================================================
