------------------------------- MODULE CrossDb -------------------------------
(***************************************************************************)
(* core/planning/cross_db.py: the join keys between databases, and the     *)
(* chains they make.                                                       *)
(*                                                                         *)
(* A location is <<database, collection>>, an endpoint <<location, field>>.*)
(* The roles known of the endpoints are a function from endpoints to       *)
(* [role, refs].  Confidences are in ten thousandths, as they are rounded  *)
(* to four places.  Operators only: Planning takes the samples.            *)
(***************************************************************************)
EXTENDS Integers, Sequences, FiniteSets, FiniteSetsExt, SequencesExt

CONSTANTS
    Locations,    \* every location, in sorted order
    IdShaped,     \* the field names _ID_NAME_RE finds
    DocId,        \* "_id", in every document
    Plural,       \* the pairs of names <<n, n>> or <<n, n + "s">>, letters' case apart
    Stem,         \* the pairs <<n, m>>, n what is left of m without its trailing "s"es
    NoRef,        \* references = None
    MaxHops       \* max_hops: 3 in the code

ASSUME CrossDbAssumption ==
    /\ Locations \in Seq(Range(Locations)) /\ IsInjective(Locations) /\ DocId \in IdShaped
    /\ \A i \in DOMAIN Locations :
          Locations[i] = <<Locations[i][1], Locations[i][2]>> /\ Locations[i][2] # NoRef
    /\ MaxHops \in Nat

Position(loc) == CHOOSE i \in DOMAIN Locations : Locations[i] = loc

----------------------------------------------------------------------------
(* Signal 1 and 2: one name in two databases, and the values they share.   *)

\* Pairs of endpoints with one id-shaped name in different databases.
Candidates(inventory) ==
    {c \in inventory \X inventory :
        /\ c[1][2] = c[2][2] /\ c[1][2] \in IdShaped
        /\ c[1][1][1] # c[2][1][1]
        /\ Position(c[1][1]) < Position(c[2][1])}

\* The shared values, of as many as the smaller sample has.
Overlap(va, vb) ==
    [shared |-> Cardinality(va \intersect vb), of |-> Min({Cardinality(va), Cardinality(vb)})]

\* k times that ratio, rounded; nothing sampled is no overlap.
Share(k, o) == IF o.of = 0 THEN 0 ELSE (2 * k * o.shared + o.of) \div (2 * o.of)

Edge(c, kind, conf) == [from |-> c[1], to |-> c[2], kind |-> kind, conf |-> conf]

\* OVERLAP_MIN is three tenths.
MatchEdge(c, va, vb) ==
    LET o == Overlap(va, vb) IN
    IF o.of # 0 /\ 10 * o.shared >= 3 * o.of
    THEN Edge(c, "value_overlap", Min({9000, 5000 + Share(4000, o)}))
    ELSE Edge(c, "shared_name", 5000)

----------------------------------------------------------------------------
(* Signal 3: the roles of the two endpoints.                               *)

\* Equal, or one the plural of the other, whatever the case.
MatchesResource(target, coll) ==
    target = coll \/ <<target, coll>> \in Plural \union Stem \/ <<coll, target>> \in Plural

Primaries(roles, loc) ==
    {x[2] : x \in {y \in DOMAIN roles : y[1] = loc /\ roles[y].role = "primary_identifier"}}

\* "_id" if it is one of them, else the first.
PrimaryField(roles, loc) ==
    LET prims == Primaries(roles, loc) IN
    IF DocId \in prims THEN DocId ELSE CHOOSE f \in prims : TRUE

\* A foreign identifier and the primary one of the collection it refers to, in
\* another database.
AlignCandidates(roles) ==
    {<<a[1], <<a[2], PrimaryField(roles, a[2])>>>> :
        a \in {b \in (DOMAIN roles) \X {y[1] : y \in DOMAIN roles} :
            /\ roles[b[1]].role = "foreign_identifier" /\ roles[b[1]].refs # NoRef
            /\ b[2][1] # b[1][1][1]
            /\ MatchesResource(roles[b[1]].refs, b[2][2])
            /\ Primaries(roles, b[2]) # {}}}

AlignEdge(c, va, vb) ==
    Edge(c, "identifier_alignment", Min({9500, 7500 + Share(2000, Overlap(va, vb))}))

\* A foreign and a primary identifier, or two tenant keys.
RolesAlign(roles, e) ==
    /\ {e.from, e.to} \subseteq DOMAIN roles
    /\ <<roles[e.from].role, roles[e.to].role>> \in
           {<<"foreign_identifier", "primary_identifier">>,
            <<"primary_identifier", "foreign_identifier">>,
            <<"tenant_key", "tenant_key">>}

Boost(roles, e) ==
    IF RolesAlign(roles, e)
    THEN [e EXCEPT !.kind = "identifier_alignment", !.conf = Min({9500, @ + 1500})]
    ELSE e

----------------------------------------------------------------------------
(* One edge for each pair of endpoints.                                    *)

\* Mutant: an edge and the same edge told from the other end are two.
Pair_Directed(e) == <<e.from, e.to>>

Pair(e) == {e.from, e.to}

\* An edge that replaces the one kept so far.
Better(e, cur) ==
    \/ e.conf > cur.conf
    \/ e.conf = cur.conf /\ e.kind = "identifier_alignment" /\ cur.kind # "identifier_alignment"

\* Two lists, the first one first; neither names a pair twice.
Merge(first, second) ==
    {e \in first : \A f \in second : Pair(f) = Pair(e) => ~Better(f, e)}
    \union {f \in second : \A e \in first : Pair(e) = Pair(f) => Better(f, e)}

----------------------------------------------------------------------------
(* Chains of two to MaxHops edges.                                         *)

\* Mutant: an edge is followed from its first endpoint only.
Adjacent_OneWay(E, loc) == {<<e.to[1], e>> : e \in {f \in E : f.from[1] = loc}}

Adjacent(E, loc) ==
    {<<e.to[1], e>> : e \in {f \in E : f.from[1] = loc}}
    \union {<<e.from[1], e>> : e \in {f \in E : f.to[1] = loc}}

\* The depth-first walks from start that visit no location twice.
Walks(E, start) ==
    LET walk[n \in 0 .. MaxHops] ==
            IF n = 0 THEN {[nodes |-> <<start>>, edges |-> <<>>]}
            ELSE {[nodes |-> Append(s[1].nodes, s[2][1]), edges |-> Append(s[1].edges, s[2][2])] :
                    s \in UNION {{w} \X {a \in Adjacent(E, Last(w.nodes)) : a[1] \notin Range(w.nodes)} :
                                    w \in walk[n - 1]}}
    IN  UNION {walk[n] : n \in 0 .. MaxHops}

Path(w) ==
    [nodes |-> w.nodes, edges |-> Range(w.edges), conf |-> Min({e.conf : e \in Range(w.edges)})]

\* The paths that the search from a location comes by.
Found(E, start) == {Path(w) : w \in {v \in Walks(E, start) : Len(v.edges) >= 2}}

Key(path) == {Pair(e) : e \in path.edges}

\* The search starts at the locations in order, and a set of edges it has come
\* by before is not told again.
Chains(E) ==
    UNION {LET known == {Key(p) : p \in UNION {Found(E, Locations[m]) : m \in 1 .. n - 1}}
           IN  {p \in Found(E, Locations[n]) : Key(p) \notin known} : n \in DOMAIN Locations}

=============================================================================
