----------------------------- MODULE Aggregation -----------------------------
(***************************************************************************)
(* What plugins/mongodb/guard.py makes of an aggregation pipeline, and     *)
(* what the server makes of the same pipeline.                             *)
(*                                                                         *)
(* Both see JSON.  A JSON tree is one of                                   *)
(*   [object |-> f]  f maps keys to trees    [text |-> t]    a string      *)
(*   [list |-> s]    s a sequence of trees   [path |-> p]    "$a.b", p the *)
(*   [value |-> v]   a scalar as stored                      keys of a.b   *)
(*   [literal |-> v] another scalar          [variable |-> p] "$$ROOT.a"   *)
(* A pipeline is a sequence of trees, its stages.                          *)
(***************************************************************************)
EXTENDS Integers, Sequences, Functions, TLC

CONSTANT MaxNesting   \* levels of the deepest JSON that the parsers take

IsObject(t) == "object" \in DOMAIN t
IsList(t)   == "list" \in DOMAIN t
IsText(t)   == "text" \in DOMAIN t

Object(f) == [object |-> f]

----------------------------------------------------------------------------
(* Trees.  A step down a tree is a key or a place in a list; a node is the *)
(* sequence of steps to it and the tree that is there.                     *)

Key(k)  == [key |-> k]
Item(i) == [at |-> i]

IsKey(step) == "key" \in DOMAIN step

\* The nodes directly below a node.
KeyNode(x, k)  == <<Append(x[1], Key(k)), x[2].object[k]>>
ItemNode(x, i) == <<Append(x[1], Item(i)), x[2].list[i]>>

Below(x) ==
    IF IsObject(x[2]) THEN {KeyNode(x, k) : k \in DOMAIN x[2].object}
    ELSE IF IsList(x[2]) THEN {ItemNode(x, i) : i \in DOMAIN x[2].list} ELSE {}

Root(t) == <<<<>>, t>>

\* The nodes no step down, one step down, ... , n steps down.
Levels(t) ==
    LET levels[n \in 0 .. MaxNesting] ==
            IF n = 0 THEN <<{Root(t)}>>
            ELSE LET w == levels[n - 1] IN Append(w, UNION {Below(x) : x \in w[n]})
    IN  levels

Nodes(t) == UNION Range(Levels(t)[MaxNesting])

\* A tree that a parser takes has nothing below that.
Fits(t) == \A x \in Nodes(t) : Below(x) \subseteq Nodes(t)

----------------------------------------------------------------------------
(* The guard.                                                              *)

BannedOperators == {"$where", "$function", "$accumulator", "$out", "$merge"}

BannedStages == {"$out", "$merge", "$function", "$accumulator"}

\* The stages that matter to the model, of the twenty on the list.
AllowedStages == {"$match", "$group", "$lookup", "$unionWith", "$facet"}

\* has_dangerous_operators().
Dangerous(t) ==
    \E x \in Nodes(t) : IsObject(x[2]) /\ DOMAIN x[2].object \intersect BannedOperators # {}

\* Mutant: only the operator of each stage is looked at.
ValidStages_Shallow(stages) ==
    \A i \in DOMAIN stages :
        /\ IsObject(stages[i])
        /\ \E op \in AllowedStages \ BannedStages : DOMAIN stages[i].object = {op}

\* validate_pipeline_stages(): single-key objects, on the list, harmless inside.
ValidStages(stages) ==
    \A i \in DOMAIN stages :
        /\ IsObject(stages[i])
        /\ \E op \in AllowedStages \ BannedStages :
              DOMAIN stages[i].object = {op} /\ ~Dangerous(stages[i].object[op])

ForeignKeys == {"from", "coll", "$unionWith"}

\* extract_pipeline_collections(): under from or coll, or the short $unionWith.
Collections(t) ==
    {x[2].text : x \in {y \in Nodes(t) :
        /\ IsText(y[2]) /\ y[1] # <<>>
        /\ y[1][Len(y[1])] \in {Key(k) : k \in ForeignKeys}}}

Paths(t) == {x[2].path : x \in {y \in Nodes(t) : "path" \in DOMAIN y[2]}}
Variables(t) == {x[2].variable : x \in {y \in Nodes(t) : "variable" \in DOMAIN y[2]}}

\* Mutant: "$email.sub" is no reference to email.
Heads_Whole(t) == Paths(t) \union Variables(t)

\* find_masked_field_references() compares what comes first after every "$": of a
\* path its first key, of "$$ROOT.email" the name of the variable.
Heads(t) == {<<p[1]>> : p \in Paths(t) \union Variables(t)}

----------------------------------------------------------------------------
(* The server.                                                             *)

\* Where a stage stands: in the pipeline, or in a sub-pipeline of a stage.
IsStagePlace(place) ==
    /\ Len(place) % 3 = 1
    /\ \A i \in DOMAIN place :
          \/ i % 3 = 1 /\ ~IsKey(place[i])
          \/ i % 3 = 2 /\ place[i] \in {Key("$lookup"), Key("$unionWith"), Key("$facet")}
          \/ i % 3 = 0 /\ IsKey(place[i]) /\ (place[i] = Key("pipeline") \/ place[i - 1] = Key("$facet"))

\* All stages that run when the pipeline does.
StagesOf(stages) == {x \in Nodes([list |-> stages]) : IsStagePlace(x[1]) /\ IsObject(x[2])}

Does(x, op) == op \in DOMAIN x[2].object

\* Expressions that find a field by its name as a datum, or make data of names.
ByNameOperators == {"$getField", "$objectToArray"}

ReadsByName(t) == \E x \in Nodes(t) : IsObject(x[2]) /\ DOMAIN x[2].object \intersect ByNameOperators # {}

\* The text under a key of an object.
TextAt(t, k) ==
    IF IsObject(t) /\ k \in DOMAIN t.object /\ IsText(t.object[k]) THEN {t.object[k].text} ELSE {}

\* The other collections a stage reads.
ReadBy(x) ==
    (IF Does(x, "$lookup") THEN TextAt(x[2].object["$lookup"], "from") ELSE {})
    \union TextAt(x[2], "$unionWith")
    \union (IF Does(x, "$unionWith") THEN TextAt(x[2].object["$unionWith"], "coll") ELSE {})

ReadsOf(stages) == UNION {ReadBy(x) : x \in StagesOf(stages)}

\* The stages of a pipeline that write.
WritesOf(stages) == {x \in StagesOf(stages) : Does(x, "$out") \/ Does(x, "$merge")}

=============================================================================
