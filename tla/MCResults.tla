------------------------------ MODULE MCResults ------------------------------
(***************************************************************************)
(* Documents whose fields have one of six shapes, nested in objects,        *)
(* lists and lists of lists down to one level past MaxDepth; stores whose  *)
(* pages the byte budget cuts; two databases that mask differently; and    *)
(* pipelines that rename, join and nest, one of them writing.              *)
(***************************************************************************)
EXTENDS Results

CONSTANTS orders, people, staff, hr

Shapes(k) ==
    LET Leaf(names) == [value |-> {k} \union names] IN
    {Leaf({}), Object("a" :> Leaf({"a"})), Object("b" :> Leaf({"b"})),
     Object("b" :> Object("a" :> Object("b" :> Leaf({"a", "b"})))),
     [list |-> <<Leaf({}), Object("a" :> Leaf({"a"}))>>],
     [list |-> <<[list |-> <<Object("a" :> Leaf({}))>>]>>]}

Documents ==
    {Object("a" :> x @@ "b" :> [value |-> {"b"}]) : x \in Shapes("a")}
    \union {Object("b" :> x) : x \in Shapes("b")}

Small == Object("a" :> [value |-> {"a"}])
Wide(v) == Object("a" :> Object("b" :> [value |-> {"a", "b"}]) @@ "b" :> [list |-> <<[value |-> v]>>])
Broad == Wide({"b"})
Huge  == Object("a" :> [list |-> <<Wide({"a", "b"}), Wide({"a", "b"})>>])

MCStores == {<<d>> : d \in Documents} \union {<<Small, Broad, Broad, Small>>, <<Small, Huge, Small>>, <<>>}
Others == people :> <<Small, Broad>> @@ staff :> <<Small>>

Stage(op, body) == Object(op :> body)
Plain == Stage("$match", Object(<<>>))
GroupBy(expression) == Stage("$group", Object("_id" :> expression))
Group(path) == GroupBy([path |-> path])
Name(c) == [text |-> c]
Union(c, sub) == Stage("$unionWith", Object("coll" :> Name(c) @@ "pipeline" :> [list |-> sub]))
Facet(sub) == Stage("$facet", Object("part" :> [list |-> sub]))

MCPipelines ==
    {<<>>,
     <<Plain, Group(<<"a">>)>>,
     <<Group(<<"a", "b">>)>>,
     <<GroupBy([variable |-> <<"ROOT", "a">>])>>,
     <<GroupBy(Object("$objectToArray" :> [path |-> <<"b">>]))>>,
     <<Stage("$unionWith", Name(people))>>,
     <<Union(people, <<Stage("$unionWith", Name(staff))>>)>>,
     <<Facet(<<Stage("$lookup", Object("from" :> Name(people) @@ "pipeline" :> [list |-> <<>>]))>>)>>,
     <<Facet(<<Stage("$out", Name(staff))>>)>>}

RECURSIVE ValueAt(_, _), Evaluated(_, _)

\* The value under a path of keys, null where there is none.
ValueAt(d, path) ==
    IF path = <<>> THEN d
    ELSE IF IsObject(d) /\ Head(path) \in DOMAIN d.object
         THEN ValueAt(d.object[Head(path)], Tail(path)) ELSE [literal |-> "null"]

\* An expression for a document.
Expressed(e, d) ==
    IF IsObject(e)
    THEN LET v == ValueAt(d, e.object["$objectToArray"].path) IN
         IF ~IsObject(v) THEN [literal |-> "null"]
         ELSE LET keys == SetToSeq(DOMAIN v.object) IN
              [list |-> [i \in DOMAIN keys |-> Object("k" :> [literal |-> keys[i]] @@ "v" :> v.object[keys[i]])]]
    ELSE IF "variable" \in DOMAIN e THEN ValueAt(d, Tail(e.variable)) ELSE ValueAt(d, e.path)

\* The documents that leave a pipeline when docs enter it.
Evaluated(stages, docs) ==
    IF stages = <<>> THEN docs
    ELSE LET op   == CHOOSE o \in DOMAIN Head(stages).object : TRUE
             body == Head(stages).object[op]
             Sub  == IF "pipeline" \in DOMAIN body.object THEN body.object["pipeline"].list ELSE <<>>
             next ==
                CASE op = "$group" ->
                        [i \in DOMAIN docs |-> Object("_id" :> Expressed(body.object["_id"], docs[i]))]
                  [] op = "$lookup" ->
                        LET foreign == Evaluated(Sub, Others[body.object["from"].text]) IN
                        [i \in DOMAIN docs |-> Object("joined" :> [list |-> foreign] @@ docs[i].object)]
                  [] op = "$unionWith" ->
                        docs \o (IF IsText(body) THEN Others[body.text]
                                 ELSE Evaluated(Sub, Others[body.object["coll"].text]))
                  [] op = "$facet" ->
                        <<Object("part" :> [list |-> Evaluated(body.object["part"].list, docs)])>>
                  [] OTHER -> docs
         IN  Evaluated(Tail(stages), next)

MCOutput(stages, docs) == Evaluated(stages, docs)

Scope(deny, mask, fields) == [allow |-> {Star}, deny |-> deny, mask |-> {<<Star, m>> : m \in mask}, fields |-> fields]

Policy(flat, blocks) ==
    [window |-> <<0, 0>>, mode |-> "readonly", flat |-> flat,
     dbAllow |-> {}, blocks |-> blocks, default |-> NoScope,
     actAllow |-> {}, actDeny |-> {}, high |-> FALSE, critical |-> FALSE,
     maxCost |-> NoMaxCost]

MCPolicies ==
    {Policy(Scope({}, {}, {}), <<>>),
     Policy(Scope({}, {<<"a">>}, {}), hr :> Scope({people}, {<<"b">>}, {})),
     Policy(Scope({staff}, {<<"b", "a">>, <<"a", "b">>}, {"b"}), hr :> Scope({}, {}, {"a"}))}
=============================================================================
