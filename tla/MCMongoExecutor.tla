--------------------------- MODULE MCMongoExecutor ---------------------------
(***************************************************************************)
(* Two operations and two databases.  The field is a date in one of them,  *)
(* a string or both in the other; a sample shows one document, so it may   *)
(* miss the second type.  The cache has room for one of the three keys an  *)
(* operation can use: no database, and either by name.                     *)
(***************************************************************************)
EXTENDS MongoExecutor, TLC

CONSTANTS c1, c2, main, other

Date(i) == <<i, "date", "1">>
Text(i, t) == <<i, "string", t>>

MCStarts ==
    {main :> {Date(1)} @@ other :> D : D \in {{Text(1, "1")}, {Text(1, "x"), Date(2)}}}

MCRequests ==
    [kind : {"find"}, db : {NoDb, other}, value : {"1", "x"}]
    \union {[kind |-> "find", db |-> main, value |-> "$date 1"],
            [kind |-> "delete", db |-> NoDb, value |-> "1"],
            [kind |-> "delete", db |-> other, value |-> "1"],
            [kind |-> "insert", db |-> NoDb, value |-> "x"]}

Swap == Permutations({c1, c2})
=============================================================================
