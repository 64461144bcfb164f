---------------------------- MODULE MCSqlExecutor ----------------------------
(***************************************************************************)
(* Two columns and two values: enough for a value bound to the wrong       *)
(* column, or to the wrong one of two conditions, to show; "b" stands for  *)
(* a column with "returning" in its name.  Two requests in flight, so that *)
(* one finds the table as the other left it.                               *)
(***************************************************************************)
EXTENDS SqlExecutor, TLC

CONSTANTS k1, k2, k3, k4, first, second

MCIds == {k1, k2, k3, k4}
MCColumns == {"a", "b"}
MCWordyColumns == {"b"}

Row(a, b) == "a" :> a @@ "b" :> b

MCTables ==
    {k1 :> Row(1, 1) @@ k2 :> Row(2, 1),
     k1 :> Row(1, 2) @@ k2 :> Row(1, Null),
     k1 :> Row(2, 2)}

On(col, conds) == [col |-> col, conds |-> conds]

Filters ==
    {<<>>,
     <<On("a", <<>>)>>,
     <<On("a", <<<<"=", 1>>>>)>>,
     <<On("b", <<<<"=", Null>>>>)>>,
     <<On("a", <<<<">=", 1>>, <<"<", 2>>>>), On("b", <<<<"!=", 2>>>>)>>,
     <<On("a", <<<<"in", <<1, 2>>>>>>), On("b", <<<<"=", 1>>>>)>>,
     <<On("a", <<<<"in", <<>>>>>>)>>,
     <<On("b; drop", <<<<"=", 1>>>>)>>,
     <<On("a", <<<<"$regex", 1>>>>)>>}

Updates == {<<>>, <<<<"b", 2>>>>, <<<<"a", 2>>, <<"b", Null>>>>}

Documents == {<<>>, <<"a" :> 1>>, <<Row(2, 1), "b" :> 1>>, <<"b" :> 1, Row(1, 2)>>}

Empty == [action |-> "find", filter |-> <<>>, update |-> <<>>, docs |-> <<>>, limit |-> 1, skip |-> 0]

MCRequests ==
    {[Empty EXCEPT !.action = a, !.filter = f] : a \in {"count", "delete_one", "delete_many"}, f \in Filters}
    \union {[Empty EXCEPT !.filter = f, !.limit = 2, !.skip = s] : f \in Filters, s \in {0, 1}}
    \union {[Empty EXCEPT !.action = "update_one", !.filter = f, !.update = u] : f \in Filters, u \in Updates}
    \union {[Empty EXCEPT !.action = a, !.docs = d] : a \in {"insert_one", "insert_many"}, d \in Documents}
    \union {[Empty EXCEPT !.action = "update_many", !.update = <<<<"b", 2>>>>]}
=============================================================================
