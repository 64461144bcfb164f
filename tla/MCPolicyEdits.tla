---------------------------- MODULE MCPolicyEdits ----------------------------
(***************************************************************************)
(* Two collections, two databases and two masked fields: enough for a block *)
(* to disagree with the flat scope on either list and on the mask, and for *)
(* a pipeline to join the other collection.  The agent's file stands alone *)
(* or extends a role, which extends another.                               *)
(***************************************************************************)
EXTENDS PolicyEdits, TLC

CONSTANTS orders, customers, sales, hr, email, ssn, main, replica, me, role, root

MCCollections == {orders, customers}
MCDatabases == {sales, hr}
MCFields == {email, ssn}
MCConnectionNames == {main, replica}
MCEdited == {"delete_one"}

Everything == [allow |-> {Star}, deny |-> {}, mask |-> {}]
OrdersOnly == [allow |-> {orders}, deny |-> {}, mask |-> {}]
Masked == [allow |-> {orders, customers}, deny |-> {}, mask |-> {<<customers, email>>}]
Unset == [allow |-> {}, deny |-> {}, mask |-> {}]
MaskOnly == [allow |-> {}, deny |-> {}, mask |-> {<<Star, email>>}]

\* Wide open, with a block for one database that only restates part of it.
Open ==
    [window |-> <<0, 1>>, mode |-> "readwrite", flat |-> Everything,
     dbAllow |-> {}, blocks |-> (sales :> Masked), default |-> NoScope,
     actAllow |-> {}, actDeny |-> {}, fields |-> {}, connections |-> {}, high |-> FALSE, critical |-> FALSE,
     maxCost |-> Medium]

\* Closed by default, with lists that can be emptied and a window that ends.
Closed ==
    [window |-> <<0, 0>>, mode |-> "readwrite", flat |-> Masked,
     dbAllow |-> {sales, hr}, blocks |-> (sales :> MaskOnly @@ hr :> Unset),
     default |-> OrdersOnly, actAllow |-> {"aggregate", "delete_one", "find"},
     actDeny |-> {}, fields |-> {email, ssn}, connections |-> {main, replica}, high |-> TRUE, critical |-> FALSE, maxCost |-> Critical]

\* A role that masks, on top of one that holds CRITICAL actions and denies some.
Role == [Closed EXCEPT !.mode = "readonly", !.flat = Masked, !.dbAllow = {}, !.fields = {}]
Root == [Open EXCEPT !.flat = MaskOnly, !.actDeny = {"list_databases"}, !.critical = TRUE]
Mine == [Closed EXCEPT !.flat = OrdersOnly, !.actAllow = {}, !.window = <<0, 1>>, !.high = FALSE,
                !.connections = {}]

File(p, base) == [own |-> p, extends |-> base]
Alone(p) == me :> File(p, NoBase)
Inheriting == me :> File(Mine, role) @@ role :> File(Role, root) @@ root :> File(Root, NoBase)

MCTemplates == {Alone(Open), Alone(Closed), Inheriting}

Reads == {[coll |-> c, action |-> "find", db |-> d, unscoped |-> FALSE, refs |-> {}, uses |-> {}] :
             c \in MCCollections, d \in MCDatabases \union {NoDb}}

Listings == {[coll |-> orders, action |-> "list_databases", db |-> d, unscoped |-> FALSE, refs |-> {}, uses |-> {}] :
                d \in {sales, NoDb}}

Joins == {[coll |-> orders, action |-> "aggregate", db |-> d, unscoped |-> FALSE, refs |-> r, uses |-> u] :
             d \in MCDatabases \union {NoDb}, r \in {{}, {customers}}, u \in {{}, {email}}}

Writes == {[coll |-> orders, action |-> "delete_one", db |-> d, unscoped |-> s, refs |-> {}, uses |-> {}] :
             d \in {sales, NoDb}, s \in BOOLEAN}

MCRequests == Reads \union Listings \union Joins \union Writes
MCWindow == {0, 1}

\* Volumes on both sides of each threshold, an access under nothing, under a sort
\* and under an operator no reader knows.
Volumes == {999, 1000, 9999, 10000, 999999, 1000000}

MCPlans == {[stages |-> above \o <<access>>, examined |-> n, returned |-> r] :
               above \in {<<>>, <<"wrapper">>, <<"other">>}, access \in {"scan", "index"}, n \in Volumes, r \in {1, 1000000}}
=============================================================================
