----------------------------- MODULE MCPlanning ------------------------------
(***************************************************************************)
(* A home database with users, orders and items, a second database whose   *)
(* collection is called "user", and four versions of the policy: both      *)
(* databases; users without "_id", so that one of two others identifies them;  *)
(* only the second database, orders hidden; and user_id of orders masked,  *)
(* or of everything there and user hidden.                                 *)
(***************************************************************************)
EXTENDS Planning

CONSTANTS d1, d2, users, user, orders, items, id, userId, sku, status, state

MCLocations ==
    <<<<d1, items>>, <<d1, orders>>, <<d1, users>>, <<d2, orders>>, <<d2, user>>>>

MCTarget == (userId :> user @@ sku :> NoRef @@ id :> NoRef @@ status :> NoRef @@ state :> NoRef)

Users == (id :> {1} @@ userId :> {1} @@ status :> {0} @@ state :> {0})

\* A home of two collections, a document among the ids of the other database,
\* and a home of three.
MCWorlds ==
    {<<d1, users>> :> Users @@ <<d1, orders>> :> (id :> {5} @@ userId :> {1, 3})
     @@ <<d2, orders>> :> (id :> {5, 9} @@ userId :> {2, 3} @@ sku :> {7}),
     <<d1, items>> :> (id :> {5} @@ userId :> {1})
     @@ <<d1, users>> :> Users @@ <<d1, orders>> :> (id :> {6} @@ userId :> {1})
     @@ <<d2, orders>> :> (id :> {7} @@ userId :> {2}) @@ <<d2, user>> :> (id :> {1})}

Base ==
    [window |-> <<0, 0>>, mode |-> "readonly",
     flat |-> [allow |-> {Star}, deny |-> {}, mask |-> {}],
     dbAllow |-> {d1, d2}, blocks |-> <<>>, default |-> NoScope,
     actAllow |-> {}, actDeny |-> {}, high |-> TRUE, critical |-> FALSE,
     maxCost |-> NoMaxCost]

MCPolicies ==
    {Base,
     [Base EXCEPT !.flat.mask = {<<users, id>>, <<users, status>>}],
     [Base EXCEPT !.dbAllow = {d2}, !.flat.deny = {orders}, !.actDeny = {"aggregate"}],
     [Base EXCEPT !.flat.mask = {<<orders, userId>>},
                 !.blocks = (d2 :> [allow |-> {}, deny |-> {user}, mask |-> {<<Star, userId>>}])]}

MCUnique == {<<<<d1, users>>, userId>>, <<<<d1, users>>, state>>}
MCIndexed == {<<<<d1, users>>, status>>}
MCRequests ==
    {[resource |-> users, mentions |-> {}, concept |-> TRUE],
     [resource |-> NoRef, mentions |-> {orders}, concept |-> FALSE]}
MCPlural == {<<user, users>>}
MCStem == MCPlural
=============================================================================
