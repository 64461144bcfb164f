---------------------------- MODULE MCConnections ----------------------------
(***************************************************************************)
(* Two calls, a second connection and a name nobody registered, two        *)
(* databases whose collections differ, and three versions of the policy    *)
(* that disagree about connections, databases, collections and masks.      *)
(***************************************************************************)
EXTENDS Connections, TLC

CONSTANTS c1, c2, main, other, ghost, sales, hr, orders, people, email

MCRegistered == {main, other}
MCHome == (main :> sales @@ other :> hr)
MCStored == [n \in MCRegistered |-> (sales :> {orders} @@ hr :> {orders, people})]

Base ==
    [window |-> <<0, 0>>, mode |-> "readonly",
     flat |-> [allow |-> {Star}, deny |-> {}, mask |-> {}],
     dbAllow |-> {}, blocks |-> <<>>, default |-> NoScope, conns |-> {},
     actAllow |-> {}, actDeny |-> {}, high |-> FALSE, critical |-> FALSE,
     maxCost |-> NoMaxCost]

\* Everything; only sales, with orders masked there; people hidden in hr.
Masking == [allow |-> {orders}, deny |-> {}, mask |-> {<<Star, email>>}]
Hiding == [allow |-> {}, deny |-> {people}, mask |-> {<<orders, email>>}]

MCPolicies ==
    {Base,
     [Base EXCEPT !.dbAllow = {sales}, !.blocks = (sales :> Masking), !.conns = {main}],
     [Base EXCEPT !.blocks = (hr :> [Hiding EXCEPT !.allow = {Star}])]}
Swap == Permutations({c1, c2})
MCSetups == {{}, {main}}
=============================================================================
