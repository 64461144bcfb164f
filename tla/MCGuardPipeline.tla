--------------------------- MODULE MCGuardPipeline ---------------------------
(***************************************************************************)
(* One call of each path; the policies a reload can bring are one that     *)
(* lets the requests through, one that holds them, one that forbids them   *)
(* and one whose window ends at the first tick.                            *)
(***************************************************************************)
EXTENDS GuardPipeline, FiniteSets

CONSTANTS orders

Scope == [allow |-> {orders}, deny |-> {}, mask |-> {}]

\* Lets everything through; its cost threshold is one that no cost compares to.
Permitting ==
    [window |-> <<0, 9>>, mode |-> "readwrite", flat |-> Scope, dbAllow |-> {},
     blocks |-> <<>>, default |-> NoScope, actAllow |-> {}, actDeny |-> {},
     high |-> FALSE, critical |-> FALSE, maxCost |-> Unknown]

\* Holds writes and expensive reads, until its window closes.
Holding ==
    [Permitting EXCEPT !.window = <<0, 0>>, !.high = TRUE, !.critical = TRUE, !.maxCost = High]

MCFiles == {Permitting, Holding}
MCFilesAndNone == {Permitting, Holding, NoPolicy}

Ask(action) ==
    [coll |-> orders, action |-> action, db |-> NoDb, unscoped |-> FALSE, refs |-> {}, uses |-> {}]

MCRunRequests == {Ask("aggregate")}
MCConfirmRequests == {Ask("delete_one")}
=============================================================================
