---------------------------- MODULE MCPolicyLoader ----------------------------
(***************************************************************************)
(* A single file and a directory of two.  Contents that define one agent   *)
(* each: two that stand alone and one that extends the first, so that two  *)
(* files agree, repeat an agent or miss a base; a broken content and an    *)
(* empty one.  (Bases in a circle are PolicyEdits'.)                       *)
(***************************************************************************)
EXTENDS PolicyLoader

CONSTANTS ana, bob, role, bad, alone, other, child

OneFile == [dir |-> FALSE, files |-> {1}]
TwoInDirectory == [dir |-> TRUE, files |-> {1, 2}]

MCLayouts == {OneFile, TwoInDirectory}

MCItems ==
    [c \in Contents |->
        CASE c = alone  -> {[agent |-> ana, extends |-> NoExtends]}
          [] c = other  -> {[agent |-> bob, extends |-> NoExtends]}
          [] c = child  -> {[agent |-> role, extends |-> ana]}
          [] OTHER      -> {}]
=============================================================================
