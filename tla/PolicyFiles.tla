----------------------------- MODULE PolicyFiles -----------------------------
(***************************************************************************)
(* From policy files to the policy in force (core/policy/loader.py:11-100) *)
(* and how the simulator rates the step from one policy to another         *)
(* (core/policy/explain.py).  Files map names, agents' and roles', to      *)
(* [own, extends]: a policy of PolicyDecision, with two lists that no      *)
(* decision looks at (fields is fields_allow, connections is               *)
(* connections_allow), and the name it is merged over, or NoBase.          *)
(***************************************************************************)
EXTENDS PolicyDecision

CONSTANTS
    NoBase,           \* extends = None
    Earliest, Latest  \* not_before = None and not_after = None, as times

ASSUME FilesAssumption == Earliest \in Int /\ Latest \in Int /\ Earliest <= Latest

----------------------------------------------------------------------------
(* Inheritance.                                                            *)

\* Mutant: a child's own mask replaces its role's.
MergedMask_Own(b, c) == IF c.flat.mask # {} THEN c.flat.mask ELSE b.flat.mask

\* _merge_mask_fields(): bucket by bucket, a flat list being the bucket Star.
MergedMask(b, c) == b.flat.mask \union c.flat.mask

\* _merge(): c over its base b.  The database axis and max_cost are not among
\* the arguments of the merged policy, so it has neither.
Merge(b, c) ==
    [window   |-> <<IF c.window[1] # Earliest THEN c.window[1] ELSE b.window[1],
                    IF c.window[2] # Latest THEN c.window[2] ELSE b.window[2]>>,
     mode     |-> IF c.mode # "readonly" THEN c.mode ELSE b.mode,
     flat     |-> [allow |-> b.flat.allow \union c.flat.allow,
                   deny  |-> b.flat.deny \union c.flat.deny,
                   mask  |-> MergedMask(b, c)],
     actAllow |-> b.actAllow \union c.actAllow,
     actDeny  |-> b.actDeny \union c.actDeny,
     fields   |-> b.fields \union c.fields,
     connections |-> b.connections \union c.connections,
     high     |-> b.high \/ c.high,
     critical |-> b.critical \/ c.critical,
     dbAllow  |-> {}, blocks |-> <<>>, default |-> NoScope, maxCost |-> NoMaxCost]

\* _resolve_inheritance(): each name's file over the resolved policy of its base.
Resolved(files) ==
    LET merged[n \in DOMAIN files] ==
            LET b == files[n].extends IN
            IF b = NoBase THEN files[n].own ELSE Merge(merged[b], files[n].own)
    IN  merged

Resolve(files, n) == Resolved(files)[n]

KnownBases(files) == \A n \in DOMAIN files : files[n].extends \in DOMAIN files \union {NoBase}

\* The stack of resolve() never meets a name twice: wherever names are collected,
\* one of them extends none of them.
NoCycle(files) ==
    \A S \in SUBSET DOMAIN files : S # {} => \E n \in S : files[n].extends \notin S

\* One base that is unknown, one cycle or one merged policy that fails no_overlap,
\* and none of the files is loaded.
Loadable(files) ==
    /\ KnownBases(files)
    /\ NoCycle(files)
    /\ \A n \in DOMAIN files :
          LET p == Resolve(files, n) IN
          files[n].extends # NoBase => p.flat.allow \intersect p.flat.deny = {}

----------------------------------------------------------------------------
(* The simulator's rating.                                                 *)

Lists(p) ==
    [collections_allow |-> p.flat.allow, collections_deny |-> p.flat.deny,
     actions_allow |-> p.actAllow, actions_deny |-> p.actDeny,
     connections_allow |-> p.connections, fields_allow |-> p.fields]

\* The lines of one field: none unless it differs.
Line(differs, verb, what) == IF differs THEN {<<verb, what>>} ELSE {}

\* diff_policies(), a line without its item: what is done and to what.  Policies
\* are compared resolved, so extends is None on both sides.  Database scopes,
\* databases_allow and max_cost are not compared.
Diff(p, q) ==
    {<<"Added", l>> : l \in {x \in DOMAIN Lists(p) : ~(Lists(q)[x] \subseteq Lists(p)[x])}}
    \union {<<"Removed", l>> : l \in {x \in DOMAIN Lists(p) : ~(Lists(p)[x] \subseteq Lists(q)[x])}}
    \union Line(p.mode # q.mode, "Added or removed", "readonly mode")
    \union Line(~(q.flat.mask \subseteq p.flat.mask), "Now masks", "fields")
    \union Line(~(p.flat.mask \subseteq q.flat.mask), "No longer masks", "fields")
    \union Line((q.high /\ ~p.high) \/ (q.critical /\ ~p.critical), "Enabled", "approval")
    \union Line((p.high /\ ~q.high) \/ (p.critical /\ ~q.critical), "Disabled", "approval")
    \union Line(p.window[1] # q.window[1], "Changed", "not_before")
    \union Line(p.window[2] # q.window[2], "Changed", "not_after")

DenyLists == {"collections_deny", "actions_deny"}

\* Mutant: what is added widens and what is removed narrows, in any list.
Widening_ByVerb(line) ==
    line[1] \in {"Added", "Added or removed", "No longer masks", "Disabled"}

\* The deny lists are turned around; "Added readonly mode" begins with "Added ".
Widening(line) ==
    \/ line[1] = "Added" /\ line[2] \notin DenyLists
    \/ line[1] = "Removed" /\ line[2] \in DenyLists
    \/ line[1] \in {"Added or removed", "No longer masks", "Disabled"}

Narrowing(line) ==
    \/ line[1] = "Added" /\ line[2] \in DenyLists
    \/ line[1] = "Removed" /\ line[2] \notin DenyLists
    \/ line[1] \in {"Now masks", "Enabled"}

\* classify_impact().  No prefix matches a line that begins with "Changed ": a
\* window is neither widened nor narrowed, whatever becomes of it.
Impact(p, q) ==
    LET lines == Diff(p, q)
        widens == \E x \in lines : Widening(x)
        narrows == \E x \in lines : Narrowing(x)
    IN  IF widens /\ narrows THEN "MEDIUM" ELSE IF widens THEN "HIGH" ELSE "LOW"

=============================================================================
