--------------------------- MODULE PolicyProofs ---------------------------
(***************************************************************************)
(* Edits.  That tightening the policy files tightens the decisions, proved *)
(* for any files, chains of roles, edits, requests, plans and times.       *)
(*                                                                         *)
(* The argument is an order on policies, NoWider: every edit that empties  *)
(* no list moves one file down it, merging keeps it on either side, and    *)
(* so, up the chain from a name that extends none of the others, does      *)
(* resolving; and the decision and the mask follow it.  While the files on *)
(* disk do not resolve, the policy in force is one of an earlier version:  *)
(* what the files would merge into lies below it (Behind), so the reload   *)
(* that ends the gap is a step down too.                                   *)
(*                                                                         *)
(* Induction along a chain is the well-foundedness of NoCycle: among the   *)
(* names a statement fails for, one extends none of them.  That Resolved   *)
(* is the table its equation describes is proved the same way.             *)
(*                                                                         *)
(* Loading.  At the end, what a reload can bring into force, for any path, *)
(* any contents and any number of writes that fall between any two system  *)
(* calls of a load.                                                        *)
(***************************************************************************)
EXTENDS PolicyEdits, PolicyLoader, TLAPS

\* What Resolved computes for n, when r holds what it computes for the others.
Merged(fs, r, n) ==
    LET b == fs[n].extends IN
    IF b = NoBase THEN fs[n].own ELSE Merge(r[b], fs[n].own)

\* A set of names that holds the base of each of its members, and r their policies.
Closed(fs, T) == T \subseteq DOMAIN fs /\ \A n \in T : fs[n].extends \in T \union {NoBase}
Solves(fs, T, r) == r = [n \in T |-> Merged(fs, r, n)]

\* Two solutions agree wherever both are defined.
LEMMA SolutionsAgree ==
  ASSUME NEW fs, NoCycle(fs), NoBase \notin DOMAIN fs,
         NEW T, NEW r, Closed(fs, T), Solves(fs, T, r),
         NEW U, NEW q, Closed(fs, U), Solves(fs, U, q)
  PROVE  \A n \in T \intersect U : r[n] = q[n]
  <1> DEFINE S == {n \in T \intersect U : r[n] # q[n]}
  <1>1. SUFFICES ASSUME S # {} PROVE FALSE
    OBVIOUS
  <1>2. S \in SUBSET DOMAIN fs
    BY DEF Closed
  <1>3. PICK n \in S : fs[n].extends \notin S
    BY <1>1, <1>2 DEF NoCycle
  <1>4. r[n] = Merged(fs, r, n) /\ q[n] = Merged(fs, q, n)
    BY DEF Solves
  <1>5. fs[n].extends = NoBase \/ r[fs[n].extends] = q[fs[n].extends]
    BY <1>3 DEF Closed
  <1>6. Merged(fs, r, n) = Merged(fs, q, n)
    BY <1>5 DEF Merged
  <1> QED
    BY <1>4, <1>6

\* A solution exists for all the names.
LEMMA SolutionExists ==
  ASSUME NEW fs, KnownBases(fs), NoCycle(fs), NoBase \notin DOMAIN fs
  PROVE  \E r : Solves(fs, DOMAIN fs, r)
  <1> DEFINE U == {n \in DOMAIN fs : \E T \in SUBSET DOMAIN fs : \E r : n \in T /\ Closed(fs, T) /\ Solves(fs, T, r)}
             q == [n \in U |-> CHOOSE v : \E T \in SUBSET DOMAIN fs : \E r :
                                 n \in T /\ Closed(fs, T) /\ Solves(fs, T, r) /\ v = r[n]]
  <1>1. ASSUME NEW T \in SUBSET DOMAIN fs, NEW r, Closed(fs, T), Solves(fs, T, r), NEW n \in T
        PROVE  n \in U /\ q[n] = r[n]
    <2>1. n \in U
      BY <1>1
    <2>2. \E v : \E T1 \in SUBSET DOMAIN fs : \E r1 :
              n \in T1 /\ Closed(fs, T1) /\ Solves(fs, T1, r1) /\ v = r1[n]
      BY <1>1
    <2>3. PICK T1 \in SUBSET DOMAIN fs : \E r1 :
              n \in T1 /\ Closed(fs, T1) /\ Solves(fs, T1, r1) /\ q[n] = r1[n]
      BY <2>1, <2>2
    <2>4. PICK r1 : n \in T1 /\ Closed(fs, T1) /\ Solves(fs, T1, r1) /\ q[n] = r1[n]
      BY <2>3
    <2>5. r1[n] = r[n]
      BY <1>1, <2>4, SolutionsAgree
    <2> QED
      BY <2>1, <2>4, <2>5
  <1> HIDE DEF q
  <1>2. Closed(fs, U) /\ Solves(fs, U, q)
    <2>1. ASSUME NEW n \in U PROVE fs[n].extends \in U \union {NoBase} /\ q[n] = Merged(fs, q, n)
      <3>1. PICK T \in SUBSET DOMAIN fs : \E r : n \in T /\ Closed(fs, T) /\ Solves(fs, T, r)
        OBVIOUS
      <3>2. PICK r : n \in T /\ Closed(fs, T) /\ Solves(fs, T, r)
        BY <3>1
      <3>3. r[n] = Merged(fs, r, n)
        BY <3>2 DEF Solves
      <3>4. fs[n].extends \in T \union {NoBase}
        BY <3>2 DEF Closed
      <3>5. \A m \in T : m \in U /\ q[m] = r[m]
        BY <3>2, <1>1
      <3>6. Merged(fs, r, n) = Merged(fs, q, n)
        BY <3>4, <3>5 DEF Merged
      <3> QED
        BY <3>2, <3>3, <3>4, <3>5, <3>6
    <2>2. q = [n \in U |-> q[n]]
      BY DEF q
    <2>3. [n \in U |-> q[n]] = [n \in U |-> Merged(fs, q, n)]
      BY <2>1, Zenon
    <2> QED
      BY <2>1, <2>2, <2>3 DEF Closed, Solves
  <1>3. U = DOMAIN fs
    <2>1. SUFFICES ASSUME DOMAIN fs \ U # {} PROVE FALSE
      OBVIOUS
    <2>2. PICK n \in DOMAIN fs \ U : fs[n].extends \notin DOMAIN fs \ U
      <3>1. DOMAIN fs \ U \in SUBSET DOMAIN fs
        OBVIOUS
      <3> QED
        BY <2>1, <3>1 DEF NoCycle
    <2> DEFINE V == U \union {n}
               p == [m \in V |-> IF m = n THEN Merged(fs, q, n) ELSE q[m]]
    <2> HIDE DEF U
    <2>3. fs[n].extends \in U \union {NoBase}
      BY <2>2 DEF KnownBases
    <2>4. Closed(fs, V)
      BY <1>2, <2>2, <2>3 DEF Closed
    <2>5. \A m \in V : p[m] = Merged(fs, p, m)
      <3>1. \A m \in U : p[m] = q[m]
        BY <2>2
      <3>2. \A m \in U : q[m] = Merged(fs, q, m)
        BY <1>2 DEF Solves
      <3>3. \A m \in V : fs[m].extends = NoBase \/ p[fs[m].extends] = q[fs[m].extends]
        BY <3>1, <2>3, <1>2 DEF Closed
      <3>4. \A m \in V : Merged(fs, p, m) = Merged(fs, q, m)
        BY <3>3 DEF Merged
      <3> QED
        BY <3>1, <3>2, <3>4
    <2>6. Solves(fs, V, p)
      <3>1. [m \in V |-> p[m]] = [m \in V |-> Merged(fs, p, m)]
        BY <2>5, Zenon
      <3> QED
        BY <3>1 DEF Solves
    <2>7. n \in V /\ V \in SUBSET DOMAIN fs
      BY <2>4 DEF Closed
    <2> QED
      BY <1>1, <2>2, <2>4, <2>6, <2>7
  <1> QED
    BY <1>2, <1>3

\* Resolved is the table of merged policies its equation describes.
LEMMA ResolveStep ==
  ASSUME NEW fs, KnownBases(fs), NoCycle(fs), NoBase \notin DOMAIN fs, NEW n \in DOMAIN fs
  PROVE  Resolve(fs, n) = IF fs[n].extends = NoBase THEN fs[n].own
                          ELSE Merge(Resolve(fs, fs[n].extends), fs[n].own)
  <1>1. Resolved(fs) = CHOOSE r : Solves(fs, DOMAIN fs, r)
    BY DEF Resolved, Solves, Merged
  <1>2. Solves(fs, DOMAIN fs, Resolved(fs))
    BY <1>1, SolutionExists
  <1>3. Resolved(fs)[n] = Merged(fs, Resolved(fs), n)
    BY <1>2 DEF Solves
  <1> QED
    BY <1>3 DEF Resolve, Merged

----------------------------------------------------------------------------
(* When one policy lets no request through that another holds back.        *)

\* s permits no collection and shows no field that t does not.
ScopeNoWider(s, t) == s.allow \subseteq t.allow /\ t.deny \subseteq s.deny /\ t.mask \subseteq s.mask

\* A block that names no collection, or masks nothing, falls back to the flat scope;
\* so s must go on doing neither more often than t.
BlockNoWider(s, t) ==
    /\ ScopeNoWider(s, t)
    /\ t.allow \union t.deny # {} => s.allow \union s.deny # {}
    /\ t.mask = {} => s.mask = {}

\* An empty list of actions or databases is no restriction.
ListNoWider(k, l) == k \subseteq l /\ (k = {} => l = {})

NoWider(q, p) ==
    /\ Within(q.window, p.window) /\ q.default = p.default /\ q.maxCost = p.maxCost
    /\ p.mode = "readonly" => q.mode = "readonly"
    /\ ScopeNoWider(q.flat, p.flat)
    /\ DOMAIN q.blocks = DOMAIN p.blocks
    /\ \A d \in DOMAIN p.blocks : BlockNoWider(q.blocks[d], p.blocks[d])
    /\ ListNoWider(q.dbAllow, p.dbAllow)
    /\ ListNoWider(q.actAllow, p.actAllow)
    /\ ListNoWider(q.fields, p.fields)
    /\ ListNoWider(q.connections, p.connections)
    /\ p.actDeny \subseteq q.actDeny
    /\ p.high => q.high
    /\ p.critical => q.critical

\* A child's bound replaces its base's: so q must not set one that p leaves unset.
KeepsBounds(q, p) ==
    /\ p.window[1] = Earliest => q.window[1] = Earliest
    /\ p.window[2] = Latest => q.window[2] = Latest

\* The parts of a valid policy.
LEMMA PolicyParts ==
  ASSUME NEW p, IsPolicy(p)
  PROVE  /\ p # NoPolicy
         /\ p.window[1] \in Int /\ Earliest <= p.window[1] /\ p.window[1] <= Latest
         /\ p.window[2] \in Int /\ Earliest <= p.window[2] /\ p.window[2] <= Latest
         /\ p.mode \in {"readonly", "readwrite"}
         /\ p.flat \in Scopes /\ p.default \in Scopes \union {NoScope}
         /\ DOMAIN p.blocks \subseteq Databases
         /\ \A d \in DOMAIN p.blocks : p.blocks[d] \in Scopes
         /\ p.fields \subseteq Fields /\ p.connections \subseteq ConnectionNames
         /\ p.high \in BOOLEAN /\ p.critical \in BOOLEAN
         /\ p.maxCost \in NoMaxCost .. Critical
  <1>1. PICK D \in SUBSET Databases : p \in PoliciesOver(D)
    BY DEF IsPolicy
  <1>2. p # NoPolicy
    BY <1>1, EditsAssumption DEF EditsAssumption
  <1>3. p.blocks \in [D -> Scopes]
    BY <1>1 DEF PoliciesOver
  <1>4. p.window \in (Earliest .. Latest) \X (Earliest .. Latest)
    BY <1>1 DEF PoliciesOver
  <1>5. p.window[1] \in Earliest .. Latest /\ p.window[2] \in Earliest .. Latest
    BY <1>4
  <1> QED
    BY <1>1, <1>2, <1>3, <1>5, FilesAssumption DEF PoliciesOver, FilesAssumption

LEMMA NoWiderReflexive == ASSUME NEW p, IsPolicy(p) PROVE NoWider(p, p)
  BY PolicyParts DEF NoWider, Within, ScopeNoWider, BlockNoWider, ListNoWider

LEMMA NoWiderTransitive ==
  ASSUME NEW p, NEW q, NEW r, IsPolicy(p), IsPolicy(q), IsPolicy(r), NoWider(r, q), NoWider(q, p)
  PROVE  NoWider(r, p)
  <1>1. \A s, t, u : BlockNoWider(u, t) /\ BlockNoWider(t, s) => BlockNoWider(u, s)
    BY DEF BlockNoWider, ScopeNoWider
  <1>2. \A d \in DOMAIN p.blocks : BlockNoWider(r.blocks[d], p.blocks[d])
    BY <1>1 DEF NoWider
  <1>3. ScopeNoWider(r.flat, p.flat)
    BY DEF NoWider, ScopeNoWider
  <1>4. /\ ListNoWider(r.dbAllow, p.dbAllow) /\ ListNoWider(r.actAllow, p.actAllow)
        /\ ListNoWider(r.fields, p.fields) /\ ListNoWider(r.connections, p.connections)
    BY DEF NoWider, ListNoWider
  <1>5. Within(r.window, p.window)
    BY PolicyParts DEF NoWider, Within
  <1> QED
    BY <1>2, <1>3, <1>4, <1>5 DEF NoWider

\* Merging keeps the order, on either side.
LEMMA MergeNoWider ==
  ASSUME NEW b, NEW c, NEW b1, NEW c1, NoWider(b1, b), NoWider(c1, c), KeepsBounds(c1, c),
         IsPolicy(b), IsPolicy(c), IsPolicy(b1), IsPolicy(c1)
  PROVE  NoWider(Merge(b1, c1), Merge(b, c))
  <1> DEFINE m == Merge(b, c)
             m1 == Merge(b1, c1)
  <1>1. Within(m1.window, m.window) /\ m1.default = m.default /\ m1.maxCost = m.maxCost
    <2>1. /\ m.window[1] = IF c.window[1] # Earliest THEN c.window[1] ELSE b.window[1]
          /\ m.window[2] = IF c.window[2] # Latest THEN c.window[2] ELSE b.window[2]
          /\ m1.window[1] = IF c1.window[1] # Earliest THEN c1.window[1] ELSE b1.window[1]
          /\ m1.window[2] = IF c1.window[2] # Latest THEN c1.window[2] ELSE b1.window[2]
      BY DEF Merge
    <2>2. m1.default = m.default /\ m1.maxCost = m.maxCost
      BY DEF Merge
    <2> HIDE DEF m, m1
    <2>3. Within(m1.window, m.window)
      BY <2>1, PolicyParts, FilesAssumption DEF NoWider, Within, KeepsBounds, FilesAssumption
    <2> QED
      BY <2>2, <2>3
  <1>2. m.mode = "readonly" => m1.mode = "readonly"
    BY PolicyParts DEF Merge, NoWider
  <1>3. ScopeNoWider(m1.flat, m.flat)
    BY DEF Merge, MergedMask, NoWider, ScopeNoWider
  <1>4. m1.blocks = <<>> /\ m.blocks = <<>> /\ m1.dbAllow = {} /\ m.dbAllow = {}
    BY DEF Merge
  <1>5. \A d \in DOMAIN m.blocks : BlockNoWider(m1.blocks[d], m.blocks[d])
    BY <1>4
  <1>6. /\ ListNoWider(m1.dbAllow, m.dbAllow) /\ ListNoWider(m1.actAllow, m.actAllow)
        /\ ListNoWider(m1.fields, m.fields) /\ ListNoWider(m1.connections, m.connections)
    BY DEF Merge, NoWider, ListNoWider
  <1>7. m.actDeny \subseteq m1.actDeny
    BY DEF Merge, NoWider
  <1>8. (m.high => m1.high) /\ (m.critical => m1.critical)
    BY Zenon DEF Merge, NoWider
  <1> HIDE DEF m, m1
  <1> QED
    BY <1>1, <1>2, <1>3, <1>4, <1>5, <1>6, <1>7, <1>8 DEF NoWider, m, m1

----------------------------------------------------------------------------
(* What that order does to a decision.                                     *)

\* The times looked at are times.
LEMMA WindowTimes == Window \subseteq Int
  BY EditsAssumption, FilesAssumption DEF EditsAssumption, FilesAssumption

\* Lists that are no wider let nothing more through.
LEMMA ListsShowNoMore ==
  ASSUME NEW p, IsPolicy(p), NEW q, IsPolicy(q), NoWider(q, p)
  PROVE  /\ Through(q.fields, Fields) \subseteq Through(p.fields, Fields)
         /\ Through(q.connections, ConnectionNames) \subseteq Through(p.connections, ConnectionNames)
  <1>1. ListNoWider(q.fields, p.fields) /\ ListNoWider(q.connections, p.connections)
    BY DEF NoWider
  <1> QED
    BY <1>1, PolicyParts DEF Through, ListNoWider

LEMMA PermitsNoMore ==
  ASSUME NEW s, NEW t, ScopeNoWider(s, t), NEW c, CollectionPermitted(c, s)
  PROVE  CollectionPermitted(c, t)
  BY DEF ScopeNoWider, CollectionPermitted

\* The scope that governs a database permits no more collections.
LEMMA ScopeForNoWider ==
  ASSUME NEW p, IsPolicy(p), NEW q, IsPolicy(q), NoWider(q, p), NEW db, NEW c,
         CollectionPermitted(c, ScopeFor(q, db))
  PROVE  CollectionPermitted(c, ScopeFor(p, db))
  <1>1. ScopeNoWider(q.flat, p.flat) /\ DOMAIN q.blocks = DOMAIN p.blocks /\ q.default = p.default
    BY DEF NoWider
  <1>2. CASE db = NoDb \/ (db \notin DOMAIN p.blocks /\ p.default = NoScope)
    <2>1. ScopeFor(q, db) = q.flat /\ ScopeFor(p, db) = p.flat
      BY <1>1, <1>2 DEF ScopeFor, BlockFor
    <2> QED
      BY <1>1, <2>1, PermitsNoMore
  <1>3. CASE db # NoDb /\ db \notin DOMAIN p.blocks /\ p.default # NoScope
    BY <1>1, <1>3 DEF ScopeFor, BlockFor, CollectionPermitted, ScopeNoWider
  <1>4. CASE db # NoDb /\ db \in DOMAIN p.blocks
    <2> DEFINE s == q.blocks[db]
               t == p.blocks[db]
    <2>1. BlockFor(q, db) = s /\ BlockFor(p, db) = t /\ BlockNoWider(s, t)
      BY <1>1, <1>4 DEF BlockFor, NoWider
    <2>2. s # NoScope /\ t # NoScope
      BY <1>1, <1>4, PolicyParts, EditsAssumption DEF EditsAssumption
    <2> HIDE DEF s, t
    <2> QED
      BY <1>1, <2>1, <2>2 DEF ScopeFor, CollectionPermitted, ScopeNoWider, BlockNoWider
  <1> QED
    BY <1>2, <1>3, <1>4

\* It masks every field that was masked.
LEMMA MaskFieldsNoFewer ==
  ASSUME NEW p, IsPolicy(p), NEW q, IsPolicy(q), NoWider(q, p), NEW db, NEW c
  PROVE  MaskFieldsFor(p, c, db) \subseteq MaskFieldsFor(q, c, db)
  <1>1. ScopeNoWider(q.flat, p.flat) /\ DOMAIN q.blocks = DOMAIN p.blocks /\ q.default = p.default
    BY DEF NoWider
  <1>2. \A d \in DOMAIN p.blocks : BlockNoWider(q.blocks[d], p.blocks[d])
    BY DEF NoWider
  <1>3. \A d \in DOMAIN p.blocks : p.blocks[d] # NoScope /\ q.blocks[d] # NoScope
    BY <1>1, PolicyParts, EditsAssumption DEF EditsAssumption
  <1>4. ScopeFor(p, db).mask \subseteq ScopeFor(q, db).mask
    BY <1>1, <1>2, <1>3 DEF ScopeFor, BlockFor, ScopeNoWider, BlockNoWider
  <1> QED
    BY <1>4 DEF MaskFieldsFor

\* Nothing is decided more generously.
LEMMA EvaluateNoWider ==
  ASSUME NEW p, IsPolicy(p), NEW q, IsPolicy(q), NoWider(q, p), NEW req, NEW now \in Int
  PROVE  Rank(Evaluate(q, req, now).status) <= Rank(Evaluate(p, req, now).status)
  <1> DEFINE dp == Evaluate(p, req, now).status
             dq == Evaluate(q, req, now).status
  <1>1. dp \in Statuses /\ dq \in Statuses
    BY DEF Evaluate, EngineDecision, Statuses
  <1>2. CASE dq = "denied"
    BY <1>1, <1>2 DEF Rank, Statuses
  <1>3. CASE dq # "denied"
    <2>1. /\ q # NoPolicy /\ InWindow(q, now) /\ DatabasePermitted(q, req.db)
          /\ PipelinePermitted(q, req) /\ ~Forbidden(q, req)
      BY <1>3 DEF Evaluate, EngineDecision
    <2>2. p # NoPolicy /\ InWindow(p, now) /\ DatabasePermitted(p, req.db)
      BY <2>1, PolicyParts DEF InWindow, DatabasePermitted, NoWider, Within, ListNoWider
    <2>3. PipelinePermitted(p, req)
      <3>1. MaskFieldsFor(p, req.coll, req.db) \subseteq MaskFieldsFor(q, req.coll, req.db)
        BY MaskFieldsNoFewer
      <3> QED
        BY <2>1, <3>1, ScopeForNoWider DEF PipelinePermitted
    <2>4. ~Forbidden(p, req)
      <3>1. ~(p.mode = "readonly" /\ req.action \in WriteActions)
        BY <2>1 DEF Forbidden, NoWider
      <3>2. req.action \in DbLevelActions \/ CollectionPermitted(req.coll, ScopeFor(p, req.db))
        BY <2>1, ScopeForNoWider DEF Forbidden
      <3>3. req.action \notin p.actDeny /\ ~(p.actAllow # {} /\ req.action \notin p.actAllow)
        BY <2>1 DEF Forbidden, NoWider, ListNoWider
      <3> QED
        BY <3>1, <3>2, <3>3 DEF Forbidden
    <2>5. NeedsApproval(p, Classify(req)) => NeedsApproval(q, Classify(req))
      BY Zenon DEF NeedsApproval, NoWider
    <2>6. dp # "denied" /\ (dp = "approval_required" => dq = "approval_required")
      BY <2>1, <2>2, <2>3, <2>4, <2>5 DEF Evaluate, EngineDecision
    <2> QED
      BY <1>1, <2>6 DEF Rank, Statuses
  <1> QED
    BY <1>2, <1>3

----------------------------------------------------------------------------
(* The edits.                                                              *)

\* The files are valid policies and their chains end, as in every state.
FilesOk(fs) ==
    /\ Agent \in DOMAIN fs /\ NoBase \notin DOMAIN fs
    /\ fs = [n \in DOMAIN fs |-> [own |-> fs[n].own, extends |-> fs[n].extends]]
    /\ \A n \in DOMAIN fs : IsPolicy(fs[n].own)
    /\ KnownBases(fs) /\ NoCycle(fs)

\* What an edit of n's file saves: a valid policy, where no list is emptied one that
\* is no wider, and for a child one that sets no bound of the window anew.
Tightens(n) ==
    \E p : /\ Save(n, p) /\ IsPolicy(p)
           /\ ~Emptying => NoWider(p, files[n].own)
           /\ files[n].extends # NoBase => KeepsBounds(p, files[n].own)

\* A list of collections or masked fields is edited, in the flat part or in a block.
LEMMA PutTightens ==
  ASSUME FilesOk(files), NEW n \in DOMAIN files, NEW d \in Places(n), NEW s \in Scopes, Put(n, d, s),
         ScopeNoWider(s, ScopeAt(n, d)),
         d # NoDb /\ ~Emptying => BlockNoWider(s, ScopeAt(n, d))
  PROVE  Tightens(n)
  <1> DEFINE p == files[n].own
  <1>1. IsPolicy(p)
    BY DEF FilesOk
  <1>2. PICK D \in SUBSET Databases : p \in PoliciesOver(D)
    BY <1>1 DEF IsPolicy
  <1>3. CASE d = NoDb
    <2> DEFINE q == [p EXCEPT !.flat = s]
    <2>1. Save(n, q)
      BY <1>3 DEF Put
    <2>2. q \in PoliciesOver(D)
      BY <1>2 DEF PoliciesOver
    <2>3. NoWider(q, p)
      <3>1. ScopeNoWider(s, p.flat)
        BY <1>3 DEF ScopeAt
      <3>2. /\ q.flat = s /\ q.window = p.window /\ q.default = p.default /\ q.maxCost = p.maxCost
            /\ q.mode = p.mode /\ q.blocks = p.blocks /\ q.dbAllow = p.dbAllow
            /\ q.actAllow = p.actAllow /\ q.actDeny = p.actDeny
            /\ q.fields = p.fields /\ q.connections = p.connections
            /\ q.high = p.high /\ q.critical = p.critical
        BY <1>2 DEF PoliciesOver
      <3>3. Within(p.window, p.window)
        BY <1>1, NoWiderReflexive DEF NoWider
      <3> HIDE DEF p, q
      <3> QED
        BY <3>1, <3>2, <3>3 DEF NoWider, BlockNoWider, ScopeNoWider, ListNoWider
    <2>4. q.window = p.window
      BY <1>2 DEF PoliciesOver
    <2> HIDE DEF q
    <2> QED
      BY <2>1, <2>2, <2>3, <2>4 DEF Tightens, IsPolicy, KeepsBounds
  <1>4. CASE d # NoDb
    <2> DEFINE q == [p EXCEPT !.blocks[d] = s]
    <2>1. Save(n, q)
      BY <1>4 DEF Put
    <2>2. d \in DOMAIN p.blocks
      BY <1>4 DEF Places
    <2>3. p.blocks \in [D -> Scopes]
      BY <1>2 DEF PoliciesOver
    <2>4. q = [p EXCEPT !.blocks = [p.blocks EXCEPT ![d] = s]]
      OBVIOUS
    <2>5. [p.blocks EXCEPT ![d] = s] \in [D -> Scopes]
      BY <2>3
    <2>6. q \in PoliciesOver(D)
      BY <1>2, <2>4, <2>5 DEF PoliciesOver
    <2>7. ASSUME ~Emptying PROVE NoWider(q, p)
      <3>1. BlockNoWider(s, p.blocks[d])
        BY <1>4, <2>7 DEF ScopeAt
      <3>2. /\ q.blocks = [p.blocks EXCEPT ![d] = s]
            /\ q.window = p.window /\ q.default = p.default /\ q.maxCost = p.maxCost
            /\ q.mode = p.mode /\ q.flat = p.flat /\ q.dbAllow = p.dbAllow
            /\ q.actAllow = p.actAllow /\ q.actDeny = p.actDeny
            /\ q.fields = p.fields /\ q.connections = p.connections
            /\ q.high = p.high /\ q.critical = p.critical
        BY <1>2, <2>4 DEF PoliciesOver
      <3>3. \A e \in DOMAIN p.blocks : q.blocks[e] = IF e = d THEN s ELSE p.blocks[e]
        BY <2>3, <3>2
      <3>4. DOMAIN q.blocks = DOMAIN p.blocks
        BY <2>3, <3>2
      <3>6. Within(p.window, p.window)
        BY <1>1, NoWiderReflexive DEF NoWider
      <3> HIDE DEF p, q
      <3>5. \A e \in DOMAIN p.blocks : BlockNoWider(q.blocks[e], p.blocks[e])
        BY <3>1, <3>3 DEF BlockNoWider, ScopeNoWider
      <3> QED
        BY <3>2, <3>4, <3>5, <3>6 DEF NoWider, ScopeNoWider, ListNoWider
    <2>8. q.window = p.window
      BY <1>2, <2>4 DEF PoliciesOver
    <2> HIDE DEF q
    <2> QED
      BY <2>1, <2>6, <2>7, <2>8 DEF Tightens, IsPolicy, KeepsBounds
  <1> QED
    BY <1>3, <1>4

\* The scope an edit starts from.
LEMMA ScopeAtIsScope ==
  ASSUME FilesOk(files), NEW n \in DOMAIN files, NEW d \in Places(n)
  PROVE  ScopeAt(n, d) \in Scopes
  <1>1. IsPolicy(files[n].own)
    BY DEF FilesOk
  <1> QED
    BY <1>1, PolicyParts DEF ScopeAt, Places

\* One collection or field more or less in a scope.
LEMMA ListEditTightens ==
  ASSUME FilesOk(files), NEW n \in DOMAIN files, NEW d \in Places(n),
         \/ \E c \in Collections : DenyCollection(n, d, c)
         \/ \E c \in Collections \union {Star} : RevokeCollection(n, d, c)
         \/ \E b \in Collections \union {Star}, f \in Fields : MaskField(n, d, b, f)
  PROVE  Tightens(n)
  <1> DEFINE t == ScopeAt(n, d)
  <1>1. t \in Scopes
    BY ScopeAtIsScope
  <1> HIDE DEF t
  <1>2. ASSUME NEW c \in Collections, DenyCollection(n, d, c) PROVE Tightens(n)
    <2> DEFINE s == [t EXCEPT !.allow = @ \ {c}, !.deny = @ \union {c}]
    <2>1. Put(n, d, s)
      BY <1>2 DEF DenyCollection, t
    <2>2. s \in Scopes
      BY <1>1 DEF Scopes
    <2>3. s.allow = t.allow \ {c} /\ s.deny = t.deny \union {c} /\ s.mask = t.mask
      BY <1>1 DEF Scopes
    <2> HIDE DEF s
    <2>4. BlockNoWider(s, t)
      BY <2>3 DEF BlockNoWider, ScopeNoWider
    <2> QED
      BY <2>1, <2>2, <2>4, PutTightens DEF BlockNoWider, t
  <1>3. ASSUME NEW c \in Collections \union {Star}, RevokeCollection(n, d, c) PROVE Tightens(n)
    <2> DEFINE s == [t EXCEPT !.allow = @ \ {c}]
    <2>1. Put(n, d, s) /\ c \in t.allow /\ (d = NoDb \/ Emptying \/ t.allow # {c} \/ t.deny # {})
      BY <1>3 DEF RevokeCollection, t
    <2>2. s \in Scopes
      BY <1>1 DEF Scopes
    <2>3. s.allow = t.allow \ {c} /\ s.deny = t.deny /\ s.mask = t.mask
      BY <1>1 DEF Scopes
    <2> HIDE DEF s
    <2>4. ScopeNoWider(s, t) /\ (d # NoDb /\ ~Emptying => BlockNoWider(s, t))
      BY <2>1, <2>3 DEF BlockNoWider, ScopeNoWider
    <2> QED
      BY <2>1, <2>2, <2>4, PutTightens DEF t
  <1>4. ASSUME NEW b \in Collections \union {Star}, NEW f \in Fields, MaskField(n, d, b, f)
        PROVE  Tightens(n)
    <2> DEFINE s == [t EXCEPT !.mask = @ \union {<<b, f>>}]
    <2>1. Put(n, d, s) /\ (d = NoDb \/ Emptying \/ t.mask # {})
      BY <1>4 DEF MaskField, t
    <2>2. s \in Scopes
      BY <1>1 DEF Scopes
    <2>3. s.allow = t.allow /\ s.deny = t.deny /\ s.mask = t.mask \union {<<b, f>>}
      BY <1>1 DEF Scopes
    <2> HIDE DEF s
    <2>4. ScopeNoWider(s, t) /\ (d # NoDb /\ ~Emptying => BlockNoWider(s, t))
      BY <2>1, <2>3 DEF BlockNoWider, ScopeNoWider
    <2> QED
      BY <2>1, <2>2, <2>4, PutTightens DEF t
  <1> QED
    BY <1>2, <1>3, <1>4

\* An entry of the policy itself.
LEMMA EntryEditTightens ==
  ASSUME FilesOk(files), NEW n \in DOMAIN files,
         \/ \E a \in EditedActions : DenyAction(n, a) \/ RevokeAction(n, a)
         \/ \E d \in Databases : RevokeDatabase(n, d)
         \/ \E f \in Fields : RevokeField(n, f)
         \/ \E x \in ConnectionNames : RevokeConnection(n, x)
         \/ \E b, e \in Window : NarrowWindow(n, b, e)
         \/ GoReadonly(n)
         \/ RequireApproval(n)
  PROVE  Tightens(n)
  <1> DEFINE p == files[n].own
  <1>1. IsPolicy(p)
    BY DEF FilesOk
  <1>2. PICK D \in SUBSET Databases : p \in PoliciesOver(D)
    BY <1>1 DEF IsPolicy
  <1>3. EditedActions \subseteq Actions
    BY EditsAssumption DEF EditsAssumption
  <1>4. NoWider(p, p)
    BY <1>1, NoWiderReflexive
  <1>5. ASSUME NEW q, Save(n, q), q \in PoliciesOver(D), ~Emptying => NoWider(q, p),
               q.window = p.window
        PROVE  Tightens(n)
    BY <1>5 DEF Tightens, IsPolicy, KeepsBounds
  <1> HIDE DEF p
  <1>6. ASSUME NEW a \in EditedActions, DenyAction(n, a) PROVE Tightens(n)
    <2> DEFINE q == [p EXCEPT !.actDeny = @ \union {a}]
    <2>1. Save(n, q)
      BY <1>6 DEF DenyAction, p
    <2>2. q \in PoliciesOver(D)
      BY <1>2, <1>3 DEF PoliciesOver
    <2>3. NoWider(q, p)
      BY <1>2, <1>4 DEF PoliciesOver, NoWider
    <2>4. q.window = p.window
      BY <1>2 DEF PoliciesOver
    <2> HIDE DEF q
    <2> QED
      BY <1>5, <2>1, <2>2, <2>3, <2>4
  <1>7. ASSUME NEW a \in EditedActions, RevokeAction(n, a) PROVE Tightens(n)
    <2> DEFINE q == [p EXCEPT !.actAllow = @ \ {a}]
    <2>1. Save(n, q) /\ a \in p.actAllow /\ (Emptying \/ p.actAllow # {a})
      BY <1>7 DEF RevokeAction, p
    <2>2. q \in PoliciesOver(D)
      BY <1>2 DEF PoliciesOver
    <2>3. ~Emptying => NoWider(q, p)
      BY <1>2, <1>4, <2>1 DEF PoliciesOver, NoWider, ListNoWider
    <2>4. q.window = p.window
      BY <1>2 DEF PoliciesOver
    <2> HIDE DEF q
    <2> QED
      BY <1>5, <2>1, <2>2, <2>3, <2>4
  <1>8. ASSUME NEW d \in Databases, RevokeDatabase(n, d) PROVE Tightens(n)
    <2> DEFINE q == [p EXCEPT !.dbAllow = @ \ {d}]
    <2>1. Save(n, q) /\ d \in p.dbAllow /\ (Emptying \/ p.dbAllow # {d})
      BY <1>8 DEF RevokeDatabase, p
    <2>2. q \in PoliciesOver(D)
      BY <1>2 DEF PoliciesOver
    <2>3. ~Emptying => NoWider(q, p)
      BY <1>2, <1>4, <2>1 DEF PoliciesOver, NoWider, ListNoWider
    <2>4. q.window = p.window
      BY <1>2 DEF PoliciesOver
    <2> HIDE DEF q
    <2> QED
      BY <1>5, <2>1, <2>2, <2>3, <2>4
  <1>9. ASSUME GoReadonly(n) PROVE Tightens(n)
    <2> DEFINE q == [p EXCEPT !.mode = "readonly"]
    <2>1. Save(n, q)
      BY <1>9 DEF GoReadonly, p
    <2>2. q \in PoliciesOver(D)
      BY <1>2 DEF PoliciesOver
    <2>3. NoWider(q, p)
      BY <1>2, <1>4 DEF PoliciesOver, NoWider
    <2>4. q.window = p.window
      BY <1>2 DEF PoliciesOver
    <2> HIDE DEF q
    <2> QED
      BY <1>5, <2>1, <2>2, <2>3, <2>4
  <1>10. ASSUME RequireApproval(n) PROVE Tightens(n)
    <2> DEFINE q == [p EXCEPT !.high = TRUE]
               r == [p EXCEPT !.critical = TRUE]
    <2>1. Save(n, q) \/ Save(n, r)
      BY <1>10 DEF RequireApproval, p
    <2>2. q \in PoliciesOver(D) /\ r \in PoliciesOver(D)
      BY <1>2 DEF PoliciesOver
    <2>3. NoWider(q, p)
      <3>1. q.high = TRUE /\ q.critical = p.critical
        BY <1>2 DEF PoliciesOver
      <3>2. /\ q.window = p.window /\ q.default = p.default /\ q.maxCost = p.maxCost
            /\ q.mode = p.mode /\ q.flat = p.flat /\ q.blocks = p.blocks /\ q.dbAllow = p.dbAllow
            /\ q.actAllow = p.actAllow /\ q.actDeny = p.actDeny
            /\ q.fields = p.fields /\ q.connections = p.connections
        BY <1>2 DEF PoliciesOver
      <3> HIDE DEF q
      <3> QED
        BY <1>4, <3>1, <3>2, Zenon DEF NoWider
    <2>4. NoWider(r, p)
      <3>1. r.critical = TRUE /\ r.high = p.high
        BY <1>2 DEF PoliciesOver
      <3>2. /\ r.window = p.window /\ r.default = p.default /\ r.maxCost = p.maxCost
            /\ r.mode = p.mode /\ r.flat = p.flat /\ r.blocks = p.blocks /\ r.dbAllow = p.dbAllow
            /\ r.actAllow = p.actAllow /\ r.actDeny = p.actDeny
            /\ r.fields = p.fields /\ r.connections = p.connections
        BY <1>2 DEF PoliciesOver
      <3> HIDE DEF r
      <3> QED
        BY <1>4, <3>1, <3>2, Zenon DEF NoWider
    <2>5. q.window = p.window /\ r.window = p.window
      BY <1>2 DEF PoliciesOver
    <2> HIDE DEF q, r
    <2> QED
      BY <1>5, <2>1, <2>2, <2>3, <2>4, <2>5
  <1>11. ASSUME NEW f \in Fields, RevokeField(n, f) PROVE Tightens(n)
    <2> DEFINE q == [p EXCEPT !.fields = @ \ {f}]
    <2>1. Save(n, q) /\ f \in p.fields /\ (Emptying \/ p.fields # {f})
      BY <1>11 DEF RevokeField, p
    <2>2. q \in PoliciesOver(D)
      BY <1>2 DEF PoliciesOver
    <2>3. ~Emptying => NoWider(q, p)
      BY <1>2, <1>4, <2>1 DEF PoliciesOver, NoWider, ListNoWider
    <2>4. q.window = p.window
      BY <1>2 DEF PoliciesOver
    <2> HIDE DEF q
    <2> QED
      BY <1>5, <2>1, <2>2, <2>3, <2>4
  <1>12. ASSUME NEW x \in ConnectionNames, RevokeConnection(n, x) PROVE Tightens(n)
    <2> DEFINE q == [p EXCEPT !.connections = @ \ {x}]
    <2>1. Save(n, q) /\ x \in p.connections /\ (Emptying \/ p.connections # {x})
      BY <1>12 DEF RevokeConnection, p
    <2>2. q \in PoliciesOver(D)
      BY <1>2 DEF PoliciesOver
    <2>3. ~Emptying => NoWider(q, p)
      BY <1>2, <1>4, <2>1 DEF PoliciesOver, NoWider, ListNoWider
    <2>4. q.window = p.window
      BY <1>2 DEF PoliciesOver
    <2> HIDE DEF q
    <2> QED
      BY <1>5, <2>1, <2>2, <2>3, <2>4
  <1>13. ASSUME NEW b \in Window, NEW e \in Window, NarrowWindow(n, b, e) PROVE Tightens(n)
    <2> DEFINE q == [p EXCEPT !.window = <<b, e>>]
    <2>1. /\ Save(n, q) /\ p.window[1] <= b /\ e <= p.window[2]
          /\ \/ files[n].extends = NoBase
             \/ (b # p.window[1] => p.window[1] # Earliest) /\ (e # p.window[2] => p.window[2] # Latest)
      BY <1>13 DEF NarrowWindow, p
    <2>2. <<b, e>> \in (Earliest .. Latest) \X (Earliest .. Latest)
      BY EditsAssumption DEF EditsAssumption
    <2>3. q \in PoliciesOver(D) /\ q.window = <<b, e>>
      BY <1>2, <2>2 DEF PoliciesOver
    <2>4. Within(q.window, p.window)
      BY <2>1, <2>3 DEF Within
    <2>5. NoWider(q, p)
      <3>1. /\ q.default = p.default /\ q.maxCost = p.maxCost
            /\ q.mode = p.mode /\ q.flat = p.flat /\ q.blocks = p.blocks /\ q.dbAllow = p.dbAllow
            /\ q.actAllow = p.actAllow /\ q.actDeny = p.actDeny
            /\ q.fields = p.fields /\ q.connections = p.connections
            /\ q.high = p.high /\ q.critical = p.critical
        BY <1>2 DEF PoliciesOver
      <3> HIDE DEF q
      <3> QED
        BY <1>4, <2>4, <3>1, Zenon DEF NoWider
    <2>6. files[n].extends # NoBase => KeepsBounds(q, p)
      BY <2>1, <2>3 DEF KeepsBounds
    <2> HIDE DEF q
    <2> QED
      BY <2>1, <2>3, <2>5, <2>6 DEF Tightens, IsPolicy, p
  <1> QED
    BY <1>6, <1>7, <1>8, <1>9, <1>10, <1>11, <1>12, <1>13

LEMMA EditTightens ==
  ASSUME FilesOk(files), NEW n \in DOMAIN files, Edit(n)
  PROVE  Tightens(n)
  BY ListEditTightens, EntryEditTightens DEF Edit

----------------------------------------------------------------------------
(* Resolving.                                                              *)

LEMMA MergeIsPolicy ==
  ASSUME NEW b, NEW c, IsPolicy(b), IsPolicy(c)
  PROVE  IsPolicy(Merge(b, c))
  <1>1. PICK B \in SUBSET Databases : b \in PoliciesOver(B)
    BY DEF IsPolicy
  <1>2. PICK C \in SUBSET Databases : c \in PoliciesOver(C)
    BY DEF IsPolicy
  <1>3. <<>> \in [{} -> Scopes]
    OBVIOUS
  <1>4. /\ b.window \in (Earliest .. Latest) \X (Earliest .. Latest)
        /\ c.window \in (Earliest .. Latest) \X (Earliest .. Latest)
        /\ b.mode \in {"readonly", "readwrite"} /\ c.mode \in {"readonly", "readwrite"}
        /\ b.flat \in Scopes /\ c.flat \in Scopes
        /\ b.actAllow \union c.actAllow \subseteq Actions
        /\ b.actDeny \union c.actDeny \subseteq Actions
        /\ b.fields \union c.fields \subseteq Fields
        /\ b.connections \union c.connections \subseteq ConnectionNames
    BY <1>1, <1>2 DEF PoliciesOver
  <1>5. (b.high \/ c.high) \in BOOLEAN /\ (b.critical \/ c.critical) \in BOOLEAN
    OBVIOUS
  <1>6. [allow |-> b.flat.allow \union c.flat.allow, deny |-> b.flat.deny \union c.flat.deny,
         mask |-> MergedMask(b, c)] \in Scopes
    BY <1>4 DEF Scopes, MergedMask
  <1>7. <<IF c.window[1] # Earliest THEN c.window[1] ELSE b.window[1],
          IF c.window[2] # Latest THEN c.window[2] ELSE b.window[2]>>
           \in (Earliest .. Latest) \X (Earliest .. Latest)
    BY <1>4
  <1>8. NoMaxCost \in NoMaxCost .. Critical /\ NoScope \in Scopes \union {NoScope}
    BY DEF NoMaxCost, Critical
  <1>9. Merge(b, c) \in PoliciesOver({})
    BY <1>3, <1>4, <1>5, <1>6, <1>7, <1>8 DEF Merge, PoliciesOver
  <1> QED
    BY <1>9 DEF IsPolicy

LEMMA ResolveIsPolicy ==
  ASSUME NEW fs, FilesOk(fs)
  PROVE  \A n \in DOMAIN fs : IsPolicy(Resolve(fs, n))
  <1> DEFINE S == {n \in DOMAIN fs : ~IsPolicy(Resolve(fs, n))}
  <1>1. SUFFICES ASSUME S # {} PROVE FALSE
    OBVIOUS
  <1>2. PICK n \in S : fs[n].extends \notin S
    <2>1. S \in SUBSET DOMAIN fs
      OBVIOUS
    <2> QED
      BY <1>1, <2>1 DEF FilesOk, NoCycle
  <1>3. Resolve(fs, n) = IF fs[n].extends = NoBase THEN fs[n].own
                         ELSE Merge(Resolve(fs, fs[n].extends), fs[n].own)
    BY ResolveStep DEF FilesOk
  <1>4. IsPolicy(fs[n].own) /\ fs[n].extends \in DOMAIN fs \union {NoBase}
    BY DEF FilesOk, KnownBases
  <1>5. fs[n].extends # NoBase => IsPolicy(Resolve(fs, fs[n].extends))
    BY <1>2, <1>4
  <1> QED
    BY <1>3, <1>4, <1>5, MergeIsPolicy

\* The files after an edit of n's.
Saved(fs, n, p) == [fs EXCEPT ![n].own = p]

LEMMA SavedFiles ==
  ASSUME NEW fs, FilesOk(fs), NEW n \in DOMAIN fs, NEW p, IsPolicy(p)
  PROVE  LET new == Saved(fs, n, p) IN
         /\ FilesOk(new) /\ DOMAIN new = DOMAIN fs
         /\ \A m \in DOMAIN fs : /\ new[m].extends = fs[m].extends
                                 /\ new[m].own = IF m = n THEN p ELSE fs[m].own
  <1> DEFINE new == Saved(fs, n, p)
  <1>0. new = [fs EXCEPT ![n].own = p]
    BY DEF Saved
  <1> HIDE DEF new
  <1>1. fs = [m \in DOMAIN fs |-> [own |-> fs[m].own, extends |-> fs[m].extends]]
    BY DEF FilesOk
  <1>2. DOMAIN new = DOMAIN fs
    BY <1>0, <1>1
  <1>3. \A m \in DOMAIN fs : new[m] = [own |-> IF m = n THEN p ELSE fs[m].own, extends |-> fs[m].extends]
    <2> TAKE m \in DOMAIN fs
    <2>1. fs[m] = [own |-> fs[m].own, extends |-> fs[m].extends]
      BY <1>1
    <2>2. new[m] = IF m = n THEN [fs[m] EXCEPT !.own = p] ELSE fs[m]
      BY <1>0, <1>1
    <2>3. [fs[m] EXCEPT !.own = p] = [own |-> p, extends |-> fs[m].extends]
      BY <2>1
    <2> QED
      BY <2>1, <2>2, <2>3
  <1>4. \A m \in DOMAIN fs : /\ new[m].extends = fs[m].extends
                             /\ new[m].own = IF m = n THEN p ELSE fs[m].own
    <2> TAKE m \in DOMAIN fs
    <2> DEFINE own1 == IF m = n THEN p ELSE fs[m].own
    <2>1. new[m] = [own |-> own1, extends |-> fs[m].extends]
      BY <1>3
    <2> HIDE DEF own1
    <2>2. new[m].extends = fs[m].extends /\ new[m].own = own1
      BY <2>1
    <2> QED
      BY <2>2 DEF own1
  <1>5. new = [m \in DOMAIN new |-> [own |-> new[m].own, extends |-> new[m].extends]]
    <2>1. \A m \in DOMAIN new : new[m] = [own |-> new[m].own, extends |-> new[m].extends]
      BY <1>2, <1>3
    <2>2. new = [m \in DOMAIN new |-> new[m]]
      BY <1>0, <1>1
    <2> QED
      BY <2>1, <2>2, Zenon
  <1>6. KnownBases(new) /\ NoCycle(new)
    BY <1>2, <1>4 DEF FilesOk, KnownBases, NoCycle
  <1> QED
    BY <1>2, <1>4, <1>5, <1>6 DEF FilesOk, new

\* A file that is no wider makes no merged policy wider.
LEMMA ResolveNoWider ==
  ASSUME NEW fs, FilesOk(fs), NEW n \in DOMAIN fs, NEW p, IsPolicy(p), NoWider(p, fs[n].own),
         fs[n].extends # NoBase => KeepsBounds(p, fs[n].own)
  PROVE  \A m \in DOMAIN fs : NoWider(Resolve(Saved(fs, n, p), m), Resolve(fs, m))
  <1> DEFINE new == Saved(fs, n, p)
  <1>0. /\ FilesOk(new) /\ DOMAIN new = DOMAIN fs
        /\ \A k \in DOMAIN fs : /\ new[k].extends = fs[k].extends
                                /\ new[k].own = IF k = n THEN p ELSE fs[k].own
    BY SavedFiles
  <1> HIDE DEF new
  <1> DEFINE S == {m \in DOMAIN fs : ~NoWider(Resolve(new, m), Resolve(fs, m))}
  <1>1. SUFFICES ASSUME S # {} PROVE FALSE
    BY DEF new
  <1>2. PICK m \in S : fs[m].extends \notin S
    <2>1. S \in SUBSET DOMAIN fs
      OBVIOUS
    <2> QED
      BY <1>1, <2>1 DEF FilesOk, NoCycle
  <1> DEFINE b == fs[m].extends
             own == fs[m].own
             own1 == new[m].own
  <1>3. FilesOk(new) /\ DOMAIN new = DOMAIN fs /\ new[m].extends = b
        /\ own1 = IF m = n THEN p ELSE own
    BY <1>0
  <1>4. NoWider(own1, own) /\ IsPolicy(own1) /\ IsPolicy(own) /\ b \in DOMAIN fs \union {NoBase}
    BY <1>3, NoWiderReflexive DEF FilesOk, KnownBases
  <1>9. b # NoBase => KeepsBounds(own1, own)
    BY <1>3 DEF KeepsBounds
  <1>5. Resolve(fs, m) = IF b = NoBase THEN own ELSE Merge(Resolve(fs, b), own)
    BY ResolveStep DEF FilesOk
  <1>6. Resolve(new, m) = IF b = NoBase THEN own1 ELSE Merge(Resolve(new, b), own1)
    BY <1>3, ResolveStep DEF FilesOk
  <1>7. CASE b = NoBase
    BY <1>4, <1>5, <1>6, <1>7
  <1>8. CASE b # NoBase
    <2>1. NoWider(Resolve(new, b), Resolve(fs, b))
      BY <1>2, <1>4, <1>8
    <2>2. IsPolicy(Resolve(new, b)) /\ IsPolicy(Resolve(fs, b))
      BY <1>3, <1>4, <1>8, ResolveIsPolicy
    <2> HIDE DEF b, own, own1
    <2>3. NoWider(Merge(Resolve(new, b), own1), Merge(Resolve(fs, b), own))
      BY <1>4, <1>8, <1>9, <2>1, <2>2, MergeNoWider
    <2> QED
      BY <1>5, <1>6, <1>8, <2>3 DEF own, own1, b
  <1> QED
    BY <1>7, <1>8

----------------------------------------------------------------------------
(* The states.                                                             *)

\* The policy in force is a valid one, and the merged one where the files resolve.
TypeInv ==
    /\ FilesOk(files)
    /\ IsPolicy(policy)
    /\ edits \in Nat
    /\ Loadable(files) => policy = Resolve(files, Agent)

\* While the files do not resolve the policy in force is an older one: what they
\* would merge into is no wider.
Behind == NoWider(Resolve(files, Agent), policy)

LEMMA InitInv == Init => TypeInv /\ Behind
  <1> SUFFICES ASSUME Init PROVE TypeInv /\ Behind
    OBVIOUS
  <1>1. FilesOk(files)
    BY EditsAssumption DEF EditsAssumption, Init, Loadable, FilesOk
  <1>2. IsPolicy(policy)
    BY <1>1, ResolveIsPolicy DEF Init, FilesOk
  <1> QED
    BY <1>1, <1>2, NoWiderReflexive DEF Init, TypeInv, Behind

\* One step saves a valid file for one name, and the loader keeps the policy or
\* merges anew.
LEMMA StepSaves ==
  ASSUME TypeInv, Next
  PROVE  \E n \in DOMAIN files : \E p :
            /\ Save(n, p) /\ IsPolicy(p)
            /\ ~Emptying => NoWider(p, files[n].own)
            /\ files[n].extends # NoBase => KeepsBounds(p, files[n].own)
  <1>1. PICK n \in DOMAIN files : Edit(n)
    BY DEF Next
  <1> QED
    BY <1>1, EditTightens DEF TypeInv, Tightens

LEMMA TypeInvStep == TypeInv /\ [Next]_vars => TypeInv'
  <1> SUFFICES ASSUME TypeInv, [Next]_vars PROVE TypeInv'
    OBVIOUS
  <1>1. CASE Next
    <2>1. PICK n \in DOMAIN files : \E p : Save(n, p) /\ IsPolicy(p)
      BY <1>1, StepSaves
    <2>2. PICK p : Save(n, p) /\ IsPolicy(p)
      BY <2>1
    <2>3. files' = Saved(files, n, p)
          /\ policy' = IF Loadable(files') THEN Resolve(files', Agent) ELSE policy
      BY <2>2 DEF Save, Saved
    <2>4. FilesOk(files')
      BY <2>2, <2>3, SavedFiles DEF TypeInv
    <2>5. IsPolicy(policy')
      BY <2>3, <2>4, ResolveIsPolicy DEF TypeInv, FilesOk
    <2>6. edits' \in Nat
      BY <1>1 DEF Next, TypeInv
    <2> QED
      BY <2>3, <2>4, <2>5, <2>6 DEF TypeInv
  <1>2. CASE UNCHANGED vars
    BY <1>2 DEF vars, TypeInv
  <1> QED
    BY <1>1, <1>2

\* Where no list is emptied, a step leaves the policy no wider.
LEMMA StepNarrows ==
  ASSUME ~Emptying, TypeInv, Behind, [Next]_vars
  PROVE  NoWider(policy', policy) /\ Behind'
  <1>1. CASE Next
    <2>1. PICK n \in DOMAIN files : \E p :
            /\ Save(n, p) /\ IsPolicy(p) /\ NoWider(p, files[n].own)
            /\ files[n].extends # NoBase => KeepsBounds(p, files[n].own)
      BY <1>1, StepSaves
    <2>2. PICK p : /\ Save(n, p) /\ IsPolicy(p) /\ NoWider(p, files[n].own)
                   /\ files[n].extends # NoBase => KeepsBounds(p, files[n].own)
      BY <2>1
    <2>3. files' = Saved(files, n, p)
          /\ policy' = IF Loadable(files') THEN Resolve(files', Agent) ELSE policy
      BY <2>2 DEF Save, Saved
    <2>4. NoWider(Resolve(files', Agent), Resolve(files, Agent))
      BY <2>2, <2>3, ResolveNoWider DEF TypeInv, FilesOk
    <2>6. IsPolicy(policy) /\ IsPolicy(Resolve(files, Agent)) /\ IsPolicy(Resolve(files', Agent))
      <3>1. FilesOk(files) /\ FilesOk(files') /\ IsPolicy(policy)
        BY <2>2, <2>3, SavedFiles DEF TypeInv
      <3>2. Agent \in DOMAIN files /\ Agent \in DOMAIN files'
        BY <3>1 DEF FilesOk
      <3> QED
        BY <3>1, <3>2, ResolveIsPolicy
    <2>5. NoWider(Resolve(files', Agent), policy)
      BY <2>4, <2>6, NoWiderTransitive DEF Behind
    <2> QED
      BY <2>3, <2>5, <2>6, NoWiderReflexive DEF Behind
  <1>2. CASE UNCHANGED vars
    BY <1>2, NoWiderReflexive DEF vars, Behind, TypeInv
  <1> QED
    BY <1>1, <1>2

----------------------------------------------------------------------------
(* The theorems about the edits.                                           *)

\* The files stay valid, and the policy in force is what they merge into
\* whenever they resolve, whatever is edited.
THEOREM FilesCorrect == Spec => []TypeInv
  <1>1. Init => TypeInv
    BY InitInv
  <1> QED
    BY <1>1, TypeInvStep, PTL DEF Spec

\* Valid files, and a policy in force that their merger is no wider than, in every
\* state of a run that empties no list.
LEMMA StaysBehind == ~Emptying => (Spec => [](TypeInv /\ Behind))
  <1> SUFFICES ASSUME ~Emptying PROVE Spec => [](TypeInv /\ Behind)
    OBVIOUS
  <1>1. TypeInv /\ Behind /\ [Next]_vars => (TypeInv /\ Behind)'
    BY TypeInvStep, StepNarrows
  <1> QED
    BY <1>1, InitInv, PTL DEF Spec

\* Tightening the files, an agent's or a role's, in any order and by any number of
\* edits that empty no list, lets no request through that was held back.
THEOREM TightensDecisions == ~Emptying => (Spec => TighteningNeverWidens)
  <1> SUFFICES ASSUME ~Emptying PROVE Spec => TighteningNeverWidens
    OBVIOUS
  <1>1. TypeInv /\ TypeInv' /\ Behind /\ [Next]_vars =>
          [\A req \in Requests, now \in Window :
              Rank(Evaluate(policy', req, now).status) <= Rank(Evaluate(policy, req, now).status)]_vars
    BY StepNarrows, EvaluateNoWider, WindowTimes DEF TypeInv
  <1> QED
    BY <1>1, StaysBehind, PTL DEF Spec, TighteningNeverWidens

\* Nor does it show a field, in any database, that was masked or left out, or open
\* a connection.
THEOREM TightensMasks == ~Emptying => (Spec => TighteningNeverUnmasks)
  <1> SUFFICES ASSUME ~Emptying PROVE Spec => TighteningNeverUnmasks
    OBVIOUS
  <1>1. TypeInv /\ TypeInv' /\ Behind /\ [Next]_vars =>
          [/\ \A req \in Requests :
                MaskFieldsFor(policy, req.coll, req.db) \subseteq MaskFieldsFor(policy', req.coll, req.db)
           /\ Through(policy'.fields, Fields) \subseteq Through(policy.fields, Fields)
           /\ Through(policy'.connections, ConnectionNames)
                \subseteq Through(policy.connections, ConnectionNames)]_vars
    BY StepNarrows, MaskFieldsNoFewer, ListsShowNoMore DEF TypeInv
  <1> QED
    BY <1>1, StaysBehind, PTL DEF Spec, TighteningNeverUnmasks

\* What the simulator rates LOW is no wider, if it widens no window, leaves the parts
\* the simulator does not compare alone and empties no list.
LEMMA LowIsNoWider ==
  ASSUME NEW p, IsPolicy(p), NEW q, IsPolicy(q), SameElsewhere(p, q), Impact(p, q) = "LOW",
         Within(q.window, p.window), q.actAllow = {} => p.actAllow = {},
         q.fields = {} => p.fields = {}, q.connections = {} => p.connections = {}
  PROVE  NoWider(q, p)
  <1>1. \A x \in Diff(p, q) : ~Widening(x)
    BY DEF Impact
  <1>2. p.mode = q.mode
    <2>1. SUFFICES ASSUME p.mode # q.mode PROVE FALSE
      OBVIOUS
    <2>2. <<"Added or removed", "readonly mode">> \in Diff(p, q)
      BY <2>1 DEF Diff, Line
    <2> QED
      BY <1>1, <2>2 DEF Widening
  <1>3. p.flat.mask \subseteq q.flat.mask
    <2>1. SUFFICES ASSUME ~(p.flat.mask \subseteq q.flat.mask) PROVE FALSE
      OBVIOUS
    <2>2. <<"No longer masks", "fields">> \in Diff(p, q)
      BY <2>1 DEF Diff, Line
    <2> QED
      BY <1>1, <2>2 DEF Widening
  <1>4. (p.high => q.high) /\ (p.critical => q.critical)
    <2>1. (p.high /\ ~q.high) \/ (p.critical /\ ~q.critical) => <<"Disabled", "approval">> \in Diff(p, q)
      BY Zenon DEF Diff, Line
    <2>2. <<"Disabled", "approval">> \notin Diff(p, q)
      BY <1>1 DEF Widening
    <2> QED
      BY <2>1, <2>2, Zenon
  <1>5. \A l \in DOMAIN Lists(p) :
           /\ l \notin DenyLists => Lists(q)[l] \subseteq Lists(p)[l]
           /\ l \in DenyLists => Lists(p)[l] \subseteq Lists(q)[l]
    <2> TAKE l \in DOMAIN Lists(p)
    <2>1. ~(Lists(q)[l] \subseteq Lists(p)[l]) => <<"Added", l>> \in Diff(p, q)
      BY DEF Diff
    <2>2. ~(Lists(p)[l] \subseteq Lists(q)[l]) => <<"Removed", l>> \in Diff(p, q)
      BY DEF Diff
    <2>3. l \notin DenyLists => <<"Added", l>> \notin Diff(p, q)
      BY <1>1 DEF Widening
    <2>4. l \in DenyLists => <<"Removed", l>> \notin Diff(p, q)
      BY <1>1 DEF Widening
    <2> QED
      BY <2>1, <2>2, <2>3, <2>4
  <1>6. /\ q.flat.allow \subseteq p.flat.allow /\ p.flat.deny \subseteq q.flat.deny
        /\ q.actAllow \subseteq p.actAllow /\ p.actDeny \subseteq q.actDeny
        /\ q.fields \subseteq p.fields /\ q.connections \subseteq p.connections
    BY <1>5 DEF Lists, DenyLists
  <1>7. /\ ScopeNoWider(q.flat, p.flat) /\ ListNoWider(q.actAllow, p.actAllow)
        /\ ListNoWider(q.fields, p.fields) /\ ListNoWider(q.connections, p.connections)
        /\ ListNoWider(q.dbAllow, p.dbAllow) /\ q.blocks = p.blocks
        /\ q.default = p.default /\ q.maxCost = p.maxCost
    BY <1>3, <1>6 DEF ScopeNoWider, ListNoWider, SameElsewhere
  <1>8. \A d \in DOMAIN p.blocks : BlockNoWider(q.blocks[d], p.blocks[d])
    BY <1>7 DEF BlockNoWider, ScopeNoWider
  <1> QED
    BY <1>2, <1>4, <1>6, <1>7, <1>8 DEF NoWider

\* What is no wider narrows as LowNarrows says.
LEMMA NoWiderNarrows ==
  ASSUME NEW p, IsPolicy(p), NEW q, IsPolicy(q),
         SameElsewhere(p, q) /\ Impact(p, q) = "LOW" => NoWider(q, p)
  PROVE  LowNarrows(p, q)
  BY EvaluateNoWider, MaskFieldsNoFewer, ListsShowNoMore, WindowTimes DEF LowNarrows

\* A version of the policy that the simulator rates LOW against its neighbour is
\* no wider than that neighbour, seen from either end of an edit, unless its time
\* window is.
THEOREM RatedLowIsSafe == ~Emptying => (Spec => RatedLowIsNoWider)
  <1> SUFFICES ASSUME ~Emptying PROVE Spec => RatedLowIsNoWider
    OBVIOUS
  <1>1. ASSUME TypeInv, TypeInv', Behind, [Next]_vars
        PROVE  /\ LowNarrows(policy, policy')
               /\ Within(policy.window, policy'.window) => LowNarrows(policy', policy)
    <2>1. IsPolicy(policy) /\ IsPolicy(policy')
      BY <1>1 DEF TypeInv
    <2>2. NoWider(policy', policy)
      BY <1>1, StepNarrows
    <2>3. LowNarrows(policy, policy')
      BY <2>1, <2>2, NoWiderNarrows
    <2>4. ASSUME Within(policy.window, policy'.window) PROVE LowNarrows(policy', policy)
      <3>1. SameElsewhere(policy', policy) /\ Impact(policy', policy) = "LOW" => NoWider(policy, policy')
        <4>1. SUFFICES ASSUME SameElsewhere(policy', policy), Impact(policy', policy) = "LOW"
                       PROVE  NoWider(policy, policy')
          OBVIOUS
        <4>2. policy.actAllow = {} => policy'.actAllow = {}
          BY <2>2 DEF NoWider, ListNoWider
        <4>3. policy.fields = {} => policy'.fields = {}
          BY <2>2 DEF NoWider, ListNoWider
        <4>4. policy.connections = {} => policy'.connections = {}
          BY <2>2 DEF NoWider, ListNoWider
        <4> QED
          BY <2>1, <2>4, <4>1, <4>2, <4>3, <4>4, LowIsNoWider
      <3> QED
        BY <2>1, <3>1, NoWiderNarrows
    <2> QED
      BY <2>3, <2>4
  <1>2. TypeInv /\ TypeInv' /\ Behind /\ [Next]_vars =>
          [/\ Within(policy'.window, policy.window) => LowNarrows(policy, policy')
           /\ Within(policy.window, policy'.window) => LowNarrows(policy', policy)]_vars
    BY <1>1
  <1> QED
    BY <1>2, StaysBehind, PTL DEF Spec, RatedLowIsNoWider

----------------------------------------------------------------------------
(* What a chain of roles hands down.                                       *)

\* q has every limit of the flat part of p.
Inherits(q, p) ==
    /\ p.flat.deny \subseteq q.flat.deny
    /\ p.flat.mask \subseteq q.flat.mask
    /\ p.actDeny \subseteq q.actDeny
    /\ p.high => q.high
    /\ p.critical => q.critical

\* A name's lineage is the name and the lineage of its base.
LEMMA LineageStep ==
  ASSUME FilesOk(files), NEW n \in DOMAIN files
  PROVE  /\ files[n].extends = NoBase => Lineage(n) \subseteq {n}
         /\ files[n].extends # NoBase => Lineage(n) \subseteq {n} \union Lineage(files[n].extends)
  <1> DEFINE b == files[n].extends
             Holds(S, k) == k \in S /\ (\A x \in S : files[x].extends \in S \union {NoBase})
  <1>1. \A k, m : m \in Lineage(k) <=>
            m \in DOMAIN files /\ (\A S \in SUBSET DOMAIN files : Holds(S, k) => m \in S)
    BY DEF Lineage
  <1>2. CASE b = NoBase
    <2>1. Holds({n}, n) /\ {n} \in SUBSET DOMAIN files
      BY <1>2
    <2> QED
      BY <1>1, <1>2, <2>1
  <1>3. CASE b # NoBase
    <2> DEFINE L == Lineage(b)
    <2>1. b \in DOMAIN files /\ b \in L
      BY <1>1, <1>3 DEF FilesOk, KnownBases
    <2>2. L \in SUBSET DOMAIN files
      BY <1>1
    <2>3. \A x \in L : files[x].extends \in L \union {NoBase}
      <3>1. SUFFICES ASSUME NEW x \in L, files[x].extends # NoBase PROVE files[x].extends \in L
        OBVIOUS
      <3>2. files[x].extends \in DOMAIN files
        BY <2>2, <3>1 DEF FilesOk, KnownBases
      <3>3. ASSUME NEW S \in SUBSET DOMAIN files, Holds(S, b) PROVE files[x].extends \in S
        BY <1>1, <3>1, <3>3
      <3> QED
        BY <1>1, <3>2, <3>3
    <2> HIDE DEF L
    <2>4. Holds({n} \union L, n) /\ {n} \union L \in SUBSET DOMAIN files
      BY <2>1, <2>2, <2>3
    <2> HIDE DEF Holds
    <2> QED
      BY <1>1, <1>3, <2>4 DEF L
  <1> QED
    BY <1>2, <1>3

LEMMA MergeInherits ==
  ASSUME NEW b, NEW c, NEW p, p = c \/ Inherits(b, p)
  PROVE  Inherits(Merge(b, c), p)
  <1> DEFINE m == Merge(b, c)
  <1>1. /\ m.flat.deny = b.flat.deny \union c.flat.deny
        /\ m.flat.mask = b.flat.mask \union c.flat.mask
        /\ m.actDeny = b.actDeny \union c.actDeny
    BY DEF Merge, MergedMask
  <1>2. m.high = (b.high \/ c.high) /\ m.critical = (b.critical \/ c.critical)
    BY DEF Merge
  <1> HIDE DEF m
  <1>3. (p.high => m.high) /\ (p.critical => m.critical)
    BY <1>2, Zenon DEF Inherits
  <1> QED
    BY <1>1, <1>3 DEF Inherits, m

\* Every file of the chain hands its limits down to what the name resolves to.
LEMMA ChainHandsDown ==
  ASSUME FilesOk(files)
  PROVE  \A n \in DOMAIN files : \A p \in Chain(n) : Inherits(Resolve(files, n), p)
  <1> DEFINE S == {n \in DOMAIN files : ~\A p \in Chain(n) : Inherits(Resolve(files, n), p)}
  <1>1. SUFFICES ASSUME S # {} PROVE FALSE
    OBVIOUS
  <1>2. PICK n \in S : files[n].extends \notin S
    <2>1. S \in SUBSET DOMAIN files
      OBVIOUS
    <2> QED
      BY <1>1, <2>1 DEF FilesOk, NoCycle
  <1> DEFINE b == files[n].extends
             own == files[n].own
  <1>3. Resolve(files, n) = IF b = NoBase THEN own ELSE Merge(Resolve(files, b), own)
    BY ResolveStep DEF FilesOk
  <1>4. b \in DOMAIN files \union {NoBase}
    BY DEF FilesOk, KnownBases
  <1>5. ASSUME NEW p \in Chain(n) PROVE Inherits(Resolve(files, n), p)
    <2>1. PICK m \in Lineage(n) : p = files[m].own
      BY DEF Chain
    <2>2. m = n \/ (b # NoBase /\ m \in Lineage(b))
      BY LineageStep
    <2>3. p = own \/ (b # NoBase /\ p \in Chain(b))
      BY <2>1, <2>2 DEF Chain
    <2>4. b # NoBase /\ p \in Chain(b) => Inherits(Resolve(files, b), p)
      BY <1>2, <1>4
    <2> HIDE DEF own, b
    <2>5. CASE b = NoBase
      BY <1>3, <2>3, <2>5 DEF Inherits
    <2>6. CASE b # NoBase
      BY <1>3, <2>3, <2>4, <2>6, MergeInherits
    <2> QED
      BY <2>5, <2>6
  <1> QED
    BY <1>5

\* Whatever an agent's file or a role it extends denies, masks or holds for approval
\* in its flat part is denied, masked or held under the merged policy, for any
\* files, chains and edits.
THEOREM LimitsInherited == Spec => []InheritedLimitsHold
  <1>1. ASSUME TypeInv PROVE InheritedLimitsHold
    <2>1. SUFFICES ASSUME Loadable(files), NEW p \in Chain(Agent), NEW now \in Window,
                          NEW req \in Requests, req.db = NoDb
                   PROVE  LET d == Evaluate(policy, req, now) IN
                          /\ req.coll \in p.flat.deny /\ req.action \notin DbLevelActions
                                => d.status = "denied"
                          /\ req.action \in p.actDeny => d.status = "denied"
                          /\ NeedsApproval(p, Classify(req)) => d.status # "allowed"
                          /\ MaskFieldsFor(p, req.coll, NoDb) \subseteq MaskFieldsFor(policy, req.coll, NoDb)
      BY DEF InheritedLimitsHold
    <2>2. Inherits(policy, p)
      BY <1>1, <2>1, ChainHandsDown DEF TypeInv, FilesOk
    <2>3. ScopeFor(policy, NoDb) = policy.flat /\ ScopeFor(p, NoDb) = p.flat
      BY DEF ScopeFor, BlockFor
    <2>4. (req.coll \in p.flat.deny /\ req.action \notin DbLevelActions) \/ req.action \in p.actDeny
             => Evaluate(policy, req, now).status = "denied"
      <3>1. (req.coll \in p.flat.deny /\ req.action \notin DbLevelActions) \/ req.action \in p.actDeny
               => Forbidden(policy, req)
        BY <2>1, <2>2, <2>3 DEF Forbidden, CollectionPermitted, Inherits
      <3> QED
        BY <3>1 DEF Evaluate, EngineDecision
    <2>5. NeedsApproval(p, Classify(req)) => Evaluate(policy, req, now).status # "allowed"
      <3>1. NeedsApproval(p, Classify(req)) => NeedsApproval(policy, Classify(req))
        BY <2>2, Zenon DEF NeedsApproval, Inherits
      <3> QED
        BY <3>1 DEF Evaluate, EngineDecision
    <2>6. MaskFieldsFor(p, req.coll, NoDb) \subseteq MaskFieldsFor(policy, req.coll, NoDb)
      BY <2>2, <2>3 DEF MaskFieldsFor, Inherits
    <2> QED
      BY <2>4, <2>5, <2>6, Zenon
  <1> QED
    BY <1>1, FilesCorrect, PTL

----------------------------------------------------------------------------
(* What a cost estimate does to a decision.                                *)

\* A plan that differs only in reading more is read by a backend as no less.
LEMMA AccessesMonotone ==
  ASSUME NEW p \in Plans, NEW q \in Plans, Costlier(p, q), NEW b \in Backends
  PROVE  /\ "scan" \in Accesses(b, p) => "scan" \in Accesses(b, q)
         /\ Accesses(b, p) = {"none"} <=> Accesses(b, q) = {"none"}
         /\ Accesses(b, p) = {"none"} => b = "mysql"
  <1> DEFINE Stage == {"scan", "index", "wrapper", "other"}
  <1>1. /\ p.stages \in Seq(Stage) /\ p.stages # <<>> /\ q.stages \in Seq(Stage) /\ q.stages # <<>>
    BY EditsAssumption DEF EditsAssumption
  <1> DEFINE len == Len(p.stages)
  <1>2. /\ len \in Nat \ {0} /\ Len(q.stages) = len
        /\ DOMAIN p.stages = 1 .. len /\ DOMAIN q.stages = 1 .. len
    BY <1>1 DEF Costlier
  <1>3. \A i \in 1 .. len : p.stages[i] \in Stage /\ q.stages[i] \in Stage
    BY <1>1, <1>2
  <1>4. \A i \in 1 .. len : /\ q.stages[i] = p.stages[i] \/ (p.stages[i] = "index" /\ q.stages[i] = "scan")
    BY <1>2 DEF Costlier
  <1>5. CASE b = "mongodb"
    <2>1. Accesses(b, p) = {p.stages[i] : i \in 1 .. len} /\ Accesses(b, q) = {q.stages[i] : i \in 1 .. len}
      BY <1>2, <1>5, SMT DEF Accesses
    <2>2. 1 \in 1 .. len
      BY <1>2
    <2>3. Accesses(b, p) # {"none"} /\ Accesses(b, q) # {"none"}
      BY <1>3, <2>1, <2>2
    <2> QED
      BY <1>4, <2>1, <2>3
  <1>6. CASE b = "postgres"
    <2>1. Accesses(b, p) = {p.stages[1]} /\ Accesses(b, q) = {q.stages[1]} /\ 1 \in 1 .. len
      BY <1>2, <1>6, SMT DEF Accesses
    <2> QED
      BY <1>3, <1>4, <2>1
  <1>7. CASE b = "mysql"
    <2>1. (\A i \in 1 .. len - 1 : p.stages[i] = "wrapper") <=> (\A i \in 1 .. len - 1 : q.stages[i] = "wrapper")
      BY <1>2, <1>4
    <2>2. len \in 1 .. len
      BY <1>2
    <2>3. CASE \A i \in 1 .. len - 1 : p.stages[i] = "wrapper"
      <3>1. Accesses(b, p) = {p.stages[len]} /\ Accesses(b, q) = {q.stages[len]}
        BY <1>2, <1>7, <2>1, <2>3, SMT DEF Accesses
      <3> QED
        BY <1>3, <1>4, <2>2, <3>1
    <2>4. CASE ~\A i \in 1 .. len - 1 : p.stages[i] = "wrapper"
      BY <1>2, <1>7, <2>1, <2>4, SMT DEF Accesses
    <2> QED
      BY <2>3, <2>4
  <1> QED
    BY <1>5, <1>6, <1>7 DEF Backends

\* The two classes of a cost step: both unknown, or known and in order.
LEMMA CostStepsInOrder ==
  ASSUME NEW x \in CostSteps
  PROVE  \/ x[1] = Unknown /\ x[2] = Unknown
         \/ x[1] \in Low .. Critical /\ x[2] \in Low .. Critical /\ x[1] <= x[2]
  <1>1. PICK y \in Backends \X {"find", "aggregate"} \X Plans \X Plans :
           /\ Costlier(y[3], y[4])
           /\ x = <<Estimate(y[1], y[2], y[3]), Estimate(y[1], y[2], y[4])>>
    BY DEF CostSteps
  <1> DEFINE b == y[1]
             a == y[2]
             p == y[3]
             q == y[4]
  <1>2. b \in Backends /\ p \in Plans /\ q \in Plans /\ Costlier(p, q)
    BY <1>1
  <1>3. x[1] = Estimate(b, a, p) /\ x[2] = Estimate(b, a, q)
    BY <1>1
  <1> HIDE DEF a, b, p, q
  <1>4. /\ p.examined \in Nat /\ q.examined \in Nat /\ p.examined <= q.examined
        /\ p.returned \in Nat /\ q.returned \in Nat /\ p.returned <= q.returned
    BY <1>2, EditsAssumption DEF EditsAssumption, Costlier
  <1>5. /\ "scan" \in Accesses(b, p) => "scan" \in Accesses(b, q)
        /\ Accesses(b, p) = {"none"} <=> Accesses(b, q) = {"none"}
        /\ Accesses(b, p) = {"none"} => b = "mysql"
    BY <1>2, AccessesMonotone
  <1>8. a \in {"find", "aggregate"}
    BY DEF a
  <1>6. CASE b # "mongodb" /\ a = "aggregate"
    BY <1>3, <1>6 DEF Estimate
  <1>7. CASE ~(b # "mongodb" /\ a = "aggregate")
    <2>1. /\ x[1] = ClassifyCost(Volume(b, p), "scan" \in Accesses(b, p), "index" \in Accesses(b, p))
          /\ x[2] = ClassifyCost(Volume(b, q), "scan" \in Accesses(b, q), "index" \in Accesses(b, q))
      BY <1>3, <1>7, <1>8 DEF Estimate
    <2>2. CASE Accesses(b, p) = {"none"}
      <3>1. Volume(b, p) = NoDocs /\ Volume(b, q) = NoDocs
        BY <1>5, <2>2, SMT DEF Volume
      <3>2. "scan" \notin Accesses(b, p) /\ "index" \notin Accesses(b, p)
            /\ "scan" \notin Accesses(b, q) /\ "index" \notin Accesses(b, q)
        BY <1>5, <2>2
      <3> QED
        BY <2>1, <3>1, <3>2, SMT DEF ClassifyCost, NoDocs, LowDocs, HighDocs, CriticalDocs
    <2>3. CASE Accesses(b, p) # {"none"}
      <3>1. Volume(b, p) \in Nat /\ Volume(b, q) \in Nat /\ Volume(b, p) <= Volume(b, q)
        BY <1>4, <1>5, <2>3 DEF Volume
      <3> DEFINE v == Volume(b, p)
                 w == Volume(b, q)
      <3> HIDE DEF v, w
      <3>2. v \in Nat /\ w \in Nat /\ v <= w
        BY <3>1 DEF v, w
      <3>3. /\ v >= 1000000 => x[1] = Critical
            /\ v < 1000000 /\ ("scan" \in Accesses(b, p) \/ v >= 10000) => x[1] = High
            /\ v < 10000 /\ "scan" \notin Accesses(b, p) =>
                  x[1] = IF v >= 1000 THEN Medium ELSE Low
        BY <2>1, <3>2, SMT DEF ClassifyCost, NoDocs, LowDocs, HighDocs, CriticalDocs, v
      <3>4. /\ w >= 1000000 => x[2] = Critical
            /\ w < 1000000 /\ ("scan" \in Accesses(b, q) \/ w >= 10000) => x[2] = High
            /\ w < 10000 /\ "scan" \notin Accesses(b, q) =>
                  x[2] = IF w >= 1000 THEN Medium ELSE Low
        BY <2>1, <3>2, SMT DEF ClassifyCost, NoDocs, LowDocs, HighDocs, CriticalDocs, w
      <3> QED
        BY <1>5, <3>2, <3>3, <3>4 DEF Low, Medium, High, Critical
    <2> QED
      BY <2>2, <2>3
  <1> QED
    BY <1>6, <1>7

\* Held after an estimate, as strictly as the engine holds the risk it raises to.
LEMMA EscalationHolds ==
  ASSUME NEW p, IsPolicy(p), NEW req, req.action \in Actions, NEW now, NEW c \in Unknown .. Critical,
         Evaluate(p, req, now).status # "denied"
  PROVE  LET d == Evaluate(p, req, now)
             e == EscalateForCost(p, d, c)
         IN  /\ d.risk \in Low .. Critical /\ e.risk \in Low .. Critical
             /\ d.status \in {"allowed", "approval_required"}
             /\ e.status \in {"allowed", "approval_required"}
             /\ d.status = "approval_required" => e.status = "approval_required"
             /\ EngineDecision(p, req, e.risk).status =
                   IF NeedsApproval(p, e.risk) THEN "approval_required" ELSE "allowed"
             /\ NeedsApproval(p, e.risk) => e.status = "approval_required"
             /\ e.risk >= d.risk
  <1> DEFINE d == Evaluate(p, req, now)
             e == EscalateForCost(p, d, c)
             r == Classify(req)
  <1>1. r \in Low .. Critical
    BY DEF Classify, BaseRisk, Low, Medium, High, Critical
  <1>2. d = EngineDecision(p, req, r) /\ ~Forbidden(p, req)
    BY DEF Evaluate, EngineDecision
  <1> HIDE DEF r
  <1>3. \A k : EngineDecision(p, req, k) =
                  [risk |-> k, status |-> IF NeedsApproval(p, k) THEN "approval_required" ELSE "allowed"]
    BY <1>2 DEF EngineDecision
  <1>4. d.risk = r /\ d.status = IF NeedsApproval(p, r) THEN "approval_required" ELSE "allowed"
    BY <1>2, <1>3
  <1> HIDE DEF d
  <1> DEFINE k == EscalateRisk(d.risk, c)
  <1>5. k \in Low .. Critical /\ k >= d.risk
    BY <1>1, <1>4 DEF EscalateRisk, Low, High, Critical, Unknown
  <1> HIDE DEF k
  <1>6. CASE e = d
    BY <1>1, <1>3, <1>4, <1>6 DEF d, Low, Critical
  <1>7. CASE e # d
    <2>1. e = [risk |-> k, status |-> IF k # d.risk /\ d.status = "allowed" /\ NeedsApproval(p, k)
                                      THEN "approval_required" ELSE d.status]
      BY <1>7 DEF EscalateForCost, k
    <2>2. e.risk = k /\ e.status = IF k # d.risk /\ d.status = "allowed" /\ NeedsApproval(p, k)
                                   THEN "approval_required" ELSE d.status
      BY <2>1
    <2> HIDE DEF e
    <2>3. e.status \in {"allowed", "approval_required"}
          /\ (d.status = "approval_required" => e.status = "approval_required")
      BY <1>4, <2>2
    <2>4. NeedsApproval(p, e.risk) => e.status = "approval_required"
      BY <1>4, <2>2
    <2>5. EngineDecision(p, req, e.risk).status =
             IF NeedsApproval(p, e.risk) THEN "approval_required" ELSE "allowed"
      BY <1>3
    <2> QED
      BY <1>1, <1>4, <1>5, <2>2, <2>3, <2>4, <2>5 DEF d, e
  <1> QED
    BY <1>6, <1>7

\* Where approval.high comes with approval.critical, a higher cost holds no less.
LEMMA EscalationMonotone ==
  ASSUME NEW p, IsPolicy(p), p.high => p.critical, NEW d, d.risk \in Low .. Critical,
         d.status \in {"allowed", "approval_required"},
         NEW c1 \in Low .. Critical, NEW c2 \in Low .. Critical, c1 <= c2,
         EscalateForCost(p, d, c1).status = "approval_required"
  PROVE  EscalateForCost(p, d, c2).status = "approval_required"
  <1> DEFINE k1 == EscalateRisk(d.risk, c1)
             k2 == EscalateRisk(d.risk, c2)
  <1>0. p.maxCost \in Int
    BY PolicyParts DEF NoMaxCost, Critical
  <1>1. /\ k1 \in Low .. Critical /\ k2 \in Low .. Critical /\ d.risk <= k1 /\ k1 <= k2
        /\ k1 # d.risk => k1 \in {High, Critical}
    BY DEF EscalateRisk, Low, High, Critical
  <1>2. \A c : EscalateForCost(p, d, c).status =
                IF c = Unknown \/ c < p.maxCost THEN d.status
                ELSE IF EscalateRisk(d.risk, c) # d.risk /\ d.status = "allowed"
                        /\ NeedsApproval(p, EscalateRisk(d.risk, c))
                     THEN "approval_required" ELSE d.status
    BY DEF EscalateForCost
  <1>3. CASE d.status = "approval_required"
    BY <1>2, <1>3
  <1>4. CASE d.status = "allowed"
    <2>1. ~(c1 < p.maxCost) /\ k1 # d.risk /\ NeedsApproval(p, k1)
      BY <1>2, <1>4
    <2> HIDE DEF k1, k2
    <2>2. ~(c2 < p.maxCost) /\ c2 # Unknown
      BY <1>0, <2>1 DEF Low, Critical, Unknown
    <2>3. k2 # d.risk /\ (k1 = k2 \/ (k1 = High /\ k2 = Critical))
      BY <1>1, <2>1 DEF Low, High, Critical
    <2>4. NeedsApproval(p, k2)
      <3>1. k1 = High /\ k2 = Critical => p.critical
        BY <2>1 DEF NeedsApproval, High, Critical
      <3> QED
        BY <2>1, <2>3, <3>1, Zenon DEF NeedsApproval
    <2> QED
      BY <1>2, <1>4, <2>2, <2>3, <2>4 DEF k2
  <1> QED
    BY <1>3, <1>4

\* For any policies, requests and plans of the three backends, an estimate only
\* holds back, as strictly as the engine does at the risk it raises to; and no
\* plan that reads more is let through more easily, where approval.high comes
\* with approval.critical.
THEOREM EscalatesSoundly == Spec => []EscalationSound
  <1>1. ASSUME TypeInv PROVE EscalationSound
    <2>1. SUFFICES ASSUME NEW req \in Requests, NEW now \in Window, NEW x \in CostSteps,
                          Estimated(policy, req, Evaluate(policy, req, now))
                   PROVE  LET d == Evaluate(policy, req, now)
                              After(cost) == EscalateForCost(policy, d, cost)
                          IN  /\ \A cost \in {x[1], x[2]} :
                                    /\ Rank(After(cost).status) <= Rank(d.status)
                                    /\ Rank(After(cost).status) <= Rank(EngineDecision(policy, req, After(cost).risk).status)
                                    /\ After(cost).risk >= d.risk
                              /\ (policy.high => policy.critical)
                                    => Rank(After(x[2]).status) <= Rank(After(x[1]).status)
      BY Zenon DEF EscalationSound
    <2> DEFINE d == Evaluate(policy, req, now)
               After(cost) == EscalateForCost(policy, d, cost)
    <2>2. IsPolicy(policy) /\ req.action \in Actions /\ d.status # "denied"
      BY <1>1, <2>1, EditsAssumption DEF TypeInv, EditsAssumption, Estimated
    <2>3. \/ x[1] = Unknown /\ x[2] = Unknown
          \/ x[1] \in Low .. Critical /\ x[2] \in Low .. Critical /\ x[1] <= x[2]
      BY CostStepsInOrder
    <2>4. x[1] \in Unknown .. Critical /\ x[2] \in Unknown .. Critical
      BY <2>3 DEF Unknown, Low, Critical
    <2>5. \A s \in {"allowed", "approval_required"} : Rank(s) = IF s = "allowed" THEN 2 ELSE 1
      BY DEF Rank
    <2>6. ASSUME NEW cost \in {x[1], x[2]}
          PROVE  /\ Rank(After(cost).status) <= Rank(d.status)
                 /\ Rank(After(cost).status) <= Rank(EngineDecision(policy, req, After(cost).risk).status)
                 /\ After(cost).risk >= d.risk
                 /\ After(cost).status \in {"allowed", "approval_required"}
                 /\ d.risk \in Low .. Critical /\ d.status \in {"allowed", "approval_required"}
      <3>1. cost \in Unknown .. Critical
        BY <2>4
      <3> DEFINE e == After(cost)
      <3>2. /\ d.risk \in Low .. Critical /\ e.risk \in Low .. Critical
            /\ d.status \in {"allowed", "approval_required"}
            /\ e.status \in {"allowed", "approval_required"}
            /\ d.status = "approval_required" => e.status = "approval_required"
            /\ EngineDecision(policy, req, e.risk).status =
                  IF NeedsApproval(policy, e.risk) THEN "approval_required" ELSE "allowed"
            /\ NeedsApproval(policy, e.risk) => e.status = "approval_required"
            /\ e.risk >= d.risk
        BY <2>2, <3>1, EscalationHolds
      <3> HIDE DEF d, e
      <3> QED
        BY <2>5, <3>2 DEF e
    <2>7. ASSUME policy.high => policy.critical
          PROVE  Rank(After(x[2]).status) <= Rank(After(x[1]).status)
      <3>1. /\ After(x[1]).status \in {"allowed", "approval_required"}
            /\ After(x[2]).status \in {"allowed", "approval_required"}
            /\ d.risk \in Low .. Critical /\ d.status \in {"allowed", "approval_required"}
        BY <2>6
      <3> HIDE DEF d
      <3>2. After(x[1]).status = "approval_required" => After(x[2]).status = "approval_required"
        BY <2>2, <2>3, <2>7, <3>1, EscalationMonotone
      <3> QED
        BY <2>5, <3>1, <3>2
    <2> QED
      BY <2>6, <2>7
  <1> QED
    BY <1>1, FilesCorrect, PTL

----------------------------------------------------------------------------
(* Loading.                                                                *)

\* The files that can be in force together.
WholeAndValid(g) ==
    /\ \A f \in DOMAIN g : g[f] \in Valid
    /\ Apart(g) /\ Resolves(g)

\* A load knows what each file has been since it began.
DuringOK == pc \in {"load", "list", "reading"} => \A f \in Files : Now(f) \in during[f]

\* What it has read validated, and was there while it ran.
ParsedOK ==
    /\ DOMAIN parsed \subseteq Files
    /\ \A f \in DOMAIN parsed : parsed[f] \in Valid /\ parsed[f] \in during[f]
    /\ Apart(parsed)
    /\ pc # "reading" => parsed = Nothing

\* It passes over no file that had something in it all the time.
Accounted ==
    pc = "reading" =>
        \A f \in Files : f \in todo \union DOMAIN parsed \/ {Gone, Blank} \intersect during[f] # {}

\* Nobody can write anything but contents.
DiskOK ==
    /\ path \in Layouts /\ DOMAIN file \subseteq Files
    /\ \A f \in DOMAIN file : file[f].content \in Contents
    /\ DOMAIN backups = Files /\ \A f \in Files : \A v \in backups[f] : v.content \in Contents

LoadInv == DiskOK /\ DuringOK /\ ParsedOK /\ Accounted /\ WholeAndValid(policies)

----------------------------------------------------------------------------

LEMMA OnlyWholeIs == OnlyWholeValidMaps <=> WholeAndValid(policies)
  BY DEF OnlyWholeValidMaps, WholeAndValid

\* Before its first file a load has read nothing, and an empty map is whole.
LEMMA NothingRead == DOMAIN Nothing = {} /\ WholeAndValid(Nothing)
  <1>1. DOMAIN Nothing = {}
    BY DEF Nothing
  <1>2. UNION {Items[Nothing[f]] : f \in DOMAIN Nothing} = {}
    BY <1>1
  <1> QED BY <1>1, <1>2 DEF WholeAndValid, Apart, Resolves

LEMMA SameMap ==
  ASSUME NEW g, WholeAndValid(g), policies' = g
  PROVE  WholeAndValid(policies)'
  <1>1. WholeAndValid(policies')
    OBVIOUS
  <1> QED BY <1>1, Zenon DEF WholeAndValid, Apart, Resolves, Agents

LEMMA NowIsContent == ASSUME DiskOK, NEW f PROVE Now(f) \in Contents \union {Gone}
  BY DEF DiskOK, Now

LEMMA InitLoad == LoaderInit => LoadInv
  <1> SUFFICES ASSUME LoaderInit PROVE LoadInv
    OBVIOUS
  <1>1. DiskOK
    <2>1. PICK F \in SUBSET Files : file \in [F -> [content : Contents, mtime : {0}]]
      BY DEF LoaderInit
    <2>2. \A f \in DOMAIN file : file[f].content \in Contents
      BY <2>1
    <2> QED BY <2>1, <2>2 DEF LoaderInit, DiskOK
  <1>2. ParsedOK
    BY NothingRead DEF LoaderInit, ParsedOK, Apart
  <1>3. WholeAndValid(policies)
    <2>1. CASE present
      <3>1. WouldLoad /\ policies = OnDisk
        BY <2>1 DEF LoaderInit
      <3>2. \A f \in DOMAIN OnDisk : OnDisk[f] \in Valid
        BY <3>1 DEF WouldLoad, OnDisk
      <3> QED BY <3>1, <3>2 DEF WouldLoad, WholeAndValid
    <2>2. CASE ~present
      BY <2>2, NothingRead DEF LoaderInit
    <2> QED BY <2>1, <2>2
  <1>4. DuringOK /\ Accounted
    BY DEF LoaderInit, DuringOK, Accounted
  <1> QED BY <1>1, <1>2, <1>3, <1>4 DEF LoadInv

\* A load that ends, one way or the other, leaves nothing behind but its map.
LEMMA LeaveKeeps ==
  ASSUME LoadInv, NEW where \in {"sleep", "stat"}, Leave(where), DiskOK',
         WholeAndValid(policies)'
  PROVE  LoadInv'
  <1>1. ParsedOK'
    BY NothingRead DEF Leave, ParsedOK, Apart
  <1>2. DuringOK' /\ Accounted'
    BY DEF Leave, DuringOK, Accounted
  <1> QED BY <1>1, <1>2 DEF LoadInv

\* One that begins knows what the files are.
LEMMA EnterKeeps ==
  ASSUME LoadInv, pc = "sleep", Enter, DiskOK', UNCHANGED policies, UNCHANGED path
  PROVE  LoadInv'
  <1>1. DuringOK'
    BY DEF Enter, DuringOK, Files
  <1>2. parsed' = Nothing /\ pc' = "load"
    BY DEF LoadInv, ParsedOK, Enter
  <1>3. ParsedOK' /\ Accounted'
    BY <1>2, NothingRead DEF ParsedOK, Apart, Accounted
  <1>4. WholeAndValid(policies)'
    BY SameMap DEF LoadInv
  <1> QED BY <1>1, <1>3, <1>4 DEF LoadInv

\* Whoever writes while it runs adds to what the files have been.
LEMMA WatchedKeeps ==
  ASSUME LoadInv, Watched, DiskOK', UNCHANGED <<path, policies, pc, todo, parsed>>
  PROVE  LoadInv'
  <1>0. pc \in {"load", "list", "reading"} =>
           \A f \in Files : during'[f] = during[f] \union {Now(f)'}
    BY DEF Watched
  <1>1. DuringOK'
    BY <1>0 DEF DuringOK, Files
  <1>2. ParsedOK'
    <2>1. CASE pc = "reading"
      BY <1>0, <2>1 DEF LoadInv, ParsedOK, Files, Apart
    <2>2. CASE pc # "reading"
      BY <2>2, NothingRead DEF LoadInv, ParsedOK, Apart
    <2> QED BY <2>1, <2>2
  <1>3. Accounted'
    BY <1>0 DEF LoadInv, Accounted, Files
  <1>4. WholeAndValid(policies)'
    BY SameMap DEF LoadInv
  <1> QED BY <1>1, <1>2, <1>3, <1>4 DEF LoadInv

\* A file joins the ones already read only if it validates and agrees with them.
LEMMA ReadKeeps ==
  ASSUME LoadInv, NEW f \in Files, ReadFile(f)
  PROVE  LoadInv'
  <1>1. UNCHANGED <<path, present, file, backups, policies>> /\ pc = "reading" /\ f \in todo
    BY DEF ReadFile, IsNext, disk
  <1>2. DiskOK' /\ WholeAndValid(policies)'
    BY <1>1, SameMap DEF LoadInv, DiskOK, Files
  <1>3. CASE Rejected(f)
    BY <1>2, <1>3, LeaveKeeps DEF ReadFile
  <1>4. CASE ~Rejected(f)
    <2>1. todo' = todo \ {f} /\ parsed' = Read(f) /\ pc' = pc /\ during' = during
      BY <1>4 DEF ReadFile
    <2>2. Now(f) \in Valid \union {Blank} /\ ~Duplicate(parsed, Now(f))
      BY <1>4, NowIsContent DEF Rejected, LoadInv, Contents
    <2>3. Now(f) \in during[f]
      BY <1>1 DEF LoadInv, DuringOK
    <2>4. DuringOK'
      BY <1>1, <2>1 DEF LoadInv, DuringOK, Files, Now
    <2>5. CASE Now(f) = Blank
      <3>1. parsed' = parsed
        BY <2>1, <2>5 DEF Read
      <3>2. ParsedOK'
        BY <1>1, <2>1, <3>1 DEF LoadInv, ParsedOK, Files, Apart, Agents
      <3>3. Accounted'
        BY <1>1, <2>1, <2>3, <2>5, <3>1 DEF LoadInv, Accounted, Files
      <3> QED BY <1>2, <2>4, <3>2, <3>3 DEF LoadInv
    <2>6. CASE Now(f) # Blank
      <3>1. parsed' = [g \in DOMAIN parsed \union {f} |-> IF g = f THEN Now(f) ELSE parsed[g]]
        BY <2>1, <2>6 DEF Read
      <3>2. \A g \in DOMAIN parsed' : parsed'[g] \in Valid /\ parsed'[g] \in during'[g]
        BY <2>1, <2>2, <2>3, <2>6, <3>1 DEF LoadInv, ParsedOK
      <3>3. Apart(parsed)'
        BY <2>2, <3>1 DEF LoadInv, ParsedOK, Apart, Duplicate, Agents
      <3>4. ParsedOK'
        BY <1>1, <2>1, <3>1, <3>2, <3>3 DEF LoadInv, ParsedOK, Files
      <3>5. Accounted'
        BY <1>1, <2>1, <3>1 DEF LoadInv, Accounted, Files
      <3> QED BY <1>2, <2>4, <3>4, <3>5 DEF LoadInv
    <2> QED BY <2>5, <2>6
  <1> QED BY <1>3, <1>4

\* A map goes live once every file listed has been read and they resolve.
LEMMA SwapKeeps == ASSUME LoadInv, Swap PROVE LoadInv'
  <1>1. UNCHANGED <<path, file, backups>>
    BY DEF Swap, disk
  <1>2. DiskOK'
    BY <1>1 DEF LoadInv, DiskOK, Files
  <1>3. CASE Resolves(parsed)
    <2>1. WholeAndValid(parsed)
      BY <1>3 DEF LoadInv, ParsedOK, WholeAndValid
    <2>2. WholeAndValid(policies)'
      BY <1>3, <2>1, SameMap DEF Swap
    <2> QED BY <1>2, <1>3, <2>2, LeaveKeeps DEF Swap
  <1>4. CASE ~Resolves(parsed)
    <2>1. WholeAndValid(policies)'
      BY <1>4, SameMap DEF Swap, LoadInv
    <2> QED BY <1>2, <1>4, <2>1, LeaveKeeps DEF Swap
  <1> QED BY <1>3, <1>4

\* Writing, renaming and deleting put nothing else than contents on the disk.
LEMMA PutKeeps ==
  ASSUME DiskOK, NEW f \in Files, NEW v, v.content \in Contents, NEW e, PutFile(f, v, e)
  PROVE  DiskOK'
  <1>1. /\ path' = path
        /\ file' = [g \in DOMAIN file \union {f} |-> IF g = f THEN v ELSE file[g]]
        /\ backups' = [backups EXCEPT ![f] = @ \union {v}]
    BY DEF PutFile, MayWrite
  <1>2. Files' = Files
    BY <1>1 DEF Files
  <1>3. DOMAIN file' \subseteq Files /\ \A g \in DOMAIN file' : file'[g].content \in Contents
    BY <1>1 DEF DiskOK
  <1>4. DOMAIN backups' = Files /\ \A g \in Files : \A w \in backups'[g] : w.content \in Contents
    BY <1>1 DEF DiskOK
  <1> QED BY <1>1, <1>2, <1>3, <1>4 DEF DiskOK

LEMMA StepKeeps == LoadInv /\ [LoaderNext]_loaderVars => LoadInv'
  <1> SUFFICES ASSUME LoadInv, [LoaderNext]_loaderVars PROVE LoadInv'
    OBVIOUS
  <1>0. ASSUME UNCHANGED <<path, file, backups, policies>>
        PROVE  DiskOK' /\ WholeAndValid(policies)'
    BY <1>0, SameMap DEF LoadInv, DiskOK, Files
  <1>1. CASE Poll
    BY <1>0, <1>1, EnterKeeps DEF Poll, disk
  <1>2. CASE LookForPath
    <2>1. CASE present
      BY <1>0, <1>2, <2>1 DEF LookForPath, disk, LoadInv, DuringOK, ParsedOK, Accounted, Files, Now, Apart, Agents
    <2>2. CASE ~present
      <3>1. policies' = Nothing /\ Leave("sleep") /\ UNCHANGED <<path, file, backups>>
        BY <1>2, <2>2 DEF LookForPath, disk
      <3>2. DiskOK'
        BY <3>1 DEF LoadInv, DiskOK, Files
      <3>3. WholeAndValid(policies)'
        BY <3>1, NothingRead, SameMap
      <3> QED BY <3>1, <3>2, <3>3, LeaveKeeps
    <2> QED BY <2>1, <2>2
  <1>3. CASE ListFiles
    <2>1. CASE present
      <3>1. /\ UNCHANGED <<path, present, file, backups, policies, parsed, during>>
            /\ pc = "list" /\ pc' = "reading" /\ todo' = DOMAIN file
        BY <1>3, <2>1 DEF ListFiles, disk
      <3>2. DuringOK' /\ ParsedOK'
        BY <3>1 DEF LoadInv, DuringOK, ParsedOK, Files, Now, Apart, Agents
      <3>3. \A f \in Files : f \in DOMAIN file \/ Gone \in during[f]
        BY <3>1 DEF LoadInv, DuringOK, Now
      <3>4. Accounted'
        BY <3>1, <3>3 DEF Accounted, Files
      <3> QED BY <1>0, <3>1, <3>2, <3>4 DEF LoadInv
    <2>2. CASE ~present
      BY <1>0, <1>3, <2>2, LeaveKeeps DEF ListFiles, disk
    <2> QED BY <2>1, <2>2
  <1>4. ASSUME NEW f \in Files, ReadFile(f) PROVE LoadInv'
    BY <1>4, ReadKeeps
  <1>5. CASE Swap
    BY <1>5, SwapKeeps
  <1>6. CASE Stat
    BY <1>0, <1>6, LeaveKeeps DEF Stat, disk
  <1>7. ASSUME NEW f \in Files, NEW c \in Contents, Write(f, c) \/ Setup(f, c)
        PROVE  LoadInv'
    <2> DEFINE v == [content |-> c, mtime |-> clock + 1]
    <2>1. v.content \in Contents
      OBVIOUS
    <2>2. UNCHANGED path
      BY <1>7 DEF Write, Setup, PutFile, MayWrite
    <2> HIDE DEF v
    <2>3. CASE Write(f, c)
      <3>1. DiskOK'
        BY <2>1, <2>3, PutKeeps DEF Write, LoadInv, v
      <3> QED BY <2>2, <2>3, <3>1, WatchedKeeps DEF Write
    <2>4. CASE Setup(f, c)
      <3>1. DiskOK'
        BY <2>1, <2>4, PutKeeps DEF Setup, LoadInv, v
      <3> QED BY <2>2, <2>4, <3>1, EnterKeeps DEF Setup
    <2> QED BY <1>7, <2>3, <2>4
  <1>8. ASSUME NEW f \in Files, NEW v \in backups[f], RenameOver(f, v)
        PROVE  LoadInv'
    <2>1. v.content \in Contents
      BY DEF LoadInv, DiskOK
    <2>2. DiskOK' /\ UNCHANGED path
      BY <1>8, <2>1, PutKeeps DEF RenameOver, LoadInv, PutFile, MayWrite
    <2> QED BY <1>8, <2>2, WatchedKeeps DEF RenameOver
  <1>9. ASSUME NEW f \in Files, Delete(f) PROVE LoadInv'
    <2>1. UNCHANGED <<path, backups, policies>> /\ file' = [g \in DOMAIN file \ {f} |-> file[g]]
      BY <1>9 DEF Delete, MayWrite
    <2>2. DiskOK' /\ WholeAndValid(policies)'
      BY <2>1, SameMap DEF LoadInv, DiskOK, Files
    <2> QED BY <1>9, <2>1, <2>2, LeaveKeeps, WatchedKeeps DEF Delete
  <1>10. CASE Move
    <2>1. UNCHANGED <<path, file, backups, policies, pc, todo, parsed>> /\ Watched
      BY <1>10 DEF Move, MayWrite
    <2> QED BY <1>0, <2>1, WatchedKeeps
  <1>11. CASE UNCHANGED loaderVars
    BY <1>0, <1>11 DEF loaderVars, disk, load, LoadInv, DuringOK, ParsedOK, Accounted, Files, Now, Apart, Agents
  <1> QED BY <1>1, <1>2, <1>3, <1>4, <1>5, <1>6, <1>7, <1>8, <1>9, <1>10, <1>11 DEF LoaderNext

----------------------------------------------------------------------------

THEOREM LoadInductive == LoaderSpec => []LoadInv
  BY InitLoad, StepKeeps, PTL DEF LoaderSpec

\* Whatever is written while a load runs, every file in force validated, no two
\* define the same agent, and all that they extend is there.
THEOREM WholeValidMaps == LoaderSpec => []OnlyWholeValidMaps
  <1>1. LoadInv => OnlyWholeValidMaps
    BY OnlyWholeIs DEF LoadInv
  <1> QED BY LoadInductive, <1>1, PTL

\* The map changes only to what the files were during one load; nobody's policies
\* go unless their file was gone or empty while it ran.
THEOREM PoliciesKept == LoaderSpec => PoliciesNotLost
  <1> DEFINE Honest == \A f \in Files :
                IF f \in DOMAIN policies' THEN policies'[f] \in during[f]
                ELSE {Gone, Blank} \intersect during[f] # {}
  <1>1. LoadInv /\ [LoaderNext]_loaderVars => [policies' # policies => Honest]_loaderVars
    <2> SUFFICES ASSUME LoadInv, LoaderNext, policies' # policies PROVE Honest
      BY DEF loaderVars
    <2>1. CASE LookForPath
      <3>1. ~present /\ policies' = Nothing /\ pc = "load"
        BY <2>1 DEF LookForPath
      <3>2. \A f \in Files : Gone \in during[f]
        BY <3>1 DEF LoadInv, DuringOK, Now
      <3> QED BY <3>1, <3>2, NothingRead
    <2>2. CASE Swap
      <3>1. policies' = parsed /\ pc = "reading" /\ todo = {}
        BY <2>2 DEF Swap
      <3> QED BY <3>1 DEF LoadInv, ParsedOK, Accounted
    <2>3. CASE policies' = policies
      BY <2>3
    <2> QED BY <2>1, <2>2, <2>3
          DEF LoaderNext, Poll, ListFiles, ReadFile, Stat, Write, Setup, RenameOver, Delete, Move
  <1> QED BY LoadInductive, <1>1, PTL DEF LoaderSpec, PoliciesNotLost

=============================================================================
