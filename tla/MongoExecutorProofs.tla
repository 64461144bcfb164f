------------------------- MODULE MongoExecutorProofs -------------------------
(***************************************************************************)
(* No write is sent twice, for any calls, databases, contents, requests,   *)
(* cache and number of retries.  A write has one attempt, so whatever      *)
(* becomes of it ends the call; and a call that has not ended has applied  *)
(* nothing.  And a map that still fits the collection marshals for it: the *)
(* epochs of a map only fall behind, and while they have not, the types it *)
(* was made of are the collection's.                                       *)
(***************************************************************************)
EXTENDS MongoExecutor, FiniteSetTheorems, TLAPS

Phases == {"idle", "marshal", "sampling", "filling", "send", "backoff", "done"}

\* The parts of the type that the argument needs.
Typed ==
    /\ pc \in [Calls -> Phases]
    /\ attempt \in [Calls -> Nat]
    /\ applied \in [Calls -> Nat]
    /\ DOMAIN op = Calls /\ DOMAIN answer = Calls

\* A call that has begun is at an attempt.
Attempted == \A c \in Calls : pc[c] = "idle" \/ attempt[c] >= 1

\* A call that goes on has applied nothing and answered nothing.
StillClean == \A c \in Calls : pc[c] # "done" => applied[c] = 0 /\ answer[c] = "none"

WriteInv == Typed /\ Attempted /\ StillClean /\ WrittenAtMostOnce

----------------------------------------------------------------------------

LEMMA MinOfTwo ==
  ASSUME NEW a \in Nat, NEW b \in Nat
  PROVE  Min({a, b}) \in {a, b}
  <1>1. \E x \in {a, b} : \A y \in {a, b} : x <= y
    <2>1. CASE a <= b
      BY <2>1
    <2>2. CASE b <= a
      BY <2>2
    <2> QED BY <2>1, <2>2
  <1> QED BY <1>1 DEF Min

LEMMA InitWrites == Init => WriteInv
  BY DEF Init, WriteInv, Typed, Phases, Attempted, StillClean, WrittenAtMostOnce

\* One call moves on before its end, and nothing is applied for it.
LEMMA GoesOn ==
  ASSUME WriteInv, NEW c \in Calls, pc[c] # "done",
         NEW w \in Phases \ {"idle", "done"}, pc' = [pc EXCEPT ![c] = w],
         NEW n \in Nat, n >= 1, attempt' = [attempt EXCEPT ![c] = n],
         \/ op' = op
         \/ \E o : op' = [op EXCEPT ![c] = o],
         UNCHANGED <<applied, answer>>
  PROVE  WriteInv'
  <1>1. Typed'
    BY DEF WriteInv, Typed, Phases
  <1>2. Attempted'
    BY DEF WriteInv, Typed, Attempted
  <1>3. StillClean'
    BY DEF WriteInv, Typed, StillClean
  <1>4. WrittenAtMostOnce'
    BY DEF WriteInv, Typed, StillClean, WrittenAtMostOnce
  <1> QED BY <1>1, <1>2, <1>3, <1>4 DEF WriteInv

\* One call ends with an answer that fits what was applied for it.
LEMMA Ends ==
  ASSUME WriteInv, NEW c \in Calls, pc[c] \notin {"idle", "done"},
         pc' = [pc EXCEPT ![c] = "done"],
         NEW a, answer' = [answer EXCEPT ![c] = a],
         NEW n \in {0, 1}, applied' = [applied EXCEPT ![c] = n],
         a = "ok" /\ op[c].kind \in Writes => n = 1,
         a = "mismatch" => n = 0,
         UNCHANGED <<attempt, op>>
  PROVE  WriteInv'
  <1>1. Typed'
    BY DEF WriteInv, Typed, Phases
  <1>2. Attempted'
    BY DEF WriteInv, Typed, Attempted
  <1>3. StillClean'
    BY DEF WriteInv, Typed, StillClean
  <1>4. WrittenAtMostOnce'
    BY DEF WriteInv, Typed, WrittenAtMostOnce
  <1> QED BY <1>1, <1>2, <1>3, <1>4 DEF WriteInv

LEMMA OthersKeep ==
  ASSUME WriteInv, UNCHANGED <<pc, attempt, applied, op, answer>>
  PROVE  WriteInv'
  BY DEF WriteInv, Typed, Attempted, StillClean, WrittenAtMostOnce

\* Assigning what is there already changes nothing.
LEMMA Same ==
  ASSUME WriteInv, NEW c \in Calls
  PROVE  /\ attempt = [attempt EXCEPT ![c] = attempt[c]]
         /\ applied = [applied EXCEPT ![c] = applied[c]]
  BY DEF WriteInv, Typed

----------------------------------------------------------------------------

LEMMA BeginKeeps ==
  ASSUME WriteInv, NEW c \in Calls, NEW o \in Requests, Begin(c, o)
  PROVE  WriteInv'
  <1>1. \E w \in {"send", "marshal"} : pc' = [pc EXCEPT ![c] = w]
    BY DEF Begin
  <1>2. /\ pc[c] = "idle" /\ attempt' = [attempt EXCEPT ![c] = 1]
        /\ \E q : op' = [op EXCEPT ![c] = q]
        /\ UNCHANGED <<applied, answer>>
    BY DEF Begin, server
  <1>3. 1 \in Nat /\ 1 >= 1 /\ {"send", "marshal"} \subseteq Phases \ {"idle", "done"}
    BY DEF Phases
  <1> QED BY <1>1, <1>2, <1>3, GoesOn

\* The map is at hand: the filter is marshalled and sent, or refused.
LEMMA MarshalledKeeps ==
  ASSUME WriteInv, NEW c \in Calls, pc[c] \in {"marshal", "filling"}, NEW m, Next_(c, m),
         UNCHANGED <<applied, op, attempt>>
  PROVE  WriteInv'
  <1>1. attempt[c] \in Nat /\ attempt[c] >= 1 /\ applied[c] = 0
    BY DEF WriteInv, Typed, Attempted, StillClean
  <1>2. CASE pc' = [pc EXCEPT ![c] = "send"] /\ UNCHANGED answer
    BY <1>1, <1>2, Same, GoesOn DEF Phases
  <1>3. CASE pc' = [pc EXCEPT ![c] = "done"] /\ answer' = [answer EXCEPT ![c] = "mismatch"]
    <2>1. applied' = [applied EXCEPT ![c] = 0] /\ 0 \in {0, 1} /\ UNCHANGED <<attempt, op>>
      BY <1>1, Same
    <2>2. pc[c] \notin {"idle", "done"} /\ "mismatch" # "ok"
      OBVIOUS
    <2> QED BY <1>3, <2>1, <2>2, Ends
  <1> QED BY <1>2, <1>3 DEF Next_

LEMMA CacheKeeps ==
  ASSUME WriteInv, NEW c \in Calls, Hit(c) \/ Miss(c) \/ ServerSamples(c) \/ Fill(c)
  PROVE  WriteInv'
  <1>1. CASE Hit(c)
    BY <1>1, MarshalledKeeps DEF Hit, server
  <1>2. CASE Fill(c)
    BY <1>2, MarshalledKeeps DEF Fill, server
  <1>3. CASE Miss(c) \/ ServerSamples(c)
    <2>1. /\ \E w \in {"sampling", "filling"} : pc' = [pc EXCEPT ![c] = w]
          /\ pc[c] \in {"marshal", "sampling"} /\ UNCHANGED <<applied, op, attempt, answer>>
      BY <1>3 DEF Miss, ServerSamples, server
    <2>2. attempt[c] \in Nat /\ attempt[c] >= 1
      BY <2>1 DEF WriteInv, Typed, Attempted
    <2> QED BY <2>1, <2>2, Same, GoesOn DEF Phases
  <1> QED BY <1>1, <1>2, <1>3

\* A transient error of a call for which n was applied: a write gives up.
LEMMA FailureKeeps ==
  ASSUME WriteInv, NEW c \in Calls, pc[c] \in {"sampling", "send"}, Fails(c),
         NEW n \in {0, 1}, applied' = [applied EXCEPT ![c] = n],
         n = 1 => op[c].kind \in Writes
  PROVE  WriteInv'
  <1>1. attempt[c] \in Nat /\ attempt[c] >= 1 /\ applied[c] = 0 /\ UNCHANGED <<op, attempt>>
    BY DEF WriteInv, Typed, Attempted, StillClean, Fails
  <1>2. CASE GivesUp(c)
    <2>1. pc' = [pc EXCEPT ![c] = "done"] /\ answer' = [answer EXCEPT ![c] = "error"]
      BY <1>2 DEF Fails
    <2>2. pc[c] \notin {"idle", "done"} /\ "error" # "ok" /\ "error" # "mismatch"
      OBVIOUS
    <2> QED BY <1>1, <2>1, <2>2, Ends
  <1>3. CASE ~GivesUp(c)
    <2>1. n = 0
      BY <1>1, <1>3 DEF GivesUp, Attempts
    <2>2. UNCHANGED applied
      BY <1>1, <2>1, Same
    <2>3. pc' = [pc EXCEPT ![c] = "backoff"] /\ UNCHANGED answer
      BY <1>3 DEF Fails
    <2> QED BY <1>1, <2>2, <2>3, Same, GoesOn DEF Phases
  <1> QED BY <1>2, <1>3

LEMMA RetryKeeps ==
  ASSUME WriteInv, NEW c \in Calls, Retry(c)
  PROVE  WriteInv'
  <1> DEFINE n == Min({attempt[c] + 1, MaxRetries + 1})
  <1>1. attempt[c] \in Nat /\ attempt' = [attempt EXCEPT ![c] = n]
    BY DEF WriteInv, Typed, Retry
  <1>2. n \in Nat /\ n >= 1
    <2>1. attempt[c] + 1 \in Nat /\ MaxRetries + 1 \in Nat /\ attempt[c] + 1 >= 1 /\ MaxRetries + 1 >= 1
      BY <1>1, ExecutorAssumption
    <2>2. n \in {attempt[c] + 1, MaxRetries + 1}
      BY <2>1, MinOfTwo
    <2> QED BY <2>1, <2>2
  <1> HIDE DEF n
  <1>3. /\ \E w \in {"send", "marshal"} : pc' = [pc EXCEPT ![c] = w]
        /\ pc[c] = "backoff" /\ UNCHANGED <<applied, op, answer>>
    BY DEF Retry, server
  <1> QED BY <1>1, <1>2, <1>3, GoesOn DEF Phases

\* The answers of the server, and the ones that never arrive.
LEMMA ServerKeeps ==
  ASSUME WriteInv, NEW c \in Calls, Lost(c) \/ Found(c) \/ Written(c) \/ AckLost(c)
  PROVE  WriteInv'
  <1>1. pc[c] \in {"sampling", "send"}
    BY DEF Lost, Found, Written, AckLost
  <1>2. applied[c] = 0 /\ applied = [applied EXCEPT ![c] = 0]
    BY <1>1, Same DEF WriteInv, Typed, StillClean
  <1>3. CASE Lost(c)
    BY <1>1, <1>2, <1>3, FailureKeeps DEF Lost, server
  <1>4. CASE Found(c)
    <2>1. /\ pc' = [pc EXCEPT ![c] = "done"] /\ answer' = [answer EXCEPT ![c] = "ok"]
          /\ op[c].kind = "find" /\ UNCHANGED <<applied, op, attempt>>
      BY <1>4 DEF Found, server
    <2> QED BY <1>1, <1>2, <2>1, Ends DEF Writes
  <1>5. Effect(c) => applied' = [applied EXCEPT ![c] = 1]
    BY <1>2 DEF Effect
  <1>6. CASE Written(c)
    <2>1. /\ pc' = [pc EXCEPT ![c] = "done"] /\ answer' = [answer EXCEPT ![c] = "ok"]
          /\ applied' = [applied EXCEPT ![c] = 1] /\ UNCHANGED <<op, attempt>>
      BY <1>5, <1>6 DEF Written
    <2>2. pc[c] \notin {"idle", "done"} /\ 1 \in {0, 1} /\ "ok" # "mismatch"
      BY <1>1
    <2> QED BY <2>1, <2>2, Ends
  <1>7. CASE AckLost(c)
    BY <1>1, <1>5, <1>7, FailureKeeps DEF AckLost
  <1> QED BY <1>3, <1>4, <1>6, <1>7

----------------------------------------------------------------------------

\* Every step keeps what is known of the writes.
LEMMA NextWrites == WriteInv /\ [Next]_vars => WriteInv'
  <1> SUFFICES ASSUME WriteInv, [Next]_vars PROVE WriteInv'
    OBVIOUS
  <1>1. ASSUME NEW c \in Calls, NEW o \in Requests, Begin(c, o) PROVE WriteInv'
    BY <1>1, BeginKeeps
  <1>2. ASSUME NEW c \in Calls, Hit(c) \/ Miss(c) \/ ServerSamples(c) \/ Fill(c) PROVE WriteInv'
    BY <1>2, CacheKeeps
  <1>3. ASSUME NEW c \in Calls, Lost(c) \/ Found(c) \/ Written(c) \/ AckLost(c) PROVE WriteInv'
    BY <1>3, ServerKeeps
  <1>4. ASSUME NEW c \in Calls, Retry(c) PROVE WriteInv'
    BY <1>4, RetryKeeps
  <1>5. ASSUME NEW d \in Databases, NEW D \in SUBSET Documents, Change(d, D) PROVE WriteInv'
    BY <1>5, OthersKeep DEF Change
  <1>6. CASE Tick \/ UNCHANGED vars
    BY <1>6, OthersKeep DEF Tick, vars, server
  <1> QED BY <1>1, <1>2, <1>3, <1>4, <1>5, <1>6 DEF Next

\* Whatever is lost, cached, changed by others or retried: a write takes effect
\* at most once, once if the caller is told so, and never after a refusal.
THEOREM NoWriteTwice == Spec => []WrittenAtMostOnce
  <1>1. WriteInv => WrittenAtMostOnce
    BY DEF WriteInv
  <1> QED BY InitWrites, NextWrites, <1>1, PTL DEF Spec

----------------------------------------------------------------------------
(* The maps.                                                               *)

Targets == Databases \union {NoDb}

\* m was made of a sample for db: its epochs are past ones, and if they are the
\* present ones and the sample showed every type, m has the collection's type.
Fits(db, m) ==
    /\ m.epoch \in [Databases -> Nat] /\ \A d \in Databases : m.epoch[d] <= epoch[d]
    /\ m.full /\ m.epoch = epoch => m.type = TypeIn(TypesOf(docs[Opened(db)]))

Filtered(c) == op[c].kind # "insert"

MapInv ==
    /\ docs \in [Databases -> SUBSET Documents] /\ epoch \in [Databases -> Nat]
    /\ DOMAIN cache \subseteq Targets /\ \A k \in DOMAIN cache : Fits(k, cache[k].map)
    /\ DOMAIN map = Calls
    /\ \A c \in Calls :
          /\ pc[c] # "idle" => op[c] \in Requests
          /\ pc[c] = "filling" => Fits(op[c].db, map[c])
          /\ pc[c] \in {"marshal", "sampling", "filling"} => Filtered(c)
          /\ pc[c] = "send" /\ Filtered(c) => Fits(op[c].db, map[c]) /\ Coercible(map[c].type, op[c].value)

\* At the start nothing is cached and nobody has a map.
LEMMA InitMaps == Init => MapInv
  <1> SUFFICES ASSUME Init PROVE MapInv
    OBVIOUS
  <1>1. docs \in [Databases -> SUBSET Documents] /\ epoch \in [Databases -> Nat]
    BY ExecutorAssumption DEF Init
  <1>2. DOMAIN cache = {}
    BY DEF Init
  <1> QED BY <1>1, <1>2 DEF Init, MapInv

\* A database an operation names is one of the server's.
LEMMA OpenedHere == \A db \in Targets : Opened(db) \in Databases
  BY ExecutorAssumption DEF Targets, Opened

\* What fits goes on fitting when a collection changes: a new type moves the epoch.
LEMMA StillFits ==
  ASSUME MapInv, NEW d \in Databases, NEW D \in SUBSET Documents,
         docs' = [docs EXCEPT ![d] = D], epoch' = Bumped(d, D)
  PROVE  /\ docs' \in [Databases -> SUBSET Documents] /\ epoch' \in [Databases -> Nat]
         /\ \A db \in Targets : \A m : Fits(db, m) => Fits(db, m)'
  <1>1. docs \in [Databases -> SUBSET Documents] /\ epoch \in [Databases -> Nat]
    BY DEF MapInv
  <1>2. docs' \in [Databases -> SUBSET Documents]
    BY <1>1
  <1>3. CASE TypesOf(D) = TypesOf(docs[d])
    <2>1. epoch' = epoch /\ \A x \in Databases : TypesOf(docs'[x]) = TypesOf(docs[x])
      BY <1>1, <1>3 DEF Bumped
    <2>2. ASSUME NEW db \in Targets, NEW m, Fits(db, m) PROVE Fits(db, m)'
      <3>1. TypesOf(docs'[Opened(db)]) = TypesOf(docs[Opened(db)])
        BY <2>1, OpenedHere
      <3> QED BY <2>1, <2>2, <3>1 DEF Fits
    <2> QED BY <1>1, <1>2, <2>1, <2>2
  <1>4. CASE TypesOf(D) # TypesOf(docs[d])
    <2>1. epoch' = [epoch EXCEPT ![d] = @ + 1]
      BY <1>4 DEF Bumped
    <2>2. /\ epoch' \in [Databases -> Nat] /\ epoch'[d] = epoch[d] + 1
          /\ \A x \in Databases : epoch[x] <= epoch'[x]
      BY <1>1, <2>1
    <2>3. ASSUME NEW db \in Targets, NEW m, Fits(db, m) PROVE Fits(db, m)'
      <3>1. m.epoch \in [Databases -> Nat] /\ \A x \in Databases : m.epoch[x] <= epoch[x]
        BY <2>3 DEF Fits
      <3>2. \A x \in Databases : m.epoch[x] <= epoch'[x]
        BY <1>1, <2>2, <3>1
      <3>3. m.epoch # epoch'
        BY <1>1, <2>2, <3>1
      <3> QED BY <3>1, <3>2, <3>3 DEF Fits
    <2> QED BY <1>2, <2>2, <2>3
  <1> QED BY <1>3, <1>4

\* The server's part is left alone, or changed so that what fits still fits.
ServerKept ==
    /\ docs' \in [Databases -> SUBSET Documents] /\ epoch' \in [Databases -> Nat]
    /\ \A db \in Targets : \A n : Fits(db, n) => Fits(db, n)'

LEMMA Untouched == MapInv /\ UNCHANGED <<docs, epoch>> => ServerKept
  BY DEF MapInv, ServerKept, Fits

\* A step of c after which its map and those of the cache are what they should be.
LEMMA CallMoves ==
  ASSUME WriteInv, MapInv, NEW c \in Calls, ServerKept,
         DOMAIN cache' \subseteq Targets, \A k \in DOMAIN cache' : Fits(k, cache'[k].map),
         NEW w, pc' = [pc EXCEPT ![c] = w],
         DOMAIN map' = Calls, \A e \in Calls \ {c} : map'[e] = map[e] /\ op'[e] = op[e],
         op'[c] \in Requests,
         w = "filling" => Fits(op'[c].db, map'[c]),
         w \in {"marshal", "sampling", "filling"} => op'[c].kind # "insert",
         w = "send" /\ op'[c].kind # "insert" =>
            Fits(op'[c].db, map'[c]) /\ Coercible(map'[c].type, op'[c].value)
  PROVE  MapInv'
  <1>1. \A e \in Calls \ {c} : pc'[e] = pc[e]
    BY DEF WriteInv, Typed
  <1>2. pc'[c] = w
    BY DEF WriteInv, Typed
  <1>3. \A r \in Requests : r.db \in Targets
    BY ExecutorAssumption DEF Targets
  <1> HIDE DEF Fits
  <1>4. \A e \in Calls :
           /\ pc'[e] # "idle" => op'[e] \in Requests
           /\ pc'[e] = "filling" => op'[e] \in Requests /\ Fits(op'[e].db, map'[e])
           /\ pc'[e] \in {"marshal", "sampling", "filling"} => op'[e].kind # "insert"
           /\ pc'[e] = "send" /\ op'[e].kind # "insert"
                 => /\ op'[e] \in Requests /\ Fits(op'[e].db, map'[e])
                    /\ Coercible(map'[e].type, op'[e].value)
    BY <1>1, <1>2 DEF MapInv, Filtered
  <1>5. (\A k \in DOMAIN cache : Fits(k, cache[k].map))'
    BY DEF ServerKept
  <1>6. (\A e \in Calls :
           /\ pc[e] # "idle" => op[e] \in Requests
           /\ pc[e] = "filling" => Fits(op[e].db, map[e])
           /\ pc[e] \in {"marshal", "sampling", "filling"} => Filtered(e)
           /\ pc[e] = "send" /\ Filtered(e) => Fits(op[e].db, map[e]) /\ Coercible(map[e].type, op[e].value))'
    BY <1>3, <1>4 DEF Filtered, ServerKept
  <1> QED BY <1>5, <1>6 DEF MapInv, ServerKept

\* A map that fits is at hand.
LEMMA MarshalledMoves ==
  ASSUME WriteInv, MapInv, NEW c \in Calls, pc[c] \in {"marshal", "filling"}, NEW m, Next_(c, m),
         Fits(op[c].db, m), UNCHANGED <<docs, epoch, op>>,
         DOMAIN cache' \subseteq Targets, \A k \in DOMAIN cache' : Fits(k, cache'[k].map)
  PROVE  MapInv'
  <1>1. /\ map' = [map EXCEPT ![c] = m]
        /\ \/ pc' = [pc EXCEPT ![c] = "send"] /\ Coercible(m.type, op[c].value)
           \/ pc' = [pc EXCEPT ![c] = "done"]
    BY DEF Next_
  <1>2. DOMAIN map' = Calls /\ map'[c] = m /\ \A e \in Calls \ {c} : map'[e] = map[e] /\ op'[e] = op[e]
    BY <1>1 DEF MapInv
  <1>3. op'[c] = op[c] /\ op[c] \in Requests /\ ServerKept
    BY Untouched DEF MapInv
  <1>4. CASE pc' = [pc EXCEPT ![c] = "send"] /\ Coercible(m.type, op[c].value)
    BY <1>2, <1>3, <1>4, CallMoves
  <1>5. CASE pc' = [pc EXCEPT ![c] = "done"]
    BY <1>2, <1>3, <1>5, CallMoves
  <1> QED BY <1>1, <1>4, <1>5

\* The key of an entry is the database it was sampled for.
LEMMA KeyIsDatabase ==
  ASSUME MapInv, NEW c \in Calls, pc[c] # "idle"
  PROVE  CacheKey(op[c].db) = op[c].db /\ op[c].db \in Targets
  BY ExecutorAssumption DEF CacheKey, MapInv, Targets

\* A hit, a miss, a sample and a fill.
LEMMA CacheMoves ==
  ASSUME WriteInv, MapInv, NEW c \in Calls, Hit(c) \/ Miss(c) \/ ServerSamples(c) \/ Fill(c)
  PROVE  MapInv'
  <1>1. pc[c] \in {"marshal", "sampling", "filling"} /\ op[c] \in Requests /\ Filtered(c)
    BY DEF Hit, Miss, ServerSamples, Fill, MapInv
  <1>2. CacheKey(op[c].db) = op[c].db /\ op[c].db \in Targets
    BY <1>1, KeyIsDatabase
  <1>3. UNCHANGED <<docs, epoch, op>> /\ ServerKept
    BY Untouched DEF Hit, Miss, ServerSamples, Fill, server
  <1>4. DOMAIN cache \subseteq Targets /\ \A k \in DOMAIN cache : Fits(k, cache[k].map)
    BY DEF MapInv
  <1>5. CASE Hit(c)
    <2>1. cache' = cache /\ op[c].db \in DOMAIN cache /\ Next_(c, cache[op[c].db].map) /\ pc[c] = "marshal"
      BY <1>2, <1>5 DEF Hit
    <2>2. Fits(op[c].db, cache[op[c].db].map)
      BY <1>4, <2>1
    <2>3. DOMAIN cache' \subseteq Targets /\ \A k \in DOMAIN cache' : Fits(k, cache'[k].map)
      BY <1>4, <2>1
    <2> QED BY <1>3, <2>1, <2>2, <2>3, MarshalledMoves
  <1>6. CASE Miss(c)
    <2>1. cache' = cache /\ map' = map /\ pc' = [pc EXCEPT ![c] = "sampling"]
      BY <1>6 DEF Miss, store
    <2>2. DOMAIN map' = Calls /\ \A e \in Calls \ {c} : map'[e] = map[e] /\ op'[e] = op[e]
      BY <1>3, <2>1 DEF MapInv
    <2>3. op'[c] \in Requests /\ op'[c].kind # "insert"
      BY <1>1, <1>3 DEF Filtered
    <2>4. DOMAIN cache' \subseteq Targets /\ \A k \in DOMAIN cache' : Fits(k, cache'[k].map)
      BY <1>4, <2>1
    <2> QED BY <1>3, <2>1, <2>2, <2>3, <2>4, CallMoves
  <1>7. CASE ServerSamples(c)
    <2> DEFINE D == docs[Opened(op[c].db)]
    <2>1. PICK S : map' = [map EXCEPT ![c] = MapOf(S, epoch, TypesOf(S) = TypesOf(D))]
      BY <1>7 DEF ServerSamples
    <2>2. cache' = cache /\ pc' = [pc EXCEPT ![c] = "filling"]
      BY <1>7 DEF ServerSamples, store
    <2>3. /\ DOMAIN map' = Calls /\ map'[c] = MapOf(S, epoch, TypesOf(S) = TypesOf(D))
          /\ \A e \in Calls \ {c} : map'[e] = map[e] /\ op'[e] = op[e]
      BY <1>3, <2>1 DEF MapInv
    <2>4. Fits(op'[c].db, map'[c])
      <3>1. epoch \in [Databases -> Nat]
        BY DEF MapInv
      <3>2. map'[c].epoch = epoch /\ map'[c].type = TypeIn(TypesOf(S))
        BY <2>3 DEF MapOf
      <3>3. map'[c].full => TypesOf(S) = TypesOf(D)
        <4>1. CASE TypesOf(S) # TypesOf(D)
          <5>1. (TypesOf(S) = TypesOf(D)) = FALSE
            BY <4>1
          <5>2. map'[c] = MapOf(S, epoch, FALSE)
            BY <2>3, <5>1, Zenon
          <5>3. map'[c].full = FALSE
            BY <5>2 DEF MapOf
          <5> QED BY <5>3
        <4> QED BY <4>1
      <3> QED BY <1>3, <3>1, <3>2, <3>3 DEF Fits
    <2>5. op'[c] \in Requests /\ op'[c].kind # "insert"
      BY <1>1, <1>3 DEF Filtered
    <2>6. DOMAIN cache' \subseteq Targets /\ \A k \in DOMAIN cache' : Fits(k, cache'[k].map)
      BY <1>4, <2>2
    <2> QED BY <1>3, <2>2, <2>3, <2>4, <2>5, <2>6, CallMoves
  <1>8. CASE Fill(c)
    <2>1. pc[c] = "filling" /\ Next_(c, map[c]) /\ Fits(op[c].db, map[c])
      BY <1>8 DEF Fill, MapInv
    <2>2. /\ DOMAIN cache' \subseteq DOMAIN cache \union {op[c].db}
          /\ \A k \in DOMAIN cache' : 
                (cache'[k].map = map[c] /\ k = op[c].db) \/ (k \in DOMAIN cache /\ cache'[k] = cache[k])
      <3>1. CASE Ttl > 0
        <4>1. PICK out : cache' = [k \in (DOMAIN cache \union {op[c].db}) \ out |->
                             IF k = op[c].db THEN [map |-> map[c], expiry |-> clock + Ttl] ELSE cache[k]]
          BY <1>2, <1>8, <3>1 DEF Fill
        <4> QED BY <4>1
      <3>2. CASE ~(Ttl > 0)
        BY <1>8, <3>2 DEF Fill, store
      <3> QED BY <3>1, <3>2
    <2>3. DOMAIN cache' \subseteq Targets /\ \A k \in DOMAIN cache' : Fits(k, cache'[k].map)
      BY <1>2, <1>4, <2>1, <2>2
    <2> QED BY <1>3, <2>1, <2>3, MarshalledMoves
  <1> QED BY <1>5, <1>6, <1>7, <1>8

\* A step that leads to no map: the server may have been written to.
LEMMA PlainMoves ==
  ASSUME WriteInv, MapInv, NEW c \in Calls, pc[c] # "idle", ServerKept, UNCHANGED <<cache, map, op>>,
         NEW w, pc' = [pc EXCEPT ![c] = w], w \in {"done", "backoff"} \/ (w = "marshal" /\ Filtered(c))
                                           \/ (w = "send" /\ ~Filtered(c))
  PROVE  MapInv'
  <1>1. DOMAIN map' = Calls /\ \A e \in Calls \ {c} : map'[e] = map[e] /\ op'[e] = op[e]
    BY DEF MapInv
  <1>2. op'[c] \in Requests /\ op'[c] = op[c]
    BY DEF MapInv
  <1>3. DOMAIN cache' \subseteq Targets /\ \A k \in DOMAIN cache' : Fits(k, cache'[k].map)
    BY DEF MapInv
  <1>4. /\ w # "filling" /\ w # "sampling" /\ (w = "marshal" => op'[c].kind # "insert")
        /\ w = "send" => op'[c].kind = "insert"
    BY <1>2 DEF Filtered
  <1> QED BY <1>1, <1>2, <1>3, <1>4, CallMoves

\* What the operations do to a collection.
LEMMA EffectKeeps ==
  ASSUME MapInv, NEW c \in Calls, pc[c] # "idle", Effect(c)
  PROVE  ServerKept
  <1> DEFINE d == Opened(op[c].db)
             found == Matching(docs[d], Want(c))
  <1>1. d \in Databases
    BY KeyIsDatabase, OpenedHere
  <1>2. docs[d] \in SUBSET Documents
    BY <1>1 DEF MapInv
  <1>3. PICK D \in IF op[c].kind = "delete"
                   THEN {docs[d] \ {x} : x \in found} \union (IF found = {} THEN {docs[d]} ELSE {})
                   ELSE {docs[d] \union {<<i, "string", "x">>} : i \in Ids \ {x[1] : x \in docs[d]}} :
               docs' = [docs EXCEPT ![d] = D] /\ epoch' = Bumped(d, D)
    BY DEF Effect
  <1>4. D \in SUBSET Documents
    <2>1. \A i \in Ids : <<i, "string", "x">> \in Documents
      BY DEF Documents
    <2> HIDE DEF d, found
    <2> QED BY <1>2, <1>3, <2>1
  <1> HIDE DEF d, found
  <1> QED BY <1>1, <1>3, <1>4, StillFits DEF ServerKept

\* Every step keeps the maps.
LEMMA NextMaps == WriteInv /\ MapInv /\ [Next]_vars => MapInv'
  <1> SUFFICES ASSUME WriteInv, MapInv, [Next]_vars PROVE MapInv'
    OBVIOUS
  <1>1. ASSUME NEW c \in Calls, NEW o \in Requests, Begin(c, o) PROVE MapInv'
    <2>1. /\ op' = [op EXCEPT ![c] = o] /\ map' = map /\ cache' = cache /\ UNCHANGED <<docs, epoch>>
          /\ pc' = [pc EXCEPT ![c] = IF o.kind = "insert" THEN "send" ELSE "marshal"]
      BY <1>1 DEF Begin, server, store
    <2>2. DOMAIN map' = Calls /\ op'[c] = o /\ \A e \in Calls \ {c} : map'[e] = map[e] /\ op'[e] = op[e]
      BY <2>1 DEF MapInv, WriteInv, Typed
    <2>3. DOMAIN cache' \subseteq Targets /\ \A k \in DOMAIN cache' : Fits(k, cache'[k].map)
      BY <2>1 DEF MapInv
    <2>4. CASE o.kind = "insert"
      BY <2>1, <2>2, <2>3, <2>4, Untouched, CallMoves
    <2>5. CASE o.kind # "insert"
      BY <2>1, <2>2, <2>3, <2>5, Untouched, CallMoves
    <2> QED BY <2>4, <2>5
  <1>2. ASSUME NEW c \in Calls, Hit(c) \/ Miss(c) \/ ServerSamples(c) \/ Fill(c) PROVE MapInv'
    BY <1>2, CacheMoves
  <1>3. ASSUME NEW c \in Calls, Lost(c) \/ Found(c) \/ Written(c) \/ AckLost(c) \/ Retry(c) PROVE MapInv'
    <2>1. pc[c] # "idle" /\ UNCHANGED <<cache, map, op>>
      BY <1>3 DEF Lost, Found, Written, AckLost, Retry, Fails, store
    <2>2. Effect(c) \/ UNCHANGED <<docs, epoch>>
      BY <1>3 DEF Lost, Found, Written, AckLost, Retry, server
    <2>3. ServerKept
      BY <2>1, <2>2, Untouched, EffectKeeps
    <2>4. \/ pc' = [pc EXCEPT ![c] = "done"]
          \/ pc' = [pc EXCEPT ![c] = "backoff"]
          \/ pc' = [pc EXCEPT ![c] = "marshal"] /\ Filtered(c)
          \/ pc' = [pc EXCEPT ![c] = "send"] /\ ~Filtered(c)
      BY <1>3 DEF Lost, Found, Written, AckLost, Retry, Fails, Filtered
    <2> QED BY <2>1, <2>3, <2>4, PlainMoves
  <1>4. ASSUME NEW d \in Databases, NEW D \in SUBSET Documents, Change(d, D) PROVE MapInv'
    <2>1. ServerKept
      BY <1>4, StillFits DEF Change, ServerKept
    <2>2. UNCHANGED <<cache, map, op, pc>>
      BY <1>4 DEF Change, store
    <2>3. (\A k \in DOMAIN cache : Fits(k, cache[k].map))'
      BY <2>1, <2>2 DEF MapInv, ServerKept
    <2>4. \A r \in Requests : r.db \in Targets
      BY ExecutorAssumption DEF Targets
    <2>5. (\A e \in Calls :
             /\ pc[e] # "idle" => op[e] \in Requests
             /\ pc[e] = "filling" => Fits(op[e].db, map[e])
             /\ pc[e] \in {"marshal", "sampling", "filling"} => Filtered(e)
             /\ pc[e] = "send" /\ Filtered(e) => Fits(op[e].db, map[e]) /\ Coercible(map[e].type, op[e].value))'
      BY <2>1, <2>2, <2>4 DEF MapInv, ServerKept, Filtered
    <2> QED BY <2>1, <2>2, <2>3, <2>5 DEF MapInv, ServerKept
  <1>5. CASE Tick \/ UNCHANGED vars
    BY <1>5 DEF Tick, vars, server, store, MapInv, Fits, Filtered
  <1> QED BY <1>1, <1>2, <1>3, <1>4, <1>5 DEF Next

\* A collection of which "date" is the type has dates only.
LEMMA OneType ==
  ASSUME NEW D \in SUBSET Documents
  PROVE  TypeIn(TypesOf(D)) = "date" <=> TypesOf(D) = {"date"}
  <1>1. TypesOf(D) \subseteq {"date", "string"}
    BY DEF TypesOf, Documents
  <1>2. IsFiniteSet(TypesOf(D))
    <2>1. IsFiniteSet({"date"}) /\ IsFiniteSet({"string"})
      BY FS_Singleton
    <2>2. IsFiniteSet({"date"} \union {"string"})
      BY <2>1, FS_Union
    <2>3. {"date"} \union {"string"} = {"date", "string"}
      OBVIOUS
    <2> QED BY <1>1, <2>2, <2>3, FS_Subset
  <1>3. ASSUME TypesOf(D) = {"date"} PROVE TypeIn(TypesOf(D)) = "date"
    <2>1. Cardinality({"date"}) = 1
      BY FS_Singleton
    <2> QED BY <1>3, <2>1 DEF TypeIn
  <1>4. ASSUME TypeIn(TypesOf(D)) = "date" PROVE TypesOf(D) = {"date"}
    <2>1. Cardinality(TypesOf(D)) = 1
      BY <1>4 DEF TypeIn, NoType
    <2>2. PICK x : TypesOf(D) = {x}
      BY <1>2, <2>1, FS_Singleton
    <2>3. TypeIn(TypesOf(D)) = x
      BY <2>1, <2>2 DEF TypeIn
    <2> QED BY <1>4, <2>2, <2>3
  <1> QED BY <1>3, <1>4

\* The rows of each call stay its own.
RowsInv == DOMAIN rows = Calls

LEMMA NextRows == RowsInv /\ [Next]_vars => RowsInv'
  <1> SUFFICES ASSUME RowsInv, [Next]_vars PROVE RowsInv'
    OBVIOUS
  <1>1. rows' = rows \/ \E c \in Calls : Found(c)
    BY DEF Next, Begin, Hit, Miss, ServerSamples, Fill, Lost, Fails, Retry, Written, AckLost, Change, Tick, vars
  <1> QED BY <1>1 DEF RowsInv, Found

\* A call's answer changes by a step of its own.
LEMMA WhoAnswers ==
  ASSUME WriteInv, Next, NEW c \in Calls, answer'[c] # answer[c]
  PROVE  Hit(c) \/ Fill(c) \/ Lost(c) \/ Found(c) \/ Written(c) \/ AckLost(c)
  <1>1. DOMAIN answer = Calls
    BY DEF WriteInv, Typed
  <1>2. ASSUME NEW e \in Calls, Hit(e) \/ Fill(e) \/ Lost(e) \/ Found(e) \/ Written(e) \/ AckLost(e)
        PROVE  e = c
    <2>1. answer' = answer \/ \E a : answer' = [answer EXCEPT ![e] = a]
      BY <1>2 DEF Hit, Fill, Next_, Lost, Fails, Found, Written, AckLost
    <2> QED BY <1>1, <2>1
  <1>3. ASSUME NEW e \in Calls, (\E o \in Requests : Begin(e, o)) \/ Miss(e) \/ ServerSamples(e) \/ Retry(e)
        PROVE  FALSE
    BY <1>3 DEF Begin, Miss, ServerSamples, Retry
  <1>4. ASSUME Tick \/ \E d \in Databases : \E D \in SUBSET Documents : Change(d, D) PROVE FALSE
    BY <1>4 DEF Tick, Change
  <1> QED BY <1>2, <1>3, <1>4 DEF Next

\* Whatever is cached, refilled late, evicted, changed or retried: an operation
\* whose map still represents its collection finds what is there, and is refused
\* only when nothing there could match.
THEOREM MapsAreRight == Spec => MarshalsForItsCollection
  <1> DEFINE Claim == \A c \in Calls : Representative(c) =>
          LET D == docs[Opened(op[c].db)] IN
          /\ pc[c] = "send" /\ op[c].kind = "find" /\ answer'[c] = "ok" => rows'[c] = Expected(D, op[c].value)
          /\ answer[c] = "none" /\ answer'[c] = "mismatch" => TypesOf(D) = {"date"} /\ op[c].value = "x"
  <1>1. WriteInv /\ MapInv /\ RowsInv /\ [Next]_vars => [Claim]_vars
    <2> SUFFICES ASSUME WriteInv, MapInv, RowsInv, Next, NEW c \in Calls, Representative(c)
                 PROVE  LET D == docs[Opened(op[c].db)] IN
                        /\ pc[c] = "send" /\ op[c].kind = "find" /\ answer'[c] = "ok"
                              => rows'[c] = Expected(D, op[c].value)
                        /\ answer[c] = "none" /\ answer'[c] = "mismatch"
                              => TypesOf(D) = {"date"} /\ op[c].value = "x"
      OBVIOUS
    <2> DEFINE D == docs[Opened(op[c].db)]
    <2>1. map'[c].full /\ map'[c].epoch = epoch
      BY DEF Representative
    <2>2. ASSUME pc[c] # "idle"
          PROVE  op[c] \in Requests /\ op[c].value \in Values /\ D \in SUBSET Documents
      BY <2>2, ExecutorAssumption, KeyIsDatabase, OpenedHere DEF MapInv
    <2>3. ASSUME pc[c] = "send", op[c].kind = "find", answer'[c] = "ok"
          PROVE  rows'[c] = Expected(D, op[c].value)
      <3>1. answer[c] = "none"
        BY <2>3 DEF WriteInv, StillClean
      <3>2. answer'[c] # answer[c] /\ DOMAIN answer = Calls
        BY <2>3, <3>1 DEF WriteInv, Typed
      <3>3. Found(c)
        <4>1. ~Hit(c) /\ ~Fill(c) /\ ~Written(c) /\ ~AckLost(c)
          BY <2>3 DEF Hit, Fill, Written, AckLost, Writes
        <4>2. ~Lost(c)
          BY <2>3, <3>2 DEF Lost, Fails
        <4> QED BY <3>2, <4>1, <4>2, WhoAnswers
      <3>4. map'[c] = map[c] /\ rows'[c] = Matching(D, Want(c))
        BY <3>3 DEF Found, RowsInv
      <3>5. map[c].type = TypeIn(TypesOf(D)) /\ Coercible(map[c].type, op[c].value)
        <4>1. Fits(op[c].db, map[c]) /\ Coercible(map[c].type, op[c].value)
          BY <2>3 DEF MapInv, Filtered
        <4> QED BY <2>1, <3>4, <4>1 DEF Fits
      <3>6. map[c].type = "date" <=> TypesOf(D) = {"date"}
        BY <2>2, <2>3, <3>5, OneType
      <3>7. op[c].value \in Values
        BY <2>2, <2>3
      <3> HIDE DEF D
      <3>8. CASE op[c].value = "$date 1"
        BY <3>4, <3>8 DEF Want, Marshalled, Expected
      <3>9. CASE op[c].value = "x"
        <4>1. map[c].type # "date"
          BY <3>5, <3>9 DEF Coercible
        <4> QED BY <3>4, <3>9, <4>1 DEF Want, Marshalled, Expected
      <3>10. CASE op[c].value = "1"
        BY <3>4, <3>6, <3>10 DEF Want, Marshalled, Expected
      <3> QED BY <3>7, <3>8, <3>9, <3>10 DEF Values
    <2>4. ASSUME answer[c] = "none", answer'[c] = "mismatch"
          PROVE  TypesOf(D) = {"date"} /\ op[c].value = "x"
      <3>1. DOMAIN answer = Calls
        BY DEF WriteInv, Typed
      <3>2. ~Lost(c) /\ ~Found(c) /\ ~Written(c) /\ ~AckLost(c)
        BY <2>4, <3>1 DEF Lost, Found, Written, AckLost, Fails
      <3>3. Hit(c) \/ Fill(c)
        BY <2>4, <3>2, WhoAnswers
      <3>4. PICK m : Next_(c, m) /\ Fits(op[c].db, m)
        <4>1. CASE Hit(c)
          <5>1. op[c].db \in DOMAIN cache /\ Next_(c, cache[op[c].db].map)
            BY <4>1, KeyIsDatabase DEF Hit
          <5> QED BY <5>1 DEF MapInv
        <4>2. CASE Fill(c)
          BY <4>2 DEF Fill, MapInv
        <4> QED BY <3>3, <4>1, <4>2
      <3>5. map'[c] = m
        BY <3>4 DEF Next_, MapInv
      <3>6. m.type = TypeIn(TypesOf(D))
        BY <2>1, <3>4, <3>5 DEF Fits
      <3>7. ~Coercible(m.type, op[c].value)
        BY <2>4, <3>4 DEF Next_
      <3>8. m.type = "date" /\ op[c].value = "x"
        BY <3>7 DEF Coercible
      <3>9. D \in SUBSET Documents
        BY <2>2, <3>3 DEF Hit, Fill
      <3> QED BY <3>6, <3>8, <3>9, OneType
    <2> QED BY <2>3, <2>4
  <1>2. Init => RowsInv
    BY DEF Init, RowsInv
  <1>3. WriteInv /\ MapInv /\ RowsInv /\ [Next]_vars => WriteInv' /\ MapInv' /\ RowsInv'
    BY NextWrites, NextMaps, NextRows
  <1> QED BY InitWrites, InitMaps, <1>1, <1>2, <1>3, PTL DEF Spec, MarshalsForItsCollection

=============================================================================
