---------------------------- MODULE MongoExecutor ----------------------------
(***************************************************************************)
(* plugins/mongodb/executor.py and schema_cache.py: an operation is        *)
(* attempted, its filter marshalled by the type map of a cached sample,    *)
(* and sent; reads are attempted again after a transient failure, writes   *)
(* are not.                                                                *)
(*                                                                         *)
(* A collection is a set of documents <<id, type, text>>: one field, with  *)
(* a BSON type and the text it is written as.  "1" reads as a date and is  *)
(* kept as either type; "x" can only be a string.  The collection of the   *)
(* same name exists in every database.                                     *)
(***************************************************************************)
EXTENDS Integers, Sequences, FiniteSets, FiniteSetsExt, SequencesExt

CONSTANTS
    Calls,        \* operations in flight, each run once
    Databases,
    Home,         \* the connection's own database
    NoDb,         \* database = None
    Ids,          \* document ids; an insert needs a free one (bound)
    Starts,       \* what the databases may hold at first
    Requests,     \* the operations asked for: [kind, db, value]
    SampleSize,   \* schema_sample_size
    CacheMax,     \* _schema_cache_max
    Ttl,          \* schema_cache_ttl; 0 switches the cache off
    MaxRetries,   \* max_retries
    MaxTime,      \* bound: time.monotonic() stops there
    MaxChanges    \* bound: changes other clients make

\* Filter values: plain text, or an extended-JSON {"$date": "1"}.
Values == {"1", "x", "$date 1"}

Documents == (Ids \X {"date"} \X {"1"}) \union (Ids \X {"string"} \X {"1", "x"})

ASSUME ExecutorAssumption ==
    /\ Home \in Databases /\ NoDb \notin Databases /\ Starts \subseteq [Databases -> SUBSET Documents]
    /\ \A r \in Requests : r.kind \in {"find", "delete", "insert"} /\ r.db \in Databases \union {NoDb} /\ r.value \in Values
    /\ SampleSize \in Nat \ {0} /\ CacheMax \in Nat \ {0}
    /\ Ttl \in Nat /\ MaxRetries \in Nat /\ MaxTime \in Nat /\ MaxChanges \in Nat

VARIABLES
    docs,         \* the documents of each database's collection
    epoch,        \* counts, per database, the changes of the types in it (history)
    changes,
    clock,        \* time.monotonic()
    cache,        \* _schema_cache: key -> [map, expiry, epoch, full]
    order,        \* its keys, least recently used first
    pc,           \* where each operation stands
    op,           \* [kind, db, value]
    attempt,
    map,          \* the sample or map an attempt works with
    answer,       \* how the operation ended
    rows,         \* what a find returned
    applied       \* how often a write took effect at the server (history)

server == <<docs, epoch, changes, applied>>
store  == <<cache, order>>
vars   == <<server, store, clock, pc, op, attempt, map, answer, rows>>

\* "delete" stands for the writes with a filter, which is marshalled first,
\* "insert" for the inserts and the DDL, which have none.
Writes == {"delete", "insert"}

TypesOf(D) == {d[2] : d \in D}

\* A polymorphic or absent field has no entry in the type map.
NoType == "none"

TypeIn(T) == IF Cardinality(T) = 1 THEN CHOOSE t \in T : TRUE ELSE NoType

\* The sampled set D, as the map made of it; epoch and full are history.
MapOf(D, e, full) == [type |-> TypeIn(TypesOf(D)), epoch |-> e, full |-> full]

Unsampled == [type |-> NoType, epoch |-> [d \in Databases |-> 0], full |-> FALSE]

Opened(db) == IF db = NoDb THEN Home ELSE db

\* Mutant: one bucket per collection name, whichever database it is in.
CacheKey_NameOnly(db) == NoDb

CacheKey(db) == db

TypeOK ==
    /\ \A d \in Databases : docs[d] \subseteq Documents
    /\ changes \in 0 .. MaxChanges /\ clock \in 0 .. MaxTime
    /\ DOMAIN cache = Range(order) /\ Len(order) <= CacheMax /\ IsInjective(order)
    /\ pc \in [Calls -> {"idle", "marshal", "sampling", "filling", "send", "backoff", "done"}]
    /\ attempt \in [Calls -> 0 .. MaxRetries + 1]
    /\ answer \in [Calls -> {"none", "ok", "mismatch", "error"}]
    /\ applied \in [Calls -> Nat]

Init ==
    /\ docs \in Starts
    /\ epoch = [d \in Databases |-> 0] /\ changes = 0 /\ clock = 0
    /\ cache = <<>> /\ order = <<>>
    /\ pc = [c \in Calls |-> "idle"]
    /\ op = [c \in Calls |-> [kind |-> "find", db |-> NoDb, value |-> "1"]]
    /\ attempt = [c \in Calls |-> 0]
    /\ map = [c \in Calls |-> Unsampled]
    /\ answer = [c \in Calls |-> "none"]
    /\ rows = [c \in Calls |-> {}]
    /\ applied = [c \in Calls |-> 0]

----------------------------------------------------------------------------
(* Marshalling.                                                            *)

\* A date field takes what parses as a date; a literal is always converted.
\* "date" stands for each type that is coerced: marshal.py converts object ids,
\* decimals and the other BSON types by the same rule, each from its own text.
Coercible(type, value) == type = "date" => value # "x"

\* What the filter asks for, as <<type, text>>.
Marshalled(type, value) ==
    IF value = "$date 1" \/ type = "date" THEN <<"date", "1">> ELSE <<"string", value>>

Matching(D, want) == {d \in D : <<d[2], d[3]>> = want}

\* Where an operation goes when its map is at hand.
Next_(c, m) ==
    /\ map' = [map EXCEPT ![c] = m]
    /\ IF Coercible(m.type, op[c].value)
       THEN pc' = [pc EXCEPT ![c] = "send"] /\ UNCHANGED answer
       ELSE pc' = [pc EXCEPT ![c] = "done"] /\ answer' = [answer EXCEPT ![c] = "mismatch"]

----------------------------------------------------------------------------
(* The schema cache.                                                       *)

Touched(key) == Append(SelectSeq(order, LAMBDA k : k # key), key)

\* A live entry answers at once and becomes the most recently used one.
Hit(c) ==
    LET key == CacheKey(op[c].db) IN
    /\ pc[c] = "marshal" /\ op[c].kind # "insert"
    /\ Ttl > 0 /\ key \in DOMAIN cache /\ clock < cache[key].expiry
    /\ order' = Touched(key)
    /\ Next_(c, cache[key].map)
    /\ UNCHANGED <<server, cache, clock, op, attempt, rows>>

Miss(c) ==
    LET key == CacheKey(op[c].db) IN
    /\ pc[c] = "marshal" /\ op[c].kind # "insert"
    /\ ~(Ttl > 0 /\ key \in DOMAIN cache /\ clock < cache[key].expiry)
    /\ pc' = [pc EXCEPT ![c] = "sampling"]
    /\ UNCHANGED <<server, store, clock, op, attempt, map, answer, rows>>

\* The server reads up to SampleSize documents, in an order of its own.
ServerSamples(c) ==
    LET D == docs[Opened(op[c].db)] IN
    /\ pc[c] = "sampling" /\ pc' = [pc EXCEPT ![c] = "filling"]
    /\ \E S \in kSubset(Min({SampleSize, Cardinality(D)}), D) :
          map' = [map EXCEPT ![c] = MapOf(S, epoch, TypesOf(S) = TypesOf(D))]
    /\ UNCHANGED <<server, store, clock, op, attempt, answer, rows>>

\* What popitem(last=False) takes from the front of the keys.
Evicted(keys) == IF Len(keys) > CacheMax THEN {Head(keys)} ELSE {}

\* The task resumes with the sample, stores it for Ttl from now on, whatever
\* another task stored meanwhile, and evicts.
Fill(c) ==
    LET key == CacheKey(op[c].db)
        keys == Touched(key)
        out == Evicted(keys)
        entry == [map |-> map[c], expiry |-> clock + Ttl]
    IN  /\ pc[c] = "filling"
        /\ IF Ttl > 0
           THEN /\ order' = IF out = {} THEN keys ELSE Tail(keys)
                /\ cache' = [k \in (DOMAIN cache \union {key}) \ out |-> IF k = key THEN entry ELSE cache[k]]
           ELSE UNCHANGED store
        /\ Next_(c, map[c])
        /\ UNCHANGED <<server, clock, op, attempt, rows>>

----------------------------------------------------------------------------
(* Attempts.                                                               *)

\* Mutant: every action is attempted as often.
Attempts_All(kind) == MaxRetries + 1

Attempts(kind) == IF kind \in Writes THEN 1 ELSE MaxRetries + 1

Begin(c, o) ==
    /\ pc[c] = "idle"
    /\ op' = [op EXCEPT ![c] = o]
    /\ attempt' = [attempt EXCEPT ![c] = 1]
    /\ pc' = [pc EXCEPT ![c] = IF o.kind = "insert" THEN "send" ELSE "marshal"]
    /\ UNCHANGED <<server, store, clock, map, answer, rows>>

GivesUp(c) == attempt[c] >= Attempts(op[c].kind)

\* A transient error reaches execute(): back off, or raise.
Fails(c) ==
    /\ IF GivesUp(c)
       THEN pc' = [pc EXCEPT ![c] = "done"] /\ answer' = [answer EXCEPT ![c] = "error"]
       ELSE pc' = [pc EXCEPT ![c] = "backoff"] /\ UNCHANGED answer
    /\ UNCHANGED <<store, clock, op, attempt, map, rows>>

\* The connection is lost before the server acts.
Lost(c) == pc[c] \in {"sampling", "send"} /\ Fails(c) /\ UNCHANGED server

\* asyncio.sleep() is over: the whole operation again, marshalling included.
Retry(c) ==
    /\ pc[c] = "backoff"
    /\ pc' = [pc EXCEPT ![c] = IF op[c].kind = "insert" THEN "send" ELSE "marshal"]
    /\ attempt' = [attempt EXCEPT ![c] = Min({@ + 1, MaxRetries + 1})]
    /\ UNCHANGED <<server, store, clock, op, map, answer, rows>>

Want(c) == Marshalled(map[c].type, op[c].value)

\* The answer of a find.
Found(c) ==
    /\ pc[c] = "send" /\ op[c].kind = "find"
    /\ rows' = [rows EXCEPT ![c] = Matching(docs[Opened(op[c].db)], Want(c))]
    /\ pc' = [pc EXCEPT ![c] = "done"] /\ answer' = [answer EXCEPT ![c] = "ok"]
    /\ UNCHANGED <<server, store, clock, op, attempt, map>>

Bumped(d, D) == IF TypesOf(D) = TypesOf(docs[d]) THEN epoch ELSE [epoch EXCEPT ![d] = @ + 1]

\* delete_one takes one matching document, if any; insert_one adds one.
Effect(c) ==
    LET d == Opened(op[c].db)
        found == Matching(docs[d], Want(c))
    IN
    \E D \in IF op[c].kind = "delete"
             THEN {docs[d] \ {x} : x \in found} \union (IF found = {} THEN {docs[d]} ELSE {})
             ELSE {docs[d] \union {<<i, "string", "x">>} : i \in Ids \ {x[1] : x \in docs[d]}} :
        /\ docs' = [docs EXCEPT ![d] = D]
        /\ epoch' = Bumped(d, D)
        /\ applied' = [applied EXCEPT ![c] = @ + 1]
        /\ UNCHANGED changes

\* A write is applied and acknowledged, by the driver's own retry if need be.
Written(c) ==
    /\ pc[c] = "send" /\ op[c].kind \in Writes /\ Effect(c)
    /\ pc' = [pc EXCEPT ![c] = "done"] /\ answer' = [answer EXCEPT ![c] = "ok"]
    /\ UNCHANGED <<store, clock, op, attempt, map, rows>>

\* It is applied, and the acknowledgement is lost.
AckLost(c) == pc[c] = "send" /\ op[c].kind \in Writes /\ Effect(c) /\ Fails(c)

----------------------------------------------------------------------------
(* Everything else.                                                        *)

\* Another client adds, removes or replaces a document.
Change(d, D) ==
    /\ changes < MaxChanges /\ changes' = changes + 1
    /\ D # docs[d] /\ \E x \in Documents : D \in {docs[d] \union {x}, docs[d] \ {x}}
    /\ Cardinality({x[1] : x \in D}) = Cardinality(D)
    /\ docs' = [docs EXCEPT ![d] = D] /\ epoch' = Bumped(d, D)
    /\ UNCHANGED <<store, clock, pc, op, attempt, map, answer, rows, applied>>

Tick ==
    /\ clock < MaxTime /\ clock' = clock + 1
    /\ UNCHANGED <<server, store, pc, op, attempt, map, answer, rows>>

Next ==
    \/ \E c \in Calls :
          \/ \E o \in Requests : Begin(c, o)
          \/ Hit(c)
          \/ Miss(c)
          \/ ServerSamples(c)
          \/ Fill(c)
          \/ Lost(c)
          \/ Retry(c)
          \/ Found(c)
          \/ Written(c)
          \/ AckLost(c)
    \/ \E d \in Databases : \E D \in SUBSET Documents : Change(d, D)
    \/ Tick

Spec == Init /\ [][Next]_vars

----------------------------------------------------------------------------
(* Properties.                                                             *)

\* executor.py:244-250: a write whose answer was lost is not sent again.  It
\* takes effect at most once, exactly once if the caller is told "ok", and not
\* at all when its filter was refused.
WrittenAtMostOnce ==
    \A c \in Calls :
        /\ applied[c] <= 1
        /\ answer[c] = "ok" /\ op[c].kind \in Writes => applied[c] = 1
        /\ answer[c] = "mismatch" => applied[c] = 0

\* The sample shows every type of the field, in the database the operation is
\* for, and nothing has changed that since.
Representative(c) == map'[c].full /\ map'[c].epoch = epoch

\* What a reader of the collection would expect: values of the field's type if
\* it has one, and of the type they are written in if it has none or several.
Expected(D, value) ==
    IF value = "$date 1" \/ (value = "1" /\ TypesOf(D) = {"date"})
    THEN Matching(D, <<"date", "1">>) ELSE Matching(D, <<"string", value>>)

\* marshal.py:3-7 and :31-33: no silent miss and no false TYPE_MISMATCH.  However
\* entries of one collection name in several databases are filled, refilled by
\* slower tasks, evicted and expire: an operation that works with a map still
\* representative finds what is there, and is refused only if nothing could match.
MarshalsForItsCollection ==
    [][\A c \in Calls : Representative(c) =>
          LET D == docs[Opened(op[c].db)] IN
          /\ pc[c] = "send" /\ op[c].kind = "find" /\ answer'[c] = "ok"
                => rows'[c] = Expected(D, op[c].value)
          /\ answer[c] = "none" /\ answer'[c] = "mismatch"
                => TypesOf(D) = {"date"} /\ op[c].value = "x"]_vars

=============================================================================
