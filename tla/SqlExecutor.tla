----------------------------- MODULE SqlExecutor -----------------------------
(***************************************************************************)
(* Requests of several callers on one table of an SQL connection:          *)
(* core/registry/adapter.py and the execute() of the PostgreSQL and MySQL  *)
(* plugins.  A request is validated and translated at once, waits for a    *)
(* connection of the pool, and is one statement on the server.  MySQL      *)
(* connections are configured with autocommit, PostgreSQL ones have it.    *)
(***************************************************************************)
EXTENDS SqlStatements, FiniteSets, FiniteSetsExt

CONSTANTS
    Calls,        \* requests in flight, each made once
    Requests,
    Tables,       \* what the table may hold at first: functions from Ids to rows
    Ids,          \* row identities; an insert needs free ones (bound)
    WordyColumns  \* columns with "returning" in their names

RequestActions ==
    {"find", "count", "insert_one", "insert_many", "update_one", "update_many", "delete_one", "delete_many"}

IsSeq(s) == s \in Seq(ToSet(s))

SqlAssumption ==
    /\ IsFiniteSet(Columns) /\ WordyColumns \subseteq Columns
    /\ \A t \in Tables : IsFiniteSet(DOMAIN t)
    /\ \A r \in Requests :
          /\ r.action \in RequestActions
          /\ IsSeq(r.filter) /\ IsSeq(r.update) /\ IsSeq(r.docs)
          /\ \A i \in DOMAIN r.filter :
                /\ IsSeq(r.filter[i].conds)
                /\ \A j \in DOMAIN r.filter[i].conds :
                      r.filter[i].conds[j][1] = "in" => IsSeq(r.filter[i].conds[j][2])
          /\ \A j \in DOMAIN r.update : r.update[j] = <<r.update[j][1], r.update[j][2]>>

ASSUME SqlAssumption

NoRequest == [action |-> "none"]
NoQuery   == [verb |-> "none"]

VARIABLES
    dialect,
    wordy,        \* the name of the table contains the word "returning"
    table,        \* the rows, by identity
    pc,
    req,
    query,        \* the statement it was translated to
    answer,       \* [status, n]: n is the count the caller is told
    docs,         \* the rows a find returned
    touched       \* rows the statement found, deleted, inserted or changed (history)

vars == <<dialect, wordy, table, pc, req, query, answer, docs, touched>>

Nothing == [status |-> "none", n |-> 0]

Init ==
    /\ dialect \in Dialects /\ wordy \in BOOLEAN
    /\ table \in Tables
    /\ pc = [c \in Calls |-> "idle"]
    /\ req = [c \in Calls |-> NoRequest]
    /\ query = [c \in Calls |-> NoQuery]
    /\ answer = [c \in Calls |-> Nothing]
    /\ docs = [c \in Calls |-> {}]
    /\ touched = [c \in Calls |-> 0]

\* execute() up to the pool: what is not safe to translate reaches no connection.
Ask(c, r) ==
    /\ pc[c] = "idle" /\ req' = [req EXCEPT ![c] = r]
    /\ IF Translatable(dialect, r)
       THEN /\ pc' = [pc EXCEPT ![c] = "pool"] /\ UNCHANGED answer
            /\ query' = [query EXCEPT ![c] = Translated(dialect, r)]
       ELSE /\ pc' = [pc EXCEPT ![c] = "done"]
            /\ answer' = [answer EXCEPT ![c] = [status |-> "refused", n |-> 0]]
            /\ UNCHANGED query
    /\ UNCHANGED <<dialect, wordy, table, docs, touched>>

----------------------------------------------------------------------------
(* The statement on the server.                                            *)

Selected(c) == {i \in DOMAIN table : Selects(dialect, query[c], table[i])}

\* No ORDER BY: LIMIT and OFFSET leave some rows out, whichever.
Window(c) ==
    LET st == query[c]
        at(place) == Bound(dialect, st, CHOOSE i \in At(st, place) : TRUE)[1][1]
        found == Cardinality(Selected(c))
        left == IF found > at("offset") THEN found - at("offset") ELSE 0
    IN  kSubset(Min({left, at("limit")}), Selected(c))

\* Mutant: the rows of a DELETE are counted in what it returns.
Tells_ByRows(c, changed, selected) ==
    IF dialect = "mysql" THEN changed ELSE IF query[c].verb = "DELETE" THEN 0 ELSE selected

\* "RETURNING" is in the text: in the name of the table or of a column of a clause,
\* when the statement has no RETURNING of its own.
Says(c) ==
    \/ wordy
    \/ \E i \in DOMAIN query[c].clauses : query[c].clauses[i].col \in WordyColumns

\* RETURNING rows under PostgreSQL, or else the status tag; it is decided by the
\* text, so a DELETE whose names hold the word has the rows it returns, none, counted.
\* MySQL counts the rows that changed.
Tells(c, changed, selected) ==
    IF dialect = "mysql" THEN changed
    ELSE IF query[c].verb = "DELETE" /\ Says(c) THEN 0 ELSE selected

Answers(c, n) ==
    /\ answer' = [answer EXCEPT ![c] = [status |-> "ok", n |-> n]]
    /\ pc' = [pc EXCEPT ![c] = "done"]

\* The connection is lost with the answer.
Raises(c) ==
    /\ answer' = [answer EXCEPT ![c] = [status |-> "error", n |-> 0]]
    /\ pc' = [pc EXCEPT ![c] = "done"]

Settles(c, n) == Answers(c, n) \/ Raises(c)

Select(c) ==
    /\ pc[c] = "pool" /\ query[c].verb = "SELECT"
    /\ \E S \in Window(c) :
          /\ Settles(c, Cardinality(S))
          /\ docs' = [docs EXCEPT ![c] = {table[i] : i \in S}]
          /\ touched' = [touched EXCEPT ![c] = Cardinality(S)]
    /\ UNCHANGED <<dialect, wordy, table, req, query>>

Count(c) ==
    /\ pc[c] = "pool" /\ query[c].verb = "COUNT"
    /\ Settles(c, Cardinality(Selected(c)))
    /\ touched' = [touched EXCEPT ![c] = Cardinality(Selected(c))]
    /\ UNCHANGED <<dialect, wordy, table, req, query, docs>>

Update(c) ==
    LET found == Selected(c)
        new == [i \in DOMAIN table |->
                   IF i \in found THEN Assigned(dialect, query[c], table[i]) ELSE table[i]]
        changed == Cardinality({i \in DOMAIN table : new[i] # table[i]})
        selected == Cardinality(found)
    IN  /\ pc[c] = "pool" /\ query[c].verb = "UPDATE"
        /\ table' = new
        /\ Settles(c, Tells(c, changed, selected))
        /\ touched' = [touched EXCEPT ![c] = IF dialect = "mysql" THEN changed ELSE selected]
        /\ UNCHANGED <<dialect, wordy, req, query, docs>>

Delete(c) ==
    /\ pc[c] = "pool" /\ query[c].verb = "DELETE"
    /\ \E S \in IF query[c].one THEN kSubset(Min({1, Cardinality(Selected(c))}), Selected(c)) ELSE {Selected(c)} :
          /\ table' = [i \in DOMAIN table \ S |-> table[i]]
          /\ Settles(c, Tells(c, Cardinality(S), Cardinality(S)))
          /\ touched' = [touched EXCEPT ![c] = Cardinality(S)]
    /\ UNCHANGED <<dialect, wordy, req, query, docs>>

Insert(c) ==
    LET rows == Inserted(dialect, query[c]) IN
    /\ pc[c] = "pool" /\ query[c].verb = "INSERT"
    /\ \E f \in [DOMAIN rows -> Ids \ DOMAIN table] :
          /\ \A n, o \in DOMAIN rows : n # o => f[n] # f[o]
          /\ table' = [i \in DOMAIN table \union {f[n] : n \in DOMAIN rows} |->
                          IF i \in DOMAIN table THEN table[i] ELSE rows[CHOOSE n \in DOMAIN rows : f[n] = i]]
          /\ Settles(c, Tells(c, Cardinality(DOMAIN rows), Cardinality(DOMAIN rows)))
          /\ touched' = [touched EXCEPT ![c] = Cardinality(DOMAIN rows)]
    /\ UNCHANGED <<dialect, wordy, req, query, docs>>

\* The pool is closed, or the connection is gone before the server acts.
Fails(c) == pc[c] = "pool" /\ Raises(c) /\ UNCHANGED <<dialect, wordy, table, req, query, docs, touched>>

Next ==
    \E c \in Calls :
        \/ \E r \in Requests : Ask(c, r)
        \/ Select(c)
        \/ Count(c)
        \/ Update(c)
        \/ Delete(c)
        \/ Insert(c)
        \/ Fails(c)

Spec == Init /\ [][Next]_vars

----------------------------------------------------------------------------
(* Properties.                                                             *)

\* What the filter of a request says of a row, read off the request.
Meant(r, row) ==
    \A i \in DOMAIN r.filter : \A j \in DOMAIN r.filter[i].conds :
        LET op == r.filter[i].conds[j][1]
            val == r.filter[i].conds[j][2]
            v == row[r.filter[i].col]
        IN  IF op = "in" THEN v # Null /\ v \in ToSet(val) ELSE Compares(v, op, val)

Given(d, col) == IF col \in DOMAIN d THEN d[col] ELSE Null

\* The step that ends c keeps to what its request says.
Does(c) ==
    LET r == req[c]
        old == DOMAIN table
        new == DOMAIN table'
    IN  /\ \A i \in old :
              \/ i \in new /\ table'[i] = table[i]
              \/ r.action \in {"update_one", "delete_one", "delete_many"} /\ Meant(r, table[i])
        /\ r.action = "delete_one" => Cardinality(old \ new) <= 1
        /\ r.action = "update_one" =>
              \A i \in old : table'[i] # table[i] =>
                 \A col \in Columns :
                    \/ \E j \in DOMAIN r.update : r.update[j] = <<col, table'[i][col]>>
                    \/ table'[i][col] = table[i][col] /\ \A j \in DOMAIN r.update : r.update[j][1] # col
        /\ \A i \in new \ old : \E j \in DOMAIN r.docs :
              \A col \in Columns :
                 table'[i][col] = IF col \in DOMAIN r.docs[1] THEN Given(r.docs[j], col) ELSE Null
        /\ r.action = "find" => \A row \in docs'[c] : Meant(r, row)

\* translate_base.py:8-15 and :272-275: each value ends up in its own place, under
\* numbered and under positional placeholders.  Whatever statements run between the
\* translation and its turn at the server, a request acts on rows of its filter and
\* no others, a delete_one on no more than one; an update leaves each with the
\* values of its own columns, and an insert adds a row for each document.
DoesWhatItSays == [][\A c \in Calls : pc[c] = "pool" /\ pc'[c] = "done" => Does(c)]_vars

\* plugin.py:140-143 of PostgreSQL: the count the caller is told is the number of
\* rows its statement found, added, removed or changed, and a refused request
\* touched none.  Under PostgreSQL a DELETE with "returning" in the name of its table
\* or of a column of its filter is told 0.
CountsAreTrue ==
    \A c \in Calls :
        /\ answer[c].status = "refused" => touched[c] = 0
        /\ answer[c].status = "ok" =>
              \/ answer[c].n = touched[c]
              \/ dialect = "postgres" /\ Says(c) /\ req[c].action \in {"delete_one", "delete_many"}

\* core/registry/adapter.py:124-132 answers an update_one with the MongoDB-style
\* "matched" and "modified", which never exceed one there.
UpdateOneIsSingle ==
    [][\A c \in Calls :
          req[c].action = "update_one" =>
              Cardinality({i \in DOMAIN table \intersect DOMAIN table' : table[i] # table'[i]}) <= 1]_vars

=============================================================================
