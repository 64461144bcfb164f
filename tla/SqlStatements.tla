---------------------------- MODULE SqlStatements ----------------------------
(***************************************************************************)
(* A request put into SQL: plugins/sql/validate_base.py, the translator of *)
(* plugins/sql/translate_base.py under its two dialects, and the values a  *)
(* driver puts in the places of the text.                                  *)
(*                                                                         *)
(* A request is [action, filter, update, docs, limit, skip].  Its filter   *)
(* is a sequence of [col, conds], conds the <<op, value>> pairs of the     *)
(* condition; {col: value} has the one pair <<"=", value>>, {col: {}} has  *)
(* none.  update is a sequence of <<col, value>>, docs one of functions    *)
(* from columns to values.  A statement is [verb, one, clauses, args]: the *)
(* clauses [at, col, op, marks] in the order of the text, marks their      *)
(* placeholders, and args the positional arguments, each a sequence.       *)
(***************************************************************************)
EXTENDS Integers, Sequences, SequencesExt

CONSTANTS
    Columns,      \* of the table; all are identifiers
    Null

Dialects == {"postgres", "mysql"}

\* _OPERATORS, with bare equality and $in.
Operators == {"=", ">", ">=", "<", "<=", "!=", "in"}

\* The first n of some sequences, one behind the other.
Concat(seqs, n) ==
    LET upTo[k \in 0 .. Len(seqs)] == IF k = 0 THEN <<>> ELSE upTo[k - 1] \o seqs[k]
    IN  upTo[n]

Flat(seqs) == Concat(seqs, Len(seqs))

ColumnsOf(d) == SetToSeq(DOMAIN d)

----------------------------------------------------------------------------
(* Clauses.                                                                *)

\* What the counter is given, in that order: a clause and its values.
Part(at, col, op, vals) == [at |-> at, col |-> col, op |-> op, vals |-> vals]

\* $in binds one array under PostgreSQL, one value per element under MySQL.
InValues(dialect, val) == IF dialect = "postgres" THEN <<val>> ELSE [i \in DOMAIN val |-> <<val[i]>>]

\* _build_where(): the conditions of all columns, ANDed.
Where(dialect, filter) ==
    Flat([i \in DOMAIN filter |->
             [j \in DOMAIN filter[i].conds |->
                 LET c == filter[i].conds[j] IN
                 Part("where", filter[i].col, c[1], IF c[1] = "in" THEN InValues(dialect, c[2]) ELSE <<<<c[2]>>>>)]])

Sets(update) == [i \in DOMAIN update |-> Part("set", update[i][1], "=", <<<<update[i][2]>>>>)]

\* Every row takes the columns of the first document, NULL where it has none.
Rows(docs) ==
    LET cols == ColumnsOf(docs[1]) IN
    Flat([i \in DOMAIN docs |->
             [j \in DOMAIN cols |->
                 Part("row", cols[j], i,
                      <<<<IF cols[j] \in DOMAIN docs[i] THEN docs[i][cols[j]] ELSE Null>>>>)]])

\* The places of the text a clause can stand at, first to last.
Order == <<"set", "row", "where", "limit", "offset">>

Values(parts) == [i \in DOMAIN parts |-> parts[i].vals]

\* The counter numbers the values as it is given them.
Numbered(parts) ==
    [i \in DOMAIN parts |->
        LET before == Len(Concat(Values(parts), i - 1)) IN
        [at |-> parts[i].at, col |-> parts[i].col, op |-> parts[i].op,
         marks |-> [j \in DOMAIN parts[i].vals |-> before + j]]]

Placed(clauses, place) ==
    Flat([i \in DOMAIN clauses |-> IF clauses[i].at = place THEN <<clauses[i]>> ELSE <<>>])

\* The text is put together place by place.
Text(clauses) == Flat([k \in DOMAIN Order |-> Placed(clauses, Order[k])])

Statement(verb, one, parts) ==
    [verb |-> verb, one |-> one, args |-> Flat(Values(parts)), clauses |-> Text(Numbered(parts))]

----------------------------------------------------------------------------
(* The translator.                                                         *)

\* Mutant: the values of WHERE are handed to the counter before those of SET.
UpdateParts_WhereFirst(dialect, r) == Where(dialect, r.filter) \o Sets(r.update)

UpdateParts(dialect, r) == Sets(r.update) \o Where(dialect, r.filter)

Bounds(r) == <<Part("limit", "", "", <<<<r.limit>>>>), Part("offset", "", "", <<<<r.skip>>>>)>>

\* validate_request() and the places where the translator raises.
Translatable(dialect, r) ==
    /\ \A i \in DOMAIN r.filter :
          /\ r.filter[i].col \in Columns
          /\ \A j \in DOMAIN r.filter[i].conds :
                LET c == r.filter[i].conds[j] IN
                c[1] \in Operators /\ (c[1] = "in" /\ dialect = "mysql" => c[2] # <<>>)
    /\ \A i \in DOMAIN r.update : r.update[i][1] \in Columns
    /\ \A i \in DOMAIN r.docs : DOMAIN r.docs[i] \subseteq Columns
    /\ r.action \in {"insert_one", "insert_many"} => r.docs # <<>> /\ DOMAIN r.docs[1] # {}
    /\ r.action = "update_one" => r.update # <<>>
    /\ r.action = "delete_one" => Where(dialect, r.filter) # <<>>
    /\ r.action # "update_many"

\* A ctid subquery with LIMIT 1, or LIMIT 1.
Single(r) == r.action = "delete_one"

\* translate(): a WRITE_ONE without documents is an UPDATE.
Translated(dialect, r) ==
    LET where == Where(dialect, r.filter) IN
    IF r.action = "find" THEN Statement("SELECT", FALSE, where \o Bounds(r))
    ELSE IF r.action = "count" THEN Statement("COUNT", FALSE, where)
    ELSE IF r.action = "insert_one" THEN Statement("INSERT", FALSE, Rows(<<r.docs[1]>>))
    ELSE IF r.action = "insert_many" THEN Statement("INSERT", FALSE, Rows(r.docs))
    ELSE IF r.action = "update_one" THEN Statement("UPDATE", FALSE, UpdateParts(dialect, r))
    ELSE Statement("DELETE", Single(r), where)

----------------------------------------------------------------------------
(* The driver and the server.                                              *)

\* $n takes the n-th argument; the n-th %s of the text takes the n-th argument.
Bound(dialect, st, i) ==
    LET marks == [j \in DOMAIN st.clauses |-> st.clauses[j].marks]
        before == Len(Concat(marks, i - 1))
    IN  [j \in DOMAIN marks[i] |->
            st.args[IF dialect = "postgres" THEN marks[i][j] ELSE before + j]]

\* Comparison with NULL is never true.
Compares(v, op, w) ==
    /\ v # Null /\ w # Null
    /\ \/ op = "="  /\ v = w
       \/ op = "!=" /\ v # w
       \/ op = ">"  /\ v > w
       \/ op = ">=" /\ v >= w
       \/ op = "<"  /\ v < w
       \/ op = "<=" /\ v <= w

\* v = ANY(array), v IN (list) or a comparison, by the values bound to it.
Meets(v, op, vals) ==
    IF op = "in" THEN \E j \in DOMAIN vals : \E k \in DOMAIN vals[j] : Compares(v, "=", vals[j][k])
    ELSE Compares(v, op, vals[1][1])

At(st, place) == {i \in DOMAIN st.clauses : st.clauses[i].at = place}

Selects(dialect, st, row) ==
    \A i \in At(st, "where") : Meets(row[st.clauses[i].col], st.clauses[i].op, Bound(dialect, st, i))

Assigned(dialect, st, row) ==
    [col \in Columns |->
        LET set == {i \in At(st, "set") : st.clauses[i].col = col} IN
        IF set = {} THEN row[col] ELSE Bound(dialect, st, CHOOSE i \in set : TRUE)[1][1]]

\* The rows an INSERT adds.
Inserted(dialect, st) ==
    LET rows == {st.clauses[i].op : i \in At(st, "row")} IN
    [n \in rows |->
        [col \in Columns |->
            LET own == {i \in At(st, "row") : st.clauses[i].op = n /\ st.clauses[i].col = col} IN
            IF own = {} THEN Null ELSE Bound(dialect, st, CHOOSE i \in own : TRUE)[1][1]]]

=============================================================================
