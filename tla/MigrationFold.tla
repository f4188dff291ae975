---------------------------- MODULE MigrationFold ----------------------------
(* The replay of a migration directory into one chunk per table (internal/sql: *)
(* fold.go, migrations.go, the statement parsers and renderers), beside the    *)
(* database the same migrations would build.  A statement is the words of its  *)
(* head and the comma-separated items of its body, comments and quoting gone,  *)
(* names in one case.                                                         *)
EXTENDS Naturals, Sequences, FiniteSets, SequencesExt, FiniteSetsExt

CONSTANTS Tables, Columns,   \* names the migrations may use
          Schemes,           \* ways to name files: seqs of [pattern, rank], in
                             \* the order applied; rank is that of sort.Strings
          MaxStatements      \* bound of the history

VARIABLES
  scheme,   \* how the directory names its files
  files,    \* what is in each: sequences of statements, in the order applied
  real,     \* the database: table -> [cols, cons, indexes]
  beyond,   \* history: the statements out of the documented scope
  renamed,  \* history: names tables were renamed to
  gone,     \* history: names that were given up
  reused,   \* history: a given-up name was created again
  phase,    \* "write", "fold", "done"
  todo,     \* <<file, statement>> still to consume
  unread,   \* history: a file could not be read
  state     \* foldState

database == <<scheme, files, real, beyond, renamed, gone, reused>>
vars == <<database, phase, todo, unread, state>>

NewFoldState == [tables |-> <<>>, stdIndexes |-> <<>>, views |-> <<>>, leftovers |-> <<>>]

Init ==
  /\ scheme \in Schemes
  /\ files = <<>> /\ real = <<>>
  /\ beyond = {} /\ renamed = {} /\ gone = {} /\ reused = FALSE
  /\ phase = "write" /\ todo = <<>> /\ unread = FALSE /\ state = NewFoldState

-----------------------------------------------------------------------------
(* Parsing: what each statement parser reads, or that it gives up.             *)
CreateModifiers == {"OR", "REPLACE", "UNIQUE", "MATERIALIZED", "TEMP", "TEMPORARY", "GLOBAL", "LOCAL"}
ConstraintKeywords == {"CONSTRAINT", "PRIMARY", "FOREIGN", "UNIQUE", "CHECK", "LIKE", "EXCLUDE"}

\* The words from i on start with the phrase; the place after it if they do.
At(w, i, phrase) == i + Len(phrase) - 1 <= Len(w) /\ SubSeq(w, i, i + Len(phrase) - 1) = phrase
Past(w, i, phrase) == IF At(w, i, phrase) THEN i + Len(phrase) ELSE i
PastAny(w, i, words) == Min({j \in i..Len(w) + 1 : j = Len(w) + 1 \/ w[j] \notin words})
From(w, i) == SubSeq(w, i, Len(w))

\* classifyStatement.
Kind(s) ==
  LET i == PastAny(s.head, 2, CreateModifiers)
  IN CASE At(s.head, 1, <<"ALTER", "TABLE">>) -> "alter"
       [] At(s.head, 1, <<"CREATE">>) /\ At(s.head, i, <<"TABLE">>) -> "table"
       [] At(s.head, 1, <<"CREATE">>) /\ At(s.head, i, <<"INDEX">>) -> "index"
       [] At(s.head, 1, <<"CREATE">>) /\ At(s.head, i, <<"VIEW">>) -> "view"
       [] OTHER -> "unknown"

\* splitTableInner.
ColumnsOf(items) ==
  LET cols == SelectSeq(items, LAMBDA it : it[1] \notin ConstraintKeywords)
  IN [i \in 1..Len(cols) |-> [name |-> cols[i][1], rest |-> Tail(cols[i])]]
ConstraintsOf(items) == SelectSeq(items, LAMBDA it : it[1] \in ConstraintKeywords)

\* parseCreateTable: OR REPLACE is not a table modifier, so it gives up there.
TableAt(s) ==
  LET i == PastAny(s.head, 2, {"TEMP", "TEMPORARY", "UNLOGGED", "GLOBAL", "LOCAL"})
  IN IF At(s.head, i, <<"TABLE">>) /\ s.closed
       THEN Past(s.head, i + 1, <<"IF", "NOT", "EXISTS">>) ELSE 0
\* parseCreateIndex.
IndexAt(s) ==
  LET i == Past(s.head, Past(s.head, Past(s.head, 2, <<"UNIQUE">>), <<"INDEX">>),
                <<"IF", "NOT", "EXISTS">>)
  IN IF At(s.head, i + 1, <<"ON">>) /\ s.closed THEN i ELSE 0
\* parseCreateView, at the word where the name is.
ViewAt(s) ==
  LET i == PastAny(s.head, 2, {"OR", "REPLACE", "MATERIALIZED", "TEMP", "TEMPORARY", "RECURSIVE"})
  IN IF At(s.head, i, <<"VIEW">>) /\ At(s.head, Len(s.head), <<"AS">>)
       THEN Past(s.head, i + 1, <<"IF", "NOT", "EXISTS">>) ELSE 0
\* parseAlterTable.
AlterAt(s) == Past(s.head, Past(s.head, 3, <<"ONLY">>), <<"IF", "EXISTS">>)

-----------------------------------------------------------------------------
(* Replaying one ALTER action on one table: the new table, and whether it      *)
(* could be applied.                                                           *)
Ok(t) == [ok |-> TRUE, table |-> t]
Not(t) == [ok |-> FALSE, table |-> t]

FindColumn(t, c) == {i \in 1..Len(t.columns) : t.columns[i].name = c}
IsNamed(con, name) == At(con, 1, <<"CONSTRAINT", name>>)

\* renameInFirstParens: nothing after the first closing parenthesis changes.
RenameInFirstParens(con, old, new) ==
  LET open == {i \in 1..Len(con) : con[i] = "("}
      close == {i \in 1..Len(con) : con[i] = ")"}
  IN IF open = {} \/ close = {} THEN con
     ELSE [i \in 1..Len(con) |->
             IF Min(open) < i /\ i < Min(close) /\ con[i] = old THEN new ELSE con[i]]

ApplyColumnRename_ColumnOnly(t, old, new) ==    \* mutant: constraints keep the name
  IF FindColumn(t, old) = {} THEN Not(t)
  ELSE Ok([t EXCEPT !.columns[Min(FindColumn(t, old))].name = new])
ApplyColumnRename(t, old, new) ==
  IF FindColumn(t, old) = {} THEN Not(t)
  ELSE Ok([t EXCEPT !.columns[Min(FindColumn(t, old))].name = new,
                    !.constraints = [i \in 1..Len(@) |-> RenameInFirstParens(@[i], old, new)]])
ApplyConstraintRename(t, old, new) ==
  LET at == {i \in 1..Len(t.constraints) : IsNamed(t.constraints[i], old)}
  IN IF at = {} THEN Not(t)
     ELSE Ok([t EXCEPT !.constraints[Min(at)] = <<"CONSTRAINT", new>> \o From(@, 3)])

\* RENAME TO is out of scope: the table keeps its name.
ApplyRename(t, a) ==
  CASE At(a, 2, <<"COLUMN">>) /\ Len(a) >= 5 /\ a[4] = "TO" -> ApplyColumnRename(t, a[3], a[5])
    [] At(a, 2, <<"CONSTRAINT">>) /\ Len(a) >= 5 /\ a[4] = "TO" ->
         ApplyConstraintRename(t, a[3], a[5])
    [] OTHER -> Not(t)

\* A column that is there already is not added again, whatever its new type.
ApplyAdd(t, a) ==
  LET i == Past(a, 3, <<"IF", "NOT", "EXISTS">>)
  IN CASE At(a, 2, <<"COLUMN">>) /\ i <= Len(a) ->
            IF FindColumn(t, a[i]) # {} THEN Ok(t)
            ELSE Ok([t EXCEPT !.columns = Append(@, [name |-> a[i], rest |-> From(a, i + 1)])])
       [] Len(a) >= 2 /\ a[2] \in ConstraintKeywords ->
            Ok([t EXCEPT !.constraints = Append(@, From(a, 2))])
       [] OTHER -> Not(t)

ApplyDrop(t, a) ==
  LET i == Past(a, 3, <<"IF", "EXISTS">>)
  IN CASE At(a, 2, <<"COLUMN">>) /\ i <= Len(a) ->
            IF FindColumn(t, a[i]) = {} THEN Not(t)
            ELSE Ok([t EXCEPT !.columns = RemoveAt(@, Min(FindColumn(t, a[i])))])
       [] At(a, 2, <<"CONSTRAINT">>) /\ i <= Len(a) ->
            IF \E c \in ToSet(t.constraints) : IsNamed(c, a[i])
              THEN Ok([t EXCEPT !.constraints = SelectSeq(@, LAMBDA c : ~IsNamed(c, a[i]))])
              ELSE Not(t)
       [] OTHER -> Not(t)

\* Only TYPE and SET DATA TYPE; they replace the rest of the column, its
\* defaults and NOT NULL included.
ApplyAlterColumn(t, a) ==
  LET i == IF At(a, 4, <<"TYPE">>) THEN 5 ELSE Past(a, 4, <<"SET", "DATA", "TYPE">>)
  IN IF ~At(a, 2, <<"COLUMN">>) \/ Len(a) < 4 \/ FindColumn(t, a[3]) = {} \/ i = 4 \/ i > Len(a)
       THEN Not(t)
       ELSE Ok([t EXCEPT !.columns[Min(FindColumn(t, a[3]))].rest = From(a, i)])

ApplyOneAction(t, a) ==
  CASE a = <<>> -> Ok(t)
    [] At(a, 1, <<"ADD">>) -> ApplyAdd(t, a)
    [] At(a, 1, <<"DROP">>) -> ApplyDrop(t, a)
    [] At(a, 1, <<"ALTER">>) -> ApplyAlterColumn(t, a)
    [] At(a, 1, <<"RENAME">>) -> ApplyRename(t, a)
    [] OTHER -> Not(t)

\* applyAlter: an action that fails does not undo the ones before it, nor stop
\* the ones after it; one failure keeps the whole statement.
ApplyActions(t, actions) ==
  FoldLeft(LAMBDA r, a : LET n == ApplyOneAction(r.table, a)
                         IN [ok |-> r.ok /\ n.ok, table |-> n.table], Ok(t), actions)

-----------------------------------------------------------------------------
(* FoldMigrations: the dominant pattern, the order, one statement at a time.   *)
Patterns == {scheme[i].pattern : i \in 1..Len(files)}
Count(p) == Cardinality({i \in 1..Len(files) : scheme[i].pattern = p})
IsMigrationDir == \E p \in Patterns : Count(p) >= 2
Dominant == Min({p \in Patterns : \A q \in Patterns : Count(q) <= Count(p)})

Ordered ==
  SetToSortSeq({i \in 1..Len(files) : scheme[i].pattern = Dominant},
               LAMBDA i, j : scheme[i].rank < scheme[j].rank)

StartFold ==
  /\ phase = "write" /\ IsMigrationDir
  /\ phase' = "fold"
  /\ todo' = FlattenSeq([i \in 1..Len(Ordered) |->
               [j \in 1..Len(files[Ordered[i]]) |-> <<Ordered[i], files[Ordered[i]][j]>>]])
  /\ UNCHANGED <<database, unread, state>>

\* A file that cannot be read is logged and passed over.
SkipUnreadable ==
  /\ phase = "fold" /\ todo # <<>> /\ state = NewFoldState
  /\ todo' = SelectSeq(todo, LAMBDA x : x[1] # todo[1][1])
  /\ unread' = TRUE
  /\ UNCHANGED <<database, phase, state>>

Consume(kind) ==
  /\ phase = "fold" /\ todo # <<>> /\ Kind(todo[1][2]) = kind
  /\ todo' = Tail(todo)
  /\ UNCHANGED <<database, phase, unread>>

TableIndex(name) == {i \in 1..Len(state.tables) : state.tables[i].name = name}

\* The first definition of a name wins.
ConsumeCreateTable ==
  /\ Consume("table")
  /\ LET s == todo[1][2]
         i == TableAt(s)
     IN IF i = 0 \/ TableIndex(s.head[i]) # {} THEN UNCHANGED state
        ELSE state' = [state EXCEPT !.tables =
               Append(@, [name |-> s.head[i], columns |-> ColumnsOf(s.items),
                          constraints |-> ConstraintsOf(s.items), indexes |-> <<>>])]

ConsumeAlter ==
  /\ Consume("alter")
  /\ LET s == todo[1][2]
         at == TableIndex(s.head[AlterAt(s)])
     IN IF at = {} THEN state' = [state EXCEPT !.leftovers = Append(@, s)]
        ELSE LET r == ApplyActions(state.tables[Min(at)], s.items)
             IN state' = [state EXCEPT !.tables[Min(at)] = r.table,
                                       !.leftovers = IF r.ok THEN @ ELSE Append(@, s)]

ConsumeCreateIndex ==
  /\ Consume("index")
  /\ LET s == todo[1][2]
         i == IndexAt(s)
     IN IF i = 0 THEN UNCHANGED state
        ELSE LET at == TableIndex(s.head[i + 2])
             IN state' = IF at = {} THEN [state EXCEPT !.stdIndexes = Append(@, s)]
                         ELSE [state EXCEPT !.tables[Min(at)].indexes = Append(@, s.head[i])]

ConsumeCreateView ==
  /\ Consume("view")
  /\ IF ViewAt(todo[1][2]) = 0 THEN UNCHANGED state
     ELSE state' = [state EXCEPT !.views = Append(@, todo[1][2].head[ViewAt(todo[1][2])])]

\* DROP TABLE, DROP INDEX and everything else.
ConsumeUnknown == Consume("unknown") /\ UNCHANGED state

Render ==
  /\ phase = "fold" /\ todo = <<>>
  /\ phase' = "done"
  /\ UNCHANGED <<database, todo, unread, state>>

-----------------------------------------------------------------------------
(* The migrations a strict database accepts, and what they make of it.         *)
Stmt(head, items) == [head |-> head, items |-> items, closed |-> TRUE]
Alter(t, actions) == Stmt(<<"ALTER", "TABLE", t>>, actions)
With(t, table) == (t :> table) @@ real

HasColumn(t, c) == \E col \in ToSet(real[t].cols) : col.name = c
Used(t, c) == \E con \in real[t].cons : c = con.col
Renumber(cols, old, new) ==
  [i \in 1..Len(cols) |-> IF cols[i].name = old THEN [cols[i] EXCEPT !.name = new] ELSE cols[i]]

\* Each is <<statement, the database after it>>.
Creations ==
  {<<Stmt(<<"CREATE", "TABLE", "IF", "NOT", "EXISTS", t>>, <<<<c, "int">>>> \o con),
     IF t \in DOMAIN real THEN real
     ELSE With(t, [cols |-> <<[name |-> c, rest |-> <<"int">>]>>, indexes |-> {},
                   cons |-> IF con = <<>> THEN {} ELSE {[name |-> "k", col |-> c]}])>> :
     t \in Tables, c \in {CHOOSE c \in Columns : TRUE},
     con \in {<<>>, <<<<"CONSTRAINT", "k", "UNIQUE", "(", CHOOSE d \in Columns : TRUE, ")">>>>}}

Changes(t) ==
  LET r == real[t] IN
    {<<Alter(t, <<<<"ADD", "COLUMN", c, "text">>>>),
       With(t, [r EXCEPT !.cols = Append(@, [name |-> c, rest |-> <<"text">>])])>> :
       c \in {d \in Columns : ~HasColumn(t, d)}}
    \cup
    {<<Alter(t, <<<<"DROP", "COLUMN", "IF", "EXISTS", c>>>>),
       With(t, [r EXCEPT !.cols = SelectSeq(@, LAMBDA col : col.name # c)])>> :
       c \in {d \in Columns : HasColumn(t, d) /\ ~Used(t, d) /\ Len(r.cols) > 1}}
    \cup
    {<<Alter(t, <<<<"RENAME", "COLUMN", p[1], "TO", p[2]>>>>),
       With(t, [r EXCEPT !.cols = Renumber(@, p[1], p[2]),
                         !.cons = {IF con.col = p[1] THEN [con EXCEPT !.col = p[2]] ELSE con :
                                     con \in @}])>> :
       p \in {q \in Columns \X Columns : HasColumn(t, q[1]) /\ ~HasColumn(t, q[2])}}
    \cup
    {<<Alter(t, <<<<"ALTER", "COLUMN", c, "SET", "NOT", "NULL">>,
                  <<"ALTER", "COLUMN", c, "TYPE", "uuid">>>>),
       With(t, [r EXCEPT !.cols =
         [i \in 1..Len(@) |-> IF @[i].name = c THEN [@[i] EXCEPT !.rest = <<"uuid">>] ELSE @[i]]])>> :
       c \in {d \in Columns : HasColumn(t, d)}}
    \cup
    {<<Alter(t, <<<<"RENAME", "CONSTRAINT", "k", "TO", "l">>>>),
       With(t, [r EXCEPT !.cons = {[con EXCEPT !.name = "l"] : con \in @}])>> :
       x \in {1 : con \in {d \in r.cons : d.name = "k"}}}
    \cup
    {<<Alter(t, <<<<"DROP", "CONSTRAINT", con.name>>>>),
       With(t, [r EXCEPT !.cons = @ \ {con}])>> : con \in r.cons}
    \cup
    {<<Stmt(<<"CREATE", "UNIQUE", "INDEX", "i", "ON", t>>, <<>>),
       With(t, [r EXCEPT !.indexes = @ \cup {"i"}])>> : x \in {1 : i \in {"i"} \ r.indexes}}

Removals(t) ==
  {<<Stmt(<<"DROP", "TABLE", t>>, <<>>), [u \in DOMAIN real \ {t} |-> real[u]]>>}
  \cup
  {<<Alter(t, <<<<"RENAME", "TO", u>>>>),
     (u :> real[t]) @@ [v \in DOMAIN real \ {t} |-> real[v]]>> : u \in Tables \ DOMAIN real}

Views == {<<Stmt(<<"CREATE", "OR", "REPLACE", "VIEW", "v", "AS">>, <<>>), real>>}

TableNamed(s) == s.head[Len(s.head)]
InScope(s) ==
  /\ TableNamed(s) \notin renamed
  /\ \A a \in ToSet(s.items) : ~(At(a, 2, <<"TO">>) \/ At(a, 4, <<"SET", "NOT">>))

\* A migration is the next file, or one more statement of the last.
Migrate(changes) ==
  /\ phase = "write"
  /\ FoldLeft(LAMBDA n, f : n + Len(f), 0, files) < MaxStatements
  /\ \E m \in changes :
       /\ real' = m[2]
       /\ beyond' = IF Kind(m[1]) = "alter" /\ ~InScope(m[1]) THEN beyond \cup {m[1]} ELSE beyond
       /\ gone' = gone \cup (DOMAIN real \ DOMAIN m[2])
       /\ renamed' = renamed \cup (IF Kind(m[1]) = "alter" THEN DOMAIN m[2] \ DOMAIN real ELSE {})
       /\ reused' = (\/ reused \/ (DOMAIN m[2] \ DOMAIN real) \cap gone # {}
                     \/ (Kind(m[1]) = "table" /\ TableNamed(m[1]) \in renamed))
       /\ files' = IF Len(files) < Len(scheme) THEN Append(files, <<m[1]>>)
                   ELSE [files EXCEPT ![Len(files)] = Append(@, m[1])]
  /\ UNCHANGED scheme
  /\ UNCHANGED <<phase, todo, unread, state>>

Next ==
  \/ Migrate(Creations)
  \/ \E t \in DOMAIN real : Migrate(Changes(t)) \/ Migrate(Removals(t))
  \/ Migrate(Views)
  \/ StartFold \/ SkipUnreadable
  \/ ConsumeCreateTable \/ ConsumeAlter \/ ConsumeCreateIndex \/ ConsumeCreateView
  \/ ConsumeUnknown \/ Render

Spec == Init /\ [][Next]_vars

-----------------------------------------------------------------------------
\* Every file read, in the order applied, and no name given to a second table.
Orderly ==
  /\ ~unread /\ ~reused
  /\ Cardinality(Patterns) = 1
  /\ \A i, j \in 1..Len(files) : i < j => scheme[i].rank < scheme[j].rank

\* The folded table reads as the table of the database does.
Shows(t, r) ==
  /\ t.columns = r.cols
  /\ {[name |-> c[2], col |-> c[5]] : c \in ToSet(t.constraints)} = r.cons
  /\ ToSet(t.indexes) = r.indexes

(* When the fold is done, every table of the database that kept its name is    *)
(* folded with the columns, types, constraints and indexes the migrations left *)
(* it with, and the statements kept beside the tables are exactly the ALTERs   *)
(* the replay does not cover (those of a renamed table included): nothing the  *)
(* replay skipped is lost, nothing it applied is shown twice.  It fails once   *)
(* files sort otherwise than they are applied (V10 before V2), files of two    *)
(* patterns mix, or a dropped or renamed name is created again.                *)
FoldIsReplay ==
  (phase = "done" /\ Orderly) =>
    /\ \A t \in DOMAIN real \ renamed :
         \E i \in TableIndex(t) : Shows(state.tables[i], real[t])
    /\ ToSet(state.leftovers) = beyond
=============================================================================
