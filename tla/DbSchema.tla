------------------------------- MODULE DbSchema ------------------------------
(* Reading a database's schema into chunks (internal/db: db.go, introspect.go, *)
(* mysql.go, sqlite.go, sample.go, filter.go, emit.go).  One reading is a      *)
(* sequence of catalog queries on one connection, outside any transaction: the *)
(* schema may change between two of them, and any of them may fail.            *)
EXTENDS Naturals, Sequences, FiniteSets, SequencesExt, FiniteSetsExt

CONSTANTS Catalogs,  \* the schemas a database may have, each with its engine
          Filters,   \* the operator's lists: [include, exclude]
          Workers    \* sampleWorkers

\* A catalog: tables [schema, name, cols, pk (a set)], keys (PRIMARY KEY and UNIQUE)
\* [schema, table, cols, type], fks [name, schema, table, cols, refSchema,
\* refTable, refCols], indexes [schema, table, name], views and routines
\* [schema, name].  In SQLite every schema is "", and refCols may be <<>>.
SystemSchemas == [postgres |-> {"pg_catalog", "information_schema"},
                  mysql |-> {"information_schema", "mysql", "performance_schema", "sys"},
                  sqlite |-> {}]

VARIABLES
  db,       \* the database's catalog
  filter,   \* opts.IncludeSchemas and ExcludeSchemas
  step,     \* the queries still to run
  snap,     \* schemaSnapshot under construction
  sampling, \* tables being sampled
  result,   \* "none", "error", or the set of chunks
  changed,  \* history: DDL ran during the reading
  warned    \* history: a failed query was passed over

vars == <<db, filter, step, snap, sampling, result, changed, warned>>

\* What an engine lets a catalog be: a key's columns are the table's, and each is
\* paired with one it refers to.
CatalogsAssumption == \A d \in Catalogs :
  /\ d.engine \in {"postgres", "mysql", "sqlite"}
  /\ \A t \in d.tables :
       /\ t.cols \in Seq(ToSet(t.cols)) /\ t.pk \subseteq ToSet(t.cols)
       /\ \A u \in d.tables : <<u.schema, u.name>> = <<t.schema, t.name>> => u = t
       /\ IF d.engine = "sqlite" THEN t.schema = ""
          ELSE t.pk = UNION {key.cols : key \in {h \in d.keys :
                        h.type = "PRIMARY KEY" /\ <<h.schema, h.table>> = <<t.schema, t.name>>}}
  /\ \A f \in d.fks :
       /\ f.cols \in Seq(ToSet(f.cols)) /\ f.refCols \in Seq(ToSet(f.refCols))
       /\ \A i, j \in DOMAIN f.cols : f.cols[i] = f.cols[j] => i = j
       /\ \A t \in d.tables :
            <<f.schema, f.table>> = <<t.schema, t.name>> => ToSet(f.cols) \subseteq ToSet(t.cols)
       /\ IF d.engine = "sqlite"
            THEN f.schema = "" /\ f.refSchema = "" /\ Len(f.refCols) \in {0, Len(f.cols)}
            ELSE Len(f.refCols) = Len(f.cols)

Steps == [postgres |-> <<"tables", "constraints", "indexes", "references", "views", "routines", "samples">>,
          mysql |-> <<"tables", "constraints", "indexes", "references", "views", "routines", "samples">>,
          sqlite |-> <<"tables", "columns", "links", "views", "samples">>]
Empty == [tables |-> <<>>, views |-> {}, routines |-> {}]

Init ==
  /\ db \in Catalogs /\ filter \in Filters
  /\ step = Steps[db.engine] /\ snap = Empty /\ sampling = {}
  /\ result = "none" /\ changed = FALSE /\ warned = FALSE

-----------------------------------------------------------------------------
\* filterSchema: the engine's own schemas never, then the allow-list alone,
\* then the deny-list.
FilterSchema(s) ==
  /\ s \notin SystemSchemas[db.engine]
  /\ IF filter.include # {} THEN s \in filter.include ELSE s \notin filter.exclude

At(name) == result = "none" /\ step # <<>> /\ step[1] = name /\ step' = Tail(step)
Reading == UNCHANGED <<db, filter, sampling, result, changed, warned>>
Known(s, t) == <<s, t>> \in DOMAIN snap.tables

Column(c, pk) == [name |-> c, pk |-> pk, unique |-> FALSE, fk |-> {}]
Table(columns) == [columns |-> columns, indexes |-> {}, refs |-> {}, samples |-> "none"]

\* queryTablesAndColumns, mysqlListTablesAndColumns.  SQLite filters nothing
\* (it has one schema), and reads the columns later, table by table.
ListTables ==
  /\ At("tables")
  /\ snap' = [snap EXCEPT !.tables =
       [k \in {<<t.schema, t.name>> : t \in {u \in db.tables : db.engine = "sqlite" \/ FilterSchema(u.schema)}} |->
          LET t == CHOOSE u \in db.tables : <<u.schema, u.name>> = k
          IN Table(IF db.engine = "sqlite" THEN <<>>
                   ELSE [i \in DOMAIN t.cols |-> Column(t.cols[i], FALSE)])]]
  /\ Reading

\* The catalog rows of a table's PRIMARY KEY or UNIQUE constraints.
Marked(k, c, type) ==
  \E key \in db.keys : key.type = type /\ <<key.schema, key.table>> = k /\ c \in key.cols

\* PostgreSQL pairs a key's columns with the referenced ones by the name of the
\* constraint alone: of the rows for a column the last one read stays, so all
\* of them are possible.
PgTargets(k, c) ==
  UNION {{<<f.refSchema, f.refTable, rc>> : rc \in ToSet(f.refCols)} :
           f \in {r \in db.fks : \E g, h \in db.fks :
                    /\ <<g.schema, g.table>> = k /\ c \in ToSet(h.cols)
                    /\ {<<f.schema, f.name>> : f \in {g, h}} = {<<r.schema, r.name>>}}}

\* MySQL's rows name the referenced column themselves.
MySQLTargets(k, c) ==
  UNION {{<<f.refSchema, f.refTable, f.refCols[i]>> : i \in {j \in 1..Len(f.cols) : f.cols[j] = c}} :
           f \in {g \in db.fks : <<g.schema, g.table>> = k /\ FilterSchema(g.schema)}}

Targets(k, c) == IF db.engine = "postgres" THEN PgTargets(k, c) ELSE MySQLTargets(k, c)

Annotated(k, col) ==
  [col EXCEPT !.pk = Marked(k, col.name, "PRIMARY KEY"),
              !.unique = Marked(k, col.name, "UNIQUE"),
              !.fk = Targets(k, col.name)]
AnnotatedColumns(k) ==
  [i \in DOMAIN snap.tables[k].columns |-> Annotated(k, snap.tables[k].columns[i])]

\* annotateConstraints: two queries, over the tables found before.
AnnotateConstraints ==
  /\ At("constraints")
  /\ snap' = [snap EXCEPT !.tables = [k \in DOMAIN @ |->
       [@[k] EXCEPT !.columns = AnnotatedColumns(k)]]]
  /\ Reading

Indexed(k) == {i.name : i \in {j \in db.indexes : <<j.schema, j.table>> = k}}
AnnotateIndexes ==
  /\ At("indexes")
  /\ snap' = [snap EXCEPT !.tables = [k \in DOMAIN @ |-> [@[k] EXCEPT !.indexes = Indexed(k)]]]
  /\ Reading

\* annotateFKReferences: the rows of the filtered schemas are left out.
AllReferring(k) ==
  UNION {{<<f.schema, f.table, c>> : c \in ToSet(f.cols)} :
           f \in {g \in db.fks : <<g.refSchema, g.refTable>> = k}}
AnnotateFKReferences_Unfiltered ==               \* mutant: the from side is not filtered
  /\ At("references")
  /\ snap' = [snap EXCEPT !.tables = [k \in DOMAIN @ |-> [@[k] EXCEPT !.refs = AllReferring(k)]]]
  /\ Reading
AnnotateFKReferences ==
  /\ At("references")
  /\ snap' = [snap EXCEPT !.tables = [k \in DOMAIN @ |->
       [@[k] EXCEPT !.refs = {r \in AllReferring(k) : FilterSchema(r[1])}]]]
  /\ Reading

QueryViews ==
  /\ At("views")
  /\ snap' = [snap EXCEPT !.views = {v \in db.views : db.engine = "sqlite" \/ FilterSchema(v.schema)}]
  /\ Reading
QueryRoutines ==
  /\ At("routines")
  /\ snap' = [snap EXCEPT !.routines = {f \in db.routines : FilterSchema(f.schema)}]
  /\ Reading

\* SQLite, pass 1: columns and indexes of every table; a table that is gone
\* has none.
FilledColumns(k) ==
  LET of == {t \in db.tables : <<t.schema, t.name>> = k}
      t == CHOOSE u \in of : TRUE
  IN IF of = {} THEN <<>> ELSE [i \in DOMAIN t.cols |-> Column(t.cols[i], t.cols[i] \in t.pk)]
SQLiteFillColumns ==
  /\ At("columns")
  /\ snap' = [snap EXCEPT !.tables = [k \in DOMAIN @ |->
       [@[k] EXCEPT !.columns = FilledColumns(k), !.indexes = Indexed(k)]]]
  /\ Reading

\* Pass 2: a key that names no column refers to the first primary-key column
\* of the table that was read, or to rowid.
SQLiteTarget(f, i) ==
  LET columns == IF Known("", f.refTable) THEN snap.tables[<<"", f.refTable>>].columns ELSE <<>>
      pk == {j \in DOMAIN columns : columns[j].pk}
      to == IF f.refCols # <<>> THEN f.refCols[i]
            ELSE IF pk # {} THEN columns[Min(pk)].name ELSE "rowid"
  IN <<"", f.refTable, to>>
Referencing(k, col) ==
  [col EXCEPT !.fk = UNION {{SQLiteTarget(f, i) : i \in {j \in DOMAIN f.cols : f.cols[j] = col.name}} :
                              f \in {g \in db.fks : <<"", g.table>> = k}}]
ReferencingColumns(k) ==
  [i \in DOMAIN snap.tables[k].columns |-> Referencing(k, snap.tables[k].columns[i])]
SQLiteFillForeignKeys ==
  /\ At("links")
  /\ snap' = [snap EXCEPT !.tables = [k \in DOMAIN @ |->
       [@[k] EXCEPT !.columns = ReferencingColumns(k),
                    !.refs = {r \in AllReferring(k) : Known("", r[2])}]]]
  /\ Reading

-----------------------------------------------------------------------------
\* The errgroup of sampling workers, at most Workers at once; in SQLite one
\* table after the other.  A sample that breaks off is dropped by PostgreSQL
\* and kept as far as it got by the others.
SampleStart(k) ==
  /\ result = "none" /\ step = <<"samples">>
  /\ k \in DOMAIN snap.tables /\ snap.tables[k].samples = "none" /\ k \notin sampling
  /\ Cardinality(sampling) < (IF db.engine = "sqlite" THEN 1 ELSE Workers)
  /\ sampling' = sampling \cup {k}
  /\ UNCHANGED <<db, filter, step, snap, result, changed, warned>>
SampleEnd(k) ==
  /\ k \in sampling
  /\ sampling' = sampling \ {k}
  /\ \E got \in IF db.engine = "postgres" THEN {"all", "failed"} ELSE {"all", "failed", "part"} :
       /\ snap' = [snap EXCEPT !.tables[k].samples = got]
       /\ warned' = (warned \/ got # "all")
  /\ UNCHANGED <<db, filter, step, result, changed>>

\* A query that fails ends the reading, but for SQLite's per-table ones, which
\* are warned about and leave what was read.
QueryFails ==
  /\ result = "none" /\ step # <<>> /\ step[1] # "samples"
  /\ IF step[1] \in {"columns", "links"}
       THEN step' = Tail(step) /\ warned' = TRUE /\ UNCHANGED result
       ELSE result' = "error" /\ UNCHANGED <<step, warned>>
  /\ UNCHANGED <<db, filter, snap, sampling, changed>>

\* Render: one chunk per table, view and routine.
Render ==
  /\ result = "none" /\ step = <<"samples">> /\ sampling = {}
  /\ \A k \in DOMAIN snap.tables : snap.tables[k].samples # "none"
  /\ result' = "chunks" /\ step' = <<>>
  /\ UNCHANGED <<db, filter, snap, sampling, changed, warned>>

Ddl ==
  /\ result = "none" /\ step # Steps[db.engine] /\ step # <<"samples">>
  /\ \E other \in Catalogs \ {db} : other.engine = db.engine /\ db' = other
  /\ changed' = TRUE
  /\ UNCHANGED <<filter, step, snap, sampling, result, warned>>

Next ==
  \/ ListTables \/ AnnotateConstraints \/ AnnotateIndexes \/ AnnotateFKReferences
  \/ QueryViews \/ QueryRoutines \/ SQLiteFillColumns \/ SQLiteFillForeignKeys
  \/ \E k \in DOMAIN snap.tables : SampleStart(k) \/ SampleEnd(k)
  \/ QueryFails \/ Render \/ Ddl

Spec == Init /\ [][Next]_vars

-----------------------------------------------------------------------------
Kept(s) == db.engine = "sqlite" \/ FilterSchema(s)
KeptTables == {<<t.schema, t.name>> : t \in {u \in db.tables : Kept(u.schema)}}

\* A column shows one key: it must be in one only.  PostgreSQL's joins confuse
\* keys of several columns, and the keys of the table with those of the schema
\* that have the same name.
Alone(f, c) == \A g \in db.fks \ {f} : <<g.schema, g.table>> = <<f.schema, f.table>> => c \notin ToSet(g.cols)
Simple(f) == /\ Len(f.cols) = 1
             /\ \A g \in {h \in db.fks : <<h.schema, h.table>> = <<f.schema, f.table>>} :
                  \A h \in db.fks \ {g} : <<h.schema, h.name>> # <<g.schema, g.name>>
Shown(s, t, c) == LET cols == snap.tables[<<s, t>>].columns
                  IN cols[CHOOSE i \in DOMAIN cols : cols[i].name = c]

\* A key of SQLite that names no column refers to the primary key, of one
\* column: every column of the key is shown with the first of them.
Implied(f) == UNION {t.pk : t \in {u \in db.tables : <<u.schema, u.name>> = <<f.refSchema, f.refTable>>}}
Declared(f, i) == IF f.refCols # <<>> THEN f.refCols[i] ELSE CHOOSE c \in Implied(f) : TRUE
Named(f) == f.refCols # <<>> \/ \E c \in Implied(f) : Implied(f) = {c}

(* A reading that no DDL and no warning disturbed shows every kept table with  *)
(* its own columns and primary key, and every foreign key at both of its ends  *)
(* when both are kept, the column it names included; whatever ran in between,  *)
(* no table is said to be referenced from a schema the operator left out.      *)
SchemaIsWhole ==
  result = "chunks" =>
    /\ \A k \in DOMAIN snap.tables : \A r \in snap.tables[k].refs : Kept(r[1])
    /\ (~changed /\ ~warned) =>
         /\ DOMAIN snap.tables = KeptTables
         /\ \A t \in {u \in db.tables : Kept(u.schema)} :
              {c \in ToSet(t.cols) : Shown(t.schema, t.name, c).pk} = t.pk
         /\ \A f \in {g \in db.fks : {<<g.schema, g.table>>, <<g.refSchema, g.refTable>>} \subseteq KeptTables} :
            \A i \in DOMAIN f.cols :
              /\ (Alone(f, f.cols[i]) /\ Named(f) /\ (db.engine # "postgres" \/ Simple(f))) =>
                   Shown(f.schema, f.table, f.cols[i]).fk = {<<f.refSchema, f.refTable, Declared(f, i)>>}
              /\ <<f.schema, f.table, f.cols[i]>> \in snap.tables[<<f.refSchema, f.refTable>>].refs
=============================================================================
