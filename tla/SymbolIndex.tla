----------------------------- MODULE SymbolIndex -----------------------------
(* The structural index (internal/structural): what extraction records of a    *)
(* Go file, the lookup maps built from it, the incremental Update, and the     *)
(* queries.  Names are strings; a dotted name is the sequence of its parts.    *)
(* A result list is the set of its entries where only its sort order differs.  *)
EXTENDS Naturals, Sequences, FiniteSets, SequencesExt

CONSTANTS Files,     \* paths of source files
          Dirs,      \* directories
          DirOf,     \* Files -> Dirs
          TestFiles, \* isTestFile: *_test.go
          Sources,   \* what a file may contain: names of declaration lists
          Decls,     \* Sources -> sequence of declarations, in line order
          PackageOf, \* Files -> package name
          BaseOf,    \* Files -> name without directory and extension
          MaxCallerFiles, \* testsForMaxCallerFiles
          MaxPending      \* bound: paths pending

None == ""
Absent == "absent"      \* no such file on disk
Rejected == "rejected"  \* over the size cap, or not accepted by the parser
Kinds == {"func", "method", "type", "import"}

VARIABLES
  disk,     \* Files -> Sources, Absent or Rejected
  pending,  \* paths changed and not yet given to Update: files and directories
  index,    \* the Index: files and lookup maps
  ghosts    \* history: files whose directory was back before Update looked

vars == <<disk, pending, index, ghosts>>

-----------------------------------------------------------------------------
(* Extraction.  Declaration i of a file spans lines 3i-2 to 3i and makes its   *)
(* calls on line 3i-1.                                                        *)

StartOf(i) == 3 * i - 2
EndOf(i) == 3 * i

Builtins == {"len", "append", "panic", "Errorf"}

\* A call inside a named function or method; a builtin is noise.
CallsOf(d, i) ==
  LET real == SelectSeq(d.calls, LAMBDA c : c.callee \notin Builtins)
  IN [k \in 1..Len(real) |->
        [callee |-> real[k].callee, receiver |-> real[k].receiver, line |-> StartOf(i) + 1]]

FuncDef(d, i) ==
  [name |-> d.name, class |-> d.recv, start |-> StartOf(i), end |-> EndOf(i)]

IsMethod(fn) == fn.class # None

\* linkMethodToClass: the method joins its receiver's class, or makes a shell
\* that has no span.
LinkMethod(classes, recv, fn) ==
  IF \E k \in 1..Len(classes) : classes[k].name = recv
    THEN [k \in 1..Len(classes) |->
            IF classes[k].name = recv THEN [classes[k] EXCEPT !.methods = Append(@, fn)]
                                      ELSE classes[k]]
    ELSE Append(classes, [name |-> recv, methods |-> <<fn>>, start |-> 0, end |-> 0])

IsShell(cls) == cls.start = 0

\* ensureClass: the declaration gives an earlier shell its span.
EnsureClass(classes, name, i) ==
  IF \E k \in 1..Len(classes) : classes[k].name = name
    THEN [k \in 1..Len(classes) |->
            IF classes[k].name = name /\ IsShell(classes[k])
              THEN [classes[k] EXCEPT !.start = StartOf(i), !.end = EndOf(i)]
              ELSE classes[k]]
    ELSE Append(classes, [name |-> name, methods |-> <<>>, start |-> StartOf(i), end |-> EndOf(i)])

EmptyStruct(f) ==
  [package |-> PackageOf[f], functions |-> <<>>, classes |-> <<>>, imports |-> {}, calls |-> <<>>]

\* walkGo: one declaration.
Visit(fs, d, i) ==
  CASE d.kind = "import" -> [fs EXCEPT !.imports = @ \cup {d.name}]
    [] d.kind = "type"   -> [fs EXCEPT !.classes = EnsureClass(@, d.name, i)]
    [] d.kind = "func"   -> [fs EXCEPT !.functions = Append(@, FuncDef(d, i)),
                                       !.calls = @ \o CallsOf(d, i)]
    [] d.kind = "method" -> [fs EXCEPT !.functions = Append(@, FuncDef(d, i)),
                                       !.classes = LinkMethod(@, d.recv, FuncDef(d, i)),
                                       !.calls = @ \o CallsOf(d, i)]

\* extractGuardedCap accepts or rejects; extractGo walks the declarations.
Accepts(src) == src \notin {Absent, Rejected}
Extract(f, src) ==
  LET walk[i \in 0..Len(Decls[src])] ==
        IF i = 0 THEN EmptyStruct(f) ELSE Visit(walk[i - 1], Decls[src][i], i)
  IN walk[Len(Decls[src])]

-----------------------------------------------------------------------------
(* The index.                                                                 *)

Funs(fs) == ToSet(fs.functions)
Classes(fs) == ToSet(fs.classes)
CalleeNames(fs) == {c.callee : c \in ToSet(fs.calls)}

\* The names a file puts into each lookup map.
DefNames(fs) == {<<fn.name>> : fn \in {g \in Funs(fs) : ~IsMethod(g)}}
                \cup {<<c.name>> : c \in {k \in Classes(fs) : ~IsShell(k)}}
MethodNames(fs) == UNION {{<<fn.name>>, <<fn.class, fn.name>>} :
                          fn \in {g \in Funs(fs) : IsMethod(g)}}
CallNames(fs) == {<<n>> : n \in CalleeNames(fs)}

\* name -> the files that have it; a name of no file has no entry.
Inverted(files, NamesOf(_)) ==
  [n \in UNION {NamesOf(files[f]) : f \in DOMAIN files} |->
     {f \in DOMAIN files : n \in NamesOf(files[f])}]

BuildLookups(files) ==
  [files   |-> files,
   defs    |-> Inverted(files, DefNames),
   methods |-> Inverted(files, MethodNames),
   callers |-> Inverted(files, CallNames)]

Look(map, n) == IF n \in DOMAIN map THEN map[n] ELSE {}

\* BuildWithOptions: walk, extract what is supported, build the lookups.
Build(d) ==
  BuildLookups([f \in {g \in Files : Accepts(d[g])} |->
                  Extract(f, d[f])])

\* Update: for each path, stat.  A path that is gone drops itself and all below
\* it; a directory that exists is ignored; a file is extracted again, and
\* dropped if that is refused.
Exists(d, p) == IF p \in Dirs THEN \E f \in Files : DirOf[f] = p /\ d[f] # Absent
                              ELSE d[p] # Absent
Dropped_FileOnly(d, paths) ==                   \* mutant: nothing below a directory
  {f \in Files : f \in paths /\ ~Accepts(d[f])}
Dropped(d, paths) ==
  {f \in Files : \/ f \in paths /\ ~Accepts(d[f])
                 \/ DirOf[f] \in paths /\ ~Exists(d, DirOf[f])}
Extracted(d, paths) ==
  {f \in Files \cap paths : Accepts(d[f])}
Update(ix, d, paths) ==
  LET fresh == Extracted(d, paths)
      kept == DOMAIN ix.files \ Dropped(d, paths)
  IN IF fresh = {} /\ kept = DOMAIN ix.files
       THEN ix
       ELSE BuildLookups([f \in kept \cup fresh |->
                            IF f \in fresh THEN Extract(f, d[f]) ELSE ix.files[f]])

-----------------------------------------------------------------------------
(* Queries.                                                                   *)

\* defSpan: the first function of the name and kind.
Matching(fs, name, class) ==
  SelectSeq(fs.functions, LAMBDA fn : fn.name = name /\ fn.class = class)
DefSpan(fs, name, class) ==
  IF Matching(fs, name, class) = <<>> THEN <<0, 0>>
  ELSE LET fn == Matching(fs, name, class)[1] IN <<fn.start, fn.end>>
ClassSpan(fs, name) ==
  LET real == SelectSeq(fs.classes, LAMBDA c : c.name = name /\ ~IsShell(c))
  IN IF real = <<>> THEN <<0, 0>> ELSE <<real[1].start, real[1].end>>

Site(f, kind, qname, span) ==
  [file |-> f, kind |-> kind, qname |-> qname, line |-> span[1], end |-> span[2]]

TopSite(ix, f, name) ==
  LET fs == ix.files[f] IN
  IF \E c \in Classes(fs) : c.name = name
    THEN Site(f, "class", <<>>, ClassSpan(fs, name))
    ELSE Site(f, "func", <<>>, DefSpan(fs, name, None))

\* One site per file and kind: the first method of the name speaks for all.
MethodSite(ix, f, name) ==
  LET ms == SelectSeq(ix.files[f].functions, LAMBDA fn : IsMethod(fn) /\ fn.name = name)
  IN Site(f, "method", <<ms[1].class, name>>, <<ms[1].start, ms[1].end>>)

BareDefinition(ix, name) ==
  {TopSite(ix, f, name) : f \in Look(ix.defs, <<name>>)}
  \cup {MethodSite(ix, f, name) : f \in Look(ix.methods, <<name>>)}

\* "Type.method", "pkg.Name" and "pkg.Type.method".
TypeMethod(ix, class, leaf, files) ==
  {Site(f, "method", <<class, leaf>>, DefSpan(ix.files[f], leaf, class)) : f \in files}
InPackage(ix, files, pkg) == {f \in files : ix.files[f].package = pkg}

QualifiedDefinition(ix, n) ==
  IF Len(n) = 2
    THEN TypeMethod(ix, n[1], n[2], Look(ix.methods, n))
         \cup {TopSite(ix, f, n[2]) : f \in InPackage(ix, Look(ix.defs, <<n[2]>>), n[1])}
    ELSE TypeMethod(ix, n[2], n[3], InPackage(ix, Look(ix.methods, Tail(n)), n[1]))

Definition(ix, n) ==
  IF Len(n) = 1 THEN BareDefinition(ix, n[1]) ELSE QualifiedDefinition(ix, n)

\* callMatch: a package-qualified name keeps the calls written pkg.F and the
\* bare calls in the package; a method's receiver is a variable, so keeps all.
Leaf(n) == n[Len(n)]
Resolves(ix, n) == Len(n) = 1 \/ QualifiedDefinition(ix, n) # {}
ByName(ix, n) == Len(n) = 1 \/ \E s \in QualifiedDefinition(ix, n) : s.kind = "method"
Keeps(ix, n, f, call) ==
  ByName(ix, n) \/ call.receiver = n[1] \/ (call.receiver = None /\ ix.files[f].package = n[1])

\* callsTo: the lines of the calls of one name in a file that callMatch keeps.
CallsTo(ix, n, f) ==
  {c.line : c \in {r \in ToSet(ix.files[f].calls) : r.callee = Leaf(n) /\ Keeps(ix, n, f, r)}}
Callers(ix, n) ==
  IF ~Resolves(ix, n) THEN {}
  ELSE {cs \in {[file |-> f, lines |-> CallsTo(ix, n, f)] :
                f \in Look(ix.callers, <<Leaf(n)>>)} : cs.lines # {}}

References(ix, n) ==
  {[file |-> cs.file, kind |-> "call", lines |-> cs.lines] : cs \in Callers(ix, n)}
  \cup {[file |-> f, kind |-> "import", lines |-> {}] :
          f \in {g \in DOMAIN ix.files : Len(n) = 1 /\ n[1] \in ix.files[g].imports}}

\* Outline: functions first, then each class with its methods.
Outline(fs) ==
  {[name |-> fn.name, container |-> None, start |-> fn.start] :
     fn \in {g \in Funs(fs) : ~IsMethod(g)}}
  \cup {[name |-> c.name, container |-> None, start |-> c.start] : c \in Classes(fs)}
  \cup UNION {{[name |-> m.name, container |-> c.name, start |-> m.start] :
                 m \in ToSet(c.methods)} : c \in Classes(fs)}

SymbolsAt(fs, line) ==
  {[name |-> fn.name, qname |-> IF IsMethod(fn) THEN <<fn.class, fn.name>> ELSE <<fn.name>>,
    kind |-> IF IsMethod(fn) THEN "method" ELSE "func", start |-> fn.start, end |-> fn.end] :
     fn \in {g \in Funs(fs) : line \in g.start..g.end}}
  \cup {[name |-> c.name, qname |-> <<c.name>>, kind |-> "class", start |-> c.start, end |-> c.end] :
          c \in {k \in Classes(fs) : ~IsShell(k) /\ line \in k.start..k.end}}

Symbols(ix) == DOMAIN ix.defs
SymbolsInPath(ix, p) ==
  {n \in DOMAIN ix.defs : \E f \in ix.defs[n] : f = p \/ DirOf[f] = p}
FilesUnderPath(ix, p) == {f \in DOMAIN ix.files : f = p \/ DirOf[f] = p}

\* The workspace's queries of a path: a file, a directory, or the whole index.
Whole == ""
NotIndexed == {"not indexed"}
WorkspaceOutline(ix, p) ==
  {[file |-> f, entries |-> Outline(ix.files[f])] :
     f \in IF p \in DOMAIN ix.files THEN {p} ELSE FilesUnderPath(ix, p)}
WorkspaceSymbols(ix, p) == IF p = Whole THEN Symbols(ix) ELSE SymbolsInPath(ix, p)
SymbolAt(ix, p, line) ==
  IF p \in DOMAIN ix.files THEN SymbolsAt(ix.files[p], line) ELSE NotIndexed

\* TestsFor: the tests that call the symbol, and those that call a function
\* that is no test itself and calls it.
IsTestFunc(f, fn) == f \in TestFiles /\ ~IsMethod(fn) /\ fn.name \in {"TestA", "TestB"}
TestsAt(ix, f, line) ==
  {fn \in Funs(ix.files[f]) : line \in fn.start..fn.end /\ IsTestFunc(f, fn)}
TestsCalling(ix, callers) ==
  UNION {UNION {{[file |-> cs.file, qname |-> <<fn.name>>] : fn \in TestsAt(ix, cs.file, l)} :
                l \in cs.lines} : cs \in {k \in callers : k.file \in TestFiles}}

Vias(ix, n) ==
  UNION {UNION {{s.name : s \in {t \in SymbolsAt(ix.files[cs.file], l) :
                                   /\ t.kind # "class"
                                   /\ TestsAt(ix, cs.file, l) = {}}} :
                l \in cs.lines} : cs \in Callers(ix, n)}
Capped(ix, leaf) ==
  IF Cardinality(Look(ix.callers, <<leaf>>)) > MaxCallerFiles THEN {} ELSE Callers(ix, <<leaf>>)
TestsFor(ix, n, depth) ==
  TestsCalling(ix, Callers(ix, n))
  \cup (IF depth < 2 THEN {}
        ELSE UNION {TestsCalling(ix, Capped(ix, leaf)) : leaf \in Vias(ix, n)})

\* Callees: the calls inside every function the name may mean.
FuncDefs(ix, n) ==
  IF Len(n) = 1
    THEN UNION {{<<f, fn.start, fn.end>> : fn \in {g \in Funs(ix.files[f]) : g.name = n[1]}} :
                f \in Look(ix.defs, n) \cup Look(ix.methods, n)}
    ELSE {<<s.file, s.line, s.end>> : s \in {d \in QualifiedDefinition(ix, n) : d.kind # "class"}}
Callees(ix, n) ==
  UNION {{[file |-> d[1], name |-> c.callee] :
            c \in {r \in ToSet(ix.files[d[1]].calls) : r.line \in d[2]..d[3]}} :
         d \in FuncDefs(ix, n)}

\* The label that is put before a file's text when it is embedded; its lists
\* are sets, under the caps of eight names.  Chunking labels with no options
\* (enrichLabelFor); Index.Enrich knows who calls from other files.
Labelled == {"callers", "imports", "siblings"}
Primary(fs) ==
  LET plain == SelectSeq(fs.functions, LAMBDA fn : ~IsMethod(fn))
  IN IF plain # <<>> THEN plain[1].name
     ELSE IF fs.functions # <<>> THEN fs.functions[1].name ELSE None

CallersOf(ix, name, f) == {BaseOf[g] : g \in Look(ix.callers, <<name>>) \ {f}}

\* siblingMethods: those of the class of the first method of that name, which
\* the function labelled need not be.
Enclosing(fs, name) ==
  LET ms == SelectSeq(fs.functions, LAMBDA fn : IsMethod(fn) /\ fn.name = name)
  IN IF ms = <<>> THEN None ELSE ms[1].class
SiblingMethods(fs, name) ==
  UNION {{m.name : m \in ToSet(c.methods)} :
           c \in {k \in Classes(fs) : k.name = Enclosing(fs, name)}} \ {name}

EnrichCore(fs, opts, callers) ==
  LET name == Primary(fs)
      Shown(part, S) == IF part \in opts /\ name # None THEN S ELSE {}
  IN [func |-> name, calls |-> CalleeNames(fs),
      calledBy |-> Shown("callers", callers),
      imports |-> IF "imports" \in opts THEN fs.imports ELSE {},
      siblings |-> Shown("siblings", SiblingMethods(fs, name))]

EnrichFromFileStruct(fs, opts) == EnrichCore(fs, opts, {})
ChunkLabel(fs) == EnrichFromFileStruct(fs, {})
Enrich(ix, f, opts) ==
  EnrichCore(ix.files[f], opts, CallersOf(ix, Primary(ix.files[f]), f))

-----------------------------------------------------------------------------
Init ==
  /\ disk \in [Files -> {Absent, CHOOSE s \in Sources : TRUE}]
  /\ pending = {} /\ ghosts = {}
  /\ index = Build(disk)

Write(f, src) ==
  /\ disk[f] # src /\ Cardinality(pending) < MaxPending
  /\ disk' = [disk EXCEPT ![f] = src]
  /\ pending' = pending \cup {f}
  /\ UNCHANGED <<index, ghosts>>

\* The directory goes in one rename: the event names it and not its files.
MoveAway(dir) ==
  /\ Exists(disk, dir) /\ Cardinality(pending) < MaxPending
  /\ disk' = [f \in Files |-> IF DirOf[f] = dir THEN Absent ELSE disk[f]]
  /\ pending' = pending \cup {dir}
  /\ UNCHANGED <<index, ghosts>>

\* A flush hands over what is pending.
Flush ==
  /\ pending # {}
  /\ index' = Update(index, disk, pending)
  /\ LET back == {f \in Files : DirOf[f] \in pending /\ Exists(disk, DirOf[f])}
     IN ghosts' = {f \in (ghosts \cup back) \cap DOMAIN index'.files : disk[f] = Absent}
  /\ pending' = {}
  /\ UNCHANGED disk

\* A resync discards the index; it is built again on the next query.
Rebuild ==
  /\ index' = Build(disk)
  /\ pending' = {} /\ ghosts' = {}
  /\ UNCHANGED disk

Next ==
  \/ \E f \in Files, src \in Sources \cup {Absent, Rejected} : Write(f, src)
  \/ \E dir \in Dirs : MoveAway(dir)
  \/ Flush
  \/ Rebuild

Spec == Init /\ [][Next]_vars

-----------------------------------------------------------------------------
(* Properties.                                                                *)

(* Update makes the index a fresh build would: every file, name and caller    *)
(* is that of the disk, but for what changed since, and for the files of a    *)
(* directory that was moved away and was back before Update looked (it is     *)
(* "ignored", and nothing names them).                                        *)
UpdateIsRebuild ==
  LET settled == {f \in Files : f \notin pending /\ DirOf[f] \notin pending /\ f \notin ghosts}
      fresh == Build(disk)
      Same(old, new) == \A n \in DOMAIN old \cup DOMAIN new :
                          Look(old, n) \cap settled = Look(new, n) \cap settled
  IN /\ \A f \in settled : /\ f \in DOMAIN index.files <=> f \in DOMAIN fresh.files
                           /\ f \in DOMAIN index.files => index.files[f] = fresh.files[f]
     /\ Same(index.defs, fresh.defs)
     /\ Same(index.methods, fresh.methods)
     /\ Same(index.callers, fresh.callers)

Names == {<<n>> : n \in UNION {CalleeNames(index.files[f]) : f \in DOMAIN index.files}}
         \cup DOMAIN index.defs \cup DOMAIN index.methods

(* A file's label agrees with the queries: its function is defined there, its *)
(* calls are callees of the file's functions, who calls it holds a call       *)
(* reference, and its siblings are in the outline beside a method of its name.*)
LabelAgrees(f) ==
  LET fs == index.files[f]
      label == Enrich(index, f, Labelled)
      name == <<label.func>>
  IN /\ label.func # None => \E s \in Definition(index, name) : s.file = f
     /\ label.func = None => label.calls = {}
     /\ label.calls = UNION {{c.name : c \in {d \in Callees(index, <<fn.name>>) : d.file = f}} :
                               fn \in Funs(fs)}
     /\ label.calledBy = {BaseOf[r.file] : r \in {q \in References(index, name) :
                                                   q.kind = "call" /\ q.file # f}}
     /\ \A n \in label.imports : \E r \in References(index, <<n>>) :
          r.file = f /\ r.kind = "import"
     /\ \A s \in label.siblings : \E o, p \in Outline(fs) :
          /\ o.name = s /\ p.name = label.func
          /\ o.container # None /\ o.container = p.container
     /\ ChunkLabel(fs) = [label EXCEPT !.calledBy = {}, !.imports = {}, !.siblings = {}]

(* The queries agree with one another: a test that TestsFor gives for a name  *)
(* has a callee of that name or of a function that calls it; a definition is  *)
(* found again by its line, by its path and in its file's outline; and every  *)
(* call is a reference.  The symbols of a path are in the outlines of its      *)
(* files, and where each is outlined SymbolAt finds it or a shell.            *)
LookupsAgree ==
  /\ \A p \in Files \cup Dirs :
      LET outlines == WorkspaceOutline(index, p)
      IN /\ WorkspaceSymbols(index, p) \subseteq WorkspaceSymbols(index, Whole)
         /\ \A n \in WorkspaceSymbols(index, p) :
              \E o \in outlines : \E e \in o.entries : <<e.name>> = n /\ e.container = None
         /\ \A o \in outlines : \A e \in o.entries :
              e.start = 0 \/ \E at \in SymbolAt(index, o.file, e.start) : at.name = e.name
  /\ \A f \in DOMAIN index.files : LabelAgrees(f)
  /\ \A n \in Names :
      /\ \A t \in TestsFor(index, n, 2) :
           \E c \in Callees(index, t.qname) :
             c.file = t.file /\ c.name \in {Leaf(n)} \cup Vias(index, n)
      /\ \A s \in Definition(index, n) :
           /\ \E at \in SymbolsAt(index.files[s.file], s.line) :
                /\ at.name = Leaf(n)
                /\ s.kind = at.kind
           /\ \E o \in Outline(index.files[s.file]) : o.name = Leaf(n) /\ o.start = s.line
           /\ s.kind # "method" => <<Leaf(n)>> \in SymbolsInPath(index, DirOf[s.file])
           /\ s.file \in FilesUnderPath(index, DirOf[s.file])
      /\ n \in Symbols(index) => \E s \in Definition(index, n) : s.kind # "method"
      /\ \A cs \in Callers(index, n) :
           \E r \in References(index, n) : r.file = cs.file /\ r.lines = cs.lines
=============================================================================
