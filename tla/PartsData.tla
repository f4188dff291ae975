------------------------------ MODULE PartsData ------------------------------
(* The inputs on which MCParts runs the components that compute: small trees, *)
(* schemas, indexes and requests, chosen so that every branch is taken.       *)
EXTENDS Naturals, Sequences, SequencesExt, TLC

-----------------------------------------------------------------------------
(* SymbolIndex: a directory of two files and one with a test file; the         *)
(* sources define and call one another's names.                               *)
CallTo(r, c) == [receiver |-> r, callee |-> c]
Decl(k, n, r, cs) == [kind |-> k, name |-> n, recv |-> r, calls |-> cs]
Lib == <<Decl("import", "q", "", <<>>), Decl("type", "T", "", <<>>),
         Decl("method", "m", "T", <<CallTo("", "f"), CallTo("", "len")>>),
         Decl("func", "g", "", <<CallTo("q", "h")>>)>>
Methods == <<Decl("method", "m", "T", <<CallTo("x", "g")>>), Decl("type", "T", "", <<>>),
             Decl("method", "m", "U", <<>>), Decl("func", "f", "", <<CallTo("x", "m")>>)>>
Tests == <<Decl("func", "TestA", "", <<CallTo("p", "f"), CallTo("", "h")>>),
           Decl("func", "h", "", <<CallTo("", "g")>>),
           Decl("func", "TestB", "", <<CallTo("", "h")>>)>>
SyFiles == {"d/a", "d/b", "e/t"}
SyDecls == [s \in {"lib", "methods", "tests"} |->
              CASE s = "lib" -> Lib [] s = "methods" -> Methods [] OTHER -> Tests]
SyDirOf == [f \in SyFiles |-> IF f = "e/t" THEN "e" ELSE "d"]
SyBaseOf == [f \in SyFiles |-> CASE f = "d/a" -> "a" [] f = "d/b" -> "b" [] OTHER -> "t"]
SyPackageOf == [f \in SyFiles |-> IF f = "e/t" THEN "q" ELSE "p"]

-----------------------------------------------------------------------------
(* Ranking: four chunks, two overlapping, a penalised test file and a file    *)
(* named after the symbol; every mode, order of hits, k and tombstone.        *)
Chunk(f, s, e, d) == [file |-> f, start |-> s, end |-> e, defines |-> d]
RkFiles == {"a.go", "b_test.go", "n.go"}
RkChunks == <<Chunk("a.go", 1, 5, {"N"}), Chunk("a.go", 5, 9, {}),
              Chunk("b_test.go", 1, 4, {"N"}), Chunk("n.go", 2, 6, {"N"})>>
RkPenalty == [f \in RkFiles |-> IF f = "b_test.go" THEN 30 ELSE 100]
RkStem == [f \in RkFiles |-> IF f = "n.go" THEN "N" ELSE "-"]
RkParts == [f \in RkFiles |-> IF f = "n.go" THEN {"n"} ELSE {"a", "w"}]
Asks(s, n, w) == [symbol |-> s, names |-> n, words |-> w]
RkQueries == {Asks(TRUE, {"N"}, {}), Asks(FALSE, {}, {"n", "w"}), Asks(FALSE, {"N"}, {"w"})}
RkOrders == {<<1, 2, 3, 4>>, <<4, 3, 2, 1>>, <<2, 4, 1, 3>>, <<3, 1, 4, 2>>, <<1, 4, 2, 3>>}
RkRequest(m, q, sm, bm, k, dead, model, rr, fails, f, l) ==
  [files |-> {}, mode |-> m, q |-> q, sem |-> sm, bm |-> bm, k |-> k, dead |-> dead, model |-> model,
   reranker |-> rr, fails |-> fails, file |-> f, line |-> l, cosine |-> <<3, 9, 1, 5>>]
RkAll ==
  {RkRequest(m, q, sm, bm, k, dead, TRUE, rr, fl, "a.go", 5) :
     m \in {"hybrid", "rerank"}, q \in RkQueries, sm \in RkOrders, bm \in {<<>>, <<4, 1>>, <<3, 4, 2>>},
     k \in 1..3, dead \in {{}, {2}}, rr \in BOOLEAN, fl \in BOOLEAN}
  \cup {RkRequest(m, Asks(TRUE, {"N"}, {}), sm, <<4, 1>>, k, dead, md, FALSE, FALSE, f, l) :
     m \in {"bm25", "semantic", "related"}, sm \in RkOrders, k \in 0..4,
     dead \in {{}, {2}, {1, 2}}, md \in BOOLEAN, f \in {"a.go", "n.go"}, l \in {1, 5, 9}}

RkRequests ==
  RkAll \cup {[r EXCEPT !.files = fs] :
               r \in {a \in RkAll : a.mode # "related" /\ a.line = 5 /\ a.file = "a.go" /\ ~a.fails},
               fs \in {{"n.go"}, {"a.go", "b_test.go"}}}

-----------------------------------------------------------------------------
(* Extract: functions of every kind with calls in head and body, alone, in a  *)
(* type, and types in functions in types.                                     *)
Node(is, name, recv, shape, head, body) ==
  [is |-> is, name |-> name, recv |-> recv, shape |-> shape, head |-> head, body |-> body]
CallNode(s) == Node("call", "f", "", s, <<>>, <<>>)
Ones(S) == {<<x>> : x \in S}
XcBodies == {<<>>} \cup Ones({CallNode(s) : s \in {"plain", "new", "computed"}})
            \cup {<<Node("throw", "", "", "", <<>>, <<CallNode("plain")>>)>>,
                  <<Node("call", "g", "", "member", <<CallNode("plain")>>, <<>>)>>,
                  <<Node("import", "", "", "", <<>>, <<CallNode("plain")>>)>>}
XcFuncs == {Node(k, nm, r, "", h, b) :
              k \in {"function", "method", "ctor", "singleton", "assigned"}, nm \in {"m", ""},
              r \in {"", "R"}, h \in {<<>>, <<CallNode("plain")>>},
              b \in Ones({CallNode("plain"), CallNode("new")})}
XcPlain == {f \in XcFuncs : f.head = <<>> /\ f.body = <<CallNode("plain")>>}
XcTypes == {Node(k, "K", "", "", h, <<f>>) :
              k \in {"class", "interface", "impl"}, h \in {<<>>, <<CallNode("plain")>>},
              f \in XcPlain \cup {CallNode("plain")}}
XcOuter == {Node(k, "o", "", "", <<>>, <<t, CallNode("plain")>>) :
              k \in {"function", "method"}, t \in XcTypes \cup XcPlain}
XcNested == {Node("class", "J", "", "", <<>>, <<t>>) : t \in XcOuter}
XcTrees == {Node("other", "", "", "", <<>>, b) :
              b \in XcBodies \cup Ones(XcFuncs \cup XcTypes \cup XcOuter \cup XcNested)}

-----------------------------------------------------------------------------
(* MigrationFold: two patterns, lexical order against numeric order, and a    *)
(* directory of mixed patterns.                                               *)
FileName(p, r) == [pattern |-> p, rank |-> r]
MfSchemes == {<<FileName(2, 1), FileName(2, 2)>>, <<FileName(3, 2), FileName(3, 1)>>,
              <<FileName(1, 1), FileName(3, 3), FileName(1, 2)>>}

-----------------------------------------------------------------------------
(* DbSchema: for each engine a schema with foreign keys of one and two        *)
(* columns that cross the schemas, and a small one that DDL replaces it by.   *)
Table(s, n, cols, pk) == [schema |-> s, name |-> n, cols |-> cols, pk |-> pk]
Foreign(nm, s, t, c, rs, rt, rc) ==
  [name |-> nm, schema |-> s, table |-> t, cols |-> c, refSchema |-> rs, refTable |-> rt, refCols |-> rc]
TableKey(s, t, cols, ty) == [schema |-> s, table |-> t, cols |-> cols, type |-> ty]
Item(s, n) == [schema |-> s, name |-> n]
Large(e, p, x) ==
  [engine |-> e,
   tables |-> {Table(p, "a", <<"id", "n">>, {"id"}), Table(p, "b", <<"id", "aid", "m", "n">>, {"id"}),
               Table(x, "c", <<"id", "bid">>, {"id"})},
   keys |-> {TableKey(p, "a", {"id"}, "PRIMARY KEY"), TableKey(p, "a", {"id", "n"}, "UNIQUE"),
             TableKey(p, "b", {"id"}, "PRIMARY KEY"), TableKey(x, "c", {"id"}, "PRIMARY KEY")},
   fks |-> {Foreign("k1", p, "b", <<"aid">>, p, "a", IF e = "sqlite" THEN <<>> ELSE <<"id">>),
            Foreign("k2", p, "b", <<"m", "n">>, p, "a", <<"id", "n">>),
            Foreign("k3", x, "c", <<"bid">>, p, "b", <<"id">>),
            Foreign("k4", p, "a", <<"n">>, x, "c", <<"id">>)},
   indexes |-> {[schema |-> p, table |-> "a", name |-> "i"]},
   views |-> {Item(p, "v"), Item(x, "w")}, routines |-> {Item(p, "f"), Item(x, "g")}]
Little(e, p) ==
  [engine |-> e, tables |-> {Table(p, "a", <<"id">>, {"id"})},
   keys |-> {TableKey(p, "a", {"id"}, "PRIMARY KEY")},
   fks |-> {}, indexes |-> {}, views |-> {}, routines |-> {}]
DsCatalogs == {Large(e, "public", "x") : e \in {"postgres", "mysql"}} \cup {Large("sqlite", "", "")}
              \cup {Little(e, "public") : e \in {"postgres", "mysql"}} \cup {Little("sqlite", "")}
DsFilters == {[include |-> {}, exclude |-> {}], [include |-> {}, exclude |-> {"x"}],
              [include |-> {"x"}, exclude |-> {"x"}]}

-----------------------------------------------------------------------------
(* RepoWalk: three levels with a link, a file and a directory named .git, and *)
(* rules of both families with negations on two levels.                       *)
Entry(p, k) == [path |-> p, kind |-> k]
WkEntries ==
  <<Entry(<<".git">>, "file"), Entry(<<"a">>, "dir"), Entry(<<"a", ".git">>, "dir"),
    Entry(<<"a", ".git", "y">>, "file"), Entry(<<"a", "b">>, "dir"), Entry(<<"a", "b", "x">>, "file"),
    Entry(<<"a", "y">>, "file"), Entry(<<"l">>, "link"), Entry(<<"x">>, "file")>>
WkFiles == {WkEntries[i].path : i \in {j \in DOMAIN WkEntries : WkEntries[j].kind = "file"}}
WkDirs == {WkEntries[i].path : i \in {j \in DOMAIN WkEntries : WkEntries[j].kind = "dir"}}
AnyName == {"a", "b", "l", "x", "y"}            \* the pattern "*"
Stars == {}                                     \* the segment "**"
Line(sl, segs, ng, d) == [slash |-> sl, segs |-> segs, negate |-> ng, dirOnly |-> d]
KeepX == Line(FALSE, <<Stars, {"x"}>>, TRUE, FALSE)
WkRules == {Line(FALSE, <<{"x"}>>, FALSE, FALSE), Line(FALSE, <<{"b"}>>, FALSE, TRUE),
            Line(TRUE, <<{"a"}>>, FALSE, TRUE), Line(FALSE, <<AnyName>>, FALSE, FALSE),
            Line(FALSE, <<{"a"}, Stars>>, FALSE, FALSE)}
WkRootDocs == {<<>>} \cup {<< <<l, KeepX>> >> : l \in WkRules}
  \cup {<< <<Line(FALSE, <<AnyName>>, FALSE, FALSE), Line(FALSE, <<{"b"}>>, TRUE, TRUE),
            Line(FALSE, <<{"a"}>>, TRUE, TRUE)>> >>}
WkDeepDocs == {<<>>, << <<Line(FALSE, <<{"x"}>>, FALSE, FALSE)>> >>,
               << <<Line(FALSE, <<{"x"}>>, TRUE, FALSE), Line(TRUE, <<>>, FALSE, TRUE)>> >>,
               << <<Line(TRUE, <<{"b"}>>, FALSE, FALSE)>> >>}
Ignore(git, ken, semble) == [git |-> git, ken |-> ken, semble |-> semble]
WkIgnores == {[d \in WkDirs \cup {<<>>} |->
                 IF d = <<>> THEN Ignore(root, k, << <<Line(FALSE, <<{"y"}>>, FALSE, FALSE)>> >>)
                 ELSE IF d = <<"a">> THEN Ignore(deep, <<>>, <<>>) ELSE Ignore(<<>>, <<>>, <<>>)] :
              root \in WkRootDocs, deep \in WkDeepDocs, k \in {<<>>, << <<>> >>}}
WkConfigs == {[skipGenerated |-> TRUE, maxAvgLine |-> 0, maxFiles |-> 0],
              [skipGenerated |-> FALSE, maxAvgLine |-> 1000, maxFiles |-> 2]}
WkDisks == {[p \in WkFiles |-> "text"],
            [p \in WkFiles |-> IF p = <<"x">> THEN "huge" ELSE "generated"]}

-----------------------------------------------------------------------------
(* IndexBuild: five files in three directories, two of them migrations, one   *)
(* of which folds to nothing.                                                 *)
Source(d, s, p, x) == [dir |-> d, sql |-> s, plain |-> p, extras |-> x]
IbFiles == <<Source("d", FALSE, <<"a">>, <<>>), Source("m", TRUE, <<"b">>, <<"bt">>),
             Source("s", TRUE, <<"c">>, <<"ct">>), Source("d", FALSE, <<>>, <<>>),
             Source("d", TRUE, <<"e">>, <<>>)>>
IbOrder == <<"d", "m", "s">>
IbFolds == [d \in {"m", "s", "d"} |-> IF d = "m" THEN <<"mt">> ELSE <<>>]
Options(m, h, f, e, l, s) ==
  [mode |-> m, hasModel |-> h, disableFold |-> f, disableEnrichment |-> e, lazy |-> l, staged |-> s]
IbBuilds == {Options("hybrid", TRUE, FALSE, FALSE, FALSE, FALSE),
             Options("bm25", FALSE, TRUE, TRUE, FALSE, FALSE),
             Options("hybrid", TRUE, FALSE, FALSE, TRUE, TRUE),
             Options("hybrid", FALSE, FALSE, FALSE, FALSE, FALSE)}

-----------------------------------------------------------------------------
(* Markdown: every file of up to three lines, of headings of three levels,     *)
(* underlines that also open and close frontmatter, and two fences.           *)
Atx(n, t) == [is |-> "atx", level |-> n, text |-> t]
Rule(c, three) == [is |-> "rule", char |-> c, three |-> three]
Fence(c, n) == [is |-> "fence", char |-> c, len |-> n]
MdLines == {Atx(1, "a"), Atx(2, "b"), Atx(3, "c"), [is |-> "text", text |-> "t"], [is |-> "other"],
            Rule("=", FALSE), Rule("-", TRUE), Rule("+", TRUE), Fence("tick", 3), Fence("tick", 4)}
MdSources == UNION {[1..n -> MdLines] : n \in 0..3}
             \cup [1..4 -> {Atx(1, "a"), Atx(2, "b"), [is |-> "text", text |-> "t"], Rule("=", FALSE)}]
MdNewLines == {[is |-> "atx", level |-> 1, text |-> "n"]}
MdAllLines == MdLines \cup MdNewLines

-----------------------------------------------------------------------------
(* IndexFile: records of 17 and 40 bytes under length fields that wrap at 80. *)
FeFiles == <<"m", "t">>

IfSizes == [c \in {"a", "b"} |-> IF c = "a" THEN 17 ELSE 40]
IfWanted == {[mode |-> "", chunker |-> "", model |-> TRUE],
             [mode |-> "hybrid", chunker |-> "regex", model |-> TRUE],
             [mode |-> "bm25", chunker |-> "", model |-> FALSE],
             [mode |-> "", chunker |-> "line", model |-> FALSE]}

-----------------------------------------------------------------------------
(* UsageLog: one file shown in part, and one file with a database chunk.      *)
UsAnswers == {{[file |-> "a", chars |-> 4], [file |-> "a", chars |-> 3]},
              {[file |-> "b", chars |-> 8], [file |-> "db", chars |-> 5]}}

-----------------------------------------------------------------------------
(* Tools: two versions of an index, and every tool with good, missing and     *)
(* unknown arguments on the default repo and on others.                       *)
Version(rk, sy, ol) ==
  [ranked |-> [q \in {"q", "r"} |-> IF q = "q" THEN rk ELSE Reverse(rk)],
   related |-> [f \in {"a", "b"} |-> <<"c", "d">>],
   tokens |-> [f \in {"a", "b", "c", "d"} |-> IF f = "a" THEN 9 ELSE 2],
   ext |-> [f \in {"a", "b", "c", "d"} |-> IF f \in {"a", "c"} THEN "go" ELSE "py"],
   symbols |-> sy, outline |-> ol, sites |-> [s \in {"S"} |-> <<1, 2>>],
   refs |-> [s \in {"S"} |-> <<[file |-> 2, kind |-> "call", lines |-> <<3, 4>>],
                               [file |-> 1, kind |-> "import", lines |-> <<>>],
                               [file |-> 2, kind |-> "call", lines |-> <<7>>]>>],
   callers |-> [s \in {"S"} |-> <<[file |-> 2, calls |-> <<3>>], [file |-> 1, calls |-> <<9>>]>>],
   commits |-> <<[id |-> 3, files |-> {"a"}, fails |-> FALSE], [id |-> 2, files |-> {"b"}, fails |-> TRUE],
                 [id |-> 1, files |-> {"a", "b"}, fails |-> FALSE], [id |-> 0, files |-> {"b"}, fails |-> FALSE]>>]
Listed(f, e) == [file |-> f, entries |-> e]
TlVersions ==
  {Version(<<"a", "b", "c", "d">>, <<"K", "L", "M", "N", "P">>,
           <<Listed(1, <<>>), Listed(2, <<"f">>), Listed(3, <<"g">>)>>),
   Version(<<"d", "c">>, <<"L", "P">>, <<Listed(2, <<"f">>), Listed(3, <<>>)>>)}
SearchCall(rp, q, qs, md, k, l, on, ex, mx) ==
  [tool |-> "search", repo |-> rp, query |-> q, queries |-> qs, mode |-> md, topK |-> k,
   languages |-> l, only |-> on, except |-> ex, maxTokens |-> mx]
SymbolCall(t, rp, s) == [tool |-> t, repo |-> rp, symbol |-> s]
TlRepos == {"here", "outside", "none", "fails"}
TlRequests ==
  {SearchCall(rp, q, qs, "", 0, {}, {}, {}, 0) :
     rp \in TlRepos, q \in {"", "q"}, qs \in {<<>>, <<"q", "r">>, <<"q", "r", "q">>}}
  \cup {SearchCall("here", "q", qs, md, k, l, on, ex, mx) :
     qs \in {<<>>, <<"r", "q", "r">>}, md \in {"", "unknown"}, k \in {1, 9}, l \in {{}, {"go"}},
     on \in {{}, {"b", "c"}}, ex \in {{}, {"a"}}, mx \in {0, 8}}
  \cup {[tool |-> "find_related", repo |-> rp, file |-> f, line |-> l, topK |-> k, maxTokens |-> 4] :
     rp \in TlRepos, f \in {"", "a", "z"}, l \in {0, 3}, k \in {0, 1}}
  \cup {SymbolCall(t, rp, s) :
     t \in {"definition", "references", "callers"}, rp \in TlRepos, s \in {"", "S", "T"}}
  \cup {[tool |-> t, repo |-> rp, offset |-> o, limit |-> l] :
     t \in {"symbols", "outline"}, rp \in TlRepos, o \in {0, 2, 7}, l \in {0, 1}}
  \cup {[tool |-> "recently_changed", repo |-> rp, n |-> n, ended |-> e, path |-> p] :
     rp \in TlRepos, n \in {0, 2, 9}, e \in {1, 9}, p \in {{}, {"b"}}}
  \cup {[tool |-> "status", repo |-> rp] : rp \in TlRepos}
TlPages == {[tool |-> t, limit |-> l] : t \in {"symbols", "outline"}, l \in {0, 1, 2}}
-----------------------------------------------------------------------------
(* Bench: two tasks, alone and together, runs of one arm and of two, and      *)
(* answers whose first hit overruns a budget, and that touch and repeat lines.*)
Retrieved(f, s, e, n) == [file |-> f, start |-> s, end |-> e, tokens |-> n]
BeAnswers == {<<Retrieved(1, 1, 2, 3), Retrieved(1, 3, 3, 1), Retrieved(2, 1, 1, 2)>>,
              <<Retrieved(2, 1, 1, 1), Retrieved(1, 2, 3, 2), Retrieved(1, 5, 5, 1)>>}
GoldSpan(f, s, e) == [file |-> f, start |-> s, end |-> e]
BeGold == [t \in {"a", "b"} |-> IF t = "a" THEN {GoldSpan(1, 3, 3), GoldSpan(1, 4, 5)}
                               ELSE {GoldSpan(2, 1, 1)}]
BeSetups == {[arms |-> <<"K">>, budgets |-> <<2, 4>>, evaluate |-> TRUE],
             [arms |-> <<"K", "B">>, budgets |-> <<4>>, evaluate |-> TRUE],
             [arms |-> <<"B">>, budgets |-> <<4>>, evaluate |-> FALSE]}

=============================================================================
