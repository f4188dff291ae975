------------------------------- MODULE Extract -------------------------------
(* The structural extractors (internal/structural/extract_*.go): a recursive   *)
(* walk over a syntax tree that records functions, classes and call sites.     *)
(* Every language is a table: what the walker does at each kind of node, the   *)
(* children that a class lists as methods, the callees it can name.  The node  *)
(* kinds abstract the grammars' node types; a kind that a table leaves alone   *)
(* has no case in that language's walker and is walked through.                *)
EXTENDS Naturals, Sequences, SequencesExt, FiniteSets

CONSTANTS Trees   \* files: nodes [is, name, recv, shape, head, body]

\* head: parameters, defaults, base classes, decorators; body: the body.
Kinds == {"function", "method", "ctor", "singleton", "assigned", "class",
          "interface", "impl", "call", "throw", "import", "other"}

\* How a function's class is found ("none", "context", "own", "receiver",
\* "name"), and which children are walked.
Rule(does, class, down) == [does |-> does, class |-> class, down |-> down]
Through == Rule("pass", "none", "all")
Fn(class, down) == Rule("function", class, down)
Type(down) == Rule("class", "none", down)
Scope == Rule("scope", "none", "body")          \* the type's name, but no class of its own
Skip == Rule("pass", "none", "none")
Call == Rule("call", "none", "all")
Plain == [k \in Kinds |-> CASE k = "call" -> Call [] k = "import" -> Skip [] OTHER -> Through]

-----------------------------------------------------------------------------
(* The walkers.                                                               *)

Python == [Plain EXCEPT !["function"] = Fn("context", "all"), !["class"] = Type("body")]
TypeScript == [Plain EXCEPT !["function"] = Fn("none", "body"), !["method"] = Fn("context", "body"),
                            !["assigned"] = Fn("none", "body"), !["class"] = Type("body"),
                            !["interface"] = Type("none")]
Java == [Plain EXCEPT !["method"] = Fn("context", "body"), !["ctor"] = Fn("name", "body"),
                      !["class"] = Type("body"), !["interface"] = Type("body")]
Csharp == [Plain EXCEPT !["method"] = Fn("context", "body"), !["ctor"] = Fn("name", "body"),
                        !["class"] = Type("body"), !["interface"] = Type("body")]
Kotlin == [Plain EXCEPT !["function"] = Fn("context", "body"), !["class"] = Type("body")]
Ruby == [Plain EXCEPT !["method"] = Fn("context", "body"), !["singleton"] = Fn("own", "body"),
                      !["class"] = Type("body"), !["import"] = Call]
Scala == [Plain EXCEPT !["function"] = Fn("context", "all"), !["class"] = Type("body")]
Elixir == [Plain EXCEPT !["function"] = Fn("context", "body"), !["class"] = Type("body"),
                        !["throw"] = Skip]
Php == [Plain EXCEPT !["function"] = Fn("none", "body"), !["method"] = Fn("context", "body"),
                     !["class"] = Type("body"), !["interface"] = Type("body")]
Rust == [Plain EXCEPT !["function"] = Fn("context", "body"), !["class"] = Type("none"),
                      !["interface"] = Type("body"), !["impl"] = Scope]
Cpp == [Plain EXCEPT !["function"] = Fn("own", "body"), !["class"] = Type("body")]
\* A Dart signature and its body are siblings, and a call is found by its
\* container: no call has an enclosing symbol, and throw looks for none.
Dart == [Plain EXCEPT !["function"] = Rule("signature", "context", "all"),
                      !["ctor"] = Rule("signature", "name", "all"),
                      !["class"] = Type("body"), !["throw"] = Rule("mute", "none", "all")]
Swift == [Plain EXCEPT !["function"] = Fn("context", "body"), !["ctor"] = Fn("name", "body"),
                       !["class"] = Type("body"), !["impl"] = Scope]
Go == [Plain EXCEPT !["function"] = Fn("none", "body"), !["method"] = Fn("receiver", "body"),
                    !["class"] = Type("none")]

\* langExtractor: JavaScript is TypeScript's walker, C is C++'s.
Tables == [python |-> Python, typescript |-> TypeScript, java |-> Java, csharp |-> Csharp,
           kotlin |-> Kotlin, ruby |-> Ruby, scala |-> Scala, elixir |-> Elixir, php |-> Php,
           rust |-> Rust, cpp |-> Cpp, dart |-> Dart, swift |-> Swift, go |-> Go]
Languages == DOMAIN Tables

\* The children that a class lists as its methods (Go links them instead).
PythonMembers == {"function"}
TypeScriptMembers == {"method"}
JavaMembers == {"method", "ctor"}
CsharpMembers == {"method", "ctor"}
KotlinMembers == {"function"}
ScalaMembers == {"function"}
ElixirMembers == {"function"}
PhpMembers == {"method"}
CppMembers == {"function"}
DartMembers == {"function", "ctor"}
SwiftMembers == {"function", "ctor"}
Members == [l \in Languages |->
  CASE l = "python" -> PythonMembers [] l = "typescript" -> TypeScriptMembers
    [] l = "java" -> JavaMembers [] l = "csharp" -> CsharpMembers [] l = "kotlin" -> KotlinMembers
    [] l = "scala" -> ScalaMembers [] l = "elixir" -> ElixirMembers [] l = "php" -> PhpMembers
    [] l = "cpp" -> CppMembers [] l = "dart" -> DartMembers [] l = "swift" -> SwiftMembers
    [] l = "rust" -> {"function"} [] OTHER -> {}]

\* The callees that have a name: f(), o.f(), A::f(), f<T>(), new T(), f!().
PythonCallee == {"plain", "member"}
TypeScriptCallee == {"plain", "member"}
JavaCallee == {"plain", "member", "new"}
CsharpCallee == {"plain", "member", "generic", "new"}
KotlinCallee == {"plain", "member"}
RubyCallee == {"plain", "member"}
ScalaCallee == {"plain", "member", "generic"}
ElixirCallee == {"plain", "member"}
PhpCallee == {"plain", "member", "qualified", "new"}
RustCallee == {"plain", "member", "qualified", "macro"}
CppCallee == {"plain", "member", "qualified", "generic"}
DartCallee == {"plain", "member"}
SwiftCallee == {"plain", "member"}
GoCallee == {"plain", "member"}
Callee == [python |-> PythonCallee, typescript |-> TypeScriptCallee, java |-> JavaCallee,
           csharp |-> CsharpCallee, kotlin |-> KotlinCallee, ruby |-> RubyCallee,
           scala |-> ScalaCallee, elixir |-> ElixirCallee, php |-> PhpCallee, rust |-> RustCallee,
           cpp |-> CppCallee, dart |-> DartCallee, swift |-> SwiftCallee, go |-> GoCallee]
Noise == {"len"}

-----------------------------------------------------------------------------
(* The walk.                                                                  *)

VARIABLES lang, tree, found
vars == <<lang, tree, found>>

\* qualifySymbol.
Qualified(class, name) == <<class, name>>
TopLevel == <<"", "">>

Nothing == [functions |-> {}, classes |-> {}, calls |-> <<>>]
Merged(a, b) == [functions |-> a.functions \cup b.functions,
                 classes |-> a.classes \cup b.classes, calls |-> a.calls \o b.calls]

FnClass(rule, n, ctx) ==
  CASE rule.class = "none"     -> ""
    [] rule.class = "receiver" -> n.recv
    [] rule.class = "own"      -> IF n.recv = "" THEN ctx.class ELSE n.recv
    [] OTHER                   -> ctx.class
\* A constructor is named for its class where the grammar gives it no name.
FnName(rule, n, class) == IF rule.class = "name" /\ n.name = "" THEN class ELSE n.name
Function(rule, n, at, ctx) ==
  [class |-> FnClass(rule, n, ctx), name |-> FnName(rule, n, FnClass(rule, n, ctx)), at |-> at]

\* The class and symbol that the children are walked with.
Within_Context(rule, n, ctx) ==                 \* mutant: the receiver is forgotten
  CASE rule.does = "function" ->
         [ctx EXCEPT !.symbol = Qualified(ctx.class, FnName(rule, n, ctx.class)), !.mute = FALSE]
    [] rule.does \in {"class", "scope"} -> [ctx EXCEPT !.class = n.name, !.mute = FALSE]
    [] OTHER -> [ctx EXCEPT !.mute = (rule.does = "mute")]
Within(rule, n, ctx) ==
  LET class == FnClass(rule, n, ctx) IN
  CASE rule.does = "function" ->
         [class |-> IF rule.class = "none" THEN ctx.class ELSE class,
          symbol |-> Qualified(class, FnName(rule, n, class)), mute |-> FALSE]
    [] rule.does \in {"class", "scope"} -> [ctx EXCEPT !.class = n.name, !.mute = FALSE]
    [] OTHER -> [ctx EXCEPT !.mute = (rule.does = "mute")]

\* What the node itself adds.
Listed(l, n, at) ==
  {[name |-> FnName(Tables[l][n.body[i].is], n.body[i], n.name), at |-> Append(at, Len(n.head) + i)] :
      i \in {j \in 1..Len(n.body) : /\ n.body[j].is \in Members[l]
                                    /\ ~(l = "cpp" /\ n.body[j].name = "")}}
Recorded(l, rule, n, at, ctx) ==
  CASE rule.does \in {"function", "signature"} ->
         LET f == Function(rule, n, at, ctx) IN
         [Nothing EXCEPT !.functions = IF rule.does = "signature" /\ f.name = "" THEN {} ELSE {f},
            !.classes = IF rule.class = "receiver" /\ f.class # ""
                          THEN {[name |-> f.class, methods |-> {[name |-> f.name, at |-> at]}]} ELSE {}]
    [] rule.does = "class" /\ ~(l = "cpp" /\ n.name = "") ->
         [Nothing EXCEPT !.classes =
            {[name |-> n.name, methods |-> IF rule.down = "body" THEN Listed(l, n, at) ELSE {}]}]
    [] rule.does = "call" /\ n.shape \in Callee[l] /\ n.name \notin Noise /\ ~ctx.mute ->
         [Nothing EXCEPT !.calls = <<[callee |-> n.name, from |-> ctx.symbol, at |-> at]>>]
    [] OTHER -> Nothing

\* C++ takes a function without a name for an ordinary node.
RuleOf(l, n) ==
  IF l = "cpp" /\ n.is = "function" /\ n.name = "" THEN Through ELSE Tables[l][n.is]
Kids(n) == n.head \o n.body
Walked(rule, n) ==
  CASE rule.down = "all"  -> 1..Len(Kids(n))
    [] rule.down = "body" -> (Len(n.head) + 1)..Len(Kids(n))
    [] OTHER              -> {}

RECURSIVE Walk(_, _, _, _)
Walk(l, n, at, ctx) ==
  LET rule == RuleOf(l, n)
      kid(i) == IF i \in Walked(rule, n)
                  THEN Walk(l, Kids(n)[i], Append(at, i), Within(rule, n, ctx)) ELSE Nothing
  IN FoldLeft(LAMBDA acc, i : Merged(acc, kid(i)), Recorded(l, rule, n, at, ctx),
              [i \in 1..Len(Kids(n)) |-> i])

Init == lang \in Languages /\ tree \in Trees /\ found = Nothing
Extract ==
  /\ found = Nothing
  /\ found' = Walk(lang, tree, <<>>, [class |-> "", symbol |-> TopLevel, mute |-> FALSE])
  /\ UNCHANGED <<lang, tree>>
Next == Extract
Spec == Init /\ [][Next]_vars

-----------------------------------------------------------------------------
(* Properties.                                                                *)

Inside(outer, inner) == IsStrictPrefix(outer, inner)

\* The call sites that no head, import, skipped or leaf node encloses.
RECURSIVE BodyCalls(_, _)
BodyCalls(n, at) ==
  LET rule == RuleOf(lang, n)
      from == IF rule.down = "none" THEN {} ELSE (Len(n.head) + 1)..Len(Kids(n))
  IN (IF rule.does = "call" /\ n.shape \in Callee[lang] /\ n.name \notin Noise THEN {at} ELSE {})
     \cup UNION {BodyCalls(Kids(n)[i], Append(at, i)) :
                   i \in {j \in from : ~(rule.does = "mute" /\ Kids(n)[j].is = "call")}}

(* In every language, the call graph fits the symbols: the caller that a call *)
(* site names is the innermost function recorded around it, by the very class *)
(* and name it is recorded with, and only Dart's calls have none; a call in a *)
(* body is recorded once; and a named method listed under a class is a        *)
(* function of the file.                                                      *)
CallsBelong ==
  LET calls == ToSet(found.calls) IN
  /\ \A c \in calls :
       LET around == {f \in found.functions : Inside(f.at, c.at)}
           innermost == {f \in around : ~\E g \in around : Inside(f.at, g.at)}
       IN \/ lang = "dart" /\ c.from = TopLevel
          \/ around = {} /\ c.from = TopLevel
          \/ \E f \in innermost : c.from = Qualified(f.class, f.name)
  /\ Cardinality({c.at : c \in calls}) = Len(found.calls)
  /\ found # Nothing => BodyCalls(tree, <<>>) \subseteq {c.at : c \in calls}
  /\ \A k \in found.classes : \A m \in {x \in k.methods : x.name # ""} :
       \E f \in found.functions : f.at = m.at /\ f.name = m.name
=============================================================================
