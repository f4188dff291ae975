------------------------------- MODULE Markdown -------------------------------
(* The sections of a markdown file and the heading path of a hit               *)
(* (engine/markdown.go): the scanner's line kinds, the section boundaries, the *)
(* stack of enclosing headings, and the path a search reads from the disk for  *)
(* a line that comes from the index.  A line is a record:                      *)
(*   [is |-> "atx", level, text]     a heading with that many #                *)
(*   [is |-> "text", text], [is |-> "other"]   a blank, a list item, a table   *)
(*   [is |-> "rule", char, three]    nothing but =, - or +; just three of them *)
(*   [is |-> "fence", char, len]     ``` or ~~~, or longer                     *)
EXTENDS Naturals, Sequences, Subsequences

CONSTANTS Lines,     \* lines
          Sources,   \* files to begin with: sequences of lines
          NewLines,  \* lines an edit inserts
          MaxLines   \* bound: lines of a file

LinesAssumption ==
  /\ \A l \in Lines : l.is = "atx" => l.level \in Nat
  /\ Sources \subseteq Seq(Lines) /\ NewLines \subseteq Lines

VARIABLES disk,    \* the file
          indexed, \* the text of it the published index has
          answer   \* of the last search: [line, path], or None
vars == <<disk, indexed, answer>>

None == <<>>
First(S) == CHOOSE n \in S : \A m \in S : n <= m

-----------------------------------------------------------------------------
(* scanMdLines.                                                               *)

FrontmatterOpens(l) == l.is = "rule" /\ l.three /\ l.char \in {"-", "+"}

\* mdClassifyContentLine: a line of pluses is text.
Classified(l) ==
  CASE l.is = "atx" -> "heading"
    [] l.is = "rule" /\ l.char \in {"=", "-"} -> "underline"
    [] l.is = "text" \/ (l.is = "rule" /\ l.char \notin {"=", "-"}) -> "text"
    [] OTHER -> "other"

Outside == [in |-> "none"]
Within(what, l) == [in |-> what, opened |-> l]
FenceCloses(open, l) == l.is = "fence" /\ l.char = open.char /\ l.len >= open.len

\* One line: the state after it, and its kind.
Scanned(state, l, i) ==
  CASE state.in = "front" ->
         [state |-> IF l = state.opened THEN Outside ELSE state, kind |-> "frontmatter"]
    [] state.in = "fence" ->
         [state |-> IF FenceCloses(state.opened, l) THEN Outside ELSE state, kind |-> "code"]
    [] state.in = "none" /\ i = 1 /\ FrontmatterOpens(l) ->
         [state |-> Within("front", l), kind |-> "frontmatter"]
    [] state.in = "none" /\ l.is = "fence" -> [state |-> Within("fence", l), kind |-> "code"]
    [] OTHER -> [state |-> Outside, kind |-> Classified(l)]

ScanMdLines(src) ==
  LET scan[i \in 0..Len(src)] ==
        IF i = 0 THEN [state |-> Outside, kind |-> "none"]
        ELSE Scanned(scan[i - 1].state, src[i], i)
  IN [i \in 1..Len(src) |-> scan[i].kind]

-----------------------------------------------------------------------------
(* parseMdSections.                                                           *)

\* A text line before an underline is a heading too (setext).
Setext(kinds, i) == kinds[i] = "text" /\ i < Len(kinds) /\ kinds[i + 1] = "underline"
IsHeading(kinds, i) == kinds[i] = "heading" \/ Setext(kinds, i)
Positions(seq) == [i \in DOMAIN seq |-> i]
SectionBoundaries(kinds) ==
  Select(Positions(kinds), {i \in DOMAIN kinds : i = 1 \/ IsHeading(kinds, i)})

\* mdResolveHeading.
LevelOf(src, kinds, i) ==
  IF kinds[i] = "heading" THEN src[i].level ELSE IF src[i + 1].char = "=" THEN 1 ELSE 2
TextOf(src, i) == IF src[i].is = "rule" THEN src[i].char ELSE src[i].text

\* A heading pops those of its level or below.
Stacked_NoPop(stack, level, text) ==           \* mutant: an equal level stays
  Append(Select(stack, {n \in DOMAIN stack : stack[n].level <= level}),
         [level |-> level, text |-> text])
Stacked(stack, level, text) ==
  LET open == {n \in 0..Len(stack) : \A m \in n + 1..Len(stack) : stack[m].level >= level}
  IN Append(SubSeq(stack, 1, First(open)), [level |-> level, text |-> text])

Section(src, kinds, stack, first, last) ==
  LET heads == IsHeading(kinds, first)
  IN [path |-> IF heads THEN [n \in 1..Len(stack) |-> stack[n].text] ELSE <<>>,
      level |-> IF heads THEN LevelOf(src, kinds, first) ELSE 0,
      start |-> first, end |-> last]

ParseMdSections(src) ==
  LET kinds == ScanMdLines(src)
      at == SectionBoundaries(kinds)
      stacks[k \in 0..Len(at)] ==
        IF k = 0 THEN <<>>
        ELSE IF IsHeading(kinds, at[k])
          THEN Stacked(stacks[k - 1], LevelOf(src, kinds, at[k]), TextOf(src, at[k]))
          ELSE stacks[k - 1]
  IN [k \in 1..Len(at) |->
        Section(src, kinds, stacks[k], at[k], IF k < Len(at) THEN at[k + 1] - 1 ELSE Len(src))]

\* headingPathFor: the first section with the line, or nothing.
HeadingPathFor(src, line) ==
  LET of == {k \in DOMAIN ParseMdSections(src) :
               ParseMdSections(src)[k].start <= line /\ line <= ParseMdSections(src)[k].end}
  IN IF of = {} THEN <<>> ELSE ParseMdSections(src)[First(of)].path

-----------------------------------------------------------------------------
Init == disk \in Sources /\ indexed = disk /\ answer = None

\* A line is inserted or removed at the top.  Bound: one edit before a flush.
Edit ==
  /\ disk = indexed
  /\ \/ \E l \in NewLines : Len(disk) < MaxLines /\ disk' = <<l>> \o disk
     \/ disk # <<>> /\ disk' = Tail(disk)
  /\ UNCHANGED <<indexed, answer>>

\* The watcher publishes what it read.
Flush == disk # indexed /\ indexed' = disk /\ UNCHANGED <<disk, answer>>

\* A hit's line is the index's, its path the disk's (toHits); a file that is
\* no longer there has none.
Search(line) ==
  /\ answer = None
  /\ answer' = [line |-> line, path |-> HeadingPathFor(disk, line), of |-> indexed,
                current |-> disk = indexed]
  /\ UNCHANGED <<disk, indexed>>
Answered == answer # None /\ answer' = None /\ UNCHANGED <<disk, indexed>>

Next == Edit \/ Flush \/ (\E line \in DOMAIN indexed : Search(line)) \/ Answered
Spec == Init /\ [][Next]_vars

-----------------------------------------------------------------------------
(* Every line is in one section, a section begins at line 1 or at a heading   *)
(* outside fences and frontmatter, and its path is made of just the headings  *)
(* before it that no heading of their level or above has closed, in order     *)
(* (parseMdSections).                                                         *)
SectionsNest ==
  LET kinds == ScanMdLines(disk)
      heads == {i \in DOMAIN disk : IsHeading(kinds, i)}
      level(i) == LevelOf(disk, kinds, i)
      encloses(i, j) == i <= j /\ \A m \in heads : i < m /\ m <= j => level(i) < level(m)
      secs == ParseMdSections(disk)
  IN /\ \A i \in DOMAIN disk : \E k \in DOMAIN secs :
          /\ secs[k].start <= i /\ i <= secs[k].end
          /\ \A o \in DOMAIN secs \ {k} : i < secs[o].start \/ secs[o].end < i
     /\ \A k \in DOMAIN secs :
          LET s == secs[k].start
              chain == Select(Positions(disk), {i \in heads : encloses(i, s)})
          IN /\ s = 1 \/ s \in heads
             /\ secs[k].path = IF s \in heads THEN [n \in DOMAIN chain |-> TextOf(disk, chain[n])]
                                              ELSE <<>>
     /\ \A i \in heads : ~\E o \in DOMAIN disk :
          /\ o < i /\ disk[o].is = "fence" /\ kinds[o] = "code"
          /\ \A c \in o + 1..i : kinds[c] = "code"

(* The path of a hit is that of the section its line is in, in the text the   *)
(* index has, unless the file was edited and not yet indexed again (a window  *)
(* in which Hit.HeadingPath may be another section's).                        *)
PathIsOfHit ==
  answer # None /\ answer.current => answer.path = HeadingPathFor(answer.of, answer.line)

SectionsAgree == SectionsNest /\ PathIsOfHit
===============================================================================
