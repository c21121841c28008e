---------------------------- MODULE SourceLines ----------------------------
(* Three passes over the lines of a source text, each a loop with a little  *)
(* state: the playground's transformer from indentation to braces           *)
(* (apps/website/public/wasm_runner.js, LipiVirtualSilicon.run), and the    *)
(* editor's linter and formatter (editors/vscode/extension.js).  A line is  *)
(* its indentation, its kind, as the tests of the transformer and the       *)
(* linter tell it, and the two tests of the formatter:                      *)
(*   blank    nothing                                                       *)
(*   note     a comment                                                     *)
(*   head     fn, while, if, with no brace of its own                       *)
(*   else     else, alone on its line                                       *)
(*   open     @fn, @if, @while, @struct                                     *)
(*   end      @end                                                          *)
(*   plain    any other line                                                *)
(*   closes   it begins with @end, end, else, elif or their Bengali words,  *)
(*            a statement such as endpoint = 1 included                     *)
(*   rises    it begins with a word that opens a block, or ends with a colon *)
EXTENDS Integers, Sequences, FiniteSets

CONSTANTS Sources       \* bound: the texts to run the passes over

Kinds == {"blank", "note", "plain", "head", "else", "open", "end"}

TextLine == {line \in [spaces : Nat, kind : Kinds, closes : BOOLEAN, rises : BOOLEAN] :
                /\ line.kind = "end" => line.closes
                /\ line.kind = "open" => line.rises
                /\ line.closes => line.kind \in {"end", "else", "plain"}
                /\ line.rises => line.kind # "blank"}

ASSUME SourceAssumption == Sources \subseteq Seq(TextLine)

VARIABLES
    source,             \* the text
    at,                 \* the line the running pass is at
    pass,               \* "run", "lint", "format" or "done"
    indentStack,        \* run: [spaces, line that opened the block, 0 for a bare brace]
    opened, closed,     \* run: braces written so far
    within,             \* run: line -> the lines whose blocks it was put in
    directiveStack,     \* lint: lines of the open directives
    diagnostics,        \* lint: lines reported
    indentLevel,        \* format
    formatted           \* format: line -> the level it was written at

running == <<indentStack, opened, closed, within>>
linting == <<directiveStack, diagnostics>>
formatting == <<indentLevel, formatted>>
lineVars == <<source, at, pass, running, linting, formatting>>

Bottom == [spaces |-> 0, line |-> 0]

LinesInit ==
    /\ source \in Sources
    /\ at = 1 /\ pass = "run"
    /\ indentStack = <<Bottom>> /\ opened = 0 /\ closed = 0
    /\ within = [i \in DOMAIN source |-> {}]
    /\ directiveStack = <<>> /\ diagnostics = {}
    /\ indentLevel = 0 /\ formatted = [i \in DOMAIN source |-> 0]

Line == source[at]
IsHead(line) == line.kind \in {"head", "else"}
Top(stack) == stack[Len(stack)]

NextLine == at <= Len(source) /\ at' = at + 1 /\ UNCHANGED <<source, pass>>

NextPass(from, to) ==
    /\ pass = from /\ at > Len(source)
    /\ pass' = to /\ at' = 1
    /\ UNCHANGED source

-----------------------------------------------------------------------------
(* The transformer. *)

(* Mutant: one level is popped, however far the line goes back. *)
PopOne(stack, spaces) == {IF Len(stack) > 1 THEN Len(stack) - 1 ELSE 1}

(* What the pops of a line leave of the stack (one length): levels deeper   *)
(* than the line go, from the top, and the bottom stays.                    *)
Pop(stack, spaces) ==
    {n \in 1 .. Len(stack) : /\ \A m \in n + 1 .. Len(stack) : stack[m].spaces > spaces
                             /\ n = 1 \/ stack[n].spaces <= spaces}

(* Before the line: a deeper one opens a bare block, a shallower one closes. *)
Indent(stack, spaces) ==
    IF spaces > Top(stack).spaces THEN {Append(stack, [spaces |-> spaces, line |-> 0])}
    ELSE IF spaces < Top(stack).spaces THEN {SubSeq(stack, 1, n) : n \in Pop(stack, spaces)}
    ELSE {stack}

BlockWidth == 4

RunLine ==
    /\ pass = "run" /\ NextLine
    /\ \/ /\ Line.kind \in {"blank", "note"}
          /\ UNCHANGED running
       \/ /\ Line.kind \notin {"blank", "note"}
          /\ \E before \in Indent(indentStack, Line.spaces) :
                /\ indentStack' = IF IsHead(Line)
                     THEN Append(before, [spaces |-> Line.spaces + BlockWidth, line |-> at])
                     ELSE before
                /\ opened' = opened + (IF Len(before) > Len(indentStack) THEN 1 ELSE 0)
                                    + (IF IsHead(Line) THEN 1 ELSE 0)
                /\ closed' = closed + (IF Len(before) < Len(indentStack)
                                       THEN Len(indentStack) - Len(before) ELSE 0)
                /\ within' = [within EXCEPT ![at] =
                                {before[n].line : n \in 1 .. Len(before)} \ {0}]
    /\ UNCHANGED <<linting, formatting>>

(* Mutant: the blocks open at the end are left open. *)
RunEndsOpen ==
    /\ NextPass("run", "lint")
    /\ UNCHANGED <<running, linting, formatting>>

RunEnds ==
    /\ NextPass("run", "lint")
    /\ indentStack' = <<Bottom>>
    /\ closed' = closed + Len(indentStack) - 1
    /\ UNCHANGED <<opened, within, linting, formatting>>

-----------------------------------------------------------------------------
(* The linter. *)

(* Mutant: an end without a block is taken for the last block's. *)
LintEndQuiet ==
    /\ Line.kind = "end"
    /\ directiveStack' = IF directiveStack = <<>> THEN directiveStack
                         ELSE SubSeq(directiveStack, 1, Len(directiveStack) - 1)
    /\ UNCHANGED diagnostics

LintEnd ==
    /\ Line.kind = "end"
    /\ \/ /\ directiveStack = <<>>
          /\ diagnostics' = diagnostics \cup {at}
          /\ UNCHANGED directiveStack
       \/ /\ directiveStack # <<>>
          /\ directiveStack' = SubSeq(directiveStack, 1, Len(directiveStack) - 1)
          /\ UNCHANGED diagnostics

LintOpen ==
    /\ Line.kind = "open"
    /\ directiveStack' = Append(directiveStack, at)
    /\ UNCHANGED diagnostics

LintLine ==
    /\ pass = "lint" /\ NextLine
    /\ \/ Line.kind \notin {"open", "end"} /\ UNCHANGED linting
       \/ LintOpen
       \/ LintEnd
    /\ UNCHANGED <<running, formatting>>

LintEnds ==
    /\ NextPass("lint", "format")
    /\ diagnostics' = diagnostics \cup {directiveStack[n] : n \in DOMAIN directiveStack}
    /\ UNCHANGED <<directiveStack, running, formatting>>

-----------------------------------------------------------------------------
(* The formatter. *)

(* Mutant: the closing line is written at the level of the block. *)
DedentNone(level, line) == level

Dedent(level, line) == IF line.closes /\ level > 0 THEN level - 1 ELSE level

(* A blank line is left empty. *)
FormatLine ==
    /\ pass = "format" /\ NextLine
    /\ LET level == Dedent(indentLevel, Line)
       IN \/ /\ Line.kind = "blank"
             /\ UNCHANGED formatting
          \/ /\ Line.kind # "blank"
             /\ formatted' = [formatted EXCEPT ![at] = level]
             /\ indentLevel' = IF Line.rises THEN level + 1 ELSE level
    /\ UNCHANGED <<running, linting>>

FormatEnds ==
    /\ NextPass("format", "done")
    /\ UNCHANGED <<running, linting, formatting>>

LinesNext == RunLine \/ RunEnds \/ LintLine \/ LintEnds \/ FormatLine \/ FormatEnds

LinesSpec == LinesInit /\ [][LinesNext]_lineVars

-----------------------------------------------------------------------------
(* Reference definitions, over the text alone. *)

Code(i) == source[i].kind \notin {"blank", "note"}

(* The blocks around line i: the headers above it that every line of code   *)
(* since exceeds by at least the width of a block.                          *)
Around(i) == {h \in 1 .. i - 1 :
                /\ IsHead(source[h])
                /\ \A k \in h + 1 .. i : Code(k) => source[k].spaces >= source[h].spaces + BlockWidth}

Count(kind, i, j) == Cardinality({k \in i .. j : source[k].kind = kind})

(* Line i opens a directive and line j is the @end that closes it. *)
Closes(j, i) == /\ source[i].kind = "open" /\ source[j].kind = "end" /\ i < j
                /\ Count("open", i, j) = Count("end", i, j)
                /\ \A k \in i .. j - 1 : Count("open", i, k) > Count("end", i, k)

Unmatched == {i \in DOMAIN source :
                \/ source[i].kind = "open" /\ \A j \in DOMAIN source : ~Closes(j, i)
                \/ source[i].kind = "end" /\ \A j \in DOMAIN source : ~Closes(i, j)}

(* LipiVirtualSilicon.run: whatever the indentation, the braces it writes   *)
(* never close more than they opened, are balanced when it ends, and the    *)
(* stack of levels is what is open; the levels only grow from the bottom,   *)
(* on which the loop that pops them relies.                                 *)
BracesBalanced ==
    /\ opened - closed = Len(indentStack) - 1
    /\ pass # "run" => opened = closed
    /\ indentStack[1] = Bottom
    /\ \A m, n \in DOMAIN indentStack : m < n => indentStack[m].spaces <= indentStack[n].spaces

(* LipiVirtualSilicon.run: a line runs inside exactly the blocks it is      *)
(* indented under by four columns or more; sudden dedents, blocks without a *)
(* body and levels between two blocks included.                             *)
RunsWhereIndented ==
    \A i \in DOMAIN source : Code(i) /\ (pass # "run" \/ i < at) => within[i] = Around(i)

(* validateDocument: after its pass it reports exactly the directives that  *)
(* no @end closes and the @ends that close none.                            *)
LintsExactly == pass \in {"format", "done"} => diagnostics = Unmatched

(* The formatter agrees with the linter in a text of directives only, whose *)
(* other lines neither begin with a word that closes or opens a block nor   *)
(* end with a colon: if the linter accepts it, each line is written at the  *)
(* number of directives open around it, and the text ends at level 0.  The  *)
(* two disagree beyond: endpoint = 1 between @fn and @end goes back a level. *)
Directives(text) ==
    \A i \in DOMAIN text : /\ text[i].kind \notin {"head", "else"}
                           /\ text[i].closes <=> text[i].kind = "end"
                           /\ text[i].rises <=> text[i].kind = "open"
Depth(i) == Count("open", 1, i - 1) - Count("end", 1, i)
FormatFollowsLint ==
    pass = "done" /\ diagnostics = {} /\ Directives(source)
       => /\ indentLevel = 0
          /\ \A i \in DOMAIN source : source[i].kind # "blank" => formatted[i] = Depth(i)

=============================================================================
