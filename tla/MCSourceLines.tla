--------------------------- MODULE MCSourceLines ---------------------------
(* Every text of up to four lines of the indented syntax, with levels that  *)
(* fall below, on and beyond the width of a block; every text of up to six  *)
(* lines of directives, comments and statements, and of up to four when the *)
(* comments and statements also begin or end like those of a block.         *)
EXTENDS SourceLines

Texts(n, lines) == UNION {[1 .. m -> lines] : m \in 0 .. n}

\* A line of each kind as it is usually written.
Usual(indent, kind) ==
    [spaces |-> indent, kind |-> kind, closes |-> kind \in {"end", "else"},
     rises |-> kind \in {"open", "head"}]

Indented == {Usual(indent, kind) : indent \in {0, 2, 4, 8},
                                   kind \in {"blank", "plain", "head", "else"}}
Directed == {Usual(0, kind) : kind \in {"note", "plain", "open", "end"}}
Unusual == {line \in [spaces : {0}, kind : {"note", "plain", "head", "end"},
                      closes : BOOLEAN, rises : BOOLEAN] : line \in TextLine}

MCSources == Texts(4, Indented) \cup Texts(6, Directed) \cup Texts(4, Directed \cup Unusual)

=============================================================================
