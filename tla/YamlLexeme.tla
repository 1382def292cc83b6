----------------------------- MODULE YamlLexeme -----------------------------
(***************************************************************************)
(* Yaml text as the scanner and the emitter of the vendored libyaml see it *)
(* here: a sequence of lexemes.  A lexeme is an indicator ("[", "-", ":",  *)
(* ...), a scalar, an anchor, ... with the position where it starts, how   *)
(* many characters long it is, over how many further lines it goes and, for *)
(* a scalar that the emitter wrote, how it was laid out.                   *)
(***************************************************************************)
EXTENDS Integers, SequencesExt

CONSTANT TextOf(_)   \* the text of a scalar: [atoms, marks]; the marks are
                     \* "flow_indicators", "block_indicators" and
                     \* "special_characters" where it has such characters

\* The characters of a text are atoms: a word of n > 0 characters, a space or
\* a line break.
Space == -1
Break == -2
IsWord(atom) == atom > 0
Copies(n, atom) == [i \in 1 .. n |-> atom]

\* How a scalar is written out: its atoms, each with its column, where an
\* escaped break stands for "\n" and a backslash precedes an escaped space.
\* A style "" says that only the value matters.
EscapedBreak == -3
Backslash == -4
NotWritten == [style |-> "", increment |-> 0, chomp |-> "", atoms |-> <<>>]

Word(kind, val) ==
    [kind |-> kind, val |-> val, lines |-> 0, length |-> 1, raw |-> NotWritten]

At(w, line, col, index) ==
    [kind |-> w.kind, val |-> w.val, lines |-> w.lines, length |-> w.length,
     raw |-> w.raw, line |-> line, col |-> col, index |-> index]

EndLine(l) == l.line + l.lines
EndIndex(l) == l.index + l.length

Layouts == [style : STRING, increment : Nat, chomp : STRING,
            atoms : Seq([atom : Int, col : Int])]
FreeWords == [kind : STRING, val : STRING, lines : Nat, length : Nat, raw : Layouts]
Lexemes == [kind : STRING, val : STRING, lines : Nat, length : Nat, raw : Layouts,
            line : Nat, col : Nat, index : Nat]

\* Lexeme n starts where l has ended, or later.
ComesAfter(n, l) == n.line >= EndLine(l) /\ n.index >= EndIndex(l)
InOrder(text) == \A i \in 1 .. Len(text) - 1 : ComesAfter(text[i + 1], text[i])

\* The end of the text.
TextEnd(line, col, index) ==
    At([Word("end", "") EXCEPT !.length = 0], line, col, index)
=============================================================================
