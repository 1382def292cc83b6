----------------------------- MODULE YamlWriter -----------------------------
(***************************************************************************)
(* The writers of libyaml's emitter: indentation, indicators, anchors,     *)
(* tags and scalars, with the whitespace and the line breaks between them. *)
(* The state of the output is a record                                     *)
(*   text        the lexemes written so far                                *)
(*   line, column, index   the position                                    *)
(*   whitespace  emitter->whitespace: was the last character a blank?      *)
(*   indention   emitter->indention: only indentation so far on the line?  *)
(*   openEnded   emitter->open_ended: may the scalar go on?                *)
(*   written     the atoms of the scalar that is being written             *)
(***************************************************************************)
EXTENDS YamlLexeme

NewOutput == [text |-> <<>>, line |-> 0, column |-> 0, index |-> 0,
              whitespace |-> TRUE, indention |-> TRUE, openEnded |-> FALSE,
              written |-> <<>>]

-----------------------------------------------------------------------------
(* yaml_emitter_analyze_scalar *)

TextLength(t) ==
    FoldLeft(LAMBDA sum, atom : sum + (IF IsWord(atom) THEN atom ELSE 1), 0, t.atoms)

Analysis(t) ==
    LET n == Len(t.atoms)
        Pair(a, b) == \E i \in 1 .. n - 1 : t.atoms[i] = a /\ t.atoms[i + 1] = b
        breaks == \E i \in 1 .. n : t.atoms[i] = Break
        trimmed == IsWord(t.atoms[1]) /\ IsWord(t.atoms[n])
        hidden == Pair(Space, Break) \/ "special_characters" \in t.marks
        plain == trimmed /\ ~breaks /\ ~hidden
    IN IF n = 0
       THEN [multiline |-> FALSE, flowPlain |-> FALSE, blockPlain |-> TRUE,
             single |-> TRUE, block |-> FALSE]
       ELSE [multiline |-> breaks,
             flowPlain |-> plain /\ "flow_indicators" \notin t.marks,
             blockPlain |-> plain /\ "block_indicators" \notin t.marks,
             single |-> ~Pair(Break, Space) /\ ~hidden,
             block |-> t.atoms[n] # Space /\ ~hidden]

-----------------------------------------------------------------------------
(* Characters *)

\* PUT and WRITE of n characters
Put(o, n) == [o EXCEPT !.column = @ + n, !.index = @ + n]
PutBreak(o) ==
    [o EXCEPT !.line = @ + 1, !.column = 0, !.index = @ + 1,
              !.written = Append(@, [atom |-> Break, col |-> o.column])]
Separate(o) == IF o.whitespace THEN o ELSE Put(o, 1)

\* Word w was written from where o was to where "to" is.
Lexed(o, to, w) ==
    LET lexeme == [w EXCEPT !.lines = to.line - o.line, !.length = to.index - o.index]
    IN [to EXCEPT !.text = Append(@, At(lexeme, o.line, o.column, o.index)),
                  !.written = <<>>]

WriteIndent(o, indent) ==
    LET i == IF indent >= 0 THEN indent ELSE 0
        o1 == IF ~o.indention \/ o.column > i \/ (o.column = i /\ ~o.whitespace)
              THEN PutBreak(o) ELSE o
    IN [Put(o1, i - o1.column) EXCEPT !.whitespace = TRUE, !.indention = TRUE]

Length(kind) == CASE kind \in {"---", "..."} -> 3
                  [] kind = "%yaml" -> 9
                  [] kind = "%tag" -> 20
                  [] OTHER -> 1

\* The flags that yaml_emitter_write_indicator leaves behind
Indicated(o, isWhitespace, isIndention) ==
    [o EXCEPT !.whitespace = isWhitespace,
              !.indention = @ /\ isIndention,
              !.openEnded = FALSE]

\* yaml_emitter_write_indicator, of an indicator that is a lexeme of its own
WriteIndicator(o, kind, needWhitespace, isWhitespace, isIndention) ==
    LET o1 == IF needWhitespace THEN Separate(o) ELSE o
    IN Indicated(Lexed(o1, Put(o1, Length(kind)), Word(kind, "")), isWhitespace, isIndention)

WriteDirective(o, kind, val, indent) ==
    LET o1 == Separate(o)
    IN WriteIndent(Indicated(Lexed(o1, Put(o1, Length(kind)), Word(kind, val)), FALSE, FALSE),
                   indent)

NoBlank(o) == [o EXCEPT !.whitespace = FALSE, !.indention = FALSE]

AnchorLength == 5    \* "id001"
\* yaml_emitter_process_anchor, of an anchor "&" or an alias "*"
WriteAnchor(o, kind, anchor) ==
    IF anchor = "" THEN o
    ELSE LET o1 == Separate(o)
         IN Indicated(Lexed(o1, Put(o1, 1 + AnchorLength), Word(kind, anchor)), FALSE, FALSE)

TagLength == 8
\* yaml_emitter_process_tag: a handle and a suffix, or "!<", the tag and ">"
WriteTag(o, tag) ==
    LET o1 == Separate(o)
        o2 == NoBlank(Lexed(o1, Put(o1, TagLength), Word("!", tag)))
    IN IF tag = "" THEN o
       ELSE IF tag = "<" THEN Indicated(o2, FALSE, FALSE) ELSE o2

-----------------------------------------------------------------------------
(* Scalars *)

\* What a scalar is written as, on and on over its atoms
Written(style, increment, chomp, atoms) ==
    [style |-> style, increment |-> increment, chomp |-> chomp, atoms |-> atoms]
ScalarWord(kind, val, raw) == [Word(kind, val) EXCEPT !.raw = raw]

\* n characters that stand for one atom
PutAtom(o, atom, n) ==
    [Put(o, n) EXCEPT !.written = Append(@, [atom |-> atom, col |-> o.column])]
WriteAtom(o, atom) == PutAtom(o, atom, IF IsWord(atom) THEN atom ELSE 1)
WriteWord(o, atom) == [WriteAtom(o, atom) EXCEPT !.indention = FALSE]
WriteBreak(o) == [PutBreak(o) EXCEPT !.indention = TRUE]

\* The local variables "spaces" and "breaks" of the loops, at atom i
Since(atoms, i, atom) ==
    \E j \in 1 .. i - 1 : atoms[j] = atom /\ \A k \in j .. i - 1 : ~IsWord(atoms[k])
Follows(atoms, i, atom) == i < Len(atoms) /\ atoms[i + 1] = atom
AtBreak(atoms, i) == i > 1 /\ atoms[i - 1] = Break

\* The loop of the plain and of the single quoted style: a space may become a
\* line break where the line is too long, and the first of several breaks is
\* doubled, because the reader takes a single one for a space.
WriteFlowAtom(o, atoms, i, indent, mayBreak, width) ==
    LET folds == mayBreak /\ o.column > width /\ i \notin {1, Len(atoms)}
                 /\ ~Since(atoms, i, Space) /\ ~Follows(atoms, i, Space)
        broken == Since(atoms, i, Break)
    IN CASE atoms[i] = Space -> IF folds THEN WriteIndent(o, indent) ELSE WriteAtom(o, Space)
         [] atoms[i] = Break -> WriteBreak(IF broken THEN o ELSE PutBreak(o))
         [] OTHER -> WriteWord(IF broken THEN WriteIndent(o, indent) ELSE o, atoms[i])

\* The double quoted style: breaks are escaped, and a space that a line begins
\* with is.
WriteDoubleAtom(o, atoms, i, indent, mayBreak, width) ==
    LET folds == mayBreak /\ o.column > width /\ i \notin {1, Len(atoms)}
                 /\ atoms[i - 1] # Space
        o1 == WriteIndent(o, indent)
    IN CASE atoms[i] = Space /\ folds ->
                IF Follows(atoms, i, Space) THEN PutAtom(o1, Backslash, 1) ELSE o1
         [] atoms[i] = Break -> PutAtom(o, EscapedBreak, 2)
         [] OTHER -> WriteAtom(o, atoms[i])

WriteLiteralAtom(o, atoms, i, indent) ==
    IF atoms[i] = Break THEN WriteBreak(o)
    ELSE WriteWord(IF i = 1 \/ AtBreak(atoms, i) THEN WriteIndent(o, indent) ELSE o, atoms[i])

\* The folded style: lines that start with a space are not folded by the
\* reader, so that the breaks around them are not doubled.
WriteFoldedAtom(o, atoms, i, indent, width) ==
    LET starts == i = 1 \/ AtBreak(atoms, i)
        indented == \E j \in 1 .. i - 1 :
                        /\ atoms[j] = Space
                        /\ j = 1 \/ AtBreak(atoms, j)
                        /\ \A k \in j .. i - 1 : atoms[k] # Break
        goesOn == \E j \in i .. Len(atoms) :
                      IsWord(atoms[j]) /\ \A k \in i .. j - 1 : atoms[k] = Break
        doubled == ~starts /\ ~indented /\ goesOn
        folds == ~starts /\ ~Follows(atoms, i, Space) /\ o.column > width
    IN CASE atoms[i] = Break -> WriteBreak(IF doubled THEN PutBreak(o) ELSE o)
         [] atoms[i] = Space /\ folds -> [WriteIndent(o, indent) EXCEPT !.indention = FALSE]
         [] OTHER -> WriteWord(IF starts THEN WriteIndent(o, indent) ELSE o, atoms[i])

WriteAtoms(o, atoms, style, indent, mayBreak, width) ==
    FoldLeftDomain(LAMBDA acc, i :
        CASE style \in {"plain", "single"} ->
                WriteFlowAtom(acc, atoms, i, indent, mayBreak, width)
          [] style = "double" -> WriteDoubleAtom(acc, atoms, i, indent, mayBreak, width)
          [] style = "literal" -> WriteLiteralAtom(acc, atoms, i, indent)
          [] style = "folded" -> WriteFoldedAtom(acc, atoms, i, indent, width),
        [o EXCEPT !.written = <<>>], atoms)

\* An empty plain scalar is nothing but the blank before it.
WritePlain(o, val, indent, mayBreak, width, root) ==
    LET atoms == TextOf(val).atoms
        o1 == Separate(o)
        o2 == WriteAtoms(o1, atoms, "plain", indent, mayBreak, width)
        o3 == IF atoms = <<>> THEN o2
              ELSE Lexed(o1, o2, ScalarWord("plain", val, Written("plain", 0, "", o2.written)))
    IN [NoBlank(o3) EXCEPT !.openEnded = @ \/ root]

WriteQuoted(o, val, style, indent, mayBreak, width) ==
    LET o1 == Separate(o)
        o2 == WriteAtoms(Indicated(Put(o1, 1), FALSE, FALSE), TextOf(val).atoms, style,
                         indent, mayBreak, width)
        o3 == IF style = "single" /\ TextOf(val).atoms # <<>> /\ Last(TextOf(val).atoms) = Break
              THEN WriteIndent(o2, indent) ELSE o2
    IN NoBlank(Indicated(Lexed(o1, Put(o3, 1),
                               ScalarWord("quoted", val, Written(style, 0, "", o3.written))),
                         FALSE, FALSE))

\* yaml_emitter_write_block_scalar_hints: the indentation where the text starts
\* with a blank, and what the reader does with the breaks at the end.  The flag
\* open_ended that "+" asks for does not outlast the writing of "+".
Increment(atoms, bestIndent) == IF IsWord(atoms[1]) THEN 0 ELSE bestIndent
\* Variant: a text that is one line break is taken for a line with its end.
ChompClipped(atoms) ==
    LET n == Len(atoms) IN
    IF atoms[n] # Break THEN "strip"
    ELSE IF n > 1 /\ atoms[n - 1] = Break THEN "keep" ELSE "clip"
Chomp(atoms) ==
    LET n == Len(atoms) IN
    IF atoms[n] # Break THEN "strip"
    ELSE IF n = 1 \/ atoms[n - 1] = Break THEN "keep" ELSE "clip"

HintsLength(atoms) == (IF IsWord(atoms[1]) THEN 0 ELSE 1)
                      + (IF Chomp(atoms) = "clip" THEN 0 ELSE 1)

WriteBlockScalar(o, val, style, indent, width, bestIndent) ==
    LET atoms == TextOf(val).atoms
        o1 == Separate(o)
        o2 == PutBreak(Indicated(Put(o1, 1 + HintsLength(atoms)), FALSE, FALSE))
        o3 == WriteAtoms([o2 EXCEPT !.whitespace = TRUE, !.indention = TRUE], atoms,
                         style, indent, TRUE, width)
    IN Lexed(o1, o3,
             ScalarWord("|", val, Written(style, Increment(atoms, bestIndent), Chomp(atoms),
                                          o3.written)))

\* yaml_emitter_process_scalar
WriteScalar(o, val, style, indent, mayBreak, width, root, bestIndent) ==
    CASE style = "plain" -> WritePlain(o, val, indent, mayBreak, width, root)
      [] style \in {"single", "double"} ->
            WriteQuoted(o, val, style, indent, mayBreak, width)
      [] style \in {"literal", "folded"} ->
            WriteBlockScalar(o, val, style, indent, width, bestIndent)
=============================================================================
