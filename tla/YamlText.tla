------------------------------ MODULE YamlText ------------------------------
(***************************************************************************)
(* How a tree of scalars, sequences and mappings is written down as yaml:  *)
(* the reference the reading side is checked against.  A tree is written   *)
(* in the flow style on one line, or in the block style, where sequences   *)
(* in a mapping are indented or not.                                       *)
(***************************************************************************)
EXTENDS YamlLexeme, SequencesExt

TreeNode(kind, val, kids) ==
    [kind |-> kind, val |-> val, tag |-> "!!", style |-> "any", kids |-> kids]
Scalar(val) == TreeNode("scalar", val, <<>>)
Sequence(kids) == TreeNode("sequence", "", kids)
Mapping(kids) == TreeNode("mapping", "", kids)

\* The nodes of a tree one after the other, each before its kids, which are
\* given by their positions; "all" are the nodes before them.
RECURSIVE NodesAfter(_, _)
NodesAfter(all, tree) ==
    LET me == Len(all) + 1
        WithKid(nodes, kid) ==
            [NodesAfter(nodes, kid) EXCEPT ![me].kids = Append(@, Len(nodes) + 1)]
    IN FoldLeft(WithKid, Append(all, [tree EXCEPT !.kids = <<>>]), tree.kids)
Document(tree) ==
    [nodes |-> NodesAfter(<<>>, tree), version |-> FALSE, handles |-> <<>>,
     implicit |-> TRUE, endImplicit |-> TRUE]

\* A word goes on in the line of the one before (col = -1) or starts a line.
Placed(kind, val) == [word |-> Word(kind, val), col |-> -1]
Indicator(kind) == <<Placed(kind, "")>>
OnLine(words, col) == [words EXCEPT ![1].col = col]

\* The position of each word: one word takes two columns.
Positioned(words) ==
    FoldLeft(LAMBDA text, w :
        LET last == Last(text)
            line == IF w.col >= 0 /\ text # <<>> THEN last.line + 1
                    ELSE IF text = <<>> THEN 0 ELSE last.line
            col == IF w.col >= 0 THEN w.col ELSE last.col + 2
            index == IF text = <<>> THEN 0 ELSE last.index + 1
        IN Append(text, At(w.word, line, col, index)),
        <<>>, words)

RECURSIVE FlowWords(_)
FlowWords(tree) ==
    LET items == [k \in DOMAIN tree.kids |->
            FlowWords(tree.kids[k])
            \o (IF tree.kind = "mapping" /\ k % 2 = 1 THEN Indicator(":")
                ELSE IF k < Len(tree.kids) THEN Indicator(",") ELSE <<>>)]
    IN CASE tree.kind = "scalar"   -> <<Placed("plain", tree.val)>>
         [] tree.kind = "sequence" -> Indicator("[") \o FlattenSeq(items) \o Indicator("]")
         [] tree.kind = "mapping"  -> Indicator("{") \o FlattenSeq(items) \o Indicator("}")

\* In the block style at column c; "deeper" is what a sequence in a mapping is
\* indented by.  A key that is no scalar is written with "?".
RECURSIVE BlockWords(_, _, _)
BlockWords(tree, c, deeper) ==
    LET Inline(t) == t.kind = "scalar" \/ t.kids = <<>>
        Item(t) == OnLine(Indicator("-"), c) \o
                   (IF Inline(t) THEN FlowWords(t)
                    ELSE OnLine(BlockWords(t, c + 2, deeper), -1))
        Key(t) == IF t.kind = "scalar" THEN OnLine(FlowWords(t), c) \o Indicator(":")
                  ELSE OnLine(Indicator("?"), c)
                       \o OnLine(BlockWords(t, c + 2, deeper), -1)
                       \o OnLine(Indicator(":"), c)
        Value(t) == IF Inline(t) THEN FlowWords(t)
                    ELSE BlockWords(t, IF t.kind = "sequence" THEN c + deeper ELSE c + 2,
                                    deeper)
    IN IF Inline(tree) THEN OnLine(FlowWords(tree), c)
       ELSE FlattenSeq([k \in DOMAIN tree.kids |->
                CASE tree.kind = "sequence"              -> Item(tree.kids[k])
                  [] tree.kind = "mapping" /\ k % 2 = 1 -> Key(tree.kids[k])
                  [] tree.kind = "mapping" /\ k % 2 = 0 -> Value(tree.kids[k])])

\* A stream: each document after "---", a single one without.
StreamWords(trees, Words(_)) ==
    IF Len(trees) = 1 THEN Words(trees[1])
    ELSE FlattenSeq([i \in DOMAIN trees |->
            OnLine(Indicator("---"), 0) \o Words(trees[i])])

FlowText(trees) == Positioned(StreamWords(trees, LAMBDA t : OnLine(FlowWords(t), 0)))
BlockText(trees, deeper) ==
    Positioned(StreamWords(trees, LAMBDA t : BlockWords(t, 0, deeper)))
=============================================================================
