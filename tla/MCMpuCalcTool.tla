--------------------------- MODULE MCMpuCalcTool ---------------------------
(***************************************************************************)
(* Small instances of the tool with its yaml reader: every free input of a *)
(* few lexemes, texts laid out from trees in block and flow style, and     *)
(* documents that the dumper and the emitter write.                        *)
(***************************************************************************)
EXTENDS YamlRoundTrip
T == INSTANCE YamlText

CONSTANTS Short, Long     \* how long the free inputs are

S(v) == T!Scalar(v)
Region(pairs) == T!Mapping(<<S("region"), T!Mapping(pairs)>>)
Comment(v) == <<S("comment"), S(v)>>
Size(v) == <<S("size"), S(v)>>

\* Two regions in one mapping: the second leaves out what the first has.
TwoRegions ==
    T!Mapping(<<S("region"), T!Mapping(Comment("one") \o Size("4K")),
                S("region"), T!Mapping(Comment("two"))>>)
\* A list of regions, fields outside of a region, an empty region.
ListOfRegions == T!Sequence(<<Region(Comment("three")), Region(<<>>)>>)
LooseFields ==
    T!Mapping(Size("8K") \o <<S("map"), ListOfRegions>> \o Comment("outside"))
\* Shapes that the tool does not look into.
Shapes ==
    T!Mapping(<<S("list"), T!Sequence(<<S("x"), T!Sequence(<<S("y"), S("z")>>),
                                        T!Sequence(<<>>)>>),
                S("map"), T!Mapping(<<S("k"), S("v")>>)>>)
ComplexKey == T!Mapping(<<T!Mapping(<<S("k"), S("v")>>), T!Sequence(<<S("x")>>)>>)
BadValue == Region(Size("hello"))
NoScalar == Region(<<S("size"), T!Sequence(<<S("4K")>>)>>)
CommentList == Region(<<S("comment"), T!Sequence(<<S("x")>>)>>)

Streams == {<<TwoRegions>>, <<ListOfRegions>>, <<LooseFields>>, <<Shapes>>,
            <<ComplexKey>>, <<BadValue>>, <<NoScalar>>, <<CommentList>>,
            <<TwoRegions, ListOfRegions>>}

\* Texts.  A value that is spelled with "w" (a word of three characters), " " and
\* "/" (a line break) has the atoms that it spells: every text of up to three
\* atoms, and longer ones, whose lines are folded.  Other values are one word.
Spelling(atom) == IF atom = Space THEN " " ELSE IF atom = Break THEN "/" ELSE "w"
Spelled(atoms) == FoldLeft(LAMBDA name, atom : name \o Spelling(atom), "", atoms)
NoSplitWord(atoms) == \A i \in 1 .. Len(atoms) - 1 : ~(IsWord(atoms[i]) /\ IsWord(atoms[i + 1]))
ShortTexts == {t \in UNION {[1 .. n -> {3, Space, Break}] : n \in 0 .. 3} : NoSplitWord(t)}
LongTexts == {<<3, Space, 3, Space, 3>>, <<3, Space, Space, 3, Space, 3>>,
              <<3, Break, Break, 3, Space, 3>>, <<3, Break, 3, Break, Space, 3, Break, 3>>,
              <<Break, 3, Break, Break>>, <<Space, 3, Break, 3, Space, 3, Break>>,
              <<3, Space, 3, Space, Space, 3, Space>>, <<Space, 3, Space, 3>>}
SpelledTexts == ShortTexts \cup LongTexts
AtomsOf == [val \in {Spelled(t) : t \in SpelledTexts} |->
                CHOOSE t \in SpelledTexts : Spelled(t) = val]
Marks(val) ==
    CASE val = "control" -> {"special_characters"}
      [] val = "a,b"     -> {"flow_indicators"}
      [] val = "- a"     -> {"flow_indicators", "block_indicators"}
      [] OTHER           -> {}
MCTextOf(val) ==
    [atoms |-> IF val \in DOMAIN AtomsOf THEN AtomsOf[val]
               ELSE IF val = "key" THEN <<129>>
               ELSE IF val = "- a" THEN <<1, Space, 1>> ELSE <<3>>,
     marks |-> Marks(val)]
ListedTexts == DOMAIN AtomsOf \cup {"control", "a,b", "- a", "key"}
Styles == {"any", "plain", "single", "double", "literal", "folded"}

NoSettings == [canonical |-> FALSE, indent |-> 2, width |-> 80]
Given(trees, lexemes) ==
    [documents |-> [i \in DOMAIN trees |-> T!Document(trees[i])],
     lexemes |-> lexemes, words |-> {}, columns |-> {}, free |-> 0,
     dumped |-> FALSE, settings |-> NoSettings]
Free(words, columns, length) ==
    [documents |-> <<>>, lexemes |-> <<>>, words |-> words, columns |-> columns,
     free |-> length, dumped |-> FALSE, settings |-> NoSettings]
ToDump(stream, chosen) ==
    [documents |-> stream, lexemes |-> <<TextEnd(0, 0, 0)>>, words |-> {},
     columns |-> {}, free |-> 0, dumped |-> TRUE, settings |-> chosen]

W(kinds) == {Word(k, IF k \in {"plain", "quoted"} THEN "s" ELSE "") : k \in kinds}
MultiLine == [Word("quoted", "s") EXCEPT !.lines = 1]
LongLine == [Word("quoted", "s") EXCEPT !.length = KeyLength + 2]
FlowWords == W({"[", "]", "{", "}", ",", "?", ":", "quoted"})
NestedWords == W({"[", "]", "{", ":", "quoted"})
BlockWords == W({"-", "?", ":", "quoted"})
AliasWords == {Word("&", "a"), Word("*", "a")} \cup W({"[", "]", "-"})
DirectiveWords == {Word("%yaml", "1.1"), Word("%yaml", "1.2"), Word("%tag", "!e!"), Word("!", "!e!")}
               \cup W({"---", "...", "quoted"})
LineWords == {MultiLine, LongLine, Word("|", "s")} \cup W({"plain", ":", "-"})
Everything ==
    W({"---", "...", "[", "]", "{", "}", ",", "-", "?", ":", "bad", "plain", "quoted"})
    \cup {MultiLine, LongLine, Word("|", "s")}
    \cup {Word("&", "a"), Word("*", "a"), Word("!", "!!"), Word("!", "!e!"),
          Word("%yaml", "1.1"), Word("%yaml", "1.2"), Word("%tag", "!e!")}

\* Documents to be dumped: nodes with the positions of their kids.
Leaf(val) == T!TreeNode("scalar", val, <<>>)
Seq2(kids) == T!TreeNode("sequence", "", kids)
Map2(kids) == T!TreeNode("mapping", "", kids)
Plainly(nodeSeq) ==
    [nodes |-> nodeSeq, version |-> FALSE, handles |-> <<>>, implicit |-> TRUE,
     endImplicit |-> TRUE]
InStyle(doc, style) ==
    [doc EXCEPT !.nodes = [i \in DOMAIN @ |->
        IF @[i].kind = "scalar" THEN @[i] ELSE [@[i] EXCEPT !.style = style]]]

\* A scalar of every text and style at every place where a node can be.  Two
\* kinds are left out, because the emitter does not keep them: an empty plain
\* root of the first document leaves no text, and in the folded style a line
\* that starts with a space must not be folded, but is.
Places(n) ==
    {<<Map2(<<2, 3>>), n, Leaf("x")>>, <<Map2(<<2, 3>>), Leaf("x"), n>>,
     <<Seq2(<<2, 3>>), n, Leaf("x")>>}
    \cup (IF n.val = "" /\ n.style \in {"any", "plain"} THEN {} ELSE {<<n>>})
FoldsIndented(atoms) ==
    \E i, j \in DOMAIN atoms :
        /\ i < j /\ atoms[i] = Space /\ atoms[j] = Space
        /\ i = 1 \/ atoms[i - 1] = Break
        /\ \E k \in i .. j : IsWord(atoms[k])
        /\ \A k \in i .. j : atoms[k] # Break
ScalarDocuments ==
    UNION {Places([Leaf(val) EXCEPT !.style = s]) :
              val \in ListedTexts, s \in Styles \ {"folded"}}
    \cup UNION {Places([Leaf(val) EXCEPT !.style = "folded"]) :
              val \in {v \in ListedTexts : ~FoldsIndented(MCTextOf(v).atoms)}}

\* Collections in collections, shared nodes, nodes that contain themselves.
NodeDocuments ==
    {<<Map2(<<2, 3, 5, 3>>), Leaf("a"), Seq2(<<4>>), Leaf("x"), Leaf("b")>>,
     <<Seq2(<<2, 2, 3, 3>>), Leaf("x"), Map2(<<2, 2>>)>>,
     <<Map2(<<2, 3, 3, 2>>), Seq2(<<>>), Map2(<<>>)>>,
     <<Map2(<<2, 5>>), Map2(<<3, 4>>), Leaf("k"), Leaf("v"), Seq2(<<6>>), Map2(<<7, 8>>),
       Leaf("x"), Leaf("y")>>,
     <<Seq2(<<2, 4>>), Seq2(<<3>>), Leaf("x"), Seq2(<<5>>), Map2(<<6, 7>>), Leaf("k"), Seq2(<<8>>),
       Leaf("z")>>,
     <<Seq2(<<1>>)>>, <<Map2(<<2, 1>>), Leaf("x")>>, <<Map2(<<1, 2>>), Leaf("x")>>,
     <<Map2(<<2, 3>>), Seq2(<<1>>), Leaf("x")>>}

\* Tags of every kind on every kind of node.
Tagged(tag) ==
    LET t(n) == [n EXCEPT !.tag = tag] IN
    {<<t(Map2(<<2, 3, 4, 5, 6, 8>>)), t(Leaf("x")), t(Leaf("")), t(Seq2(<<>>)), t(Map2(<<>>)),
       t(Seq2(<<7>>)), t(Leaf("w/w")), t(Map2(<<9, 9>>)), t(Leaf("z"))>>}
TaggedDocuments ==
    {[Plainly(doc) EXCEPT !.handles = <<"!e!">>, !.version = v] :
        doc \in UNION {Tagged(tag) : tag \in {"!", "!e!", "<"}}, v \in BOOLEAN}

\* What the first document leaves to the second.
Firsts == {[Plainly(<<[Leaf(val) EXCEPT !.style = style]>>) EXCEPT !.endImplicit = e] :
              val \in {"x", "w//"}, style \in {"plain", "literal"}, e \in BOOLEAN}
Seconds == {[Plainly(<<Leaf(val)>>) EXCEPT !.version = v, !.handles = h] :
              val \in {"", "x"}, v \in BOOLEAN, h \in {<<>>, <<"!e!">>}}

Narrow == [canonical |-> FALSE, indent |-> 2, width |-> 5]
AllSettings == [canonical : BOOLEAN, indent : {2, 4}, width : {9, 80}]
Dumps ==
    {ToDump(<<InStyle(Plainly(d), style)>>, Narrow) :
        d \in ScalarDocuments, style \in {"block", "flow"}}
    \cup {ToDump(<<InStyle(d, style)>>, set) :
        d \in {Plainly(n) : n \in NodeDocuments} \cup TaggedDocuments,
        style \in {"block", "flow"}, set \in AllSettings}
    \cup {ToDump(<<d, e>>, [Narrow EXCEPT !.canonical = c]) :
        d \in Firsts, e \in Seconds, c \in BOOLEAN}
    \cup {ToDump([i \in DOMAIN t |-> T!Document(t[i])], set) :
        t \in Streams, set \in AllSettings}

MCSources ==
    {Given(t, T!FlowText(t)) : t \in Streams}
    \cup {Given(t, T!BlockText(t, deeper)) : t \in Streams, deeper \in {0, 2}}
    \cup Dumps
    \cup {Free(Everything, {0, 2}, Short), Free(FlowWords, {0}, Short + 1),
          Free(FlowWords, {}, Long), Free(NestedWords, {}, Long + 1),
          Free(BlockWords, {0, 2}, Long),
          Free(BlockWords \cup W({"[", "]"}), {0, 2}, Short + 1), Free(AliasWords, {0}, Long),
          Free(DirectiveWords, {0}, Long), Free(LineWords, {0, 2}, Long)}
=============================================================================
