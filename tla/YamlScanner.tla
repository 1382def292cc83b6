---------------------------- MODULE YamlScanner ----------------------------
(***************************************************************************)
(* The scanner of the vendored libyaml: it turns the input into a queue of *)
(* tokens, one lexeme at a time, and only as far as the parser asks.       *)
(*                                                                         *)
(* The input is a sequence of lexemes (YamlLexeme): characters, comments   *)
(* and tabs are abstracted away.  It is either a script that is fixed or   *)
(* is chosen freely while it is read, at most "budget" lexemes.            *)
(*                                                                         *)
(* The hard part is that "KEY" and "BLOCK-MAPPING-START" are inserted into *)
(* the queue when the ":" is seen, in front of tokens that were queued     *)
(* before: a token must not be given to the parser while something may     *)
(* still be inserted before it.                                            *)
(***************************************************************************)
EXTENDS YamlLexeme

CONSTANT KeyLength  \* the longest simple key (1024 in the code)
ASSUME KeyLengthAssumption == KeyLength \in Nat

VARIABLES source,            \* the input: a free one is made of its "words"
                             \* on lines that start at its "columns"
          lexeme,            \* the next lexeme, of kind "end" after the last
          script,            \* the lexemes after it, when they are fixed
          budget,            \* how many more a free input may have
          mark,              \* parser->mark: [line, index] of the scanner
          tokens,            \* parser->tokens, from head to tail
          tokensParsed,      \* parser->tokens_parsed
          tokenAvailable,    \* parser->token_available
          streamStarted,     \* parser->stream_start_produced
          indents,           \* parser->indents with parser->indent on top
          flowLevel,         \* parser->flow_level
          simpleKeyAllowed,  \* parser->simple_key_allowed
          simpleKeys,        \* parser->simple_keys, one for each flow level
          error              \* parser->error

inputVars == <<lexeme, script, budget, mark>>
levelVars == <<indents, flowLevel, simpleKeyAllowed, simpleKeys>>
scannerVars == <<source, inputVars, tokens, tokensParsed, tokenAvailable,
                 streamStarted, levelVars, error>>

Token(type, val) == [type |-> type, val |-> val]
NoKey == [possible |-> FALSE, required |-> FALSE, number |-> 0,
          line |-> 0, index |-> 0, col |-> 0]

-----------------------------------------------------------------------------
(* The input *)

\* Every position that may follow lexeme l.
Positions(l) ==
    {<<EndLine(l), l.col + 2>>} \cup {<<EndLine(l) + 1, c>> : c \in source.columns}

\* Only the first column has directives and document indicators.
FreeLexemes(l) ==
    {n \in {At(w, p[1], p[2], EndIndex(l) + 1) :
                w \in source.words, p \in Positions(l)} :
        n.kind \in {"%yaml", "%tag", "---", "..."} => n.col = 0}

EndAfter(l) ==
    {TextEnd(EndLine(l), l.col + 2, EndIndex(l)),
     TextEnd(EndLine(l) + 1, 0, EndIndex(l) + 1)}

Following(l) ==
    IF script # <<>> THEN {Head(script)}
    ELSE EndAfter(l) \cup (IF budget > 0 THEN FreeLexemes(l) ELSE {})

\* The scanner has read the lexeme and stands at m.
Advance(next, m) ==
    /\ lexeme' = next
    /\ script' = IF script # <<>> THEN Tail(script) ELSE script
    /\ budget' = IF script = <<>> /\ next.kind # "end" THEN budget - 1 ELSE budget
    /\ mark' = m

MarkAfter(l) == [line |-> EndLine(l), index |-> EndIndex(l)]
MarkAt(l) == [line |-> l.line, index |-> l.index]

-----------------------------------------------------------------------------
(* Simple keys and indentation *)

\* A simple key has to stay on one line and below KeyLength characters.
Stale(k, m) ==
    /\ k.possible
    /\ k.line < m.line \/ k.index + KeyLength < m.index

\* yaml_parser_stale_simple_keys: a key that was required is an error.
StaleFails(m) == \E i \in DOMAIN simpleKeys :
                    Stale(simpleKeys[i], m) /\ simpleKeys[i].required
FreshKeys(m) == [i \in DOMAIN simpleKeys |->
                    IF Stale(simpleKeys[i], m)
                    THEN [simpleKeys[i] EXCEPT !.possible = FALSE]
                    ELSE simpleKeys[i]]

\* What yaml_parser_fetch_next_token has done before it looks at the next
\* character: spaces and line breaks are skipped, stale keys dropped, and
\* blocks indented deeper than the lexeme ended.
Allowed == simpleKeyAllowed \/ (flowLevel = 0 /\ lexeme.line > mark.line)
Keys == FreshKeys(lexeme)
\* Levels are popped until one is not deeper than the column.
Unrolled(column) ==
    IF flowLevel > 0 THEN indents
    ELSE SubSeq(indents, 1, Max({i \in DOMAIN indents : indents[i] <= column}))
QueueOnce(levels) ==          \* Variant: only one level is ended
    tokens \o (IF Len(indents) > Len(levels) THEN <<Token("block_end", "")>> ELSE <<>>)
Queue(levels) ==
    tokens \o [i \in 1 .. Len(indents) - Len(levels) |-> Token("block_end", "")]

\* yaml_parser_remove_simple_key: a required key must not be dropped.
RemoveFails == Last(Keys).possible /\ Last(Keys).required
RemoveKey(keys) == [keys EXCEPT ![Len(keys)].possible = FALSE]

\* yaml_parser_save_simple_key, after the levels were unrolled.
SaveKey(keys, levels) ==
    IF ~Allowed THEN keys
    ELSE [keys EXCEPT ![Len(keys)] =
            [possible |-> TRUE,
             required |-> flowLevel = 0 /\ Last(levels) = lexeme.col,
             number   |-> tokensParsed + Len(Queue(levels)),
             line     |-> lexeme.line,
             index    |-> lexeme.index,
             col      |-> lexeme.col]]

\* yaml_parser_roll_indent: does a block open at the column, and the levels.
Opens(levels, column) == flowLevel = 0 /\ Last(levels) < column
Rolled(levels, column) ==
    IF Opens(levels, column) THEN Append(levels, column) ELSE levels
RolledQueue(levels, column, type) ==
    Queue(levels) \o (IF Opens(levels, column) THEN <<Token(type, "")>> ELSE <<>>)

-----------------------------------------------------------------------------
(* Which lexemes do what to the simple key of the current level *)

StartsKey == {"[", "{", "*", "&", "!", "plain", "quoted"}
DropsKey == {"end", "%yaml", "%tag", "---", "...", "]", "}", ",", "-", "?", "|"}

\* '-', '?' and a ':' that is no simple key's may start a block only where a
\* simple key might.
Misplaced ==
    /\ flowLevel = 0
    /\ ~Allowed
    /\ lexeme.kind \in {"-", "?"} \/ (lexeme.kind = ":" /\ ~Last(Keys).possible)

Unknown == lexeme.kind = "bad" \/ (lexeme.kind = "|" /\ flowLevel > 0)

Refused ==
    \/ StaleFails(lexeme)
    \/ lexeme.kind \in StartsKey /\ Allowed /\ RemoveFails
    \/ lexeme.kind \in DropsKey /\ RemoveFails
    \/ Misplaced
    \/ Unknown

\* The flow and block constructs that end a plain scalar.
EndsPlain(l, levels) ==
    \/ l.kind \in {"end", ":"}
    \/ l.kind \in {"---", "..."}
    \/ flowLevel > 0 /\ l.kind \in {",", "?", "[", "]", "{", "}"}
    \/ flowLevel = 0 /\ l.line > EndLine(lexeme) /\ l.col <= Last(levels)

-----------------------------------------------------------------------------
(* yaml_parser_fetch_more_tokens *)

HeadMayBeKeyLast ==          \* Variant: only the current flow level is looked at
    \E i \in DOMAIN simpleKeys :
        /\ i = Len(simpleKeys)
        /\ simpleKeys[i].possible
        /\ ~Stale(simpleKeys[i], mark)
        /\ simpleKeys[i].number = tokensParsed
\* A key of any flow level may still take the head of the queue.
HeadMayBeKey == \E i \in DOMAIN simpleKeys :
                    /\ simpleKeys[i].possible
                    /\ ~Stale(simpleKeys[i], mark)
                    /\ simpleKeys[i].number = tokensParsed

NeedMore == tokens = <<>> \/ HeadMayBeKey

ScannerError ==
    /\ error' = "scanner"
    /\ UNCHANGED <<source, inputVars, tokens, tokensParsed, tokenAvailable,
                   streamStarted, levelVars>>

EnoughTokens ==
    /\ tokens # <<>>
    /\ \/ /\ StaleFails(mark)
          /\ ScannerError
       \/ /\ ~StaleFails(mark)
          /\ ~NeedMore
          /\ simpleKeys' = FreshKeys(mark)
          /\ tokenAvailable' = TRUE
          /\ UNCHANGED <<source, inputVars, tokens, tokensParsed, streamStarted,
                         indents, flowLevel, simpleKeyAllowed, error>>

\* One lexeme becomes tokens.
Fetched(queue, keys, allowed, levels, level, next, m) ==
    /\ tokens' = queue
    /\ simpleKeys' = keys
    /\ simpleKeyAllowed' = allowed
    /\ indents' = levels
    /\ flowLevel' = level
    /\ Advance(next, m)
    /\ UNCHANGED <<source, tokensParsed, tokenAvailable, streamStarted, error>>

-----------------------------------------------------------------------------
(* The texts of scalars *)

\* The text that is read makes the value, if the scalar was written out.
Recognized(text) ==
    IF lexeme.raw.style = "" \/ text = TextOf(lexeme.val).atoms THEN lexeme.val
    ELSE "misread"

\* What the blanks since the last word come to: a line break is folded into a
\* space, further ones are kept.
Blanks(t) ==
    IF t.breaks = 0 THEN Copies(t.spaces, Space)
    ELSE IF t.breaks = 1 THEN <<Space>> ELSE Copies(t.breaks - 1, Break)
JoinedText(t) == t.text \o Blanks(t)

\* The loop of scan_flow_scalar and of scan_plain_scalar
FlowText(written) ==
    FoldLeftDomain(LAMBDA t, i :
        LET atom == written[i].atom
            escaped == i > 1 /\ written[i - 1].atom = Backslash
        IN CASE atom = Space /\ ~escaped ->
                    IF t.breaks = 0 THEN [t EXCEPT !.spaces = @ + 1] ELSE t
             [] atom = Break -> [t EXCEPT !.breaks = @ + 1, !.spaces = 0]
             [] atom = Backslash -> t
             [] OTHER -> [text |-> Append(JoinedText(t), IF atom = EscapedBreak THEN Break ELSE atom),
                          spaces |-> 0, breaks |-> 0],
        [text |-> <<>>, spaces |-> 0, breaks |-> 0], written)

\* How deep the lines of a block scalar are: as its header says, or like the
\* first line that is not empty.
BlockIndent(raw, column) ==
    LET words == SelectSeq(raw.atoms, LAMBDA a : IsWord(a.atom)) IN
    IF raw.increment > 0 THEN raw.increment + (IF column >= 0 THEN column ELSE 0)
    ELSE Max({column + 1, 1} \cup (IF words = <<>> THEN {} ELSE {Head(words).col}))

Lost == 0   \* a line that is not deep enough for the scalar

\* The loop of scan_block_scalar: the break that ended the last line is folded
\* between lines that do not start with a blank, the empty lines are kept.
BlockText(raw, column) ==
    LET indent == BlockIndent(raw, column)
        Folds(t, atom) == raw.style = "folded" /\ t.leading = 1 /\ ~t.blank /\ atom # Space
        Line(t, a) ==
            [text |-> t.text
                \o (IF ~Folds(t, a.atom) THEN Copies(t.leading, Break)
                    ELSE IF t.trailing = 0 THEN <<Space>> ELSE <<>>)
                \o Copies(t.trailing, Break)
                \o (IF a.col < indent THEN <<Lost>>
                    ELSE Append(Copies(a.col - indent, Space), a.atom)),
             leading |-> 0, trailing |-> 0, blank |-> a.atom = Space, start |-> FALSE]
        end == FoldLeft(LAMBDA t, a :
            CASE a.atom = Break /\ t.start -> [t EXCEPT !.trailing = @ + 1]
              [] a.atom = Break /\ ~t.start -> [t EXCEPT !.leading = 1, !.start = TRUE]
              [] a.atom # Break /\ t.start -> Line(t, a)
              [] a.atom # Break /\ ~t.start -> [t EXCEPT !.text = Append(@, a.atom)],
            [text |-> <<>>, leading |-> 0, trailing |-> 0, blank |-> FALSE, start |-> TRUE],
            raw.atoms)
    IN end.text \o (IF raw.chomp = "strip" THEN <<>> ELSE Copies(end.leading, Break))
                \o (IF raw.chomp = "keep" THEN Copies(end.trailing, Break) ELSE <<>>)

-----------------------------------------------------------------------------
(* The fetchers *)

FetchStreamStart ==
    /\ ~streamStarted
    /\ streamStarted' = TRUE
    /\ indents' = <<-1>>
    /\ simpleKeys' = Append(simpleKeys, NoKey)
    /\ simpleKeyAllowed' = TRUE
    /\ tokens' = Append(tokens, Token("stream_start", ""))
    /\ UNCHANGED <<source, inputVars, tokensParsed, tokenAvailable, flowLevel, error>>

\* The end of the stream is on a line of its own.
FetchStreamEnd ==
    LET levels == Unrolled(-1) IN
    /\ lexeme.kind = "end"
    /\ Fetched(Append(Queue(levels), Token("stream_end", "")), RemoveKey(Keys),
               FALSE, levels, flowLevel, lexeme,
               [line  |-> lexeme.line + (IF lexeme.col # 0 THEN 1 ELSE 0),
                index |-> lexeme.index])

ScanDirective ==
    Token(IF lexeme.kind = "%yaml" THEN "version_directive" ELSE "tag_directive", lexeme.val)

\* A directive and a block scalar's header have the rest of their line, the
\* line break included.
EndsLine(next) == next.line > lexeme.line \/ next.kind = "end"

FetchDirective ==
    LET levels == Unrolled(-1) IN
    /\ lexeme.kind \in {"%yaml", "%tag"}
    /\ \E next \in Following(lexeme) :
          \/ ~EndsLine(next) /\ ScannerError
          \/ /\ EndsLine(next)
             /\ Fetched(Append(Queue(levels), ScanDirective), RemoveKey(Keys), FALSE,
                        levels, flowLevel, next, MarkAt(next))

FetchDocumentIndicator ==
    LET levels == Unrolled(-1)
        type == IF lexeme.kind = "---" THEN "document_start" ELSE "document_end"
    IN
    /\ lexeme.kind \in {"---", "..."}
    /\ \E next \in Following(lexeme) :
          Fetched(Append(Queue(levels), Token(type, "")), RemoveKey(Keys),
                  FALSE, levels, flowLevel, next, MarkAfter(lexeme))

FlowStart == [x \in {"[", "{"} |->
                IF x = "[" THEN "flow_sequence_start" ELSE "flow_mapping_start"]
FlowEnd == [x \in {"]", "}"} |->
                IF x = "]" THEN "flow_sequence_end" ELSE "flow_mapping_end"]

\* The bracket may start a simple key; what is inside has keys of its own.
FetchFlowStart ==
    LET levels == Unrolled(lexeme.col) IN
    /\ lexeme.kind \in DOMAIN FlowStart
    /\ \E next \in Following(lexeme) :
          Fetched(Append(Queue(levels), Token(FlowStart[lexeme.kind], "")),
                  Append(SaveKey(Keys, levels), NoKey), TRUE, levels,
                  flowLevel + 1, next, MarkAfter(lexeme))

KeysOutsideKept(keys) == keys   \* Variant: the keys of the level stay
\* yaml_parser_decrease_flow_level, for the keys and for the level
KeysOutside(keys) == IF flowLevel > 0 THEN Front(keys) ELSE keys

LevelOutside == IF flowLevel > 0 THEN flowLevel - 1 ELSE 0

FetchFlowEnd ==
    LET levels == Unrolled(lexeme.col) IN
    /\ lexeme.kind \in DOMAIN FlowEnd
    /\ \E next \in Following(lexeme) :
          Fetched(Append(Queue(levels), Token(FlowEnd[lexeme.kind], "")),
                  KeysOutside(RemoveKey(Keys)), FALSE, levels, LevelOutside,
                  next, MarkAfter(lexeme))

FetchFlowEntry ==
    LET levels == Unrolled(lexeme.col) IN
    /\ lexeme.kind = ","
    /\ \E next \in Following(lexeme) :
          Fetched(Append(Queue(levels), Token("flow_entry", "")), RemoveKey(Keys),
                  TRUE, levels, flowLevel, next, MarkAfter(lexeme))

FetchBlockEntry ==
    LET levels == Unrolled(lexeme.col) IN
    /\ lexeme.kind = "-"
    /\ \E next \in Following(lexeme) :
          Fetched(Append(RolledQueue(levels, lexeme.col, "block_sequence_start"),
                         Token("block_entry", "")),
                  RemoveKey(Keys), TRUE, Rolled(levels, lexeme.col), flowLevel,
                  next, MarkAfter(lexeme))

FetchKey ==
    LET levels == Unrolled(lexeme.col) IN
    /\ lexeme.kind = "?"
    /\ \E next \in Following(lexeme) :
          Fetched(Append(RolledQueue(levels, lexeme.col, "block_mapping_start"),
                         Token("key", "")),
                  RemoveKey(Keys), flowLevel = 0, Rolled(levels, lexeme.col),
                  flowLevel, next, MarkAfter(lexeme))

\* What is inserted before the tokens of simple key k, the KEY last.
KeyTokens(k, levels) ==
    (IF Opens(levels, k.col) THEN <<Token("block_mapping_start", "")>> ELSE <<>>)
        \o <<Token("key", "")>>

\* The ':' of a simple key turns what was read since into a key.
FetchSimpleValue ==
    LET levels == Unrolled(lexeme.col)
        k == Last(Keys)
        queue == Queue(levels)
        before == k.number - tokensParsed
    IN
    /\ lexeme.kind = ":"
    /\ k.possible
    /\ \E next \in Following(lexeme) :
          Fetched(SubSeq(queue, 1, before) \o KeyTokens(k, levels)
                      \o SubSeq(queue, before + 1, Len(queue))
                      \o <<Token("value", "")>>,
                  RemoveKey(Keys), FALSE, Rolled(levels, k.col), flowLevel,
                  next, MarkAfter(lexeme))

\* The ':' of a complex key, or of none.
FetchComplexValue ==
    LET levels == Unrolled(lexeme.col) IN
    /\ lexeme.kind = ":"
    /\ ~Last(Keys).possible
    /\ \E next \in Following(lexeme) :
          Fetched(Append(RolledQueue(levels, lexeme.col, "block_mapping_start"),
                         Token("value", "")),
                  Keys, flowLevel = 0, Rolled(levels, lexeme.col), flowLevel,
                  next, MarkAfter(lexeme))

\* A token that may start a simple key.
Atom(token) ==
    LET levels == Unrolled(lexeme.col) IN
    \E next \in Following(lexeme) :
        Fetched(Append(Queue(levels), token), SaveKey(Keys, levels), FALSE, levels,
                flowLevel, next, MarkAfter(lexeme))

ScanAnchor == Token(IF lexeme.kind = "*" THEN "alias" ELSE "anchor", lexeme.val)
FetchAnchor == lexeme.kind \in {"*", "&"} /\ Atom(ScanAnchor)

\* Of a tag, its handle.
ScanTag == Token("tag", lexeme.val)
FetchTag == lexeme.kind = "!" /\ Atom(ScanTag)

ScanFlowScalar ==
    Token("scalar", Recognized(JoinedText(FlowText(lexeme.raw.atoms))))
FetchFlowScalar == lexeme.kind = "quoted" /\ Atom(ScanFlowScalar)

ScanBlockScalar == Token("scalar", Recognized(BlockText(lexeme.raw, Last(Unrolled(lexeme.col)))))
FetchBlockScalar ==
    LET levels == Unrolled(lexeme.col) IN
    /\ lexeme.kind = "|"
    /\ \E next \in Following(lexeme) :
          \/ ~EndsLine(next) /\ ScannerError
          \/ /\ EndsLine(next)
             /\ Fetched(Append(Queue(levels), ScanBlockScalar), RemoveKey(Keys), TRUE,
                        levels, flowLevel, next, MarkAt(next))

\* A plain scalar reads up to the next lexeme that cannot be part of it; a
\* line break on the way allows a simple key again.
ScanPlainScalar == Token("scalar", Recognized(FlowText(lexeme.raw.atoms).text))
FetchPlainScalar ==
    LET levels == Unrolled(lexeme.col) IN
    /\ lexeme.kind = "plain"
    /\ \E next \in Following(lexeme) :
          /\ EndsPlain(next, levels)
          /\ Fetched(Append(Queue(levels), ScanPlainScalar),
                     SaveKey(Keys, levels), next.line > EndLine(lexeme),
                     levels, flowLevel, next, MarkAt(next))

FetchNextToken ==
    \/ FetchStreamStart
    \/ /\ streamStarted
       /\ Refused
       /\ ScannerError
    \/ /\ streamStarted
       /\ ~Refused
       /\ \/ FetchStreamEnd
          \/ FetchDirective
          \/ FetchDocumentIndicator
          \/ FetchFlowStart
          \/ FetchFlowEnd
          \/ FetchFlowEntry
          \/ FetchBlockEntry
          \/ FetchKey
          \/ FetchSimpleValue
          \/ FetchComplexValue
          \/ FetchAnchor
          \/ FetchTag
          \/ FetchFlowScalar
          \/ FetchBlockScalar
          \/ FetchPlainScalar

FetchMoreTokens ==
    \/ EnoughTokens
    \/ /\ tokens = <<>> \/ (HeadMayBeKey /\ ~StaleFails(mark))
       /\ FetchNextToken

-----------------------------------------------------------------------------
ScannerInit(first, rest, free) ==
    /\ lexeme = first
    /\ script = rest
    /\ budget = free
    /\ mark = [line |-> 0, index |-> 0]
    /\ tokens = <<>>
    /\ tokensParsed = 0
    /\ tokenAvailable = FALSE
    /\ streamStarted = FALSE
    /\ indents = <<>>
    /\ flowLevel = 0
    /\ simpleKeyAllowed = FALSE
    /\ simpleKeys = <<>>
    /\ error = "none"

\* A token the parser holds is past every place where a KEY may still be
\* inserted: yaml_parser_fetch_more_tokens hands the head over only when no
\* simple key of any flow level can begin there, and SKIP_TOKEN leaves the
\* positions of the keys behind it alone.
KeysAhead ==
    error = "none" =>
        \A i \in DOMAIN simpleKeys :
            simpleKeys[i].possible /\ ~Stale(simpleKeys[i], mark) =>
                /\ simpleKeys[i].number - tokensParsed \in 0 .. Len(tokens)
                /\ tokenAvailable => simpleKeys[i].number > tokensParsed
=============================================================================
