----------------------------- MODULE YamlParser -----------------------------
(***************************************************************************)
(* The parser of the vendored libyaml: a state machine with a stack of     *)
(* states that turns tokens into events, one for each call of              *)
(* yaml_parser_parse.  Every state function is an action here; one that    *)
(* reads several tokens is an action for each, because the scanner may     *)
(* have to fetch more in between.  "call" says where in its function the   *)
(* running call is.                                                        *)
(***************************************************************************)
EXTENDS YamlScanner

VARIABLES state,   \* parser->state
          states,  \* parser->states
          marks,   \* how many marks are on parser->marks
          handles, \* the tag handles of parser->tag_directives
          event,   \* the event returned last, or Reading while a call runs
          call     \* the local state of the running call

parserVars == <<state, states, marks, handles, event, call>>

Event(type, val) == [type |-> type, val |-> val, anchor |-> "", tag |-> ""]
Reading == Event("reading", "")
EmptyScalar == Event("scalar", "")

\* at: "enter", then "opened" (the bracket was skipped), "separated" (the
\* comma was), "directives", "indicated" (KEY, VALUE or BLOCK-ENTRY was),
\* "node" (yaml_parser_parse_node with its parameters and properties).
Enter == [at |-> "enter", block |-> FALSE, indentless |-> FALSE,
          anchor |-> "", tag |-> "", version |-> FALSE]
Node(block, indentless) ==
    [Enter EXCEPT !.at = "node", !.block = block, !.indentless = indentless]

Peek == Head(tokens)

\* SKIP_TOKEN
Skip ==
    /\ tokens' = Tail(tokens)
    /\ tokensParsed' = tokensParsed + 1
    /\ tokenAvailable' = FALSE
    /\ UNCHANGED <<source, inputVars, streamStarted, levelVars, error>>

Stay == UNCHANGED scannerVars

\* The call returns event e and the parser goes on in state s.
Deliver(e, s) ==
    /\ event' = e
    /\ state' = s
    /\ call' = Enter

ParserError ==
    /\ error' = "parser"
    /\ UNCHANGED <<source, inputVars, tokens, tokensParsed, tokenAvailable,
                   streamStarted, levelVars, parserVars>>

-----------------------------------------------------------------------------
(* Documents *)

Directives == {"version_directive", "tag_directive"}
DefaultHandles == {"!", "!!"}

ParseStreamStart ==
    /\ state = "stream_start"
    /\ Peek.type = "stream_start"
    /\ Deliver(Event("stream_start", ""), "implicit_document_start")
    /\ Skip
    /\ UNCHANGED <<states, marks, handles>>

DocumentStart == {"implicit_document_start", "document_start"}
Implicit == state = "implicit_document_start"

SkipDocumentEnd ==
    /\ state = "document_start"
    /\ call.at = "enter"
    /\ Peek.type = "document_end"
    /\ Skip
    /\ UNCHANGED parserVars

ParseImplicitDocument ==
    /\ Implicit
    /\ call.at = "enter"
    /\ Peek.type \notin Directives \cup {"document_start", "stream_end"}
    /\ handles' = handles \cup DefaultHandles
    /\ states' = Append(states, "document_end")
    /\ Deliver(Event("document_start", ""), "block_node")
    /\ Stay
    /\ UNCHANGED marks

\* yaml_parser_process_directives, one directive
ParseDirective ==
    /\ state \in DocumentStart
    /\ Peek.type \in Directives
    /\ \/ /\ Peek.type = "version_directive" /\ (call.version \/ Peek.val # "1.1")
          /\ ParserError
       \/ /\ Peek.type = "tag_directive" /\ Peek.val \in handles
          /\ ParserError
       \/ /\ Peek.type = "version_directive" /\ ~call.version /\ Peek.val = "1.1"
          /\ call' = [call EXCEPT !.at = "directives", !.version = TRUE]
          /\ Skip
          /\ UNCHANGED <<state, states, marks, handles, event>>
       \/ /\ Peek.type = "tag_directive" /\ Peek.val \notin handles
          /\ call' = [call EXCEPT !.at = "directives"]
          /\ handles' = handles \cup {Peek.val}
          /\ Skip
          /\ UNCHANGED <<state, states, marks, event>>

ParseExplicitDocument ==
    /\ state \in DocumentStart
    /\ \/ /\ Peek.type = "document_start"
          /\ handles' = handles \cup DefaultHandles
          /\ states' = Append(states, "document_end")
          /\ Deliver(Event("document_start", ""), "document_content")
          /\ Skip
          /\ UNCHANGED marks
       \/ /\ Peek.type \notin Directives \cup {"document_start"}
          /\ \/ call.at = "directives"
             \/ ~Implicit /\ Peek.type \notin {"document_end", "stream_end"}
          /\ ParserError

ParseStreamEnd ==
    /\ state \in DocumentStart
    /\ call.at = "enter"
    /\ Peek.type = "stream_end"
    /\ Deliver(Event("stream_end", ""), "end")
    /\ Skip
    /\ UNCHANGED <<states, marks, handles>>

\* The state on top of the stack follows.
PopTo(e) ==
    /\ Deliver(e, Last(states))
    /\ states' = Front(states)

ParseDocumentContent ==
    /\ state \in {"document_content", "block_node"}
    /\ call.at = "enter"
    /\ \/ /\ state = "document_content"
          /\ Peek.type \in Directives \cup {"document_start", "document_end", "stream_end"}
          /\ PopTo(EmptyScalar)
          /\ Stay
          /\ UNCHANGED <<marks, handles>>
       \/ /\ \/ state = "block_node"
             \/ Peek.type \notin Directives \cup {"document_start", "document_end", "stream_end"}
          /\ call' = Node(TRUE, FALSE)
          /\ Stay
          /\ UNCHANGED <<state, states, marks, handles, event>>

ParseDocumentEnd ==
    /\ state = "document_end"
    /\ IF Peek.type = "document_end" THEN Skip ELSE Stay
    /\ handles' = {}
    /\ Deliver(Event("document_end", ""), "document_start")
    /\ UNCHANGED <<states, marks>>

-----------------------------------------------------------------------------
(* yaml_parser_parse_node *)

HasProperties == call.anchor # "" \/ call.tag # ""
NodeEvent(type, val) ==
    [type |-> type, val |-> val, anchor |-> call.anchor, tag |-> call.tag]

ParseAlias ==
    /\ Peek.type = "alias"
    /\ ~HasProperties
    /\ PopTo(Event("alias", Peek.val))
    /\ Skip
    /\ UNCHANGED <<marks, handles>>

ParseProperty ==
    /\ \/ /\ Peek.type = "anchor" /\ call.anchor = ""
          /\ call' = [call EXCEPT !.anchor = Peek.val]
       \/ /\ Peek.type = "tag" /\ call.tag = ""
          /\ call' = [call EXCEPT !.tag = Peek.val]
    /\ Skip
    /\ UNCHANGED <<state, states, marks, handles, event>>

MoreProperties ==
    \/ Peek.type = "anchor" /\ call.anchor = ""
    \/ Peek.type = "tag" /\ call.tag = ""
    \/ Peek.type = "alias" /\ ~HasProperties

CollectionStart == [type \in {"flow_sequence_start", "flow_mapping_start",
                              "block_sequence_start", "block_mapping_start"} |->
    CASE type = "flow_sequence_start"  -> <<"sequence_start", "flow_sequence_first_entry">>
      [] type = "flow_mapping_start"   -> <<"mapping_start", "flow_mapping_first_key">>
      [] type = "block_sequence_start" -> <<"sequence_start", "block_sequence_first_entry">>
      [] type = "block_mapping_start"  -> <<"mapping_start", "block_mapping_first_key">>]

MayStart(type) ==
    /\ type \in DOMAIN CollectionStart
    /\ type \in {"block_sequence_start", "block_mapping_start"} => call.block

Indentless == call.indentless /\ Peek.type = "block_entry"
\* "<" is a tag that is written out, the others are their handles.
UndefinedTag == call.tag \notin handles \cup {"", "<"}

ParseContent ==
    /\ ~MoreProperties
    /\ \/ /\ \/ UndefinedTag
             \/ /\ ~Indentless /\ Peek.type # "scalar" /\ ~MayStart(Peek.type)
                /\ ~HasProperties
          /\ ParserError
       \/ /\ ~UndefinedTag
          /\ UNCHANGED <<marks, handles>>
          /\ \/ /\ Indentless
                /\ Deliver(NodeEvent("sequence_start", ""),
                           "indentless_sequence_entry")
                /\ Stay
                /\ UNCHANGED states
             \/ /\ Peek.type = "scalar"
                /\ PopTo(NodeEvent("scalar", Peek.val))
                /\ Skip
             \/ /\ MayStart(Peek.type)
                /\ Deliver(NodeEvent(CollectionStart[Peek.type][1], ""),
                           CollectionStart[Peek.type][2])
                /\ Stay
                /\ UNCHANGED states
             \/ /\ ~Indentless /\ Peek.type # "scalar" /\ ~MayStart(Peek.type)
                /\ HasProperties
                /\ PopTo(NodeEvent("scalar", ""))
                /\ Stay

ParseNode ==
    /\ call.at = "node"
    /\ ParseAlias \/ ParseProperty \/ ParseContent

-----------------------------------------------------------------------------
(* Collections *)

FirstStates == {"block_sequence_first_entry", "block_mapping_first_key",
                "flow_sequence_first_entry", "flow_mapping_first_key"}

\* The first call skips the token that opened the collection.
OpenCollection ==
    /\ state \in FirstStates
    /\ call.at = "enter"
    /\ marks' = marks + 1
    /\ call' = [call EXCEPT !.at = "opened"]
    /\ Skip
    /\ UNCHANGED <<state, states, handles, event>>

\* After an indicator: the tokens that mean that there is no node, the state
\* that follows, and the parameters of yaml_parser_parse_node.
AfterIndicator == [s \in {"block_sequence", "indentless_sequence", "block_key",
                          "block_value", "flow_pair_key", "flow_pair_value",
                          "flow_key", "flow_value"} |->
    CASE s = "block_sequence" ->
            [empty |-> {"block_entry", "block_end"},
             next |-> "block_sequence_entry", node |-> Node(TRUE, FALSE)]
      [] s = "indentless_sequence" ->
            [empty |-> {"block_entry", "key", "value", "block_end"},
             next |-> "indentless_sequence_entry", node |-> Node(TRUE, FALSE)]
      [] s = "block_key" ->
            [empty |-> {"key", "value", "block_end"},
             next |-> "block_mapping_value", node |-> Node(TRUE, TRUE)]
      [] s = "block_value" ->
            [empty |-> {"key", "value", "block_end"},
             next |-> "block_mapping_key", node |-> Node(TRUE, TRUE)]
      [] s = "flow_pair_key" ->
            [empty |-> {"value", "flow_entry", "flow_sequence_end"},
             next |-> "flow_sequence_entry_mapping_value", node |-> Node(FALSE, FALSE)]
      [] s = "flow_pair_value" ->
            [empty |-> {"flow_entry", "flow_sequence_end"},
             next |-> "flow_sequence_entry_mapping_end", node |-> Node(FALSE, FALSE)]
      [] s = "flow_key" ->
            [empty |-> {"value", "flow_entry", "flow_mapping_end"},
             next |-> "flow_mapping_value", node |-> Node(FALSE, FALSE)]
      [] s = "flow_value" ->
            [empty |-> {"flow_entry", "flow_mapping_end"},
             next |-> "flow_mapping_key", node |-> Node(FALSE, FALSE)]]

\* A node that the state next follows.
NodeThen(next, node) ==
    /\ states' = Append(states, next)
    /\ call' = node
    /\ Stay
    /\ UNCHANGED <<state, marks, handles, event>>

\* An empty scalar where there is no node.
EmptyThen(next) ==
    /\ Deliver(EmptyScalar, next)
    /\ UNCHANGED <<states, marks, handles>>

NodeOrEmpty(s) ==
    \/ /\ Peek.type \notin AfterIndicator[s].empty
       /\ NodeThen(AfterIndicator[s].next, AfterIndicator[s].node)
    \/ /\ Peek.type \in AfterIndicator[s].empty
       /\ EmptyThen(AfterIndicator[s].next)
       /\ Stay

SkipIndicator ==
    /\ call' = [call EXCEPT !.at = "indicated"]
    /\ Skip
    /\ UNCHANGED <<state, states, marks, handles, event>>

EndCollectionMarked(type) ==  \* Variant: the mark of the collection is left
    /\ PopTo(Event(type, ""))
    /\ Skip
    /\ UNCHANGED <<marks, handles>>
\* The collection ends with the token that closes it.
EndCollection(type) ==
    /\ PopTo(Event(type, ""))
    /\ marks' = marks - 1
    /\ Skip
    /\ UNCHANGED handles

\* yaml_parser_parse_block_sequence_entry and _block_mapping_key share their
\* shape: an indicator, the end of the block, or an error.
BlockEntry(first, entry, indicator, after, end) ==
    /\ \/ state = first /\ call.at \in {"opened", "indicated"}
       \/ state = entry
    /\ \/ /\ call.at = "indicated"
          /\ NodeOrEmpty(after)
       \/ /\ call.at \in {"enter", "opened"}
          /\ \/ Peek.type = indicator /\ SkipIndicator
             \/ Peek.type = "block_end" /\ EndCollection(end)
             \/ Peek.type \notin {indicator, "block_end"} /\ ParserError

ParseBlockSequenceEntry ==
    BlockEntry("block_sequence_first_entry", "block_sequence_entry",
               "block_entry", "block_sequence", "sequence_end")
ParseBlockMappingKey ==
    BlockEntry("block_mapping_first_key", "block_mapping_key",
               "key", "block_key", "mapping_end")

\* The sequence without indentation of its own ends without a token.
ParseIndentlessSequenceEntry ==
    /\ state = "indentless_sequence_entry"
    /\ \/ /\ call.at = "indicated"
          /\ NodeOrEmpty("indentless_sequence")
       \/ /\ call.at = "enter"
          /\ Peek.type = "block_entry"
          /\ SkipIndicator
       \/ /\ call.at = "enter"
          /\ Peek.type # "block_entry"
          /\ PopTo(Event("sequence_end", ""))
          /\ Stay
          /\ UNCHANGED <<marks, handles>>

\* The value of a block mapping, of a flow mapping and of a single pair in a
\* flow sequence: it may be missing.
ParseValue(s, after) ==
    /\ state = s
    /\ \/ /\ call.at = "indicated"
          /\ NodeOrEmpty(after)
       \/ /\ call.at = "enter"
          /\ Peek.type = "value"
          /\ SkipIndicator
       \/ /\ call.at = "enter"
          /\ Peek.type # "value"
          /\ EmptyThen(AfterIndicator[after].next)
          /\ Stay

ParseBlockMappingValue == ParseValue("block_mapping_value", "block_value")
ParseFlowMappingValue == ParseValue("flow_mapping_value", "flow_value")
ParseFlowPairValue ==
    ParseValue("flow_sequence_entry_mapping_value", "flow_pair_value")

\* A flow collection: entries are separated by commas, and the last comma may
\* be followed by the end.
FlowCollection(first, entry, end) ==
    /\ \/ state = first /\ call.at # "enter"
       \/ state = entry
    /\ \/ /\ call.at # "indicated"
          /\ Peek.type = end
          /\ EndCollection(IF entry = "flow_sequence_entry"
                           THEN "sequence_end" ELSE "mapping_end")
       \/ /\ state = entry /\ call.at = "enter"
          /\ Peek.type = "flow_entry"
          /\ call' = [call EXCEPT !.at = "separated"]
          /\ Skip
          /\ UNCHANGED <<state, states, marks, handles, event>>
       \/ /\ state = entry /\ call.at = "enter"
          /\ Peek.type \notin {"flow_entry", end}
          /\ ParserError

ParseFlowSequenceEntry ==
    \/ FlowCollection("flow_sequence_first_entry", "flow_sequence_entry",
                      "flow_sequence_end")
    \/ /\ state \in {"flow_sequence_first_entry", "flow_sequence_entry"}
       /\ call.at \in {"opened", "separated"}
       /\ \/ /\ Peek.type = "key"
             /\ Deliver(Event("mapping_start", ""), "flow_sequence_entry_mapping_key")
             /\ Skip
             /\ UNCHANGED <<states, marks, handles>>
          \/ /\ Peek.type \notin {"key", "flow_sequence_end"}
             /\ NodeThen("flow_sequence_entry", Node(FALSE, FALSE))

\* A token that shows that the key of the pair is empty is skipped.
ParseFlowPairKey ==
    /\ state = "flow_sequence_entry_mapping_key"
    /\ call.at = "enter"
    /\ \/ /\ Peek.type \notin AfterIndicator["flow_pair_key"].empty
          /\ NodeThen(AfterIndicator["flow_pair_key"].next, Node(FALSE, FALSE))
       \/ /\ Peek.type \in AfterIndicator["flow_pair_key"].empty
          /\ EmptyThen(AfterIndicator["flow_pair_key"].next)
          /\ Skip

ParseFlowPairEnd ==
    /\ state = "flow_sequence_entry_mapping_end"
    /\ Deliver(Event("mapping_end", ""), "flow_sequence_entry")
    /\ Stay
    /\ UNCHANGED <<states, marks, handles>>

AfterLoneKeyNone == "flow_mapping_key"   \* Variant: a lone key has no value
\* What follows a key that was not marked by KEY.
AfterLoneKey == "flow_mapping_empty_value"

ParseFlowMappingKey ==
    \/ FlowCollection("flow_mapping_first_key", "flow_mapping_key",
                      "flow_mapping_end")
    \/ /\ state \in {"flow_mapping_first_key", "flow_mapping_key"}
       /\ \/ /\ call.at = "indicated"
             /\ NodeOrEmpty("flow_key")
          \/ /\ call.at \in {"opened", "separated"}
             /\ \/ Peek.type = "key" /\ SkipIndicator
                \/ /\ Peek.type \notin {"key", "flow_mapping_end"}
                   /\ NodeThen(AfterLoneKey, Node(FALSE, FALSE))

ParseFlowMappingEmptyValue ==
    /\ state = "flow_mapping_empty_value"
    /\ EmptyThen("flow_mapping_key")
    /\ Stay

-----------------------------------------------------------------------------
StateMachine ==
    \/ ParseNode
    \/ /\ call.at # "node"
       /\ \/ ParseStreamStart \/ SkipDocumentEnd \/ ParseImplicitDocument
          \/ ParseDirective \/ ParseExplicitDocument \/ ParseStreamEnd
          \/ ParseDocumentContent \/ ParseDocumentEnd \/ OpenCollection
          \/ ParseBlockSequenceEntry \/ ParseBlockMappingKey
          \/ ParseIndentlessSequenceEntry \/ ParseBlockMappingValue
          \/ ParseFlowSequenceEntry \/ ParseFlowPairKey \/ ParseFlowPairValue
          \/ ParseFlowPairEnd \/ ParseFlowMappingKey
          \/ ParseFlowMappingValue \/ ParseFlowMappingEmptyValue

\* A step of the running call of yaml_parser_parse: PEEK_TOKEN fetches until
\* a token is available.
Parse ==
    /\ event = Reading
    /\ error = "none"
    /\ \/ ~tokenAvailable /\ FetchMoreTokens /\ UNCHANGED parserVars
       \/ tokenAvailable /\ StateMachine

\* yaml_parser_parse is called; after the end it returns an event of no type.
CallParse ==
    event' = IF state = "end" THEN Event("no_event", "") ELSE Reading

ParserInit ==
    /\ state = "stream_start"
    /\ states = <<>>
    /\ marks = 0
    /\ handles = {}
    /\ event = Reading
    /\ call = Enter

-----------------------------------------------------------------------------
\* The states in which a bracketed collection is open, each with a mark.
MarkedStates ==
    {"block_sequence_entry", "block_mapping_key", "block_mapping_value",
     "flow_sequence_entry", "flow_sequence_entry_mapping_key",
     "flow_sequence_entry_mapping_value", "flow_sequence_entry_mapping_end",
     "flow_mapping_key", "flow_mapping_value", "flow_mapping_empty_value"}
BlockStates == {"block_sequence_entry", "block_mapping_key", "block_mapping_value"}

\* The states that will still run: parse_node replaces the current one.
Pending == IF call.at = "node" THEN states ELSE Append(states, state)
OpenIn(set) ==
    Cardinality({i \in DOMAIN Pending : Pending[i] \in set})
    + (IF state \in FirstStates /\ call.at \in {"opened", "indicated"}
          /\ (state \in {"block_sequence_first_entry", "block_mapping_first_key"}
              \/ set = MarkedStates) THEN 1 ELSE 0)

\* POP takes from a stack without asking whether there is anything on it: the
\* stack of states always ends in the end of the document, and there is one
\* mark for each collection that is open.
StacksInStep ==
    error = "none" =>
        /\ marks = OpenIn(MarkedStates)
        /\ states = <<>> <=>
              state \in {"stream_start", "document_end", "end"} \cup DocumentStart
        /\ states # <<>> => states[1] = "document_end"

\* The scanner ends exactly the blocks it has begun: the indentation levels
\* are the blocks the parser has open and those whose start is in the queue,
\* less those whose end is.
Queued(types) == Cardinality({i \in DOMAIN tokens : tokens[i].type \in types})
BlocksInStep ==
    error = "none" /\ streamStarted =>
        Len(indents) - 1 =
            OpenIn(BlockStates)
            + Queued({"block_sequence_start", "block_mapping_start"})
            - Queued({"block_end"})
=============================================================================
