---------------------------- MODULE YamlEmitter ----------------------------
(***************************************************************************)
(* The emitter of the vendored libyaml: a state machine that turns events  *)
(* into text.  It looks a few events ahead to see empty collections, and   *)
(* it decides, for every node, between the block and the flow style, for   *)
(* every key, whether it may be a simple one, and for every scalar, in     *)
(* which style it can be written.  Every state function is an action.      *)
(*                                                                         *)
(* Left out are the errors for events in an order in which the dumper      *)
(* (YamlDumper) never issues them, and those of memory and of output.      *)
(***************************************************************************)
EXTENDS YamlWriter

VARIABLES settings,    \* emitter->canonical, best_indent, best_width
          queue,       \* emitter->events
          emitState,   \* emitter->state
          emitStates,  \* emitter->states
          emitIndents, \* emitter->indents with emitter->indent on top
          emitFlow,    \* emitter->flow_level
          context,     \* emitter->root_context, mapping_ and simple_key_context
          directives,  \* the handles of emitter->tag_directives
          output       \* the text and the flags of the writers

emitterVars == <<settings, queue, emitState, emitStates, emitIndents, emitFlow, context,
                 directives, output>>

Canonical == settings.canonical
BestIndent == settings.indent
BestWidth == settings.width

EmitEvent(type) ==
    [type |-> type, val |-> "", anchor |-> "", tag |-> "!!", style |-> "any",
     version |-> FALSE, handles |-> <<>>, implicit |-> TRUE]

-----------------------------------------------------------------------------
(* yaml_emitter_need_more_events *)

Extra == [type \in {"document_start", "sequence_start", "mapping_start"} |->
    CASE type = "document_start" -> 1 [] type = "sequence_start" -> 2
      [] type = "mapping_start"  -> 3]
Opening == {"stream_start", "document_start", "sequence_start", "mapping_start"}
Closing == {"stream_end", "document_end", "sequence_end", "mapping_end"}
Level(n) == Cardinality({i \in 1 .. n : queue[i].type \in Opening})
            - Cardinality({i \in 1 .. n : queue[i].type \in Closing})

NeedMoreEvents ==
    \/ queue = <<>>
    \/ /\ queue # <<>>
       /\ Head(queue).type \in DOMAIN Extra
       /\ Len(queue) <= Extra[Head(queue).type]
       /\ \A n \in DOMAIN queue : Level(n) # 0

-----------------------------------------------------------------------------
(* What is known of the event at the head *)

E == Head(queue)

\* yaml_emitter_analyze_tag: a tag is written when it is not implied, with its
\* handle if a directive has one for it.
TagWritten ==
    IF ~Canonical /\ E.tag = "!!" THEN ""
    ELSE IF E.tag \in directives THEN E.tag ELSE "<"

CheckEmpty(start, end) == E.type = start /\ Len(queue) > 1 /\ queue[2].type = end
EmptySequence == CheckEmpty("sequence_start", "sequence_end")
EmptyMapping == CheckEmpty("mapping_start", "mapping_end")

PropertiesLength == (IF E.anchor = "" THEN 0 ELSE AnchorLength)
                    + (IF TagWritten = "" THEN 0 ELSE TagLength)

OneLine == ~Analysis(TextOf(E.val)).multiline

CheckSimpleKey ==
    \/ E.type = "alias"
    \/ /\ E.type = "scalar" /\ OneLine
       /\ PropertiesLength + TextLength(TextOf(E.val)) <= 128
    \/ EmptySequence \/ EmptyMapping

\* yaml_emitter_select_scalar_style: the style that was asked for is replaced
\* by one in which the scalar can be written at this place.
SelectScalarStyle(simpleKey, level) ==
    LET a == Analysis(TextOf(E.val))
        asked == IF Canonical \/ (simpleKey /\ a.multiline) THEN "double"
                 ELSE IF E.style = "any" THEN "plain" ELSE E.style
        plainAllowed ==
            /\ IF level > 0 THEN a.flowPlain ELSE a.blockPlain
            /\ TextLength(TextOf(E.val)) = 0 => level = 0 /\ ~simpleKey
        notPlain == IF asked = "plain" /\ ~plainAllowed THEN "single" ELSE asked
    IN CASE notPlain = "single" /\ ~a.single -> "double"
         [] notPlain \in {"literal", "folded"} /\ (~a.block \/ level > 0 \/ simpleKey) ->
                "double"
         [] OTHER -> notPlain

\* yaml_emitter_increase_indent
Increased(flow, indentless) ==
    LET indent == Last(emitIndents) IN
    IF indent < 0 THEN IF flow THEN BestIndent ELSE 0
    ELSE IF indentless THEN indent ELSE indent + BestIndent

Properties(o) ==
    WriteTag(WriteAnchor(o, IF E.type = "alias" THEN "*" ELSE "&", E.anchor), TagWritten)

-----------------------------------------------------------------------------
(* yaml_emitter_emit_node: the node of the event at the head, after output o, *)
(* with the indents and the flow level its parent left; state "next" follows. *)

Contexts(root, mapping, simpleKey) ==
    [root |-> root, mapping |-> mapping, simpleKey |-> simpleKey]

Consumed(o, st, stack, indents, level) ==
    /\ queue' = Tail(queue)
    /\ output' = o
    /\ emitState' = st
    /\ emitStates' = stack
    /\ emitIndents' = indents
    /\ emitFlow' = level
    /\ UNCHANGED settings

EmitScalar(o, next, c, indents, level) ==
    LET indent == IF Last(indents) < 0 THEN BestIndent ELSE Last(indents) + BestIndent
        style == SelectScalarStyle(c.simpleKey, level)
    IN
    /\ E.type = "scalar"
    /\ Consumed(WriteScalar(Properties(o), E.val, style, indent, ~c.simpleKey,
                            BestWidth, c.root, BestIndent),
                next, emitStates, indents, level)

EmitAlias(o, next, indents, level) ==
    /\ E.type = "alias"
    /\ Consumed(WriteAnchor(o, "*", E.anchor), next, emitStates, indents, level)

InFlow(level) == level > 0 \/ Canonical \/ E.style = "flow"

EmitCollectionStart(o, next, indents, level) ==
    LET st == CASE E.type = "sequence_start" /\ (InFlow(level) \/ EmptySequence) ->
                        "flow_sequence_first_item"
                [] E.type = "sequence_start" /\ ~(InFlow(level) \/ EmptySequence) ->
                        "block_sequence_first_item"
                [] E.type = "mapping_start" /\ (InFlow(level) \/ EmptyMapping) ->
                        "flow_mapping_first_key"
                [] E.type = "mapping_start" /\ ~(InFlow(level) \/ EmptyMapping) ->
                        "block_mapping_first_key"
    IN
    /\ E.type \in {"sequence_start", "mapping_start"}
    /\ Consumed(Properties(o), st, Append(emitStates, next), indents, level)

EmitNode(o, next, c, indents, level) ==
    /\ context' = c
    /\ UNCHANGED directives
    /\ \/ EmitScalar(o, next, c, indents, level)
       \/ EmitAlias(o, next, indents, level)
       \/ EmitCollectionStart(o, next, indents, level)

\* The collection ends after output o.
EmitEnd(o, indents, level) ==
    /\ Consumed(o, Last(emitStates), Front(emitStates), Front(indents), level)
    /\ UNCHANGED <<context, directives>>

-----------------------------------------------------------------------------
(* The stream and its documents *)

EmitStreamStart ==
    /\ emitState = "stream_start"
    /\ E.type = "stream_start"
    /\ Consumed(NewOutput, "first_document_start", emitStates, <<-1>>, emitFlow)
    /\ UNCHANGED <<context, directives>>

WithDirectives(o) ==
    LET o1 == IF (E.version \/ E.handles # <<>>) /\ o.openEnded
              THEN WriteIndent(WriteIndicator(o, "...", TRUE, FALSE, FALSE), -1) ELSE o
        o2 == IF E.version THEN WriteDirective(o1, "%yaml", "1.1", -1) ELSE o1
    IN FoldLeft(LAMBDA acc, h : WriteDirective(acc, "%tag", h, -1), o2, E.handles)

EmitDocumentStart ==
    LET explicit == \/ emitState = "document_start" \/ Canonical \/ ~E.implicit
                    \/ E.version \/ E.handles # <<>>
        o1 == WithDirectives(output)
        o2 == WriteIndicator(WriteIndent(o1, -1), "---", TRUE, FALSE, FALSE)
        o3 == IF Canonical THEN WriteIndent(o2, -1) ELSE o2
    IN
    /\ emitState \in {"first_document_start", "document_start"}
    /\ E.type = "document_start"
    /\ directives' = Range(E.handles) \cup {"!", "!!"}
    /\ Consumed(IF explicit THEN o3 ELSE o1, "document_content", emitStates,
                emitIndents, emitFlow)
    /\ UNCHANGED context

EmitStreamEnd ==
    /\ emitState \in {"first_document_start", "document_start"}
    /\ E.type = "stream_end"
    /\ Consumed(output, "end", emitStates, emitIndents, emitFlow)
    /\ UNCHANGED <<context, directives>>

EmitDocumentContent ==
    /\ emitState = "document_content"
    /\ EmitNode(output, "document_end", Contexts(TRUE, FALSE, FALSE), emitIndents, emitFlow)

EmitDocumentEnd ==
    LET o == WriteIndent(output, -1) IN
    /\ emitState = "document_end"
    /\ E.type = "document_end"
    /\ Consumed(IF E.implicit THEN o
                ELSE WriteIndent(WriteIndicator(o, "...", TRUE, FALSE, FALSE), -1),
                "document_start", emitStates, emitIndents, emitFlow)
    /\ directives' = {}
    /\ UNCHANGED context

-----------------------------------------------------------------------------
(* Flow collections *)

\* The opening bracket, on the first call, or the comma before the next entry.
Bracket(o, open) == WriteIndicator(o, open, TRUE, TRUE, FALSE)
Comma(o) == WriteIndicator(o, ",", FALSE, FALSE, FALSE)
NewLine(o, indents) ==
    IF Canonical \/ o.column > BestWidth THEN WriteIndent(o, Last(indents)) ELSE o

EmitFlowCollection(first, rest, open, close, end, Entry(_, _, _)) ==
    LET isFirst == emitState = first
        indents == IF isFirst THEN Append(emitIndents, Increased(TRUE, FALSE))
                   ELSE emitIndents
        level == IF isFirst THEN emitFlow + 1 ELSE emitFlow
        o == IF isFirst THEN Bracket(output, open) ELSE output
        last == IF Canonical /\ ~isFirst
                THEN WriteIndent(Comma(o), Last(Front(indents))) ELSE o
    IN
    /\ emitState \in {first, rest}
    /\ \/ /\ E.type = end
          /\ EmitEnd(WriteIndicator(last, close, FALSE, FALSE, FALSE), indents, level - 1)
       \/ /\ E.type # end
          /\ Entry(NewLine(IF isFirst THEN o ELSE Comma(o), indents), indents, level)

EmitFlowSequenceItem ==
    EmitFlowCollection("flow_sequence_first_item", "flow_sequence_item", "[", "]", "sequence_end",
        LAMBDA o, indents, level :
            EmitNode(o, "flow_sequence_item", Contexts(FALSE, FALSE, FALSE), indents, level))

EmitFlowMappingKey ==
    EmitFlowCollection("flow_mapping_first_key", "flow_mapping_key", "{", "}", "mapping_end",
        LAMBDA o, indents, level :
            IF ~Canonical /\ CheckSimpleKey
            THEN EmitNode(o, "flow_mapping_simple_value", Contexts(FALSE, TRUE, TRUE),
                          indents, level)
            ELSE EmitNode(WriteIndicator(o, "?", TRUE, FALSE, FALSE), "flow_mapping_value",
                          Contexts(FALSE, TRUE, FALSE), indents, level))

EmitFlowMappingValue ==
    /\ emitState \in {"flow_mapping_simple_value", "flow_mapping_value"}
    /\ EmitNode(IF emitState = "flow_mapping_simple_value"
                THEN WriteIndicator(output, ":", FALSE, FALSE, FALSE)
                ELSE WriteIndicator(NewLine(output, emitIndents), ":", TRUE, FALSE, FALSE),
                "flow_mapping_key", Contexts(FALSE, TRUE, FALSE), emitIndents, emitFlow)

-----------------------------------------------------------------------------
(* Block collections *)

EmitBlockCollection(first, rest, end, indentless, Entry(_, _)) ==
    LET indents == IF emitState = first THEN Append(emitIndents, Increased(FALSE, indentless))
                   ELSE emitIndents
    IN
    /\ emitState \in {first, rest}
    /\ \/ /\ E.type = end
          /\ EmitEnd(output, indents, emitFlow)
       \/ /\ E.type # end
          /\ Entry(WriteIndent(output, Last(indents)), indents)

EmitBlockSequenceItem ==
    EmitBlockCollection("block_sequence_first_item", "block_sequence_item", "sequence_end",
        context.mapping /\ ~output.indention,
        LAMBDA o, indents :
            EmitNode(WriteIndicator(o, "-", TRUE, FALSE, TRUE), "block_sequence_item",
                     Contexts(FALSE, FALSE, FALSE), indents, emitFlow))

EmitBlockMappingKey ==
    EmitBlockCollection("block_mapping_first_key", "block_mapping_key", "mapping_end", FALSE,
        LAMBDA o, indents :
            IF CheckSimpleKey
            THEN EmitNode(o, "block_mapping_simple_value", Contexts(FALSE, TRUE, TRUE),
                          indents, emitFlow)
            ELSE EmitNode(WriteIndicator(o, "?", TRUE, FALSE, TRUE), "block_mapping_value",
                          Contexts(FALSE, TRUE, FALSE), indents, emitFlow))

EmitBlockMappingValue ==
    /\ emitState \in {"block_mapping_simple_value", "block_mapping_value"}
    /\ EmitNode(IF emitState = "block_mapping_simple_value"
                THEN WriteIndicator(output, ":", FALSE, FALSE, FALSE)
                ELSE WriteIndicator(WriteIndent(output, Last(emitIndents)), ":",
                                    TRUE, FALSE, TRUE),
                "block_mapping_key", Contexts(FALSE, TRUE, FALSE), emitIndents, emitFlow)

-----------------------------------------------------------------------------
\* The loop of yaml_emitter_emit: one event is taken from the queue.
Emit ==
    /\ ~NeedMoreEvents
    /\ \/ EmitStreamStart \/ EmitDocumentStart \/ EmitStreamEnd
       \/ EmitDocumentContent \/ EmitDocumentEnd
       \/ EmitFlowSequenceItem \/ EmitFlowMappingKey \/ EmitFlowMappingValue
       \/ EmitBlockSequenceItem \/ EmitBlockMappingKey \/ EmitBlockMappingValue

EmitterInit(chosen) ==
    /\ settings = chosen
    /\ queue = <<>>
    /\ emitState = "stream_start"
    /\ emitStates = <<>>
    /\ emitIndents = <<>>
    /\ emitFlow = 0
    /\ context = Contexts(FALSE, FALSE, FALSE)
    /\ directives = {}
    /\ output = NewOutput
=============================================================================
