----------------------------- MODULE YamlDumper -----------------------------
(***************************************************************************)
(* The dumper of the vendored libyaml: it walks through the nodes of a     *)
(* document and issues an event for each of them.  A node that is referred *)
(* to more than once gets an anchor, and only its first visit writes it,   *)
(* the others are aliases, so that a document whose nodes contain          *)
(* themselves is written all the same.  "calls" is the stack of            *)
(* yaml_emitter_dump_node: the node and the next of its kids.              *)
(*                                                                         *)
(* Left out: a document without nodes, which closes the stream.            *)
(***************************************************************************)
EXTENDS YamlEmitter

VARIABLES documents,   \* the documents to dump, the first being dumped
          opened,      \* emitter->opened
          closed,      \* emitter->closed
          calls,       \* the calls of yaml_emitter_dump_node
          anchors,     \* emitter->anchors[].anchor, 0 for none
          serialized   \* the nodes with emitter->anchors[].serialized

dumperVars == <<documents, opened, closed, calls, anchors, serialized>>

\* A document: [nodes, version, handles, implicit, endImplicit]; a node:
\* [kind, val, tag, style, kids], the kids being positions in the nodes.
Dumped == Head(documents)
NodeAt(i) == Dumped.nodes[i]

AnchorIds == [i \in 0 .. 2 |-> CASE i = 0 -> "" [] i = 1 -> "id001" [] i = 2 -> "id002"]
Anchor(i) == AnchorIds[anchors[i]]

\* yaml_emitter_anchor_node, from node i on: the references that were counted
\* and the anchors that were given, in the order of the second references.
RECURSIVE AnchorNode(_, _, _)
AnchorNode(found, nodes, i) ==
    LET n == found.references[i] + 1
        counted == [found EXCEPT !.references[i] = n]
    IN CASE n = 1 -> FoldLeft(LAMBDA acc, kid : AnchorNode(acc, nodes, kid),
                              counted, nodes[i].kids)
         [] n = 2 -> [counted EXCEPT !.last = @ + 1, !.anchors[i] = found.last + 1]
         [] n > 2 -> counted

AnchorsOf(nodes) ==
    LET none == [i \in DOMAIN nodes |-> 0] IN
    AnchorNode([references |-> none, anchors |-> none, last |-> 0], nodes, 1).anchors

\* yaml_emitter_emit is called with event e.
Issue(e) ==
    /\ queue' = Append(queue, e)
    /\ UNCHANGED <<settings, emitState, emitStates, emitIndents, emitFlow, context,
                   directives, output>>

Open ==
    /\ ~opened
    /\ opened' = TRUE
    /\ Issue(EmitEvent("stream_start"))
    /\ UNCHANGED <<documents, closed, calls, anchors, serialized>>

DumpStart ==
    /\ opened /\ documents # <<>> /\ anchors = <<>>
    /\ Issue([EmitEvent("document_start") EXCEPT
                 !.version = Dumped.version, !.handles = Dumped.handles,
                 !.implicit = Dumped.implicit])
    /\ anchors' = AnchorsOf(Dumped.nodes)
    /\ serialized' = {}
    /\ calls' = <<[node |-> 1, next |-> 0]>>
    /\ UNCHANGED <<documents, opened, closed>>

\* The event for the start of node i, or for all of it.
StartOf(i) ==
    LET type == IF i \in serialized THEN "alias"
                ELSE IF NodeAt(i).kind = "scalar" THEN "scalar"
                ELSE IF NodeAt(i).kind = "sequence" THEN "sequence_start"
                ELSE "mapping_start"
    IN [EmitEvent(type) EXCEPT !.val = NodeAt(i).val, !.anchor = Anchor(i),
                               !.tag = NodeAt(i).tag, !.style = NodeAt(i).style]

Call == Last(calls)

\* A call begins: only the first of a node goes on to its kids.
DumpNode ==
    /\ calls # <<>>
    /\ Call.next = 0
    /\ Issue(StartOf(Call.node))
    /\ serialized' = serialized \cup {Call.node}
    /\ calls' = IF Call.node \in serialized \/ NodeAt(Call.node).kind = "scalar"
                THEN Front(calls) ELSE [calls EXCEPT ![Len(calls)].next = 1]
    /\ UNCHANGED <<documents, opened, closed, anchors>>

DumpKid ==
    /\ calls # <<>>
    /\ Call.next \in DOMAIN NodeAt(Call.node).kids
    /\ calls' = Append([calls EXCEPT ![Len(calls)].next = @ + 1],
                       [node |-> NodeAt(Call.node).kids[Call.next], next |-> 0])
    /\ UNCHANGED <<emitterVars, documents, opened, closed, anchors, serialized>>

DumpCollectionEnd ==
    /\ calls # <<>>
    /\ Call.next = Len(NodeAt(Call.node).kids) + 1
    /\ Issue(EmitEvent(IF NodeAt(Call.node).kind = "sequence"
                       THEN "sequence_end" ELSE "mapping_end"))
    /\ calls' = Front(calls)
    /\ UNCHANGED <<documents, opened, closed, anchors, serialized>>

\* yaml_emitter_delete_document_and_anchors: the next document starts afresh.
DumpEnd ==
    /\ anchors # <<>> /\ calls = <<>>
    /\ Issue([EmitEvent("document_end") EXCEPT !.implicit = Dumped.endImplicit])
    /\ anchors' = <<>>
    /\ documents' = Tail(documents)
    /\ UNCHANGED <<opened, closed, calls, serialized>>

Close ==
    /\ opened /\ documents = <<>> /\ ~closed
    /\ closed' = TRUE
    /\ Issue(EmitEvent("stream_end"))
    /\ UNCHANGED <<documents, opened, calls, anchors, serialized>>

\* yaml_emitter_emit returns when it needs more events.
Dump ==
    \/ Emit /\ UNCHANGED dumperVars
    \/ /\ NeedMoreEvents
       /\ \/ Open \/ DumpStart \/ DumpNode \/ DumpKid
          \/ DumpCollectionEnd \/ DumpEnd \/ Close

DumperInit(stream, chosen) ==
    /\ EmitterInit(chosen)
    /\ documents = stream
    /\ opened = FALSE
    /\ closed = FALSE
    /\ calls = <<>>
    /\ anchors = <<>>
    /\ serialized = {}
=============================================================================
