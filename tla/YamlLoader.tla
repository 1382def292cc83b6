----------------------------- MODULE YamlLoader -----------------------------
(***************************************************************************)
(* The loader of the vendored libyaml: it builds the nodes of one document *)
(* from the events of the parser.  Its functions call each other           *)
(* recursively; "open" is the stack of the collections being loaded, each  *)
(* with the key that waits for its value (0 when there is none).           *)
(***************************************************************************)
EXTENDS YamlParser

VARIABLES loading,  \* what the loader expects next, or how it returned
          nodes,    \* document->nodes: [kind, val, tag, kids]; kids of a
                    \* mapping are key, value, key, value, ...
          aliases,  \* parser->aliases: [anchor, index]
          open      \* the collections being loaded: [index, key]

loaderVars == <<loading, nodes, aliases, open>>

\* A node without a tag has the default one of its kind, of handle "!!".
NodeOf(kind) ==
    [kind |-> kind, val |-> event.val, kids |-> <<>>,
     tag |-> IF event.tag = "" THEN "!!" ELSE event.tag]

CallParseThen(next) ==
    /\ CallParse
    /\ loading' = next
    /\ UNCHANGED <<scannerVars, state, states, marks, handles, call>>

Returned(how) ==
    /\ loading' = how
    /\ UNCHANGED <<scannerVars, parserVars>>

\* yaml_parser_load and yaml_parser_load_document, up to the root node
LoadStart ==
    /\ UNCHANGED open
    /\ \/ /\ loading = "stream" /\ event.type = "stream_start"
          /\ CallParseThen("document")
          /\ UNCHANGED <<nodes, aliases>>
       \/ /\ loading = "document" /\ event.type = "stream_end"
          /\ Returned("no_document")
          /\ UNCHANGED <<nodes, aliases>>
       \/ /\ loading = "document" /\ event.type = "document_start"
          /\ CallParseThen("node")
          /\ nodes' = <<>>
          /\ aliases' = {}

LoadDocumentEnd ==
    /\ loading = "document_end"
    /\ event.type = "document_end"
    /\ Returned("loaded")
    /\ UNCHANGED <<nodes, aliases, open>>

\* The node with this index is given to the collection that waits for it, in
\* the nodes "all", and the next event is parsed.
Attach(index, all, collections) ==
    /\ CallParseThen(IF collections = <<>> THEN "document_end" ELSE "node")
    /\ IF collections = <<>>
       THEN nodes' = all /\ open' = collections
       ELSE LET top == Last(collections)
                isKey == all[top.index].kind = "mapping" /\ top.key = 0
                items == IF all[top.index].kind = "mapping"
                         THEN <<top.key, index>> ELSE <<index>>
            IN
            /\ nodes' = IF isKey THEN all
                        ELSE [all EXCEPT ![top.index].kids = @ \o items]
            /\ open' = [collections EXCEPT ![Len(collections)].key =
                            IF isKey THEN index ELSE 0]

ComposerError ==
    /\ error' = "composer"
    /\ UNCHANGED <<source, inputVars, tokens, tokensParsed, tokenAvailable,
                   streamStarted, levelVars, parserVars, loaderVars>>

Anchors == {a.anchor : a \in aliases}

\* yaml_parser_register_anchor: the index of the node that was pushed last
DuplicateAnchor == event.anchor \in Anchors
Registered(index) ==
    IF event.anchor = "" THEN aliases
    ELSE aliases \cup {[anchor |-> event.anchor, index |-> index]}

LoadAlias ==
    /\ event.type = "alias"
    /\ \/ /\ event.val \notin Anchors
          /\ ComposerError
       \/ \E a \in aliases :
             /\ a.anchor = event.val
             /\ Attach(a.index, nodes, open)
             /\ UNCHANGED aliases

LoadScalar ==
    /\ event.type = "scalar"
    /\ \/ DuplicateAnchor /\ ComposerError
       \/ /\ ~DuplicateAnchor
          /\ aliases' = Registered(Len(nodes) + 1)
          /\ Attach(Len(nodes) + 1, Append(nodes, NodeOf("scalar")), open)

\* yaml_parser_load_sequence and yaml_parser_load_mapping, the first event
LoadCollection ==
    /\ event.type \in {"sequence_start", "mapping_start"}
    /\ \/ DuplicateAnchor /\ ComposerError
       \/ /\ ~DuplicateAnchor
          /\ aliases' = Registered(Len(nodes) + 1)
          /\ nodes' = Append(nodes, NodeOf(IF event.type = "sequence_start"
                                           THEN "sequence" ELSE "mapping"))
          /\ open' = Append(open, [index |-> Len(nodes) + 1, key |-> 0])
          /\ CallParseThen("node")

\* The event that ends the innermost collection: a mapping looks for it only
\* where a key may begin.  Any other event that is no node fails an assertion
\* of yaml_parser_load_node.
Ends(type) ==
    /\ open # <<>>
    /\ \/ /\ type = "sequence_end"
          /\ nodes[Last(open).index].kind = "sequence"
       \/ /\ type = "mapping_end"
          /\ nodes[Last(open).index].kind = "mapping"
          /\ Last(open).key = 0

LoadCollectionEnd ==
    /\ Ends(event.type)
    /\ Attach(Last(open).index, nodes, Front(open))
    /\ UNCHANGED aliases

NodeEvents == {"alias", "scalar", "sequence_start", "mapping_start"}

Load ==
    /\ event # Reading
    /\ error = "none"
    /\ \/ LoadStart
       \/ LoadDocumentEnd
       \/ /\ loading = "node"
          /\ LoadAlias \/ LoadScalar \/ LoadCollection \/ LoadCollectionEnd

LoaderInit ==
    /\ loading = "stream"
    /\ nodes = <<>>
    /\ aliases = {}
    /\ open = <<>>

-----------------------------------------------------------------------------
\* The loader relies on the parser for the shape of the event stream, and its
\* assertions say so: a node where a node belongs, an end only for the
\* collection that is open, never between a key and its value, and the end of
\* the document after its root.
EventsWellFormed ==
    event # Reading /\ error = "none" =>
        /\ loading = "stream" => event.type = "stream_start"
        /\ loading = "document" => event.type \in {"stream_end", "document_start"}
        /\ loading = "document_end" => event.type = "document_end"
        /\ loading = "node" => event.type \in NodeEvents \/ Ends(event.type)
=============================================================================
