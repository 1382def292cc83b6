---------------------------- MODULE MpuCalcTool ----------------------------
(***************************************************************************)
(* The command line tool: it loads one yaml document after the other,      *)
(* walks through its nodes, collects the fields of a region in globals and *)
(* adds the entries of a region to the display when the value of the key   *)
(* "region" has been walked through.  At the end the display is written,   *)
(* padded with unused entries.                                             *)
(*                                                                         *)
(* The walk is a recursion over the nodes; "frames" is its stack: the node,*)
(* the next of its kids, and how many of the pairs of a mapping are done.  *)
(***************************************************************************)
EXTENDS YamlLoader

CONSTANTS Sources,      \* the inputs: [documents, lexemes, words, columns, free], see Init
          BadValues,    \* texts that are no value of any field
          EntryCounts,  \* how many entries build_best_mpu_entries may build
          TableSize,    \* option mpu_table_size
          MaxNesting    \* the nesting at which the walk is taken to be endless

ASSUME ToolAssumption ==
    /\ EntryCounts \subseteq Nat
    /\ TableSize \in Nat
    /\ MaxNesting \in Nat

\* A text has no two lexemes at the same place, whoever wrote it.
ASSUME SourcesAssumption ==
    \A s \in Sources :
        /\ s.free \in Nat
        /\ s.free > 0 => s.words \subseteq FreeWords /\ s.columns \subseteq Nat
        /\ s.free = 0 => /\ s.lexemes \in Seq(Lexemes) \ {<<>>}
                         /\ InOrder(s.lexemes)

VARIABLES status,    \* "reading", "walking", and how the program ended
          fields,    \* the globals that hold the fields of the region
          frames,    \* the calls of traverse_yaml_node
          table,     \* the entries of global_display: the fields they are from
          reported   \* has an error been printed?

toolVars == <<status, fields, frames, table, reported>>
vars == <<scannerVars, parserVars, loaderVars, toolVars>>

ValueFields == {"start_addr", "size", "end_addr",
                "DisableExec", "AccessPermission", "AccessAttributes"}
TextFields == {"comment", "attributes"}
FieldNames == ValueFields \cup TextFields

Defaults == [f \in FieldNames |-> "default"]
Unused == [f \in FieldNames |-> "unused"]
Frame(i) == [node |-> i, next |-> 1, done |-> 0]

Exit(how) == status' = how /\ UNCHANGED <<fields, frames, table>>

-----------------------------------------------------------------------------
(* read_memory_map_from_file *)

\* The next document is loaded, after the one before was walked through.
LoadNext ==
    /\ status = "walking"
    /\ frames = <<>>
    /\ status' = "reading"
    /\ CallParseThen("document")
    /\ UNCHANGED <<nodes, aliases, open, fields, frames, table, reported>>

\* A document was loaded: it is walked through from its root.
Loaded ==
    /\ status = "reading"
    /\ error = "none"
    /\ loading = "loaded"
    /\ status' = "walking"
    /\ frames' = <<Frame(1)>>
    /\ UNCHANGED <<scannerVars, parserVars, loaderVars, fields, table, reported>>

\* An error of the scanner, the parser or the loader is printed and ends the
\* loop over the documents, but not the program.
LoadFailed ==
    /\ status = "reading"
    /\ error # "none"
    /\ reported' = TRUE
    /\ Exit("read")
    /\ UNCHANGED <<scannerVars, parserVars, loaderVars>>

NoMoreDocuments ==
    /\ status = "reading"
    /\ error = "none"
    /\ loading = "no_document"
    /\ Exit("read")
    /\ UNCHANGED <<scannerVars, parserVars, loaderVars, reported>>

-----------------------------------------------------------------------------
(* traverse_yaml_node *)

Top == Last(frames)
Kids == nodes[Top.node].kids
Kid(i) == nodes[Kids[i]]
IsMapping == nodes[Top.node].kind = "mapping"

\* The key of a pair has been walked through and its value is next.
AtValue == IsMapping /\ Top.next % 2 = 0
\* A value has been walked through and its key has not been looked at.
AtField == IsMapping /\ Top.next % 2 = 1 /\ Top.done < Top.next \div 2

With(frame) == Append(Front(frames), frame)

AdvancedNot == Top            \* Variant: the loop stays at the same kid
Advanced == [Top EXCEPT !.next = @ + 1]

\* The call for the next kid.
Visit ==
    /\ frames' = Append(With(Advanced), Frame(Kids[Top.next]))
    /\ UNCHANGED <<status, table, reported>>

VisitKid ==
    /\ Top.next <= Len(Kids)
    /\ ~AtValue /\ ~AtField
    /\ Len(frames) < MaxNesting
    /\ Visit
    /\ UNCHANGED fields

FieldsAtValueKept == fields   \* Variant: the fields of the last region stay
\* The key "region" resets the fields.
FieldsAtValue ==
    IF Kid(Top.next - 1).val = "region" THEN Defaults ELSE fields

\* token_matches asserts that the key is a scalar.
VisitValue ==
    /\ AtValue
    /\ \/ /\ Kid(Top.next - 1).kind # "scalar"
          /\ Exit("assertion")
          /\ UNCHANGED reported
       \/ /\ Kid(Top.next - 1).kind = "scalar"
          /\ Len(frames) < MaxNesting
          /\ fields' = FieldsAtValue
          /\ Visit

Return ==
    /\ Top.next > Len(Kids)
    /\ ~AtValue /\ ~AtField
    /\ frames' = Front(frames)
    /\ UNCHANGED <<status, fields, table, reported>>

PairDone == frames' = With([Top EXCEPT !.done = @ + 1])

\* The tokens of a field: a value that is no scalar fails an assertion and
\* one that is no value ends the program.  A comment is taken as it is, what
\* is read from a node of another kind is undefined.
SetField(name, value) ==
    \/ /\ name \in ValueFields
       /\ value.kind # "scalar"
       /\ Exit("assertion")
       /\ UNCHANGED reported
    \/ /\ name \in ValueFields
       /\ value.kind = "scalar" /\ value.val \in BadValues
       /\ reported' = TRUE
       /\ Exit("bad_value")
    \/ /\ value.kind = "scalar"
       /\ name \in ValueFields => value.val \notin BadValues
       /\ fields' = [fields EXCEPT ![name] = value.val]
       /\ PairDone
       /\ UNCHANGED <<status, table, reported>>
    \/ /\ name \in TextFields
       /\ value.kind # "scalar"
       /\ fields' = [fields EXCEPT ![name] = "garbage"]
       /\ PairDone
       /\ UNCHANGED <<status, table, reported>>

\* add_region: build_best_mpu_entries builds n entries and may give up before
\* it is done, which is printed; what it has built is added all the same.
AddRegion ==
    \E complete \in BOOLEAN :
        \E n \in EntryCounts \cup (IF complete THEN {} ELSE {0}) :
            /\ table' = table \o [i \in 1 .. n |-> fields]
            /\ reported' = (reported \/ ~complete)
            /\ PairDone
            /\ UNCHANGED <<status, fields>>

TakeField ==
    /\ AtField
    /\ LET key == Kid(Top.next - 2)
           value == Kid(Top.next - 1)
       IN
       \/ key.val \in FieldNames /\ SetField(key.val, value)
       \/ key.val = "region" /\ AddRegion
       \/ /\ key.val \notin FieldNames \cup {"region"}
          /\ PairDone
          /\ UNCHANGED <<status, fields, table, reported>>

\* The recursion goes on for ever: a node contains itself through an alias.
Endless ==
    /\ Len(frames) >= MaxNesting
    /\ Top.next <= Len(Kids)
    /\ ~AtField
    /\ AtValue => Kid(Top.next - 1).kind = "scalar"
    /\ Exit("endless")
    /\ UNCHANGED reported

Traverse ==
    /\ status = "walking"
    /\ frames # <<>>
    /\ VisitKid \/ VisitValue \/ Return \/ TakeField \/ Endless
    /\ UNCHANGED <<scannerVars, parserVars, loaderVars>>

-----------------------------------------------------------------------------
(* main *)

\* The display is padded to the size of the table and written.
WriteMap ==
    /\ status = "read"
    /\ table' = table \o [i \in 1 .. TableSize - Len(table) |-> Unused]
    /\ status' = "written"
    /\ UNCHANGED <<scannerVars, parserVars, loaderVars, fields, frames, reported>>

Running == {"reading", "walking", "read"}
Ended == status \notin Running /\ UNCHANGED <<scannerVars, parserVars, loaderVars, toolVars>>

\* yaml_parser_load runs.
Read ==
    /\ status = "reading"
    /\ \/ /\ Parse
          /\ UNCHANGED <<loaderVars, toolVars>>
       \/ /\ loading \in {"stream", "document", "node", "document_end"}
          /\ Load
          /\ UNCHANGED toolVars

Next ==
    \/ Read
    \/ LoadNext \/ Loaded \/ LoadFailed \/ NoMoreDocuments
    \/ Traverse
    \/ WriteMap
    \/ Ended

\* A source is a text that was written from documents, or at most "free"
\* lexemes out of "words" in any order.
Init ==
    /\ source \in Sources
    /\ IF source.free > 0
       THEN \E w \in source.words :
                ScannerInit(At(w, 0, 0, 0), <<>>, source.free - 1)
       ELSE ScannerInit(Head(source.lexemes), Tail(source.lexemes), 0)
    /\ ParserInit
    /\ LoaderInit
    /\ status = "reading"
    /\ fields = [f \in FieldNames |-> "zero"]
    /\ frames = <<>>
    /\ table = <<>>
    /\ reported = FALSE

\* One thread: whenever a step is possible it is taken.
Spec == Init /\ [][Next]_vars /\ WF_vars(Next)

-----------------------------------------------------------------------------
TypeOK ==
    /\ status \in Running \cup {"written", "bad_value", "assertion", "endless"}
    /\ error \in {"none", "scanner", "parser", "composer"}
    /\ loading \in {"stream", "document", "node", "document_end",
                    "loaded", "no_document"}
    /\ Len(simpleKeys) = (IF streamStarted THEN flowLevel + 1 ELSE 0)
    /\ \A i, j \in DOMAIN indents : i < j => indents[i] < indents[j]
    /\ marks \in Nat /\ tokensParsed \in Nat
    /\ \A i \in DOMAIN nodes : \A k \in DOMAIN nodes[i].kids :
            nodes[i].kids[k] \in DOMAIN nodes
    /\ \A i \in DOMAIN frames : frames[i].node \in DOMAIN nodes
    /\ \A i \in DOMAIN table : DOMAIN table[i] = FieldNames

\* Every text that is written from a document, in whatever style, is read
\* back without an error as the nodes of that document, shared nodes being
\* shared again: scanner, parser and loader together undo the layout.
Loadable(node) == [kind |-> node.kind, val |-> node.val, tag |-> node.tag,
                   kids |-> node.kids]
WrittenNodes ==
    {[n \in DOMAIN d.nodes |-> Loadable(d.nodes[n])] : d \in Range(source.documents)}
TextsLoad ==
    source.free = 0 =>
        /\ error = "none"
        /\ status = "walking" => nodes \in WrittenNodes
=============================================================================
