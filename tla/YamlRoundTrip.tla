--------------------------- MODULE YamlRoundTrip ---------------------------
(***************************************************************************)
(* Documents are written by the dumper and the emitter, and the text is    *)
(* what the tool reads: scanner, parser and loader have to undo what the   *)
(* emitter did.  A source whose text is given is read at once.             *)
(***************************************************************************)
EXTENDS MpuCalcTool, YamlDumper

VARIABLE writing   \* is the text still being written?

allVars == <<vars, emitterVars, dumperVars, writing>>

Write ==
    /\ writing
    /\ Dump
    /\ UNCHANGED <<vars, writing>>

\* The stream was closed, the emitter is deleted: its text is read from the
\* start.
StartReading ==
    /\ writing
    /\ closed /\ queue = <<>>
    /\ writing' = FALSE
    /\ lexeme' = Head(output.text)
    /\ script' = Tail(output.text)
    /\ output' = NewOutput
    /\ UNCHANGED <<source, budget, mark, tokens, tokensParsed, tokenAvailable,
                   streamStarted, levelVars, error, parserVars, loaderVars,
                   toolVars, settings, queue, emitState, emitStates, emitIndents,
                   emitFlow, context, directives, dumperVars>>

ReadBack == ~writing /\ Next /\ UNCHANGED <<emitterVars, dumperVars, writing>>

RoundTripNext == Write \/ StartReading \/ ReadBack

RoundTripInit ==
    /\ Init
    /\ writing = source.dumped
    /\ DumperInit(IF writing THEN source.documents ELSE <<>>, source.settings)

\* One thread: until the program ends it takes steps.  This is the weak fairness
\* of RoundTripNext, stated without ENABLED: every step but Ended changes a
\* variable, and the run, which checks deadlock, would report a state without a
\* step.
Fairness == []<>(status \notin Running) \/ []<><<status \in Running>>_allVars

RoundTripSpec == RoundTripInit /\ [][RoundTripNext]_allVars /\ Fairness

-----------------------------------------------------------------------------
\* The node with this index, with everything below it.
RECURSIVE TreeAt(_, _)
TreeAt(all, i) ==
    [all[i] EXCEPT !.kids = [k \in DOMAIN @ |-> TreeAt(all, @[k])]]

\* The regions of a tree in the order of the file, each with the fields that
\* are written in it and the defaults for the others.
FieldOf(region, f) ==
    LET at == {k \in DOMAIN region.kids :
                  k % 2 = 0 /\ region.kids[k - 1].val = f} IN
    IF at = {} THEN "default"
    ELSE LET value == region.kids[CHOOSE k \in at : at \subseteq 1 .. k] IN
         IF value.kind = "scalar" THEN value.val ELSE "garbage"
Own(region) == [f \in FieldNames |-> FieldOf(region, f)]
RECURSIVE RegionsOf(_)
RegionsOf(tree) ==
    FlattenSeq([k \in DOMAIN tree.kids |->
        RegionsOf(tree.kids[k])
        \o (IF tree.kind = "mapping" /\ k % 2 = 0 /\ tree.kids[k - 1].val = "region"
            THEN <<Own(tree.kids[k])>> ELSE <<>>)])
AllRegions ==
    FlattenSeq([i \in DOMAIN source.documents |->
                    RegionsOf(TreeAt(source.documents[i].nodes, 1))])

\* The entries without the padding, each region once.
RECURSIVE Merged(_)
Merged(s) ==
    IF Len(s) < 2 THEN s
    ELSE IF s[1] = s[2] THEN Merged(Tail(s)) ELSE <<s[1]>> \o Merged(Tail(s))
Shown == Merged(SelectSeq(table, LAMBDA e : e # Unused))

\* Sequence s is what is left of t when some of its elements are left out.
Selected(s, t) ==
    \E f \in [DOMAIN s -> DOMAIN t] :
        /\ \A i \in DOMAIN s : s[i] = t[f[i]]
        /\ \A i, j \in DOMAIN s : i < j => f[i] < f[j]

\* The map that is written has the regions of the file in their order, each
\* with its own fields only, although the fields are globals that all regions
\* share; a region may only be missing when an error was printed.
RegionsAsWritten ==
    status = "written" /\ source.free = 0 =>
        /\ Selected(Shown, AllRegions)
        /\ ~reported => Shown = AllRegions

\* The program ends, whatever it reads, unless an alias makes a node a part of
\* itself: such a document is walked through for ever.
RECURSIVE Below(_)
Below(set) ==
    LET more == set \cup UNION {Range(nodes[i].kids) : i \in set} IN
    IF more = set THEN set ELSE Below(more)
Cyclic == \E i \in DOMAIN nodes : i \in Below(Range(nodes[i].kids))
ProgramEnds == <>(status \notin Running /\ (status = "endless" => Cyclic))
=============================================================================
