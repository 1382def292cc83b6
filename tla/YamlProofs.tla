----------------------------- MODULE YamlProofs -----------------------------
(***************************************************************************)
(* What is proved about the reading half of libyaml, as the tool uses it:  *)
(* for every set of inputs whose lexemes follow each other.                *)
(***************************************************************************)
EXTENDS MpuCalcTool, FiniteSetTheorems, SequenceTheorems, NaturalsInduction,
        WellFoundedInduction, TLAPS

-----------------------------------------------------------------------------
(* Sequences *)

Count(s, set) == Cardinality({i \in DOMAIN s : s[i] \in set})

LEMMA CountType ==
    ASSUME NEW S, NEW s \in Seq(S), NEW set
    PROVE  /\ IsFiniteSet({i \in DOMAIN s : s[i] \in set})
           /\ Count(s, set) \in Nat
<1>1. Len(s) \in Nat /\ DOMAIN s = 1 .. Len(s)
  BY LenProperties
<1>2. IsFiniteSet(1 .. Len(s))
  BY <1>1, FS_Interval
<1>3. {i \in DOMAIN s : s[i] \in set} \in SUBSET (1 .. Len(s))
  BY <1>1
<1>4. IsFiniteSet({i \in DOMAIN s : s[i] \in set})
  BY <1>2, <1>3, FS_Subset
<1> QED
  BY <1>4, FS_CardinalityType DEF Count

LEMMA CountEmpty ==
    ASSUME NEW set
    PROVE  Count(<<>>, set) = 0
<1>1. {i \in DOMAIN <<>> : <<>>[i] \in set} = {}
  OBVIOUS
<1> QED
  BY <1>1, FS_EmptySet DEF Count

LEMMA CountAppend ==
    ASSUME NEW S, NEW s \in Seq(S), NEW x \in S, NEW set
    PROVE  Count(Append(s, x), set) = Count(s, set) + (IF x \in set THEN 1 ELSE 0)
<1> DEFINE n == Len(s)
           A == {i \in DOMAIN s : s[i] \in set}
           B == {i \in DOMAIN Append(s, x) : Append(s, x)[i] \in set}
<1>1. n \in Nat /\ DOMAIN s = 1 .. n
  BY LenProperties
<1>2. /\ Append(s, x) \in Seq(S) /\ Len(Append(s, x)) = n + 1
      /\ \A i \in 1 .. n : Append(s, x)[i] = s[i]
      /\ Append(s, x)[n + 1] = x
  BY AppendProperties
<1>3. DOMAIN Append(s, x) = 1 .. n + 1
  BY <1>2, LenProperties
<1>4. IsFiniteSet(A) /\ Cardinality(A) \in Nat
  BY CountType DEF Count
<1>5. n + 1 \notin A
  BY <1>1
<1>6. CASE x \in set
  <2>1. B = A \cup {n + 1}
    BY <1>1, <1>2, <1>3, <1>6
  <2> QED
    BY <1>4, <1>5, <1>6, <2>1, FS_AddElement DEF Count
<1>7. CASE x \notin set
  <2>1. B = A
    BY <1>1, <1>2, <1>3, <1>7
  <2>2. Count(Append(s, x), set) = Count(s, set) /\ Count(s, set) \in Nat
    BY <2>1, CountType DEF Count
  <2> QED
    BY <1>7, <2>2
<1> QED
  BY <1>6, <1>7

\* A sequence that is not empty is its front and its last element.
LEMMA FrontLast ==
    ASSUME NEW S, NEW s \in Seq(S), s # <<>>
    PROVE  /\ Len(s) \in Nat \ {0}
           /\ Front(s) \in Seq(S) /\ Last(s) \in S
           /\ Len(Front(s)) = Len(s) - 1
           /\ \A i \in 1 .. Len(s) - 1 : Front(s)[i] = s[i]
           /\ s = Append(Front(s), Last(s))
<1>1. Len(s) \in Nat \ {0}
  BY EmptySeq
<1>2. \A i \in 1 .. Len(s) : s[i] \in S
  BY ElementOfSeq
<1>3. \A i \in 1 .. Len(s) - 1 : s[i] \in S
  BY <1>1, <1>2
<1>4. Last(s) \in S
  BY <1>1, <1>2 DEF Last
<1>5. /\ Front(s) \in Seq(S)
      /\ Len(Front(s)) = Len(s) - 1
      /\ \A i \in 1 .. Len(s) - 1 : Front(s)[i] = s[i]
  <2>1. 1 \in Int /\ Len(s) - 1 \in Int
    BY <1>1
  <2>2. /\ SubSeq(s, 1, Len(s) - 1) \in Seq(S)
        /\ Len(SubSeq(s, 1, Len(s) - 1))
             = IF 1 <= Len(s) - 1 THEN (Len(s) - 1) - 1 + 1 ELSE 0
        /\ \A i \in 1 .. (Len(s) - 1) - 1 + 1 :
              SubSeq(s, 1, Len(s) - 1)[i] = s[1 + i - 1]
    BY <1>3, <2>1, SubSeqProperties
  <2>3. \A n \in Nat \ {0} :
            /\ (n - 1) - 1 + 1 = n - 1
            /\ (IF 1 <= n - 1 THEN (n - 1) - 1 + 1 ELSE 0) = n - 1
            /\ \A i \in 1 .. n - 1 : 1 + i - 1 = i
    OBVIOUS
  <2>4. /\ (Len(s) - 1) - 1 + 1 = Len(s) - 1
        /\ (IF 1 <= Len(s) - 1 THEN (Len(s) - 1) - 1 + 1 ELSE 0) = Len(s) - 1
        /\ \A i \in 1 .. Len(s) - 1 : 1 + i - 1 = i
    BY <1>1, <2>3, Zenon
  <2> QED
    BY <2>2, <2>4, Zenon DEF Front
<1>6. s = Append(Front(s), Last(s))
  <2> DEFINE f == Front(s)
             t == Append(f, Last(s))
  <2>1. /\ t \in Seq(S) /\ Len(t) = Len(f) + 1
        /\ \A i \in 1 .. Len(f) : t[i] = f[i]
        /\ t[Len(f) + 1] = Last(s)
    BY <1>4, <1>5, AppendProperties
  <2>2. Len(t) = Len(s)
    BY <1>1, <1>5, <2>1
  <2>3. ASSUME NEW i \in 1 .. Len(s) PROVE s[i] = t[i]
    BY <1>1, <1>5, <2>1 DEF Last
  <2> QED
    BY <2>1, <2>2, <2>3, SeqEqual
<1> QED
  BY <1>1, <1>4, <1>5, <1>6

LEMMA CountPop ==
    ASSUME NEW S, NEW s \in Seq(S), s # <<>>, NEW set
    PROVE  /\ Front(s) \in Seq(S) /\ Count(Front(s), set) \in Nat
           /\ Count(s, set) = Count(Front(s), set) + (IF Last(s) \in set THEN 1 ELSE 0)
<1>1. /\ Front(s) \in Seq(S) /\ Last(s) \in S
      /\ s = Append(Front(s), Last(s))
  BY FrontLast
<1>2. Count(Append(Front(s), Last(s)), set)
        = Count(Front(s), set) + (IF Last(s) \in set THEN 1 ELSE 0)
  BY <1>1, CountAppend
<1>3. Count(Front(s), set) \in Nat
  BY <1>1, CountType
<1> QED
  BY <1>1, <1>2, <1>3

LEMMA CountConcat ==
    ASSUME NEW S, NEW s \in Seq(S), NEW t \in Seq(S), NEW set
    PROVE  Count(s \o t, set) = Count(s, set) + Count(t, set)
<1> DEFINE n == Len(s)
           m == Len(t)
           A == {i \in DOMAIN s : s[i] \in set}
           B == {i \in DOMAIN t : t[i] \in set}
           C == {i \in DOMAIN (s \o t) : (s \o t)[i] \in set}
           D == {j \in n + 1 .. n + m : t[j - n] \in set}
           f == [i \in B |-> i + n]
<1>1. n \in Nat /\ m \in Nat /\ DOMAIN s = 1 .. n /\ DOMAIN t = 1 .. m
  BY LenProperties
<1>2. /\ s \o t \in Seq(S) /\ Len(s \o t) = n + m
      /\ \A i \in 1 .. n + m : (s \o t)[i] = IF i <= n THEN s[i] ELSE t[i - n]
  BY ConcatProperties
<1>3. DOMAIN (s \o t) = 1 .. n + m
  BY <1>2, LenProperties
<1> HIDE DEF n, m
<1>4. C = A \cup D
  <2>1. ASSUME NEW i \in C PROVE i \in A \cup D
    BY <1>1, <1>2, <1>3
  <2>2. ASSUME NEW i \in A PROVE i \in C
    BY <1>1, <1>2, <1>3
  <2>3. ASSUME NEW i \in D PROVE i \in C
    BY <1>1, <1>2, <1>3
  <2> QED
    BY <2>1, <2>2, <2>3
<1>5. A \cap D = {}
  BY <1>1
<1>6. ExistsBijection(B, D)
  <2>1. \A i \in B : i \in Int /\ i + n \in n + 1 .. n + m /\ (i + n) - n = i
    BY <1>1
  <2>2. f \in [B -> D]
    BY <2>1
  <2>3. \A i, j \in B : f[i] = f[j] => i = j
    BY <1>1
  <2>4. \A j \in D : j - n \in B /\ f[j - n] = j
    BY <1>1
  <2>5. f \in Bijection(B, D)
    BY <2>2, <2>3, <2>4 DEF Bijection, Injection, Surjection, IsInjective
  <2> QED
    BY <2>5 DEF ExistsBijection
<1>7. IsFiniteSet(A) /\ IsFiniteSet(B)
  BY CountType
<1>8. IsFiniteSet(D) /\ Cardinality(D) = Cardinality(B)
  BY <1>6, <1>7, FS_Bijection
<1>9. Cardinality(A \cup D) = Cardinality(A) + Cardinality(D) - Cardinality(A \cap D)
  BY <1>7, <1>8, FS_Union
<1>10. Cardinality(A \cap D) = 0
  BY <1>5, FS_EmptySet
<1>11. Cardinality(A) \in Nat /\ Cardinality(B) \in Nat
  BY <1>7, FS_CardinalityType
<1>12. Cardinality(C) = Cardinality(A) + Cardinality(B)
  <2>1. Cardinality(C) = Cardinality(A) + Cardinality(B) - 0
    BY <1>4, <1>8, <1>9, <1>10, Zenon
  <2> HIDE DEF A, B, C
  <2> QED
    BY <1>11, <2>1
<1> QED
  BY <1>12 DEF Count

LEMMA CountTail ==
    ASSUME NEW S, NEW s \in Seq(S), s # <<>>, NEW set
    PROVE  /\ Tail(s) \in Seq(S) /\ Head(s) \in S /\ Count(Tail(s), set) \in Nat
           /\ Count(s, set) = (IF Head(s) \in set THEN 1 ELSE 0) + Count(Tail(s), set)
<1>1. /\ Head(s) \in S /\ Tail(s) \in Seq(S) /\ Len(Tail(s)) = Len(s) - 1
      /\ \A i \in 1 .. Len(Tail(s)) : Tail(s)[i] = s[i + 1]
  BY HeadTailProperties
<1> DEFINE h == Append(<<>>, Head(s))
<1>2. <<>> \in Seq(S) /\ Len(<<>>) = 0
  BY EmptySeq
<1>3. /\ h \in Seq(S) /\ Len(h) = 1 /\ h[1] = Head(s)
  <2>1. h \in Seq(S) /\ Len(h) = Len(<<>>) + 1 /\ h[Len(<<>>) + 1] = Head(s)
    BY <1>1, <1>2, AppendProperties
  <2>2. Len(<<>>) + 1 = 1
    BY <1>2
  <2> QED
    BY <2>1, <2>2
<1>4. h \o Tail(s) = s
  <2>1. /\ h \o Tail(s) \in Seq(S) /\ Len(h \o Tail(s)) = Len(h) + Len(Tail(s))
        /\ \A i \in 1 .. Len(h) + Len(Tail(s)) :
              (h \o Tail(s))[i] = IF i <= Len(h) THEN h[i] ELSE Tail(s)[i - Len(h)]
    BY <1>1, <1>3, ConcatProperties
  <2>2. Len(s) \in Nat \ {0} /\ s[1] = Head(s)
    BY EmptySeq
  <2>3. Len(h \o Tail(s)) = Len(s)
    BY <1>1, <1>3, <2>1, <2>2
  <2>4. ASSUME NEW i \in 1 .. Len(s) PROVE (h \o Tail(s))[i] = s[i]
    <3>1. (h \o Tail(s))[i] = IF i <= 1 THEN Head(s) ELSE Tail(s)[i - 1]
      BY <1>1, <1>3, <2>1, <2>2
    <3>2. CASE i = 1
      BY <2>2, <3>1, <3>2
    <3>3. CASE i # 1
      <4>1. i - 1 \in 1 .. Len(Tail(s)) /\ (i - 1) + 1 = i /\ ~(i <= 1)
        BY <1>1, <2>2, <3>3
      <4> QED
        BY <1>1, <3>1, <4>1
    <3> QED
      BY <3>2, <3>3
  <2> QED
    BY <2>1, <2>3, <2>4, SeqEqual
<1>5. Count(h, set) = Count(<<>>, set) + (IF Head(s) \in set THEN 1 ELSE 0)
  BY <1>1, <1>2, CountAppend
<1>6. Count(h \o Tail(s), set) = Count(h, set) + Count(Tail(s), set)
  BY <1>1, <1>3, CountConcat
<1>7. Count(Tail(s), set) \in Nat /\ Count(<<>>, set) = 0
  BY <1>1, CountType, CountEmpty
<1> HIDE DEF h
<1>8. Count(s, set) = (0 + (IF Head(s) \in set THEN 1 ELSE 0)) + Count(Tail(s), set)
  BY <1>4, <1>5, <1>6, <1>7, Zenon
<1>9. Count(s, set) = (IF Head(s) \in set THEN 1 ELSE 0) + Count(Tail(s), set)
  BY <1>7, <1>8
<1> QED
  BY <1>1, <1>7, <1>9

LEMMA CountConstant ==
    ASSUME NEW S, NEW x \in S, NEW n \in Nat, NEW set
    PROVE  /\ [i \in 1 .. n |-> x] \in Seq(S)
           /\ Len([i \in 1 .. n |-> x]) = n
           /\ Count([i \in 1 .. n |-> x], set) = IF x \in set THEN n ELSE 0
<1> DEFINE s == [i \in 1 .. n |-> x]
<1>1. s \in Seq(S) /\ Len(s) = n
  OBVIOUS
<1>2. {i \in DOMAIN s : s[i] \in set} = IF x \in set THEN 1 .. n ELSE {}
  OBVIOUS
<1>3. Cardinality(1 .. n) = n /\ Cardinality({}) = 0
  <2>1. 1 \in Int /\ n \in Int
    OBVIOUS
  <2>2. Cardinality(1 .. n) = IF 1 > n THEN 0 ELSE n - 1 + 1
    BY <2>1, FS_Interval
  <2> QED
    BY <2>2, FS_EmptySet
<1> QED
  BY <1>1, <1>2, <1>3 DEF Count

\* What is inserted into a sequence adds to its count.
Inserted(s, b, t) == SubSeq(s, 1, b) \o t \o SubSeq(s, b + 1, Len(s))

LEMMA CountInserted ==
    ASSUME NEW S, NEW s \in Seq(S), NEW t \in Seq(S), NEW b \in 0 .. Len(s), NEW set
    PROVE  /\ Inserted(s, b, t) \in Seq(S)
           /\ Len(Inserted(s, b, t)) = Len(s) + Len(t)
           /\ Count(Inserted(s, b, t), set) = Count(s, set) + Count(t, set)
<1> DEFINE u == SubSeq(s, 1, b)
           v == SubSeq(s, b + 1, Len(s))
<1>0. Inserted(s, b, t) = (u \o t) \o v
  BY DEF Inserted
<1>1. Len(s) \in Nat /\ b \in Nat /\ b <= Len(s)
  BY LenProperties
<1>2. \A i \in 1 .. Len(s) : s[i] \in S
  BY ElementOfSeq
<1>3. u \in Seq(S) /\ v \in Seq(S)
  <2>1. (\A i \in 1 .. b : s[i] \in S) /\ (\A i \in b + 1 .. Len(s) : s[i] \in S)
    BY <1>1, <1>2
  <2>2. 1 \in Int /\ b \in Int /\ b + 1 \in Int /\ Len(s) \in Int
    BY <1>1
  <2> QED
    BY <2>1, <2>2, SubSeqProperties
<1>4. u \o v = s
  <2>1. /\ 1 \in 1 .. Len(s) + 1 /\ b \in (1 - 1) .. Len(s) /\ Len(s) \in b .. Len(s)
    BY <1>1
  <2>2. u \o v = SubSeq(s, 1, Len(s))
    BY <2>1, ConcatAdjacentSubSeq
  <2> QED
    BY <2>2, SubSeqFull
<1> HIDE DEF u, v
<1>5. /\ u \o t \in Seq(S) /\ (u \o t) \o v \in Seq(S)
      /\ Len(u \o t) = Len(u) + Len(t) /\ Len((u \o t) \o v) = Len(u \o t) + Len(v)
      /\ Len(u \o v) = Len(u) + Len(v)
  BY <1>3, ConcatProperties
<1>6. /\ Count(u \o t, set) = Count(u, set) + Count(t, set)
      /\ Count((u \o t) \o v, set) = Count(u \o t, set) + Count(v, set)
      /\ Count(u \o v, set) = Count(u, set) + Count(v, set)
  BY <1>3, <1>5, CountConcat
<1>7. /\ Count(u, set) \in Nat /\ Count(v, set) \in Nat /\ Count(t, set) \in Nat
      /\ Len(u) \in Nat /\ Len(v) \in Nat /\ Len(t) \in Nat
  BY <1>3, CountType, LenProperties
<1>8. /\ Len((u \o t) \o v) = Len(s) + Len(t)
      /\ Count((u \o t) \o v, set) = Count(s, set) + Count(t, set)
  BY <1>4, <1>5, <1>6, <1>7
<1> QED
  BY <1>0, <1>5, <1>8

-----------------------------------------------------------------------------
(* The states of the parser *)

Outside == {"stream_start", "document_end", "end"} \cup DocumentStart
ContentStates == {"document_content", "block_node"}
EntryStates == MarkedStates \cup {"indentless_sequence_entry"}
AllStates == Outside \cup ContentStates \cup FirstStates \cup EntryStates
Places == {"enter", "opened", "separated", "directives", "indicated", "node"}
\* The literals are named: the provers do not know that they are strings.
Values == STRING \cup {"", "misread"}
Calls == [at : Places, block : BOOLEAN, indentless : BOOLEAN,
          anchor : Values, tag : Values, version : BOOLEAN]
TokenTypes ==
    {"stream_start", "stream_end", "version_directive", "tag_directive",
     "document_start", "document_end", "flow_sequence_start", "flow_sequence_end",
     "flow_mapping_start", "flow_mapping_end", "flow_entry", "block_sequence_start",
     "block_mapping_start", "block_end", "block_entry", "key", "value", "alias",
     "anchor", "tag", "scalar"}
Tokens == [type : TokenTypes, val : Values]

\* The stacks of the parser: the end of the document below, collections above.
ParserShape ==
    /\ state \in AllStates
    /\ states \in Seq(AllStates)
    /\ call \in Calls
    /\ states = <<>> <=> state \in Outside
    /\ states # <<>> => states[1] = "document_end"
    /\ \A i \in 2 .. Len(states) : states[i] \in EntryStates
    /\ call.at = "node" => state \notin Outside
    /\ state \in FirstStates => call.at \in {"enter", "opened", "indicated", "node"}

\* The token that opens a collection is still there for OpenCollection.
StartToken == [s \in FirstStates |->
    CASE s = "flow_sequence_first_entry"  -> "flow_sequence_start"
      [] s = "flow_mapping_first_key"     -> "flow_mapping_start"
      [] s = "block_sequence_first_entry" -> "block_sequence_start"
      [] s = "block_mapping_first_key"    -> "block_mapping_start"]
FirstShown ==
    state \in FirstStates /\ call.at = "enter" =>
        tokenAvailable /\ Peek.type = StartToken[state]

\* What the current state adds to the collections on the stack.
Weight(st, at, set) ==
    IF /\ at # "node"
       /\ \/ st \in set
          \/ /\ st \in FirstStates /\ at \in {"opened", "indicated"}
             /\ \/ st \in {"block_sequence_first_entry", "block_mapping_first_key"}
                \/ set = MarkedStates
    THEN 1 ELSE 0

CountedSets == {MarkedStates, BlockStates}

LEMMA OpenValue ==
    ASSUME ParserShape, NEW set \in CountedSets
    PROVE  /\ Count(states, set) \in Nat
           /\ OpenIn(set) = Count(states, set) + Weight(state, call.at, set)
<1>1. /\ states \in Seq(AllStates) /\ state \in AllStates
      /\ state \in FirstStates => state \notin set
  BY DEF ParserShape, CountedSets, FirstStates, MarkedStates, BlockStates
<1>2. Count(states, set) \in Nat
  BY <1>1, CountType
<1>3. Count(Append(states, state), set) = Count(states, set) + (IF state \in set THEN 1 ELSE 0)
  BY <1>1, CountAppend
<1> DEFINE extra == IF state \in FirstStates /\ call.at \in {"opened", "indicated"}
                       /\ (state \in {"block_sequence_first_entry", "block_mapping_first_key"}
                           \/ set = MarkedStates) THEN 1 ELSE 0
<1>4. OpenIn(set) = Count(Pending, set) + extra
  BY DEF OpenIn, Count
<1>5. CASE call.at = "node"
  <2>1. Pending = states /\ extra = 0 /\ Weight(state, call.at, set) = 0
    BY <1>5 DEF Pending, Weight
  <2> QED
    BY <1>2, <1>4, <2>1
<1>6. CASE call.at # "node"
  <2>1. Pending = Append(states, state)
    BY <1>6 DEF Pending
  <2>2. Weight(state, call.at, set) = (IF state \in set THEN 1 ELSE 0) + extra
    BY <1>1, <1>6 DEF Weight
  <2>3. Weight(state, call.at, set) \in Nat /\ extra \in Nat
    BY DEF Weight
  <2> HIDE DEF extra
  <2> QED
    BY <1>2, <1>3, <1>4, <2>1, <2>2, <2>3
<1> QED
  BY <1>2, <1>5, <1>6

LEMMA OpenValueNext ==
    ASSUME ParserShape', NEW set \in CountedSets
    PROVE  /\ Count(states', set) \in Nat
           /\ OpenIn(set)' = Count(states', set) + Weight(state', call'.at, set)
<1>1. /\ states' \in Seq(AllStates) /\ state' \in AllStates
      /\ state' \in FirstStates => state' \notin set
  BY DEF ParserShape, CountedSets, FirstStates, MarkedStates, BlockStates
<1>2. Count(states', set) \in Nat
  BY <1>1, CountType
<1>3. Count(Append(states', state'), set)
        = Count(states', set) + (IF state' \in set THEN 1 ELSE 0)
  BY <1>1, CountAppend
<1> DEFINE extra == IF state' \in FirstStates /\ call'.at \in {"opened", "indicated"}
                       /\ (state' \in {"block_sequence_first_entry", "block_mapping_first_key"}
                           \/ set = MarkedStates) THEN 1 ELSE 0
<1>4. OpenIn(set)' = Count(Pending', set) + extra
  BY DEF OpenIn, Count
<1>5. CASE call'.at = "node"
  <2>1. Pending' = states' /\ extra = 0 /\ Weight(state', call'.at, set) = 0
    BY <1>5 DEF Pending, Weight
  <2> QED
    BY <1>2, <1>4, <2>1
<1>6. CASE call'.at # "node"
  <2>1. Pending' = Append(states', state')
    BY <1>6 DEF Pending
  <2>2. Weight(state', call'.at, set) = (IF state' \in set THEN 1 ELSE 0) + extra
    BY <1>1, <1>6 DEF Weight
  <2>3. Weight(state', call'.at, set) \in Nat /\ extra \in Nat
    BY DEF Weight
  <2> HIDE DEF extra
  <2> QED
    BY <1>2, <1>3, <1>4, <2>1, <2>2, <2>3
<1> QED
  BY <1>2, <1>5, <1>6

\* What a step makes of the collections that are open: those of the current
\* state go, added(set) come.
Change(added) ==
    \A set \in CountedSets : OpenIn(set)' = OpenIn(set) - Weight(state, call.at, set) + added[set]
Added(s) == [set \in CountedSets |-> IF s \in set THEN 1 ELSE 0]

LEMMA CallFields ==
    /\ Enter \in Calls /\ Enter.at = "enter"
    /\ Node(TRUE, FALSE) \in Calls /\ Node(TRUE, FALSE).at = "node"
    /\ Node(TRUE, TRUE) \in Calls /\ Node(TRUE, TRUE).at = "node"
    /\ Node(FALSE, FALSE) \in Calls /\ Node(FALSE, FALSE).at = "node"
<1>1. Enter \in Calls /\ Enter.at = "enter"
  BY DEF Enter, Calls, Places, Values
<1>2. Node(TRUE, FALSE) \in Calls /\ Node(TRUE, FALSE).at = "node"
  BY DEF Node, Enter, Calls, Places, Values
<1>3. Node(TRUE, TRUE) \in Calls /\ Node(TRUE, TRUE).at = "node"
  BY DEF Node, Enter, Calls, Places, Values
<1>4. Node(FALSE, FALSE) \in Calls /\ Node(FALSE, FALSE).at = "node"
  BY DEF Node, Enter, Calls, Places, Values
<1> QED
  BY <1>1, <1>2, <1>3, <1>4

\* A call returns and the parser goes on in state s, with the same stack.
LEMMA DeliverStep ==
    ASSUME ParserShape, NEW s \in AllStates, state' = s, states' = states,
           call' = Enter, states = <<>> <=> s \in Outside
    PROVE  /\ ParserShape'
           /\ s \notin FirstStates => FirstShown'
           /\ Change(Added(s))
<1>1. state' = s /\ call' \in Calls /\ call'.at = "enter"
  BY CallFields
<1>2. ParserShape'
  BY <1>1 DEF ParserShape
<1>3. s \notin FirstStates => FirstShown'
  BY <1>1 DEF FirstShown
<1>4. ASSUME NEW set \in CountedSets
      PROVE  OpenIn(set)' = OpenIn(set) - Weight(state, call.at, set) + Added(s)[set]
  <2>1. Weight(state', call'.at, set) = Added(s)[set]
    BY <1>1 DEF Weight, Added
  <2>2. Weight(state, call.at, set) \in Nat /\ Added(s)[set] \in Nat
    BY DEF Weight, Added
  <2> QED
    BY <1>2, <2>1, <2>2, OpenValue, OpenValueNext
<1> QED
  BY <1>2, <1>3, <1>4 DEF Change

\* The state on top of the stack follows.
LEMMA PopStep ==
    ASSUME ParserShape, state \notin Outside,
           state' = Last(states), states' = Front(states), call' = Enter
    PROVE  /\ ParserShape'
           /\ FirstShown'
           /\ Change([set \in CountedSets |-> 0])
<1>1. states # <<>> /\ states \in Seq(AllStates) /\ states[1] = "document_end"
      /\ \A i \in 2 .. Len(states) : states[i] \in EntryStates
  BY DEF ParserShape
<1>2. /\ state' = Last(states) /\ states' = Front(states)
      /\ call' \in Calls /\ call'.at = "enter"
  BY CallFields
<1>3. /\ Len(states) \in Nat \ {0}
      /\ states' \in Seq(AllStates) /\ Len(states') = Len(states) - 1
      /\ \A i \in 1 .. Len(states) - 1 : states'[i] = states[i]
  BY <1>1, <1>2, FrontLast
<1>4. /\ state' \in AllStates /\ state' \notin FirstStates
      /\ states' = <<>> <=> state' \in Outside
  <2>1. CASE Len(states) = 1
    <3>1. state' = "document_end"
      BY <1>1, <1>2, <2>1 DEF Last
    <3>2. states' = <<>>
      <4>1. Len(states') = 0
        BY <1>3, <2>1
      <4> QED
        BY <1>3, <4>1, EmptySeq
    <3> QED
      BY <3>1, <3>2 DEF AllStates, Outside, FirstStates
  <2>2. CASE Len(states) # 1
    <3>1. Len(states) \in 2 .. Len(states) /\ Len(states') # 0
      BY <1>3, <2>2
    <3>2. state' \in EntryStates
      BY <1>1, <1>2, <3>1 DEF Last
    <3>3. states' # <<>>
      BY <3>1, EmptySeq
    <3>4. state' \notin Outside /\ state' \notin FirstStates /\ state' \in AllStates
      BY <3>2 DEF EntryStates, MarkedStates, Outside, DocumentStart, FirstStates, AllStates
    <3> QED
      BY <3>3, <3>4
  <2> QED
    BY <2>1, <2>2
<1>5. states' # <<>> => states'[1] = "document_end"
  <2> HAVE states' # <<>>
  <2>1. Len(states') \in Nat \ {0}
    BY <1>3, EmptySeq
  <2>2. 1 \in 1 .. Len(states) - 1
    BY <1>3, <2>1
  <2> QED
    BY <1>1, <1>3, <2>2
<1>6. \A i \in 2 .. Len(states') : states'[i] \in EntryStates
  BY <1>1, <1>3
<1>7. ParserShape'
  BY <1>2, <1>3, <1>4, <1>5, <1>6 DEF ParserShape
<1>8. FirstShown'
  BY <1>4 DEF FirstShown
<1>9. ASSUME NEW set \in CountedSets
      PROVE  OpenIn(set)' = OpenIn(set) - Weight(state, call.at, set) + 0
  <2>1. Weight(state', call'.at, set) = IF Last(states) \in set THEN 1 ELSE 0
    BY <1>2, <1>4 DEF Weight
  <2>2. Count(states, set) = Count(states', set) + (IF Last(states) \in set THEN 1 ELSE 0)
    BY <1>1, <1>2, CountPop
  <2>3. /\ OpenIn(set)' = Count(states, set)
        /\ OpenIn(set) = Count(states, set) + Weight(state, call.at, set)
        /\ Count(states, set) \in Nat
    BY <1>7, <2>1, <2>2, OpenValue, OpenValueNext
  <2>4. Weight(state, call.at, set) \in Nat
    BY DEF Weight
  <2> QED
    BY <2>3, <2>4
<1> QED
  BY <1>7, <1>8, <1>9 DEF Change

\* A node begins and the state "next" will follow it.
LEMMA NodeStep ==
    ASSUME ParserShape, state \notin Outside, NEW next \in EntryStates,
           state' = state, states' = Append(states, next),
           call' \in Calls, call'.at = "node"
    PROVE  /\ ParserShape'
           /\ FirstShown'
           /\ Change(Added(next))
<1>1. /\ states # <<>> /\ states \in Seq(AllStates) /\ states[1] = "document_end"
      /\ \A i \in 2 .. Len(states) : states[i] \in EntryStates
  BY DEF ParserShape
<1>2. next \in AllStates
  BY DEF AllStates
<1>3. /\ Len(states) \in Nat \ {0}
      /\ states' \in Seq(AllStates) /\ states' # <<>> /\ Len(states') = Len(states) + 1
      /\ \A i \in 1 .. Len(states) : states'[i] = states[i]
      /\ states'[Len(states) + 1] = next
  BY <1>1, <1>2, EmptySeq, AppendProperties
<1>4. states'[1] = "document_end" /\ \A i \in 2 .. Len(states') : states'[i] \in EntryStates
  BY <1>1, <1>3
<1>5. ParserShape'
  BY <1>1, <1>3, <1>4 DEF ParserShape
<1>6. FirstShown'
  BY DEF FirstShown
<1>7. ASSUME NEW set \in CountedSets
      PROVE  OpenIn(set)' = OpenIn(set) - Weight(state, call.at, set) + Added(next)[set]
  <2>1. Weight(state', call'.at, set) = 0
    BY DEF Weight
  <2>2. Count(states', set) = Count(states, set) + Added(next)[set]
    BY <1>1, <1>2, CountAppend DEF Added
  <2>3. Weight(state, call.at, set) \in Nat /\ Added(next)[set] \in Nat
    BY DEF Weight, Added
  <2>4. /\ OpenIn(set)' = Count(states', set) + Weight(state', call'.at, set)
        /\ OpenIn(set) = Count(states, set) + Weight(state, call.at, set)
        /\ Count(states, set) \in Nat
    BY <1>5, OpenValue, OpenValueNext
  <2> QED
    BY <2>1, <2>2, <2>3, <2>4
<1> QED
  BY <1>5, <1>6, <1>7 DEF Change

\* A step within a call of the same state.
LEMMA WithinStep ==
    ASSUME ParserShape, state' = state, states' = states,
           call' \in Calls, call'.at # "enter",
           call'.at = "node" => state \notin Outside,
           state \in FirstStates => call'.at \in {"opened", "indicated", "node"}
    PROVE  /\ ParserShape'
           /\ FirstShown'
           /\ Change([set \in CountedSets |-> Weight(state, call'.at, set)])
<1>1. ParserShape'
  BY DEF ParserShape
<1>2. FirstShown'
  BY DEF FirstShown
<1>3. ASSUME NEW set \in CountedSets
      PROVE  OpenIn(set)' = OpenIn(set) - Weight(state, call.at, set)
                            + Weight(state, call'.at, set)
  <2>1. /\ OpenIn(set)' = Count(states, set) + Weight(state, call'.at, set)
        /\ OpenIn(set) = Count(states, set) + Weight(state, call.at, set)
        /\ Count(states, set) \in Nat
    BY <1>1, OpenValue, OpenValueNext
  <2>2. Weight(state, call.at, set) \in Nat /\ Weight(state, call'.at, set) \in Nat
    BY DEF Weight
  <2> QED
    BY <2>1, <2>2
<1> QED
  BY <1>1, <1>2, <1>3 DEF Change

-----------------------------------------------------------------------------
(* The steps of the parser *)

BlockStarts == {"block_sequence_start", "block_mapping_start"}

\* A step opens a collection, closes one or neither, and takes the token for
\* it from the queue.
Steady ==
    /\ \A set \in CountedSets : OpenIn(set)' = OpenIn(set)
    /\ marks' = marks
    /\ \/ tokens' = tokens
       \/ tokens' = Tail(tokens) /\ Peek.type \notin BlockStarts \cup {"block_end"}
Opening ==
    /\ OpenIn(MarkedStates)' = OpenIn(MarkedStates) + 1
    /\ marks' = marks + 1
    /\ OpenIn(BlockStates)' = OpenIn(BlockStates) + (IF Peek.type \in BlockStarts THEN 1 ELSE 0)
    /\ tokens' = Tail(tokens) /\ Peek.type # "block_end"
Closing ==
    /\ OpenIn(MarkedStates)' = OpenIn(MarkedStates) - 1
    /\ marks' = marks - 1
    /\ OpenIn(BlockStates)' = OpenIn(BlockStates) - (IF Peek.type = "block_end" THEN 1 ELSE 0)
    /\ tokens' = Tail(tokens) /\ Peek.type \notin BlockStarts

\* What has to be shown of a step, and from what.
StepsWell == ParserShape' /\ FirstShown' /\ (Steady \/ Opening \/ Closing)
MayStep == ParserShape /\ FirstShown /\ tokenAvailable /\ Peek \in Tokens

LEMMA SteadyFrom ==
    ASSUME ParserShape, NEW added, Change(added),
           \A set \in CountedSets : added[set] = Weight(state, call.at, set),
           marks' = marks,
           \/ tokens' = tokens
           \/ tokens' = Tail(tokens) /\ Peek.type \notin BlockStarts \cup {"block_end"}
    PROVE  Steady
<1>1. ASSUME NEW set \in CountedSets PROVE OpenIn(set)' = OpenIn(set)
  <2>1. OpenIn(set) \in Int /\ Weight(state, call.at, set) \in Int
    BY OpenValue DEF Weight
  <2>2. OpenIn(set)' = OpenIn(set) - Weight(state, call.at, set) + Weight(state, call.at, set)
    BY DEF Change
  <2> QED
    BY <2>1, <2>2
<1> QED
  BY <1>1 DEF Steady

LEMMA UnchangedStep ==
    ASSUME ParserShape, FirstShown, UNCHANGED parserVars,
           \/ UNCHANGED <<tokens, tokenAvailable>>
           \/ /\ state \notin FirstStates /\ tokens' = Tail(tokens)
              /\ Peek.type \notin BlockStarts \cup {"block_end"}
    PROVE  StepsWell
<1>1. ParserShape'
  BY DEF ParserShape, parserVars
<1>2. FirstShown'
  BY DEF FirstShown, parserVars, Peek
<1>3. \A set : OpenIn(set)' = OpenIn(set)
  BY DEF OpenIn, Pending, parserVars
<1> QED
  BY <1>1, <1>2, <1>3 DEF StepsWell, Steady, parserVars

LEMMA ErrorStep ==
    ASSUME ParserShape, FirstShown, ParserError
    PROVE  StepsWell
BY UnchangedStep DEF ParserError

LEMMA CallSteps ==
    ASSUME call \in Calls, NEW p \in Places
    PROVE  /\ [call EXCEPT !.at = p] \in Calls /\ [call EXCEPT !.at = p].at = p
           /\ [call EXCEPT !.at = p, !.version = TRUE] \in Calls
           /\ [call EXCEPT !.at = p, !.version = TRUE].at = p
           /\ \A v \in Values :
                 /\ [call EXCEPT !.anchor = v] \in Calls /\ [call EXCEPT !.anchor = v].at = call.at
                 /\ [call EXCEPT !.tag = v] \in Calls /\ [call EXCEPT !.tag = v].at = call.at
<1>1. [call EXCEPT !.at = p] \in Calls /\ [call EXCEPT !.at = p].at = p
  BY DEF Calls
<1>2. /\ [call EXCEPT !.at = p, !.version = TRUE] \in Calls
      /\ [call EXCEPT !.at = p, !.version = TRUE].at = p
  BY DEF Calls
<1>3. \A v \in Values :
         /\ [call EXCEPT !.anchor = v] \in Calls /\ [call EXCEPT !.anchor = v].at = call.at
         /\ [call EXCEPT !.tag = v] \in Calls /\ [call EXCEPT !.tag = v].at = call.at
  BY DEF Calls
<1> QED
  BY <1>1, <1>2, <1>3

LEMMA StreamSteps ==
    ASSUME MayStep, call.at # "node", ParseStreamStart \/ ParseStreamEnd \/ ParseDocumentEnd
    PROVE  StepsWell
<1>1. ParserShape /\ call.at \in Places
  BY DEF MayStep, ParserShape, Calls
<1>2. PICK s \in Outside : state' = s /\ call' = Enter /\ state \in Outside
  BY DEF ParseStreamStart, ParseStreamEnd, ParseDocumentEnd, Deliver, Outside, DocumentStart
<1>3. /\ states' = states /\ marks' = marks
      /\ \/ tokens' = tokens
         \/ tokens' = Tail(tokens) /\ Peek.type \notin BlockStarts \cup {"block_end"}
  BY DEF ParseStreamStart, ParseStreamEnd, ParseDocumentEnd, Skip, Stay, scannerVars, BlockStarts
<1>4. s \in AllStates /\ s \notin FirstStates
  BY DEF AllStates, Outside, DocumentStart, FirstStates
<1>5. states = <<>>
  BY <1>1, <1>2 DEF ParserShape
<1>6. ParserShape' /\ FirstShown' /\ Change(Added(s))
  BY <1>1, <1>2, <1>3, <1>4, <1>5, DeliverStep
<1>7. ASSUME NEW set \in CountedSets PROVE Added(s)[set] = Weight(state, call.at, set)
  BY <1>2 DEF Added, Weight, CountedSets, MarkedStates, BlockStates, FirstStates, Outside,
              DocumentStart
<1> QED
  BY <1>1, <1>3, <1>6, <1>7, SteadyFrom DEF StepsWell

\* A step within a call that opens nothing.
LEMMA QuietWithin ==
    ASSUME MayStep, state' = state, states' = states, marks' = marks,
           call' \in Calls, call'.at # "enter",
           call'.at = "node" => state \notin Outside,
           state \in FirstStates => call'.at \in {"opened", "indicated", "node"},
           \A set \in CountedSets : Weight(state, call'.at, set) = Weight(state, call.at, set),
           \/ tokens' = tokens
           \/ tokens' = Tail(tokens) /\ Peek.type \notin BlockStarts \cup {"block_end"}
    PROVE  StepsWell
<1> DEFINE added == [set \in CountedSets |-> Weight(state, call'.at, set)]
<1>1. ParserShape
  BY DEF MayStep
<1>2. ParserShape' /\ FirstShown' /\ Change(added)
  BY <1>1, WithinStep
<1>3. \A set \in CountedSets : added[set] = Weight(state, call.at, set)
  OBVIOUS
<1> HIDE DEF added
<1>4. Steady
  BY <1>1, <1>2, <1>3, SteadyFrom
<1> QED
  BY <1>2, <1>4 DEF StepsWell

\* A call that ends what its state adds, whatever follows from the stack.
LEMMA QuietPop ==
    ASSUME MayStep, state \notin Outside, marks' = marks,
           state' = Last(states), states' = Front(states), call' = Enter,
           \A set \in CountedSets : Weight(state, call.at, set) = 0,
           \/ tokens' = tokens
           \/ tokens' = Tail(tokens) /\ Peek.type \notin BlockStarts \cup {"block_end"}
    PROVE  StepsWell
<1> DEFINE added == [set \in CountedSets |-> 0]
<1>1. ParserShape
  BY DEF MayStep
<1>2. ParserShape' /\ FirstShown' /\ Change(added)
  BY <1>1, PopStep
<1>3. \A set \in CountedSets : added[set] = Weight(state, call.at, set)
  OBVIOUS
<1> HIDE DEF added
<1>4. Steady
  BY <1>1, <1>2, <1>3, SteadyFrom
<1> QED
  BY <1>2, <1>4 DEF StepsWell

\* A call that goes on in a state that adds as much.
LEMMA QuietDeliver ==
    ASSUME MayStep, state \notin Outside, marks' = marks,
           NEW s \in AllStates \ (FirstStates \cup Outside),
           state' = s, states' = states, call' = Enter,
           \A set \in CountedSets : Weight(state, call.at, set) = IF s \in set THEN 1 ELSE 0,
           \/ tokens' = tokens
           \/ tokens' = Tail(tokens) /\ Peek.type \notin BlockStarts \cup {"block_end"}
    PROVE  StepsWell
<1>1. ParserShape /\ states # <<>>
  BY DEF MayStep, ParserShape
<1>2. ParserShape' /\ FirstShown' /\ Change(Added(s))
  BY <1>1, DeliverStep
<1>3. \A set \in CountedSets : Added(s)[set] = Weight(state, call.at, set)
  BY DEF Added
<1>4. Steady
  BY <1>1, <1>2, <1>3, SteadyFrom
<1> QED
  BY <1>2, <1>4 DEF StepsWell

\* A node begins, and the state that follows it adds as much.
LEMMA QuietNode ==
    ASSUME MayStep, state \notin Outside, NEW next \in EntryStates, NEW node,
           NodeThen(next, node), node \in Calls, node.at = "node",
           \A set \in CountedSets : Weight(state, call.at, set) = IF next \in set THEN 1 ELSE 0
    PROVE  StepsWell
<1>1. ParserShape
  BY DEF MayStep
<1>2. /\ state' = state /\ states' = Append(states, next) /\ call' = node
      /\ marks' = marks /\ tokens' = tokens
  BY DEF NodeThen, Stay, scannerVars
<1>3. ParserShape' /\ FirstShown' /\ Change(Added(next))
  BY <1>1, <1>2, NodeStep
<1>4. \A set \in CountedSets : Added(next)[set] = Weight(state, call.at, set)
  BY DEF Added
<1>5. Steady
  BY <1>1, <1>2, <1>3, <1>4, SteadyFrom
<1> QED
  BY <1>3, <1>5 DEF StepsWell

\* A document begins: its end goes on the empty stack.
LEMMA BeginDocument ==
    ASSUME MayStep, state \in DocumentStart, states' = Append(states, "document_end"),
           state' \in ContentStates, call' = Enter, marks' = marks,
           \/ tokens' = tokens
           \/ tokens' = Tail(tokens) /\ Peek.type \notin BlockStarts \cup {"block_end"}
    PROVE  StepsWell
<1>1. /\ ParserShape /\ states \in Seq(AllStates) /\ states = <<>>
      /\ state \in Outside /\ call \in Calls
  BY DEF MayStep, ParserShape, Outside
<1>2. "document_end" \in AllStates
  BY DEF AllStates, Outside
<1>3. Len(states) = 0
  BY <1>1, EmptySeq
<1>4. /\ states' \in Seq(AllStates) /\ states' # <<>> /\ Len(states') = 1
      /\ states'[1] = "document_end"
  BY <1>1, <1>2, <1>3, AppendProperties
<1>5. /\ state' \in AllStates /\ state' \notin Outside /\ state' \notin FirstStates
      /\ call' \in Calls /\ call'.at = "enter"
  BY CallFields DEF ContentStates, AllStates, Outside, DocumentStart, FirstStates
<1>6. ParserShape'
  BY <1>4, <1>5 DEF ParserShape
<1>7. FirstShown'
  BY <1>5 DEF FirstShown
<1>8. ASSUME NEW set \in CountedSets PROVE OpenIn(set)' = OpenIn(set)
  <2>1. Weight(state', call'.at, set) = 0 /\ Weight(state, call.at, set) = 0
    BY <1>1 DEF Weight, CountedSets, MarkedStates, BlockStates, ContentStates, FirstStates,
                Outside, DocumentStart
  <2>2. "document_end" \notin set
    BY DEF CountedSets, MarkedStates, BlockStates
  <2> DEFINE last == "document_end"
  <2>3. states \in Seq(AllStates) /\ last \in AllStates /\ last \notin set
    BY <1>1, <1>2, <2>2
  <2>4. states' = Append(states, last)
    OBVIOUS
  <2> HIDE DEF last
  <2>5. Count(Append(states, last), set) = Count(states, set) + (IF last \in set THEN 1 ELSE 0)
    BY <2>3, CountAppend
  <2>6. Count(states', set) = Count(states, set) + 0
    BY <2>3, <2>4, <2>5
  <2> QED
    BY <1>1, <1>6, <2>1, <2>6, OpenValue, OpenValueNext
<1> QED
  BY <1>6, <1>7, <1>8 DEF StepsWell, Steady

LEMMA DocumentSteps ==
    ASSUME MayStep, call.at # "node",
           \/ SkipDocumentEnd \/ ParseImplicitDocument
           \/ ParseDirective \/ ParseExplicitDocument
    PROVE  StepsWell
<1>1. ParserShape /\ FirstShown /\ call \in Calls
  BY DEF MayStep, ParserShape
<1>2. CASE SkipDocumentEnd
  <2>1. /\ UNCHANGED parserVars /\ state \notin FirstStates /\ tokens' = Tail(tokens)
        /\ Peek.type \notin BlockStarts \cup {"block_end"}
    BY <1>2 DEF SkipDocumentEnd, FirstStates, Skip, BlockStarts
  <2> QED
    BY <1>1, <2>1, UnchangedStep
<1>3. CASE ParseImplicitDocument
  <2>1. /\ state \in DocumentStart /\ states' = Append(states, "document_end")
        /\ state' \in ContentStates /\ call' = Enter /\ marks' = marks /\ tokens' = tokens
    BY <1>3 DEF ParseImplicitDocument, Implicit, DocumentStart, ContentStates, Deliver, Stay,
                scannerVars
  <2> QED
    BY <2>1, BeginDocument
<1>4. CASE ParseExplicitDocument
  <2>1. CASE ParserError
    BY <1>1, <2>1, ErrorStep
  <2>2. CASE ~ParserError
    <3>1. /\ state \in DocumentStart /\ states' = Append(states, "document_end")
          /\ state' \in ContentStates /\ call' = Enter /\ marks' = marks
          /\ tokens' = Tail(tokens) /\ Peek.type \notin BlockStarts \cup {"block_end"}
      BY <1>4, <2>2 DEF ParseExplicitDocument, DocumentStart, ContentStates, Deliver, Skip,
                        BlockStarts
    <3> QED
      BY <3>1, BeginDocument
  <2> QED
    BY <2>1, <2>2
<1>5. CASE ParseDirective
  <2>1. CASE ParserError
    BY <1>1, <2>1, ErrorStep
  <2>2. CASE ~ParserError
    <3>1. /\ state \in DocumentStart /\ state' = state /\ states' = states
          /\ marks' = marks /\ tokens' = Tail(tokens)
          /\ Peek.type \notin BlockStarts \cup {"block_end"}
          /\ \/ call' = [call EXCEPT !.at = "directives"]
             \/ call' = [call EXCEPT !.at = "directives", !.version = TRUE]
      BY <1>5, <2>2 DEF ParseDirective, Skip, BlockStarts, Directives
    <3>2. call' \in Calls /\ call'.at = "directives"
      <4>1. "directives" \in Places
        BY DEF Places
      <4> QED
        BY <1>1, <3>1, <4>1, CallSteps
    <3>3. state \notin FirstStates
      BY <3>1 DEF DocumentStart, FirstStates
    <3>4. \A set \in CountedSets : Weight(state, call'.at, set) = Weight(state, call.at, set)
      BY <3>1 DEF Weight, CountedSets, MarkedStates, BlockStates, DocumentStart, FirstStates
    <3> QED
      BY <3>1, <3>2, <3>3, <3>4, QuietWithin
  <2> QED
    BY <2>1, <2>2
<1> QED
  BY <1>2, <1>3, <1>4, <1>5

LEMMA ContentStep ==
    ASSUME MayStep, call.at # "node", ParseDocumentContent
    PROVE  StepsWell
<1>1. /\ ParserShape /\ state \notin Outside /\ state \notin FirstStates
      /\ \A set \in CountedSets : \A at : Weight(state, at, set) = 0
  BY DEF MayStep, ParseDocumentContent, Weight, CountedSets, MarkedStates, BlockStates,
         Outside, DocumentStart, FirstStates
<1>2. CASE PopTo(EmptyScalar) /\ Stay /\ UNCHANGED <<marks, handles>>
  <2>1. /\ state' = Last(states) /\ states' = Front(states) /\ call' = Enter
        /\ marks' = marks /\ tokens' = tokens
    BY <1>2 DEF PopTo, Deliver, Stay, scannerVars
  <2> QED
    BY <1>1, <2>1, QuietPop
<1>3. CASE call' = Node(TRUE, FALSE) /\ Stay /\ UNCHANGED <<state, states, marks, handles, event>>
  <2>1. /\ state' = state /\ states' = states /\ marks' = marks /\ tokens' = tokens
        /\ call' \in Calls /\ call'.at = "node"
    BY <1>3, CallFields DEF Stay, scannerVars
  <2> QED
    BY <1>1, <2>1, QuietWithin
<1> QED
  BY <1>2, <1>3 DEF ParseDocumentContent

\* The collection is opened by the call that comes next.
LEMMA StartOfCollection ==
    ASSUME MayStep, call.at = "node", MayStart(Peek.type), Stay,
           state' = CollectionStart[Peek.type][2], states' = states, call' = Enter,
           marks' = marks
    PROVE  StepsWell
<1> DEFINE s == CollectionStart[Peek.type][2]
<1>1. ParserShape /\ tokenAvailable /\ state \notin Outside /\ states # <<>>
  BY DEF MayStep, ParserShape
<1>2. s \in FirstStates /\ StartToken[s] = Peek.type
  <2>1. Peek.type \in {"flow_sequence_start", "flow_mapping_start",
                       "block_sequence_start", "block_mapping_start"}
    BY DEF MayStart, CollectionStart
  <2>2. CASE Peek.type = "flow_sequence_start"
    BY <2>2 DEF CollectionStart, StartToken, FirstStates
  <2>3. CASE Peek.type = "flow_mapping_start"
    BY <2>3 DEF CollectionStart, StartToken, FirstStates
  <2>4. CASE Peek.type = "block_sequence_start"
    BY <2>4 DEF CollectionStart, StartToken, FirstStates
  <2>5. CASE Peek.type = "block_mapping_start"
    BY <2>5 DEF CollectionStart, StartToken, FirstStates
  <2> QED
    BY <2>1, <2>2, <2>3, <2>4, <2>5
<1> HIDE DEF s
<1>3. s \in AllStates /\ s \notin Outside /\ \A set \in CountedSets : s \notin set
  BY <1>2 DEF AllStates, Outside, DocumentStart, FirstStates, CountedSets, MarkedStates,
              BlockStates
<1>4. state' = s /\ tokens' = tokens /\ tokenAvailable' = tokenAvailable
  BY DEF s, Stay, scannerVars
<1>5. ParserShape' /\ Change(Added(s))
  BY <1>1, <1>3, <1>4, DeliverStep
<1>6. FirstShown'
  BY <1>1, <1>2, <1>4 DEF FirstShown, Peek
<1>7. \A set \in CountedSets : Added(s)[set] = Weight(state, call.at, set)
  BY <1>3 DEF Added, Weight
<1>8. Steady
  BY <1>1, <1>4, <1>5, <1>7, SteadyFrom
<1> QED
  BY <1>5, <1>6, <1>8 DEF StepsWell

LEMMA NodeSteps ==
    ASSUME MayStep, ParseNode
    PROVE  StepsWell
<1>1. /\ ParserShape /\ FirstShown /\ call \in Calls /\ state \notin Outside
      /\ call.at = "node" /\ Peek.val \in Values
      /\ \A set \in CountedSets : Weight(state, call.at, set) = 0
  BY DEF MayStep, ParserShape, ParseNode, Weight, Tokens
<1>2. CASE ParseAlias
  <2>1. /\ state' = Last(states) /\ states' = Front(states) /\ call' = Enter /\ marks' = marks
        /\ tokens' = Tail(tokens) /\ Peek.type \notin BlockStarts \cup {"block_end"}
    BY <1>2 DEF ParseAlias, PopTo, Deliver, Skip, BlockStarts
  <2> QED
    BY <1>1, <2>1, QuietPop
<1>3. CASE ParseProperty
  <2>1. /\ state' = state /\ states' = states /\ marks' = marks
        /\ tokens' = Tail(tokens) /\ Peek.type \notin BlockStarts \cup {"block_end"}
        /\ \/ call' = [call EXCEPT !.anchor = Peek.val]
           \/ call' = [call EXCEPT !.tag = Peek.val]
    BY <1>3 DEF ParseProperty, Skip, BlockStarts
  <2>2. "node" \in Places
    BY DEF Places
  <2>3. call' \in Calls /\ call'.at = "node"
    BY <1>1, <2>1, <2>2, CallSteps
  <2> QED
    BY <1>1, <2>1, <2>3, QuietWithin
<1>4. CASE ParseContent
  <2>1. CASE ParserError
    BY <1>1, <2>1, ErrorStep
  <2>2. CASE ~ParserError
    <3>1. /\ marks' = marks
          /\ \/ /\ state' = "indentless_sequence_entry" /\ states' = states /\ call' = Enter
                /\ tokens' = tokens
             \/ /\ state' = Last(states) /\ states' = Front(states) /\ call' = Enter
                /\ \/ tokens' = tokens
                   \/ tokens' = Tail(tokens) /\ Peek.type = "scalar"
             \/ /\ MayStart(Peek.type) /\ Stay /\ states' = states /\ call' = Enter
                /\ state' = CollectionStart[Peek.type][2]
      BY <1>4, <2>2 DEF ParseContent, Deliver, PopTo, Skip, Stay, scannerVars
    <3>2. CASE /\ state' = "indentless_sequence_entry" /\ states' = states /\ call' = Enter
               /\ tokens' = tokens
      <4>1. /\ state' \in AllStates \ (FirstStates \cup Outside)
            /\ \A set \in CountedSets : state' \notin set
        BY <3>2 DEF AllStates, FirstStates, Outside, DocumentStart, EntryStates, CountedSets,
                    MarkedStates, BlockStates
      <4> QED
        BY <1>1, <3>1, <3>2, <4>1, QuietDeliver
    <3>3. CASE /\ state' = Last(states) /\ states' = Front(states) /\ call' = Enter
               /\ \/ tokens' = tokens
                  \/ tokens' = Tail(tokens) /\ Peek.type = "scalar"
      <4>1. Peek.type = "scalar" => Peek.type \notin BlockStarts \cup {"block_end"}
        BY DEF BlockStarts
      <4> QED
        BY <1>1, <3>1, <3>3, <4>1, QuietPop
    <3>4. CASE /\ MayStart(Peek.type) /\ Stay /\ states' = states /\ call' = Enter
               /\ state' = CollectionStart[Peek.type][2]
      BY <1>1, <3>1, <3>4, StartOfCollection
    <3> QED
      BY <3>1, <3>2, <3>3, <3>4
  <2> QED
    BY <2>1, <2>2
<1> QED
  BY <1>2, <1>3, <1>4 DEF ParseNode

LEMMA OpenStep ==
    ASSUME MayStep, OpenCollection
    PROVE  StepsWell
<1>1. /\ ParserShape /\ call \in Calls /\ state \in FirstStates /\ call.at = "enter"
      /\ Peek.type = StartToken[state]
  BY DEF MayStep, ParserShape, FirstShown, OpenCollection
<1>2. /\ state' = state /\ states' = states /\ marks' = marks + 1 /\ tokens' = Tail(tokens)
      /\ call' = [call EXCEPT !.at = "opened"]
  BY DEF OpenCollection, Skip
<1>3. call' \in Calls /\ call'.at = "opened"
  <2>1. "opened" \in Places
    BY DEF Places
  <2> QED
    BY <1>1, <1>2, <2>1, CallSteps
<1> DEFINE added == [set \in CountedSets |-> Weight(state, call'.at, set)]
<1>4. ParserShape' /\ FirstShown' /\ Change(added)
  BY <1>1, <1>2, <1>3, WithinStep
<1>5. /\ \A set \in CountedSets : Weight(state, call.at, set) = 0
      /\ added[MarkedStates] = 1
      /\ added[BlockStates] = IF Peek.type \in BlockStarts THEN 1 ELSE 0
      /\ Peek.type # "block_end"
  <2>1. state \notin MarkedStates /\ state \notin BlockStates /\ BlockStates # MarkedStates
    BY <1>1 DEF FirstStates, MarkedStates, BlockStates
  <2>2. /\ Peek.type # "block_end"
        /\ state \in {"block_sequence_first_entry", "block_mapping_first_key"}
              <=> Peek.type \in BlockStarts
    BY <1>1 DEF FirstStates, StartToken, BlockStarts
  <2>3. added[MarkedStates] = Weight(state, "opened", MarkedStates)
        /\ added[BlockStates] = Weight(state, "opened", BlockStates)
    BY <1>3 DEF CountedSets
  <2> QED
    BY <1>1, <2>1, <2>2, <2>3 DEF Weight, CountedSets
<1> HIDE DEF added
<1>6. OpenIn(MarkedStates) \in Int /\ OpenIn(BlockStates) \in Int
  BY <1>1, OpenValue DEF CountedSets, Weight
<1>7. /\ OpenIn(MarkedStates)' = OpenIn(MarkedStates) - 0 + 1
      /\ OpenIn(BlockStates)' = OpenIn(BlockStates) - 0 + added[BlockStates]
  BY <1>4, <1>5 DEF Change, CountedSets
<1>8. Opening
  BY <1>2, <1>5, <1>6, <1>7 DEF Opening
<1> QED
  BY <1>4, <1>8 DEF StepsWell

Indicators == {"block_sequence", "indentless_sequence", "block_key", "block_value",
               "flow_pair_key", "flow_pair_value", "flow_key", "flow_value"}
AfterStates == [s \in Indicators |->
    CASE s = "block_sequence"      -> "block_sequence_entry"
      [] s = "indentless_sequence" -> "indentless_sequence_entry"
      [] s = "block_key"           -> "block_mapping_value"
      [] s = "block_value"         -> "block_mapping_key"
      [] s = "flow_pair_key"       -> "flow_sequence_entry_mapping_value"
      [] s = "flow_pair_value"     -> "flow_sequence_entry_mapping_end"
      [] s = "flow_key"            -> "flow_mapping_value"
      [] s = "flow_value"          -> "flow_mapping_key"]

LEMMA AfterFields ==
    ASSUME NEW s \in Indicators
    PROVE  /\ AfterIndicator[s].next = AfterStates[s]
           /\ AfterStates[s] \in EntryStates
           /\ AfterStates[s] \in AllStates \ (FirstStates \cup Outside)
           /\ AfterIndicator[s].node \in Calls /\ AfterIndicator[s].node.at = "node"
<1> DEFINE facts(f) == /\ f.next = AfterStates[s]
                       /\ f.node \in {Node(TRUE, FALSE), Node(TRUE, TRUE), Node(FALSE, FALSE)}
<1>1. facts(AfterIndicator[s])
  <2>1. CASE s = "block_sequence"
    BY <2>1 DEF AfterIndicator, AfterStates, Indicators
  <2>2. CASE s = "indentless_sequence"
    BY <2>2 DEF AfterIndicator, AfterStates, Indicators
  <2>3. CASE s = "block_key"
    BY <2>3 DEF AfterIndicator, AfterStates, Indicators
  <2>4. CASE s = "block_value"
    BY <2>4 DEF AfterIndicator, AfterStates, Indicators
  <2>5. CASE s = "flow_pair_key"
    BY <2>5 DEF AfterIndicator, AfterStates, Indicators
  <2>6. CASE s = "flow_pair_value"
    BY <2>6 DEF AfterIndicator, AfterStates, Indicators
  <2>7. CASE s = "flow_key"
    BY <2>7 DEF AfterIndicator, AfterStates, Indicators
  <2>8. CASE s = "flow_value"
    BY <2>8 DEF AfterIndicator, AfterStates, Indicators
  <2> QED
    BY <2>1, <2>2, <2>3, <2>4, <2>5, <2>6, <2>7, <2>8 DEF Indicators
<1>2. AfterStates[s] \in EntryStates
  BY DEF AfterStates, Indicators, EntryStates, MarkedStates
<1>3. \A e \in EntryStates : e \in AllStates \ (FirstStates \cup Outside)
  BY DEF AllStates, FirstStates, Outside, DocumentStart, EntryStates, MarkedStates
<1> QED
  BY <1>1, <1>2, <1>3, CallFields

\* What follows an indicator: the state after it adds what the current one does.
LEMMA NodeOrEmptyStep ==
    ASSUME MayStep, state \notin Outside, NEW s \in Indicators, NodeOrEmpty(s),
           \A set \in CountedSets :
              Weight(state, call.at, set) = IF AfterStates[s] \in set THEN 1 ELSE 0
    PROVE  StepsWell
<1>1. CASE NodeThen(AfterIndicator[s].next, AfterIndicator[s].node)
  BY <1>1, AfterFields, QuietNode
<1>2. CASE EmptyThen(AfterIndicator[s].next) /\ Stay
  <2>1. /\ state' = AfterStates[s] /\ states' = states /\ call' = Enter
        /\ marks' = marks /\ tokens' = tokens
    BY <1>2, AfterFields DEF EmptyThen, Deliver, Stay, scannerVars
  <2> QED
    BY <2>1, AfterFields, QuietDeliver
<1> QED
  BY <1>1, <1>2 DEF NodeOrEmpty

LEMMA IndicatorStep ==
    ASSUME MayStep, state \notin Outside, SkipIndicator,
           Peek.type \notin BlockStarts \cup {"block_end"},
           \A set \in CountedSets :
              Weight(state, call.at, set) = Weight(state, "indicated", set)
    PROVE  StepsWell
<1>1. /\ state' = state /\ states' = states /\ marks' = marks /\ tokens' = Tail(tokens)
      /\ call' = [call EXCEPT !.at = "indicated"]
  BY DEF SkipIndicator, Skip
<1>2. call' \in Calls /\ call'.at = "indicated"
  <2>1. "indicated" \in Places /\ call \in Calls
    BY DEF Places, MayStep, ParserShape
  <2> QED
    BY <1>1, <2>1, CallSteps
<1> QED
  BY <1>1, <1>2, QuietWithin

LEMMA EndStep ==
    ASSUME MayStep, state \notin Outside, NEW type, EndCollection(type),
           Peek.type \notin BlockStarts, Weight(state, call.at, MarkedStates) = 1,
           Weight(state, call.at, BlockStates) = IF Peek.type = "block_end" THEN 1 ELSE 0
    PROVE  StepsWell
<1>1. /\ state' = Last(states) /\ states' = Front(states) /\ call' = Enter
      /\ marks' = marks - 1 /\ tokens' = Tail(tokens)
  BY DEF EndCollection, PopTo, Deliver, Skip
<1> DEFINE added == [set \in CountedSets |-> 0]
<1>2. ParserShape
  BY DEF MayStep
<1>3. ParserShape' /\ FirstShown' /\ Change(added)
  BY <1>1, <1>2, PopStep
<1>4. OpenIn(MarkedStates) \in Int /\ OpenIn(BlockStates) \in Int
  BY <1>2, OpenValue DEF CountedSets, Weight
<1>5. /\ OpenIn(MarkedStates)' = OpenIn(MarkedStates) - Weight(state, call.at, MarkedStates) + 0
      /\ OpenIn(BlockStates)' = OpenIn(BlockStates) - Weight(state, call.at, BlockStates) + 0
  BY <1>3 DEF Change, CountedSets
<1>6. Closing
  BY <1>1, <1>4, <1>5 DEF Closing
<1> QED
  BY <1>3, <1>6 DEF StepsWell

LEMMA BlockEntrySteps ==
    ASSUME MayStep, ParseBlockSequenceEntry \/ ParseBlockMappingKey
    PROVE  StepsWell
<1>1. PICK first, entry, indicator, after, end :
        /\ BlockEntry(first, entry, indicator, after, end)
        /\ \/ /\ first = "block_sequence_first_entry" /\ entry = "block_sequence_entry"
              /\ indicator = "block_entry" /\ after = "block_sequence"
           \/ /\ first = "block_mapping_first_key" /\ entry = "block_mapping_key"
              /\ indicator = "key" /\ after = "block_key"
  BY DEF ParseBlockSequenceEntry, ParseBlockMappingKey
<1>2. /\ \/ state = first /\ call.at \in {"opened", "indicated"}
         \/ state = entry
      /\ \/ call.at = "indicated" /\ NodeOrEmpty(after)
         \/ /\ call.at \in {"enter", "opened"}
            /\ \/ Peek.type = indicator /\ SkipIndicator
               \/ Peek.type = "block_end" /\ EndCollection(end)
               \/ ParserError
  BY <1>1 DEF BlockEntry
<1>3. /\ ParserShape /\ FirstShown /\ state \notin Outside /\ after \in Indicators
      /\ Peek.type = indicator => Peek.type \notin BlockStarts \cup {"block_end"}
      /\ \A set \in CountedSets :
            /\ Weight(state, call.at, set) = 1
            /\ Weight(state, "indicated", set) = 1
            /\ AfterStates[after] \in set
  BY <1>1, <1>2 DEF MayStep, Outside, DocumentStart, Indicators, BlockStarts, CountedSets,
                    MarkedStates, BlockStates, FirstStates, Weight, AfterStates
<1>4. CASE NodeOrEmpty(after)
  BY <1>3, <1>4, NodeOrEmptyStep
<1>5. CASE Peek.type = indicator /\ SkipIndicator
  BY <1>3, <1>5, IndicatorStep
<1>6. CASE Peek.type = "block_end" /\ EndCollection(end)
  <2>1. Peek.type \notin BlockStarts
    BY <1>6 DEF BlockStarts
  <2>2. MarkedStates \in CountedSets /\ BlockStates \in CountedSets
    BY DEF CountedSets
  <2> QED
    BY <1>3, <1>6, <2>1, <2>2, EndStep
<1>7. CASE ParserError
  BY <1>3, <1>7, ErrorStep
<1> QED
  BY <1>2, <1>4, <1>5, <1>6, <1>7

LEMMA IndentlessStep ==
    ASSUME MayStep, call.at # "node", ParseIndentlessSequenceEntry
    PROVE  StepsWell
<1>1. /\ state \notin Outside /\ state = "indentless_sequence_entry"
      /\ \A set \in CountedSets :
            /\ \A at : Weight(state, at, set) = 0
            /\ AfterStates["indentless_sequence"] \notin set
  BY DEF ParseIndentlessSequenceEntry, Outside, DocumentStart, Weight, CountedSets,
         MarkedStates, BlockStates, FirstStates, AfterStates, Indicators
<1>2. CASE NodeOrEmpty("indentless_sequence")
  <2>1. "indentless_sequence" \in Indicators
    BY DEF Indicators
  <2> QED
    BY <1>1, <1>2, <2>1, NodeOrEmptyStep
<1>3. CASE Peek.type = "block_entry" /\ SkipIndicator
  <2>1. Peek.type \notin BlockStarts \cup {"block_end"}
    BY <1>3 DEF BlockStarts
  <2> QED
    BY <1>1, <1>3, <2>1, IndicatorStep
<1>4. CASE PopTo(Event("sequence_end", "")) /\ Stay /\ UNCHANGED <<marks, handles>>
  <2>1. /\ state' = Last(states) /\ states' = Front(states) /\ call' = Enter
        /\ marks' = marks /\ tokens' = tokens
    BY <1>4 DEF PopTo, Deliver, Stay, scannerVars
  <2> QED
    BY <1>1, <2>1, QuietPop
<1> QED
  BY <1>2, <1>3, <1>4 DEF ParseIndentlessSequenceEntry

LEMMA ValueSteps ==
    ASSUME MayStep, call.at # "node",
           ParseBlockMappingValue \/ ParseFlowMappingValue \/ ParseFlowPairValue
    PROVE  StepsWell
<1>1. PICK s, after :
        /\ ParseValue(s, after)
        /\ \/ s = "block_mapping_value" /\ after = "block_value"
           \/ s = "flow_mapping_value" /\ after = "flow_value"
           \/ s = "flow_sequence_entry_mapping_value" /\ after = "flow_pair_value"
  BY DEF ParseBlockMappingValue, ParseFlowMappingValue, ParseFlowPairValue
<1>2. /\ state = s
      /\ \/ NodeOrEmpty(after)
         \/ Peek.type = "value" /\ SkipIndicator
         \/ EmptyThen(AfterIndicator[after].next) /\ Stay
  BY <1>1 DEF ParseValue
<1>3. /\ state \notin Outside /\ after \in Indicators
      /\ \A set \in CountedSets :
            /\ Weight(state, call.at, set) = IF AfterStates[after] \in set THEN 1 ELSE 0
            /\ Weight(state, call.at, set) = Weight(state, "indicated", set)
  BY <1>1, <1>2 DEF Outside, DocumentStart, Indicators, CountedSets, MarkedStates, BlockStates,
                    FirstStates, Weight, AfterStates
<1>4. CASE NodeOrEmpty(after)
  BY <1>3, <1>4, NodeOrEmptyStep
<1>5. CASE Peek.type = "value" /\ SkipIndicator
  <2>1. Peek.type \notin BlockStarts \cup {"block_end"}
    BY <1>5 DEF BlockStarts
  <2> QED
    BY <1>3, <1>5, <2>1, IndicatorStep
<1>6. CASE EmptyThen(AfterIndicator[after].next) /\ Stay
  <2>1. /\ state' = AfterStates[after] /\ states' = states /\ call' = Enter
        /\ marks' = marks /\ tokens' = tokens
    BY <1>3, <1>6, AfterFields DEF EmptyThen, Deliver, Stay, scannerVars
  <2>2. AfterStates[after] \in AllStates \ (FirstStates \cup Outside)
    BY <1>3, AfterFields
  <2> QED
    BY <1>3, <2>1, <2>2, QuietDeliver
<1> QED
  BY <1>2, <1>4, <1>5, <1>6

\* The states of the flow collections add a collection, and no block.
FlowFirst == {"flow_sequence_first_entry", "flow_mapping_first_key"}
FlowStates == MarkedStates \ BlockStates

LEMMA FlowWeight ==
    ASSUME ParserShape, call.at # "node",
           state \in FlowStates \/ (state \in FlowFirst /\ call.at # "enter")
    PROVE  /\ state \notin Outside
           /\ \A set \in CountedSets, s \in FlowStates :
                 Weight(state, call.at, set) = IF s \in set THEN 1 ELSE 0
<1>1. state \notin Outside
  BY DEF FlowStates, FlowFirst, MarkedStates, BlockStates, Outside, DocumentStart
<1>2. \A s \in FlowStates : s \in MarkedStates /\ s \notin BlockStates
  BY DEF FlowStates
<1>3. MarkedStates # BlockStates
  BY DEF MarkedStates, BlockStates
<1>4. CASE state \in FlowStates
  <2>1. state \notin FirstStates
    BY <1>4 DEF FlowStates, MarkedStates, FirstStates
  <2> QED
    BY <1>1, <1>2, <1>4, <2>1 DEF Weight, CountedSets
<1>5. CASE state \in FlowFirst /\ call.at # "enter"
  <2>1. /\ state \in FirstStates /\ state \notin MarkedStates /\ state \notin BlockStates
        /\ state \notin {"block_sequence_first_entry", "block_mapping_first_key"}
    BY <1>5 DEF FlowFirst, FirstStates, MarkedStates, BlockStates
  <2>2. call.at \in {"opened", "indicated"}
    BY <1>5, <2>1 DEF ParserShape
  <2> QED
    BY <1>1, <1>2, <1>3, <2>1, <2>2 DEF Weight, CountedSets
<1> QED
  BY <1>4, <1>5

LEMMA FlowCollectionStep ==
    ASSUME MayStep, call.at # "node", NEW first \in FlowFirst, NEW entry \in FlowStates,
           NEW end \in {"flow_sequence_end", "flow_mapping_end"},
           FlowCollection(first, entry, end)
    PROVE  StepsWell
<1>1. ParserShape /\ FirstShown /\ call \in Calls
  BY DEF MayStep, ParserShape
<1>2. /\ state \notin Outside
      /\ \A set \in CountedSets, s \in FlowStates :
            Weight(state, call.at, set) = IF s \in set THEN 1 ELSE 0
  BY <1>1, FlowWeight DEF FlowCollection
<1>3. CASE \E type : Peek.type = end /\ EndCollection(type)
  <2>1. Peek.type \notin BlockStarts /\ Peek.type # "block_end"
    BY <1>3 DEF BlockStarts
  <2>2. Weight(state, call.at, MarkedStates) = 1 /\ Weight(state, call.at, BlockStates) = 0
    BY <1>2 DEF FlowStates, CountedSets
  <2> QED
    BY <1>2, <1>3, <2>1, <2>2, EndStep
<1>4. CASE /\ state = entry /\ call.at = "enter" /\ Peek.type = "flow_entry"
           /\ call' = [call EXCEPT !.at = "separated"] /\ Skip
           /\ UNCHANGED <<state, states, marks, handles, event>>
  <2>1. call' \in Calls /\ call'.at = "separated"
    <3>1. "separated" \in Places
      BY DEF Places
    <3> QED
      BY <1>1, <1>4, <3>1, CallSteps
  <2>2. state \notin FirstStates
    BY <1>4 DEF FlowStates, MarkedStates, FirstStates
  <2>3. \A set \in CountedSets : Weight(state, call'.at, set) = Weight(state, call.at, set)
    BY <1>4, <2>1, <2>2 DEF Weight
  <2>4. /\ state' = state /\ states' = states /\ marks' = marks /\ tokens' = Tail(tokens)
        /\ Peek.type \notin BlockStarts \cup {"block_end"}
    BY <1>4 DEF Skip, BlockStarts
  <2> QED
    BY <2>1, <2>2, <2>3, <2>4, QuietWithin
<1>5. CASE ParserError
  BY <1>1, <1>5, ErrorStep
<1> QED
  BY <1>3, <1>4, <1>5 DEF FlowCollection

LEMMA FlowNode ==
    ASSUME MayStep, call.at # "node", NEW next \in FlowStates,
           state \in FlowStates \/ (state \in FlowFirst /\ call.at # "enter"),
           NodeThen(next, Node(FALSE, FALSE))
    PROVE  StepsWell
<1>1. /\ state \notin Outside
      /\ \A set \in CountedSets : Weight(state, call.at, set) = IF next \in set THEN 1 ELSE 0
  BY FlowWeight DEF MayStep
<1>2. next \in EntryStates
  BY DEF FlowStates, EntryStates
<1> QED
  BY <1>1, <1>2, CallFields, QuietNode

LEMMA FlowDeliver ==
    ASSUME MayStep, call.at # "node", NEW s \in FlowStates,
           state \in FlowStates \/ (state \in FlowFirst /\ call.at # "enter"),
           state' = s, states' = states, call' = Enter, marks' = marks,
           \/ tokens' = tokens
           \/ tokens' = Tail(tokens) /\ Peek.type \notin BlockStarts \cup {"block_end"}
    PROVE  StepsWell
<1>1. /\ state \notin Outside
      /\ \A set \in CountedSets : Weight(state, call.at, set) = IF s \in set THEN 1 ELSE 0
  BY FlowWeight DEF MayStep
<1>2. s \in AllStates \ (FirstStates \cup Outside)
  BY DEF FlowStates, MarkedStates, AllStates, EntryStates, FirstStates, Outside, DocumentStart
<1> QED
  BY <1>1, <1>2, QuietDeliver

LEMMA FlowMembers ==
    /\ "flow_sequence_entry" \in FlowStates /\ "flow_mapping_key" \in FlowStates
    /\ "flow_sequence_entry_mapping_key" \in FlowStates
    /\ "flow_sequence_entry_mapping_value" \in FlowStates
    /\ "flow_sequence_entry_mapping_end" \in FlowStates
    /\ "flow_mapping_value" \in FlowStates /\ "flow_mapping_empty_value" \in FlowStates
    /\ "flow_sequence_first_entry" \in FlowFirst /\ "flow_mapping_first_key" \in FlowFirst
BY DEF FlowStates, MarkedStates, BlockStates, FlowFirst

LEMMA FlowSequenceSteps ==
    ASSUME MayStep, call.at # "node", ParseFlowSequenceEntry
    PROVE  StepsWell
<1>1. CASE FlowCollection("flow_sequence_first_entry", "flow_sequence_entry",
                          "flow_sequence_end")
  BY <1>1, FlowMembers, FlowCollectionStep
<1>2. CASE /\ state \in {"flow_sequence_first_entry", "flow_sequence_entry"}
           /\ call.at \in {"opened", "separated"}
           /\ Peek.type = "key"
           /\ Deliver(Event("mapping_start", ""), "flow_sequence_entry_mapping_key")
           /\ Skip /\ UNCHANGED <<states, marks, handles>>
  <2>1. /\ state' = "flow_sequence_entry_mapping_key" /\ states' = states /\ call' = Enter
        /\ marks' = marks /\ tokens' = Tail(tokens)
        /\ Peek.type \notin BlockStarts \cup {"block_end"}
    BY <1>2 DEF Deliver, Skip, BlockStarts
  <2> QED
    BY <1>2, <2>1, FlowMembers, FlowDeliver
<1>3. CASE /\ state \in {"flow_sequence_first_entry", "flow_sequence_entry"}
           /\ call.at \in {"opened", "separated"}
           /\ NodeThen("flow_sequence_entry", Node(FALSE, FALSE))
  BY <1>3, FlowMembers, FlowNode
<1> QED
  BY <1>1, <1>2, <1>3 DEF ParseFlowSequenceEntry

LEMMA FlowPairSteps ==
    ASSUME MayStep, call.at # "node", ParseFlowPairKey \/ ParseFlowPairEnd
    PROVE  StepsWell
<1>1. CASE ParseFlowPairKey
  <2>1. /\ "flow_pair_key" \in Indicators
        /\ AfterIndicator["flow_pair_key"].next = "flow_sequence_entry_mapping_value"
        /\ state = "flow_sequence_entry_mapping_key"
    BY <1>1, AfterFields DEF Indicators, AfterStates, ParseFlowPairKey
  <2>2. CASE NodeThen(AfterIndicator["flow_pair_key"].next, Node(FALSE, FALSE))
    BY <2>1, <2>2, FlowMembers, FlowNode
  <2>3. CASE /\ Peek.type \in AfterIndicator["flow_pair_key"].empty
             /\ EmptyThen(AfterIndicator["flow_pair_key"].next) /\ Skip
    <3>1. Peek.type \in {"value", "flow_entry", "flow_sequence_end"}
      BY <2>3 DEF AfterIndicator
    <3>2. /\ state' = "flow_sequence_entry_mapping_value" /\ states' = states /\ call' = Enter
          /\ marks' = marks /\ tokens' = Tail(tokens)
          /\ Peek.type \notin BlockStarts \cup {"block_end"}
      BY <2>1, <2>3, <3>1 DEF EmptyThen, Deliver, Skip, BlockStarts
    <3> QED
      BY <2>1, <3>2, FlowMembers, FlowDeliver
  <2> QED
    BY <1>1, <2>2, <2>3 DEF ParseFlowPairKey
<1>2. CASE ParseFlowPairEnd
  <2>1. /\ state = "flow_sequence_entry_mapping_end" /\ state' = "flow_sequence_entry"
        /\ states' = states /\ call' = Enter /\ marks' = marks /\ tokens' = tokens
    BY <1>2 DEF ParseFlowPairEnd, Deliver, Stay, scannerVars
  <2> QED
    BY <2>1, FlowMembers, FlowDeliver
<1> QED
  BY <1>1, <1>2

LEMMA FlowMappingSteps ==
    ASSUME MayStep, call.at # "node", ParseFlowMappingKey \/ ParseFlowMappingEmptyValue
    PROVE  StepsWell
<1>1. CASE FlowCollection("flow_mapping_first_key", "flow_mapping_key", "flow_mapping_end")
  BY <1>1, FlowMembers, FlowCollectionStep
<1>2. CASE /\ state \in {"flow_mapping_first_key", "flow_mapping_key"}
           /\ call.at # "enter"
           /\ \/ NodeOrEmpty("flow_key")
              \/ Peek.type = "key" /\ SkipIndicator
              \/ NodeThen(AfterLoneKey, Node(FALSE, FALSE))
  <2>1. /\ ParserShape /\ "flow_key" \in Indicators
        /\ AfterStates["flow_key"] = "flow_mapping_value"
        /\ AfterLoneKey = "flow_mapping_empty_value"
    BY DEF MayStep, Indicators, AfterStates, AfterLoneKey
  <2>2. /\ state \notin Outside
        /\ \A set \in CountedSets, s \in FlowStates :
              Weight(state, call.at, set) = IF s \in set THEN 1 ELSE 0
    BY <1>2, <2>1, FlowMembers, FlowWeight
  <2>3. CASE NodeOrEmpty("flow_key")
    BY <2>1, <2>2, <2>3, FlowMembers, NodeOrEmptyStep
  <2>4. CASE Peek.type = "key" /\ SkipIndicator
    <3>1. Peek.type \notin BlockStarts \cup {"block_end"}
      BY <2>4 DEF BlockStarts
    <3>2. \A set \in CountedSets :
            Weight(state, call.at, set) = Weight(state, "indicated", set)
      BY <1>2, <2>1 DEF Weight, ParserShape, FirstStates, MarkedStates, BlockStates, CountedSets
    <3> QED
      BY <2>2, <2>4, <3>1, <3>2, IndicatorStep
  <2>5. CASE NodeThen(AfterLoneKey, Node(FALSE, FALSE))
    BY <1>2, <2>1, <2>5, FlowMembers, FlowNode
  <2> QED
    BY <1>2, <2>3, <2>4, <2>5
<1>3. CASE ParseFlowMappingEmptyValue
  <2>1. /\ state = "flow_mapping_empty_value" /\ state' = "flow_mapping_key"
        /\ states' = states /\ call' = Enter /\ marks' = marks /\ tokens' = tokens
    BY <1>3 DEF ParseFlowMappingEmptyValue, EmptyThen, Deliver, Stay, scannerVars
  <2> QED
    BY <2>1, FlowMembers, FlowDeliver
<1> QED
  BY <1>1, <1>2, <1>3 DEF ParseFlowMappingKey

LEMMA ParserStep ==
    ASSUME MayStep, StateMachine
    PROVE  StepsWell
<1>1. CASE ParseNode
  BY <1>1, NodeSteps
<1>2. CASE /\ call.at # "node"
           /\ \/ ParseStreamStart \/ SkipDocumentEnd \/ ParseImplicitDocument
              \/ ParseDirective \/ ParseExplicitDocument \/ ParseStreamEnd
              \/ ParseDocumentContent \/ ParseDocumentEnd
  BY <1>2, StreamSteps, DocumentSteps, ContentStep
<1>3. CASE /\ call.at # "node"
           /\ \/ OpenCollection
              \/ ParseBlockSequenceEntry \/ ParseBlockMappingKey
              \/ ParseIndentlessSequenceEntry \/ ParseBlockMappingValue
              \/ ParseFlowSequenceEntry \/ ParseFlowPairKey \/ ParseFlowPairValue
              \/ ParseFlowPairEnd \/ ParseFlowMappingKey
              \/ ParseFlowMappingValue \/ ParseFlowMappingEmptyValue
  BY <1>3, OpenStep, BlockEntrySteps, IndentlessStep, ValueSteps, FlowSequenceSteps,
     FlowPairSteps, FlowMappingSteps
<1> QED
  BY <1>1, <1>2, <1>3 DEF StateMachine

-----------------------------------------------------------------------------
(* The input of the scanner *)

IsLexeme(l) ==
    /\ l.val \in Values
    /\ l.line \in Nat /\ l.lines \in Nat /\ l.col \in Nat
    /\ l.index \in Nat /\ l.length \in Nat

IsBefore(m, n) == m.line <= n.line /\ m.index <= n.index

\* What is still to be read is in order.  The end of the stream may put the
\* scanner on the line after it.
InputShape ==
    /\ source \in Sources
    /\ budget \in Nat /\ (budget > 0 => source.free > 0)
    /\ IsLexeme(lexeme)
    /\ script \in Seq(Lexemes) /\ InOrder(script)
    /\ script # <<>> => ComesAfter(Head(script), lexeme)
    /\ mark.line \in Nat /\ mark.index \in Nat
    /\ \/ IsBefore(mark, lexeme)
       \/ /\ lexeme.kind = "end" /\ mark.index = lexeme.index
          /\ mark.line = lexeme.line + (IF lexeme.col # 0 THEN 1 ELSE 0)

\* The first lexeme of a text and the rest.
LEMMA TextStep ==
    ASSUME NEW text \in Seq(Lexemes), text # <<>>, InOrder(text)
    PROVE  /\ IsLexeme(Head(text))
           /\ Tail(text) \in Seq(Lexemes) /\ InOrder(Tail(text))
           /\ Tail(text) # <<>> => ComesAfter(Head(Tail(text)), Head(text))
<1> DEFINE n == Len(text)
           t == Tail(text)
<1>1. /\ Head(text) \in Lexemes /\ t \in Seq(Lexemes) /\ Len(t) = n - 1
      /\ \A i \in 1 .. n - 1 : t[i] = text[i + 1]
      /\ n \in Nat \ {0} /\ Head(text) = text[1]
  BY HeadTailProperties, EmptySeq
<1>2. IsLexeme(Head(text))
  BY <1>1 DEF Lexemes, IsLexeme, Values
<1> HIDE DEF n, t
<1>3. \A i \in 1 .. n - 1 : ComesAfter(text[i + 1], text[i])
  BY DEF InOrder, n
<1>4. InOrder(t)
  <2>1. ASSUME NEW i \in 1 .. Len(t) - 1 PROVE ComesAfter(t[i + 1], t[i])
    <3>1. i + 1 \in 1 .. n - 1 /\ i \in 1 .. n - 1
      BY <1>1, <2>1
    <3> QED
      BY <1>1, <1>3, <3>1
  <2> QED
    BY <2>1 DEF InOrder
<1>5. ASSUME t # <<>> PROVE ComesAfter(Head(t), Head(text))
  <2>1. Len(t) \in Nat \ {0} /\ Head(t) = t[1]
    BY <1>1, <1>5, EmptySeq
  <2>2. 1 \in 1 .. n - 1 /\ t[1] = text[1 + 1]
    BY <1>1, <2>1
  <2> QED
    BY <1>1, <1>3, <2>1, <2>2
<1> QED
  BY <1>1, <1>2, <1>4, <1>5 DEF t

LEMMA ScriptStep ==
    ASSUME InputShape, script # <<>>
    PROVE  /\ IsLexeme(Head(script)) /\ ComesAfter(Head(script), lexeme)
           /\ Tail(script) \in Seq(Lexemes) /\ InOrder(Tail(script))
           /\ Tail(script) # <<>> => ComesAfter(Head(Tail(script)), Head(script))
<1>1. script \in Seq(Lexemes) /\ InOrder(script) /\ ComesAfter(Head(script), lexeme)
  BY DEF InputShape
<1> QED
  BY <1>1, TextStep

LEMMA TextEndFields ==
    ASSUME NEW line, NEW col, NEW index
    PROVE  TextEnd(line, col, index) =
               [kind |-> "end", val |-> "", lines |-> 0, length |-> 0, raw |-> NotWritten,
                line |-> line, col |-> col, index |-> index]
BY DEF TextEnd, At, Word

\* A lexeme was read: the scanner stands after it or at the next one.
LEMMA AdvanceStep ==
    ASSUME InputShape, IsBefore(mark, lexeme), source' = source,
           NEW next \in Following(lexeme), NEW m \in {MarkAfter(lexeme), MarkAt(next)},
           Advance(next, m)
    PROVE  InputShape' /\ IsBefore(mark, m) /\ IsBefore(lexeme, m)
<1>1. IsLexeme(lexeme) /\ source \in Sources /\ budget \in Nat
      /\ mark.line \in Nat /\ mark.index \in Nat
  BY DEF InputShape
<1>2. /\ EndLine(lexeme) \in Nat /\ EndLine(lexeme) >= lexeme.line
      /\ EndIndex(lexeme) \in Nat /\ EndIndex(lexeme) >= lexeme.index
  BY <1>1 DEF IsLexeme, EndLine, EndIndex
<1>3. /\ IsLexeme(next) /\ ComesAfter(next, lexeme)
      /\ script' \in Seq(Lexemes) /\ InOrder(script')
      /\ script' # <<>> => ComesAfter(Head(script'), next)
      /\ budget' \in Nat /\ (budget' > 0 => source.free > 0)
  <2>1. CASE script # <<>>
    <3>1. next = Head(script) /\ script' = Tail(script) /\ budget' = budget
      BY <2>1 DEF Following, Advance
    <3> QED
      BY <2>1, <3>1, ScriptStep DEF InputShape
  <2>2. CASE script = <<>>
    <3>1. script' = script /\ script' \in Seq(Lexemes) /\ InOrder(script')
      BY <2>2 DEF Advance, InputShape
    <3>2. CASE next \in EndAfter(lexeme)
      <4>1. \A e \in Nat : e + 1 \in Nat /\ e + 1 >= e /\ e >= e
        OBVIOUS
      <4>2. lexeme.col + 2 \in Nat /\ 0 \in Nat
        BY <1>1 DEF IsLexeme
      <4>3. PICK line \in Nat, col \in Nat, index \in Nat :
              /\ next = TextEnd(line, col, index)
              /\ line >= EndLine(lexeme) /\ index >= EndIndex(lexeme)
        <5>1. CASE next = TextEnd(EndLine(lexeme), lexeme.col + 2, EndIndex(lexeme))
          BY <1>2, <4>1, <4>2, <5>1, Zenon
        <5>2. CASE next = TextEnd(EndLine(lexeme) + 1, 0, EndIndex(lexeme) + 1)
          BY <1>2, <4>1, <4>2, <5>2, Zenon
        <5> QED
          BY <3>2, <5>1, <5>2 DEF EndAfter
      <4>4. /\ next.kind = "end" /\ next.val = "" /\ next.lines = 0 /\ next.length = 0
            /\ next.line = line /\ next.col = col /\ next.index = index
        <5>1. next = [kind |-> "end", val |-> "", lines |-> 0, length |-> 0, raw |-> NotWritten,
                      line |-> line, col |-> col, index |-> index]
          BY <4>3, TextEndFields, Zenon
        <5> QED
          BY <5>1
      <4>5. budget' = budget
        BY <4>4 DEF Advance
      <4>6. IsLexeme(next)
        <5>1. next.val \in Values
          BY <4>4 DEF Values
        <5>2. /\ next.line \in Nat /\ next.lines \in Nat /\ next.col \in Nat
              /\ next.index \in Nat /\ next.length \in Nat
          BY <4>2, <4>4, Zenon
        <5> QED
          BY <5>1, <5>2 DEF IsLexeme
      <4>7. ComesAfter(next, lexeme)
        BY <4>3, <4>4 DEF ComesAfter
      <4> QED
        BY <2>2, <3>1, <4>5, <4>6, <4>7 DEF InputShape
    <3>3. CASE next \notin EndAfter(lexeme)
      <4>1. budget > 0 /\ next \in FreeLexemes(lexeme)
        BY <2>2, <3>3 DEF Following
      <4>2. PICK w \in source.words, p \in Positions(lexeme) :
                next = At(w, p[1], p[2], EndIndex(lexeme) + 1)
        BY <4>1 DEF FreeLexemes
      <4>3. source.words \subseteq FreeWords /\ source.columns \subseteq Nat
        BY <4>1, SourcesAssumption DEF InputShape
      <4>4. p[1] \in Nat /\ p[1] >= EndLine(lexeme) /\ p[2] \in Nat
        BY <1>1, <1>2, <4>3 DEF Positions, IsLexeme
      <4>5. /\ next.val = w.val /\ next.lines = w.lines /\ next.length = w.length
            /\ next.line = p[1] /\ next.col = p[2] /\ next.index = EndIndex(lexeme) + 1
        BY <4>2 DEF At
      <4>6. w.val \in Values /\ w.lines \in Nat /\ w.length \in Nat
        BY <4>3 DEF FreeWords, Values
      <4>7. IsLexeme(next)
        BY <1>2, <4>4, <4>5, <4>6 DEF IsLexeme
      <4>8. ComesAfter(next, lexeme)
        BY <1>2, <4>4, <4>5 DEF ComesAfter
      <4>9. budget' \in Nat /\ source.free > 0
        BY <1>1, <4>1 DEF Advance, InputShape
      <4> QED
        BY <2>2, <3>1, <4>7, <4>8, <4>9
    <3> QED
      BY <3>2, <3>3
  <2> QED
    BY <2>1, <2>2
<1>4. lexeme' = next /\ mark' = m
  BY DEF Advance
<1>5. /\ next.line \in Nat /\ next.index \in Nat
      /\ next.line >= EndLine(lexeme) /\ next.index >= EndIndex(lexeme)
      /\ lexeme.line \in Nat /\ lexeme.index \in Nat
  BY <1>1, <1>3 DEF IsLexeme, ComesAfter
<1>6. /\ m.line \in Nat /\ m.index \in Nat
      /\ lexeme.line <= m.line /\ lexeme.index <= m.index
      /\ m.line <= next.line /\ m.index <= next.index
  <2>1. CASE m = MarkAfter(lexeme)
    <3>1. m.line = EndLine(lexeme) /\ m.index = EndIndex(lexeme)
      BY <2>1 DEF MarkAfter
    <3> QED
      BY <1>2, <1>5, <3>1
  <2>2. CASE m = MarkAt(next)
    <3>1. m.line = next.line /\ m.index = next.index
      BY <2>2 DEF MarkAt
    <3> QED
      BY <1>2, <1>5, <3>1
  <2> QED
    BY <2>1, <2>2
<1>7. IsBefore(mark, m) /\ IsBefore(lexeme, m) /\ IsBefore(m, next)
  BY <1>1, <1>5, <1>6 DEF IsBefore
<1> QED
  BY <1>1, <1>3, <1>4, <1>6, <1>7 DEF InputShape

-----------------------------------------------------------------------------
(* The indentation levels and the queue of tokens *)

StartTokens == {t \in Tokens : t.type \in BlockStarts}
EndTokens == {t \in Tokens : t.type \in {"block_end"}}

\* The blocks that are begun and whose start is not in the queue any more.
Balance(levels, queue) == Len(levels) - Count(queue, StartTokens) + Count(queue, EndTokens)

Ascending(levels) == \A i, j \in 1 .. Len(levels) : i < j => levels[i] < levels[j]
LevelsShape(levels, queue) ==
    /\ levels \in Seq(Int) /\ levels # <<>> /\ levels[1] = -1
    /\ Ascending(levels) /\ queue \in Seq(Tokens)

\* What a fetch makes of the levels and of the queue: blocks begin and end in
\* both.
Kept(levels, queue) ==
    /\ LevelsShape(levels, queue)
    /\ Len(queue) >= Len(tokens)
    /\ Balance(levels, queue) = Balance(indents, tokens)

LEMMA GreatestOf ==
    ASSUME NEW n \in Nat, NEW T, T \subseteq 1 .. n, T # {}
    PROVE  Max(T) \in T
<1> DEFINE U == {k \in 0 .. n : n - k \in T}
           R == OpToRel(<, Nat)
<1>1. U \subseteq Nat /\ U # {}
  <2>1. PICK x \in T : TRUE
    OBVIOUS
  <2>2. n - x \in 0 .. n /\ n - (n - x) = x
    BY <2>1
  <2>3. n - x \in U
    BY <2>1, <2>2
  <2>4. U \subseteq Nat
    OBVIOUS
  <2> QED
    BY <2>3, <2>4
<1>2. IsWellFoundedOn(R, Nat) /\ R = {p \in Nat \X Nat : p[1] < p[2]}
  BY NatLessThanWellFounded DEF OpToRel
<1> HIDE DEF R
<1>3. PICK k \in U : \A y \in U : ~(<<y, k>> \in R)
  BY <1>1, <1>2, WFMin
<1>4. \A y \in U : ~(y < k)
  BY <1>1, <1>2, <1>3
<1>5. ASSUME NEW y \in T PROVE n - k >= y
  <2>1. n - y \in U /\ k \in 0 .. n
    <3>1. n - y \in 0 .. n /\ n - (n - y) = y
      OBVIOUS
    <3> QED
      BY <3>1
  <2>2. ~(n - y < k)
    BY <1>4, <2>1
  <2> QED
    BY <2>1, <2>2
<1>6. n - k \in T
  OBVIOUS
<1>7. \E x \in T : \A y \in T : x >= y
  BY <1>5, <1>6
<1> QED
  BY <1>7 DEF Max

LEMMA TokenFields ==
    ASSUME NEW type \in TokenTypes, NEW val \in Values
    PROVE  /\ Token(type, val) \in Tokens
           /\ Token(type, val) \in StartTokens <=> type \in BlockStarts
           /\ Token(type, val) \in EndTokens <=> type = "block_end"
BY DEF Token, Tokens, StartTokens, EndTokens

LEMMA BalanceType ==
    ASSUME NEW levels, NEW queue, LevelsShape(levels, queue)
    PROVE  /\ Len(levels) \in Nat \ {0} /\ Len(queue) \in Nat
           /\ Count(queue, StartTokens) \in Nat /\ Count(queue, EndTokens) \in Nat
           /\ Balance(levels, queue) \in Int
<1>1. levels \in Seq(Int) /\ levels # <<>> /\ queue \in Seq(Tokens)
  BY DEF LevelsShape
<1>2. Len(levels) \in Nat \ {0} /\ Len(queue) \in Nat
  BY <1>1, EmptySeq, LenProperties
<1>3. Count(queue, StartTokens) \in Nat /\ Count(queue, EndTokens) \in Nat
  BY <1>1, CountType
<1> QED
  BY <1>2, <1>3 DEF Balance

\* Levels that are left are ended by a token each.
LEMMA UnrolledKept ==
    ASSUME LevelsShape(indents, tokens), flowLevel \in Nat, NEW column \in Int, column >= -1
    PROVE  Kept(Unrolled(column), Queue(Unrolled(column)))
<1> DEFINE n == Len(indents)
           levels == Unrolled(column)
           l == Len(levels)
           e == Token("block_end", "")
           ends == [i \in 1 .. n - l |-> e]
<1>1. n \in Nat \ {0} /\ Len(tokens) \in Nat
  BY BalanceType
<1>2. indents \in Seq(Int) /\ indents[1] = -1 /\ tokens \in Seq(Tokens) /\ Ascending(indents)
      /\ \A i \in 1 .. n : indents[i] \in Int
  BY ElementOfSeq DEF LevelsShape
<1>3. /\ levels \in Seq(Int) /\ levels[1] = -1 /\ l \in 1 .. n /\ Ascending(levels)
  <2>1. CASE flowLevel > 0
    BY <1>1, <1>2, <2>1 DEF Unrolled
  <2>2. CASE ~(flowLevel > 0)
    <3> DEFINE T == {i \in DOMAIN indents : indents[i] <= column}
               m == Max(T)
    <3>1. DOMAIN indents = 1 .. n
      BY <1>2, LenProperties
    <3>2. T \subseteq 1 .. n /\ 1 \in T
      BY <1>1, <1>2, <3>1
    <3>3. m \in 1 .. n
      BY <1>1, <3>2, GreatestOf
    <3>4. levels = SubSeq(indents, 1, m)
      BY <2>2 DEF Unrolled
    <3> HIDE DEF m, T, levels
    <3>5. 1 \in Int /\ m \in Int /\ \A i \in 1 .. m : indents[i] \in Int
      BY <1>1, <1>2, <3>3
    <3>6. /\ levels \in Seq(Int)
          /\ Len(levels) = IF 1 <= m THEN m - 1 + 1 ELSE 0
          /\ \A i \in 1 .. m - 1 + 1 : levels[i] = indents[1 + i - 1]
      BY <3>4, <3>5, SubSeqProperties
    <3>7. Len(levels) = m /\ 1 \in 1 .. m - 1 + 1 /\ 1 + 1 - 1 = 1
      BY <1>1, <3>3, <3>6
    <3>8. levels[1] = indents[1]
      BY <3>6, <3>7
    <3>9. \A i \in 1 .. m : i \in 1 .. n /\ i \in 1 .. m - 1 + 1 /\ 1 + i - 1 = i
      BY <1>1, <3>3
    <3>10. \A i \in 1 .. m : levels[i] = indents[i]
      BY <3>6, <3>9
    <3>11. Ascending(levels)
      BY <1>2, <3>7, <3>9, <3>10 DEF Ascending
    <3> QED
      BY <1>2, <3>3, <3>6, <3>7, <3>8, <3>11 DEF levels
  <2> QED
    BY <2>1, <2>2
<1>4. e \in Tokens /\ e \notin StartTokens /\ e \in EndTokens
  <2>1. "block_end" \in TokenTypes /\ "" \in Values /\ "block_end" \notin BlockStarts
    BY DEF TokenTypes, Values, BlockStarts
  <2> QED
    BY <2>1, TokenFields
<1>5. Queue(levels) = tokens \o ends
  BY DEF Queue
<1> HIDE DEF levels, l, n, e
<1>6. n - l \in Nat /\ l \in Nat
  BY <1>1, <1>3
<1>7. /\ ends \in Seq(Tokens) /\ Len(ends) = n - l
      /\ Count(ends, StartTokens) = 0 /\ Count(ends, EndTokens) = n - l
  BY <1>4, <1>6, CountConstant
<1> HIDE DEF ends
<1>8. /\ tokens \o ends \in Seq(Tokens) /\ Len(tokens \o ends) = Len(tokens) + Len(ends)
      /\ Count(tokens \o ends, StartTokens) = Count(tokens, StartTokens) + Count(ends, StartTokens)
      /\ Count(tokens \o ends, EndTokens) = Count(tokens, EndTokens) + Count(ends, EndTokens)
  BY <1>2, <1>7, ConcatProperties, CountConcat
<1>9. Count(tokens, StartTokens) \in Nat /\ Count(tokens, EndTokens) \in Nat
  BY BalanceType
<1>10. levels # <<>>
  <2>1. Len(levels) # 0
    BY <1>3 DEF l
  <2> QED
    BY <2>1, EmptySeq
<1>11. LevelsShape(levels, Queue(levels))
  BY <1>3, <1>5, <1>8, <1>10 DEF LevelsShape
<1>12. Len(Queue(levels)) >= Len(tokens)
  BY <1>1, <1>5, <1>6, <1>7, <1>8
<1>13. Balance(levels, Queue(levels)) = l - Count(tokens \o ends, StartTokens) + Count(tokens \o ends, EndTokens)
  BY <1>5 DEF Balance, l
<1>14. Balance(indents, tokens) = n - Count(tokens, StartTokens) + Count(tokens, EndTokens)
  BY DEF Balance, n
<1>15. Balance(levels, Queue(levels)) = Balance(indents, tokens)
  BY <1>1, <1>6, <1>7, <1>8, <1>9, <1>13, <1>14
<1> QED
  BY <1>11, <1>12, <1>15 DEF Kept, levels

LEMMA AppendKept ==
    ASSUME NEW levels, NEW queue, Kept(levels, queue), NEW t \in Tokens,
           t \notin StartTokens, t \notin EndTokens
    PROVE  /\ Kept(levels, Append(queue, t))
           /\ Len(Append(queue, t)) = Len(queue) + 1
<1>1. queue \in Seq(Tokens) /\ LevelsShape(levels, queue)
  BY DEF Kept, LevelsShape
<1>2. /\ Append(queue, t) \in Seq(Tokens) /\ Len(Append(queue, t)) = Len(queue) + 1
      /\ Count(Append(queue, t), StartTokens) = Count(queue, StartTokens) + 0
      /\ Count(Append(queue, t), EndTokens) = Count(queue, EndTokens) + 0
  BY <1>1, AppendProperties, CountAppend
<1>3. /\ Len(levels) \in Nat /\ Len(queue) \in Nat
      /\ Count(queue, StartTokens) \in Nat /\ Count(queue, EndTokens) \in Nat
  BY <1>1, BalanceType
<1>4. Balance(levels, Append(queue, t)) = Balance(levels, queue)
  BY <1>2, <1>3 DEF Balance
<1>5. LevelsShape(levels, Append(queue, t))
  BY <1>1, <1>2 DEF LevelsShape
<1>6. Len(tokens) \in Int \/ Len(queue) >= Len(tokens)
  BY DEF Kept
<1>7. Len(queue) >= Len(tokens) => Len(queue) + 1 >= Len(tokens)
  <2> DEFINE a == Len(queue)
             b == Len(tokens)
  <2>1. a \in Nat
    BY <1>3
  <2> HIDE DEF a, b
  <2>2. b \in Int => (a >= b => a + 1 >= b)
    BY <2>1
  <2> QED
    BY <2>2 DEF a, b
<1> QED
  BY <1>2, <1>4, <1>5, <1>7 DEF Kept

\* A level that opens comes with the token that starts its block.
LEMMA RolledLevels ==
    ASSUME NEW levels, Kept(levels, Queue(levels)), NEW column \in Int,
           NEW queue \in Seq(Tokens), Len(queue) >= Len(Queue(levels)),
           Count(queue, StartTokens)
               = Count(Queue(levels), StartTokens) + (IF Opens(levels, column) THEN 1 ELSE 0),
           Count(queue, EndTokens) = Count(Queue(levels), EndTokens)
    PROVE  Kept(Rolled(levels, column), queue)
<1> DEFINE rolled == Rolled(levels, column)
           more == IF Opens(levels, column) THEN 1 ELSE 0
<1>1. LevelsShape(levels, Queue(levels)) /\ levels \in Seq(Int) /\ levels[1] = -1
      /\ Ascending(levels)
  BY DEF Kept, LevelsShape
<1>2. /\ Len(levels) \in Nat \ {0} /\ Len(Queue(levels)) \in Nat /\ Len(queue) \in Nat
      /\ Count(Queue(levels), StartTokens) \in Nat /\ Count(Queue(levels), EndTokens) \in Nat
  BY <1>1, BalanceType, LenProperties
<1>3. rolled \in Seq(Int) /\ rolled[1] = -1 /\ Len(rolled) = Len(levels) + more
      /\ Ascending(rolled)
  <2>1. CASE Opens(levels, column)
    <3>1. /\ Append(levels, column) \in Seq(Int)
          /\ Len(Append(levels, column)) = Len(levels) + 1
          /\ \A i \in 1 .. Len(levels) : Append(levels, column)[i] = levels[i]
      BY <1>1, AppendProperties
    <3>2. 1 \in 1 .. Len(levels)
      BY <1>2
    <3> DEFINE l == Append(levels, column)
               n == Len(levels)
    <3>3. /\ n \in Nat \ {0} /\ Len(l) = n + 1 /\ l[n + 1] = column /\ levels[n] < column
          /\ \A i \in 1 .. n : levels[i] \in Int /\ l[i] = levels[i]
      BY <1>1, <1>2, <2>1, <3>1, AppendProperties, ElementOfSeq DEF Opens, Last
    <3>4. \A i, j \in 1 .. n : i < j => levels[i] < levels[j]
      BY <1>1 DEF Ascending
    <3> HIDE DEF l, n
    <3>5. \A i \in 1 .. n : levels[i] < column
      BY <3>3, <3>4
    <3>6. \A i, j \in 1 .. (n + 1) : i < j => l[i] < l[j]
      BY <3>3, <3>4, <3>5
    <3>7. Ascending(l)
      BY <3>3, <3>6 DEF Ascending
    <3> QED
      BY <1>1, <2>1, <3>1, <3>2, <3>7 DEF Rolled, l
  <2>2. CASE ~Opens(levels, column)
    BY <1>1, <1>2, <2>2 DEF Rolled
  <2> QED
    BY <2>1, <2>2
<1>4. more \in Nat
  OBVIOUS
<1>5. Count(queue, StartTokens) = Count(Queue(levels), StartTokens) + more
  OBVIOUS
<1> HIDE DEF rolled, more
<1>6. rolled # <<>>
  <2>1. Len(rolled) # 0
    BY <1>2, <1>3, <1>4
  <2> QED
    BY <2>1, EmptySeq
<1>7. LevelsShape(rolled, queue)
  BY <1>3, <1>6 DEF LevelsShape
<1>8. Balance(rolled, queue) = Balance(levels, Queue(levels))
  BY <1>2, <1>3, <1>4, <1>5 DEF Balance
<1>9. Len(tokens) \in Int => Len(queue) >= Len(tokens)
  BY <1>2 DEF Kept
<1>10. Balance(levels, Queue(levels)) = Balance(indents, tokens)
  BY DEF Kept
<1> QED
  BY <1>7, <1>8, <1>9, <1>10 DEF Kept, rolled


LEMMA RolledKept ==
    ASSUME NEW levels, Kept(levels, Queue(levels)), NEW column \in Int,
           NEW type \in BlockStarts
    PROVE  Kept(Rolled(levels, column), RolledQueue(levels, column, type))
<1> DEFINE queue == RolledQueue(levels, column, type)
           t == Token(type, "")
<1>1. LevelsShape(levels, Queue(levels)) /\ Queue(levels) \in Seq(Tokens)
  BY DEF Kept, LevelsShape
<1>2. /\ Len(Queue(levels)) \in Nat
      /\ Count(Queue(levels), StartTokens) \in Nat /\ Count(Queue(levels), EndTokens) \in Nat
  BY <1>1, BalanceType
<1>3. t \in Tokens /\ t \in StartTokens /\ t \notin EndTokens
  <2>1. type \in TokenTypes /\ "" \in Values /\ type # "block_end"
    BY DEF BlockStarts, TokenTypes, Values
  <2> QED
    BY <2>1, TokenFields
<1>4. CASE Opens(levels, column)
  <2>1. queue = Queue(levels) \o <<t>>
    BY <1>4 DEF RolledQueue
  <2> HIDE DEF t, queue
  <2>2. queue = Append(Queue(levels), t)
    BY <1>1, <1>3, <2>1
  <2>3. /\ queue \in Seq(Tokens) /\ Len(queue) = Len(Queue(levels)) + 1
        /\ Count(queue, StartTokens) = Count(Queue(levels), StartTokens) + 1
        /\ Count(queue, EndTokens) = Count(Queue(levels), EndTokens) + 0
    <3>1. /\ Append(Queue(levels), t) \in Seq(Tokens)
          /\ Len(Append(Queue(levels), t)) = Len(Queue(levels)) + 1
      BY <1>1, <1>3, AppendProperties
    <3>2. \A set : Count(Append(Queue(levels), t), set)
                      = Count(Queue(levels), set) + (IF t \in set THEN 1 ELSE 0)
      BY <1>1, <1>3, CountAppend
    <3> QED
      BY <1>3, <2>2, <3>1, <3>2
  <2>4. Len(queue) >= Len(Queue(levels))
        /\ Count(queue, EndTokens) = Count(Queue(levels), EndTokens)
    BY <1>2, <2>3
  <2> QED
    BY <1>4, <2>3, <2>4, RolledLevels DEF queue
<1>5. CASE ~Opens(levels, column)
  <2>1. queue = Queue(levels) \o <<>>
    BY <1>5 DEF RolledQueue
  <2>2. queue = Queue(levels)
    BY <1>1, <2>1, ConcatEmptySeq
  <2> HIDE DEF queue
  <2>3. /\ queue \in Seq(Tokens) /\ Len(queue) >= Len(Queue(levels))
        /\ Count(queue, StartTokens) = Count(Queue(levels), StartTokens) + 0
        /\ Count(queue, EndTokens) = Count(Queue(levels), EndTokens)
    BY <1>1, <1>2, <2>2
  <2> QED
    BY <1>5, <2>3, RolledLevels DEF queue
<1> QED
  BY <1>4, <1>5

\* The tokens of a simple key come before those that were queued since.
LEMMA SimpleValueKept ==
    ASSUME NEW levels, Kept(levels, Queue(levels)), NEW k, k.col \in Int,
           NEW before \in 0 .. Len(Queue(levels))
    PROVE  Kept(Rolled(levels, k.col),
                SubSeq(Queue(levels), 1, before) \o KeyTokens(k, levels)
                    \o SubSeq(Queue(levels), before + 1, Len(Queue(levels)))
                    \o <<Token("value", "")>>)
<1> DEFINE old == Queue(levels)
           t == KeyTokens(k, levels)
           r == SubSeq(old, 1, before) \o t \o SubSeq(old, before + 1, Len(old))
           v == Token("value", "")
           b == Token("block_mapping_start", "")
           key == Token("key", "")
           more == IF Opens(levels, k.col) THEN 1 ELSE 0
<1>1. LevelsShape(levels, old) /\ old \in Seq(Tokens)
  BY DEF Kept, LevelsShape
<1>2. Len(old) \in Nat /\ Count(old, StartTokens) \in Nat /\ Count(old, EndTokens) \in Nat
  BY <1>1, BalanceType
<1>3. /\ v \in Tokens /\ v \notin StartTokens /\ v \notin EndTokens
      /\ key \in Tokens /\ key \notin StartTokens /\ key \notin EndTokens
      /\ b \in Tokens /\ b \in StartTokens /\ b \notin EndTokens
  <2>1. /\ "value" \in TokenTypes /\ "key" \in TokenTypes /\ "block_mapping_start" \in TokenTypes
        /\ "" \in Values
        /\ "value" \notin BlockStarts /\ "key" \notin BlockStarts
        /\ "block_mapping_start" \in BlockStarts
    BY DEF TokenTypes, Values, BlockStarts
  <2> QED
    BY <2>1, TokenFields
<1> HIDE DEF old, v, b, key
<1>4. /\ <<>> \in Seq(Tokens)
      /\ \A set : Count(<<>>, set) = 0
  BY CountEmpty
<1>5. \A x \in Tokens : /\ Append(<<>>, x) = <<x>>
                        /\ <<x>> \in Seq(Tokens) /\ Len(<<x>>) = 1
  OBVIOUS
<1>6. \A x \in Tokens : \A set : Count(<<x>>, set) = 0 + (IF x \in set THEN 1 ELSE 0)
  <2>1. ASSUME NEW x \in Tokens, NEW set
        PROVE  Count(<<x>>, set) = 0 + (IF x \in set THEN 1 ELSE 0)
    <3>1. Count(Append(<<>>, x), set) = Count(<<>>, set) + (IF x \in set THEN 1 ELSE 0)
      BY <1>4, CountAppend
    <3> QED
      BY <1>4, <1>5, <3>1
  <2> QED
    BY <2>1
<1>7. /\ t \in Seq(Tokens) /\ Len(t) \in Nat
      /\ Count(t, StartTokens) = more /\ Count(t, EndTokens) = 0
  <2>1. <<key>> \in Seq(Tokens) /\ <<b>> \in Seq(Tokens)
    BY <1>3, <1>5
  <2>2. CASE Opens(levels, k.col)
    <3>1. t = <<b>> \o <<key>>
      BY <2>2 DEF KeyTokens, key, b
    <3>2. /\ <<b>> \o <<key>> \in Seq(Tokens)
          /\ \A set : Count(<<b>> \o <<key>>, set) = Count(<<b>>, set) + Count(<<key>>, set)
      <4>1. <<b>> \o <<key>> \in Seq(Tokens)
        BY <2>1, ConcatProperties
      <4> QED
        BY <2>1, <4>1, CountConcat
    <3>3. /\ Count(<<b>>, StartTokens) = 1 /\ Count(<<key>>, StartTokens) = 0
          /\ Count(<<b>>, EndTokens) = 0 /\ Count(<<key>>, EndTokens) = 0
      BY <1>3, <1>6
    <3> HIDE DEF t
    <3>4. Count(t, StartTokens) = 1 + 0 /\ Count(t, EndTokens) = 0 + 0
      BY <3>1, <3>2, <3>3, Zenon
    <3>5. t \in Seq(Tokens)
      BY <3>1, <3>2
    <3> QED
      BY <2>2, <3>4, <3>5, LenProperties
  <2>3. CASE ~Opens(levels, k.col)
    <3>1. t = <<>> \o <<key>>
      BY <2>3 DEF KeyTokens, key
    <3>2. t = <<key>>
      BY <2>1, <3>1, ConcatEmptySeq
    <3> HIDE DEF t
    <3>3. Count(t, StartTokens) = 0 /\ Count(t, EndTokens) = 0
      BY <1>3, <1>6, <3>2
    <3> QED
      BY <2>1, <2>3, <3>2, <3>3, LenProperties
  <2> QED
    BY <2>2, <2>3
<1>8. before \in 0 .. Len(old)
  BY DEF old
<1>16. r = Inserted(old, before, t)
  BY DEF Inserted
<1> HIDE DEF t, r
<1>9. \A set : /\ r \in Seq(Tokens) /\ Len(r) = Len(old) + Len(t)
               /\ Count(r, set) = Count(old, set) + Count(t, set)
  <2>1. ASSUME NEW set
        PROVE  /\ r \in Seq(Tokens) /\ Len(r) = Len(old) + Len(t)
               /\ Count(r, set) = Count(old, set) + Count(t, set)
    BY <1>1, <1>7, <1>8, <1>16, CountInserted
  <2> QED
    BY <2>1, Zenon
<1> HIDE DEF r, more
<1>10. /\ Append(r, v) \in Seq(Tokens) /\ Len(Append(r, v)) = Len(r) + 1
       /\ \A set : Count(Append(r, v), set) = Count(r, set) + (IF v \in set THEN 1 ELSE 0)
  BY <1>3, <1>9, AppendProperties, CountAppend
<1> DEFINE queue == Append(r, v)
<1>11. /\ Count(queue, StartTokens) = Count(r, StartTokens) + 0
       /\ Count(queue, EndTokens) = Count(r, EndTokens) + 0
       /\ queue \in Seq(Tokens) /\ Len(queue) = Len(r) + 1
  BY <1>3, <1>10
<1> HIDE DEF queue
<1>12. more \in Nat
  BY DEF more
<1>13. /\ Len(queue) >= Len(old)
       /\ Count(queue, StartTokens) = Count(old, StartTokens) + more
       /\ Count(queue, EndTokens) = Count(old, EndTokens)
  BY <1>2, <1>7, <1>9, <1>11, <1>12
<1>14. Kept(Rolled(levels, k.col), queue)
  BY <1>11, <1>13, RolledLevels DEF old, more
<1>15. queue = r \o <<v>>
  BY <1>3, <1>9 DEF queue
<1> QED
  BY <1>14, <1>15 DEF r, v, t, old


-----------------------------------------------------------------------------
(* The simple keys *)

KeyRecords == [possible : BOOLEAN, required : BOOLEAN, number : Nat,
               line : Nat, index : Nat, col : Int]

IsMark(m) == m.line \in Nat /\ m.index \in Nat

\* Where a key is still to be inserted, or right behind the queue.
Within(keys, m, queue) ==
    \A i \in 1 .. Len(keys) :
        keys[i].possible /\ ~Stale(keys[i], m) =>
            keys[i].number - tokensParsed \in 0 .. Len(queue)

ScannerShape ==
    /\ tokensParsed \in Nat /\ flowLevel \in Nat
    /\ tokenAvailable \in BOOLEAN /\ streamStarted \in BOOLEAN
    /\ tokens \in Seq(Tokens)
    /\ tokenAvailable => tokens # <<>>
    /\ simpleKeys \in Seq(KeyRecords)
    /\ Len(simpleKeys) = IF streamStarted THEN flowLevel + 1 ELSE 0
    /\ streamStarted => LevelsShape(indents, tokens)
    /\ ~streamStarted => tokens = <<>> /\ flowLevel = 0 /\ indents = <<>>
    /\ Within(simpleKeys, mark, tokens)
    /\ tokenAvailable =>
          \A i \in 1 .. Len(simpleKeys) :
              simpleKeys[i].possible /\ ~Stale(simpleKeys[i], mark) =>
                  simpleKeys[i].number > tokensParsed

\* A key that is not stale yet was not stale before.
LEMMA StaleBefore ==
    ASSUME NEW k \in KeyRecords, NEW m, NEW n, IsMark(m), IsMark(n), IsBefore(m, n),
           ~Stale(k, n), k.possible
    PROVE  ~Stale(k, m)
<1>1. k.line \in Nat /\ k.index \in Nat /\ KeyLength \in Nat
  BY KeyLengthAssumption DEF KeyRecords
<1>2. /\ m.line \in Nat /\ m.index \in Nat /\ n.line \in Nat /\ n.index \in Nat
      /\ m.line <= n.line /\ m.index <= n.index
  BY DEF IsMark, IsBefore
<1>3. ~(k.line < n.line) /\ ~(k.index + KeyLength < n.index)
  BY DEF Stale
<1>4. ~(k.line < m.line) /\ ~(k.index + KeyLength < m.index)
  BY <1>1, <1>2, <1>3
<1> QED
  BY <1>4 DEF Stale

\* Keys that were dropped, a scanner that goes on and a queue that grows.
LEMMA WithinFewer ==
    ASSUME NEW old \in Seq(KeyRecords), NEW keys, NEW queue \in Seq(Tokens),
           NEW longer \in Seq(Tokens), Len(longer) >= Len(queue), tokensParsed \in Nat,
           NEW m, NEW n, IsMark(m), IsMark(n), IsBefore(m, n), Within(old, m, queue),
           \A i \in 1 .. Len(keys) :
               keys[i].possible => i \in 1 .. Len(old) /\ keys[i] = old[i]
    PROVE  Within(keys, n, longer)
<1>1. ASSUME NEW i \in 1 .. Len(keys), keys[i].possible, ~Stale(keys[i], n)
      PROVE  keys[i].number - tokensParsed \in 0 .. Len(longer)
  <2>1. i \in 1 .. Len(old) /\ keys[i] = old[i]
    BY <1>1
  <2>2. old[i] \in KeyRecords
    BY <2>1, ElementOfSeq
  <2>3. ~Stale(old[i], m)
    BY <1>1, <2>1, <2>2, StaleBefore
  <2>4. old[i].number - tokensParsed \in 0 .. Len(queue)
    BY <1>1, <2>1, <2>3 DEF Within
  <2>5. Len(queue) \in Nat /\ Len(longer) \in Nat
    BY LenProperties
  <2> QED
    BY <2>1, <2>4, <2>5
<1> QED
  BY <1>1 DEF Within

LEMMA FreshFields ==
    ASSUME simpleKeys \in Seq(KeyRecords), NEW m
    PROVE  /\ FreshKeys(m) \in Seq(KeyRecords)
           /\ Len(FreshKeys(m)) = Len(simpleKeys)
           /\ \A i \in 1 .. Len(simpleKeys) :
                 FreshKeys(m)[i].possible =>
                     FreshKeys(m)[i] = simpleKeys[i] /\ ~Stale(simpleKeys[i], m)
<1>1. /\ Len(simpleKeys) \in Nat /\ DOMAIN simpleKeys = 1 .. Len(simpleKeys)
      /\ \A i \in 1 .. Len(simpleKeys) : simpleKeys[i] \in KeyRecords
  BY LenProperties, ElementOfSeq
<1>2. \A k \in KeyRecords : /\ [k EXCEPT !.possible = FALSE] \in KeyRecords
                            /\ ~[k EXCEPT !.possible = FALSE].possible
  BY DEF KeyRecords
<1>3. FreshKeys(m) = [i \in 1 .. Len(simpleKeys) |->
                        IF Stale(simpleKeys[i], m)
                        THEN [simpleKeys[i] EXCEPT !.possible = FALSE]
                        ELSE simpleKeys[i]]
  BY <1>1 DEF FreshKeys
<1>4. \A i \in 1 .. Len(simpleKeys) :
         /\ FreshKeys(m)[i] \in KeyRecords
         /\ FreshKeys(m)[i].possible =>
                FreshKeys(m)[i] = simpleKeys[i] /\ ~Stale(simpleKeys[i], m)
  BY <1>1, <1>2, <1>3
<1>5. FreshKeys(m) \in [1 .. Len(simpleKeys) -> KeyRecords]
  BY <1>3, <1>4
<1>6. FreshKeys(m) \in Seq(KeyRecords) /\ Len(FreshKeys(m)) = Len(simpleKeys)
  BY <1>1, <1>5
<1> QED
  BY <1>4, <1>6

LEMMA RemoveFields ==
    ASSUME NEW keys \in Seq(KeyRecords), keys # <<>>
    PROVE  /\ RemoveKey(keys) \in Seq(KeyRecords)
           /\ Len(RemoveKey(keys)) = Len(keys)
           /\ \A i \in 1 .. Len(keys) :
                 RemoveKey(keys)[i].possible => RemoveKey(keys)[i] = keys[i]
<1>1. Len(keys) \in 1 .. Len(keys) /\ keys[Len(keys)] \in KeyRecords
  BY EmptySeq, ElementOfSeq
<1> DEFINE k == [keys[Len(keys)] EXCEPT !.possible = FALSE]
<1>2. k \in KeyRecords /\ ~k.possible
  BY <1>1 DEF KeyRecords
<1>3. RemoveKey(keys) = [keys EXCEPT ![Len(keys)] = k]
  BY DEF RemoveKey
<1> HIDE DEF k
<1>4. /\ RemoveKey(keys) \in Seq(KeyRecords) /\ Len(RemoveKey(keys)) = Len(keys)
      /\ \A j \in 1 .. Len(keys) :
            RemoveKey(keys)[j] = IF j = Len(keys) THEN k ELSE keys[j]
  BY <1>1, <1>2, <1>3, ExceptSeq
<1> QED
  BY <1>2, <1>4


\* The scanner may fetch; what it has to keep.
Standing == ScannerShape /\ InputShape /\ streamStarted /\ ~tokenAvailable
FetchWell ==
    /\ ScannerShape' /\ InputShape'
    /\ streamStarted' /\ Balance(indents, tokens)' = Balance(indents, tokens)

LEMMA MarkFields ==
    ASSUME InputShape
    PROVE  IsMark(mark) /\ IsMark(lexeme)
BY DEF InputShape, IsMark, IsLexeme

LEMMA KeysFields ==
    ASSUME Standing
    PROVE  /\ Keys \in Seq(KeyRecords) /\ Len(Keys) = flowLevel + 1 /\ Keys # <<>>
           /\ Last(Keys) \in KeyRecords
           /\ Last(Keys).possible /\ IsBefore(mark, lexeme) =>
                  Last(Keys).number - tokensParsed \in 0 .. Len(tokens)
<1>1. /\ simpleKeys \in Seq(KeyRecords) /\ Len(simpleKeys) = flowLevel + 1
      /\ flowLevel \in Nat /\ InputShape /\ Within(simpleKeys, mark, tokens)
  BY DEF Standing, ScannerShape
<1>2. /\ Keys \in Seq(KeyRecords) /\ Len(Keys) = Len(simpleKeys)
      /\ \A i \in 1 .. Len(simpleKeys) :
            Keys[i].possible => Keys[i] = simpleKeys[i] /\ ~Stale(simpleKeys[i], lexeme)
  BY <1>1, FreshFields DEF Keys
<1> HIDE DEF Keys
<1>3. Keys # <<>>
  <2>1. Len(Keys) # 0
    BY <1>1, <1>2
  <2> QED
    BY <2>1, EmptySeq
<1>4. /\ Len(Keys) \in 1 .. Len(simpleKeys) /\ Last(Keys) = Keys[Len(Keys)]
      /\ Last(Keys) \in KeyRecords
  BY <1>1, <1>2, ElementOfSeq DEF Last
<1>5. ASSUME Last(Keys).possible, IsBefore(mark, lexeme)
      PROVE  Last(Keys).number - tokensParsed \in 0 .. Len(tokens)
  <2> DEFINE i == Len(Keys)
             k == simpleKeys[i]
  <2>1. Last(Keys) = k /\ ~Stale(k, lexeme) /\ i \in 1 .. Len(simpleKeys) /\ k.possible
    BY <1>2, <1>4, <1>5
  <2>2. k \in KeyRecords
    BY <1>1, <2>1, ElementOfSeq
  <2> HIDE DEF k
  <2>3. ~Stale(k, mark)
    BY <1>1, <1>5, <2>1, <2>2, MarkFields, StaleBefore
  <2> QED
    BY <1>1, <2>1, <2>3 DEF Within, k
<1> QED
  BY <1>1, <1>2, <1>3, <1>4, <1>5

LEMMA KeysWithin ==
    ASSUME Standing, NEW m, IsMark(m), IsBefore(mark, m),
           NEW longer \in Seq(Tokens), Len(longer) >= Len(tokens)
    PROVE  Within(Keys, m, longer)
<1>1. /\ simpleKeys \in Seq(KeyRecords) /\ tokens \in Seq(Tokens) /\ tokensParsed \in Nat
      /\ Within(simpleKeys, mark, tokens) /\ InputShape
  BY DEF Standing, ScannerShape
<1>2. /\ Len(Keys) = Len(simpleKeys)
      /\ \A i \in 1 .. Len(simpleKeys) : Keys[i].possible => Keys[i] = simpleKeys[i]
  BY <1>1, FreshFields DEF Keys
<1> QED
  BY <1>1, <1>2, MarkFields, WithinFewer

LEMMA RemoveWithin ==
    ASSUME Standing, NEW m, IsMark(m), IsBefore(mark, m),
           NEW longer \in Seq(Tokens), Len(longer) >= Len(tokens)
    PROVE  /\ RemoveKey(Keys) \in Seq(KeyRecords) /\ Len(RemoveKey(Keys)) = flowLevel + 1
           /\ Within(RemoveKey(Keys), m, longer)
<1>1. tokensParsed \in Nat
  BY DEF Standing, ScannerShape
<1>2. Keys \in Seq(KeyRecords) /\ Len(Keys) = flowLevel + 1 /\ Keys # <<>>
  BY KeysFields
<1>3. /\ RemoveKey(Keys) \in Seq(KeyRecords) /\ Len(RemoveKey(Keys)) = Len(Keys)
      /\ \A i \in 1 .. Len(Keys) : RemoveKey(Keys)[i].possible => RemoveKey(Keys)[i] = Keys[i]
  BY <1>2, RemoveFields
<1>4. Within(Keys, m, longer)
  BY KeysWithin
<1>5. IsBefore(m, m) /\ Len(longer) >= Len(longer)
  BY LenProperties DEF IsBefore, IsMark
<1>6. \A i \in 1 .. Len(RemoveKey(Keys)) :
         RemoveKey(Keys)[i].possible => i \in 1 .. Len(Keys) /\ RemoveKey(Keys)[i] = Keys[i]
  BY <1>3
<1>7. Within(RemoveKey(Keys), m, longer)
  BY <1>1, <1>2, <1>3, <1>4, <1>5, <1>6, WithinFewer
<1> QED
  BY <1>2, <1>3, <1>7

\* The key that is saved is for the token that comes next.
LEMMA SaveWithin ==
    ASSUME Standing, NEW levels, Kept(levels, Queue(levels)),
           NEW m, IsMark(m), IsBefore(mark, m),
           NEW longer \in Seq(Tokens), Len(longer) >= Len(Queue(levels))
    PROVE  /\ SaveKey(Keys, levels) \in Seq(KeyRecords)
           /\ Len(SaveKey(Keys, levels)) = flowLevel + 1
           /\ Within(SaveKey(Keys, levels), m, longer)
<1>1. /\ tokensParsed \in Nat /\ flowLevel \in Nat /\ tokens \in Seq(Tokens) /\ InputShape
  BY DEF Standing, ScannerShape
<1>2. Keys \in Seq(KeyRecords) /\ Len(Keys) = flowLevel + 1 /\ Keys # <<>>
  BY KeysFields
<1>3. /\ Queue(levels) \in Seq(Tokens) /\ Len(Queue(levels)) >= Len(tokens)
      /\ Len(Queue(levels)) \in Nat /\ Len(tokens) \in Nat /\ Len(longer) \in Nat
  BY <1>1, LenProperties DEF Kept, LevelsShape
<1>4. Len(longer) >= Len(tokens)
  BY <1>3
<1>5. Within(Keys, m, longer)
  BY <1>4, KeysWithin
<1>6. CASE ~Allowed
  <2>1. SaveKey(Keys, levels) = Keys
    BY <1>6 DEF SaveKey
  <2> QED
    BY <1>2, <1>5, <2>1
<1>7. CASE Allowed
  <2> DEFINE k == [possible |-> TRUE,
                   required |-> flowLevel = 0 /\ Last(levels) = lexeme.col,
                   number   |-> tokensParsed + Len(Queue(levels)),
                   line     |-> lexeme.line,
                   index    |-> lexeme.index,
                   col      |-> lexeme.col]
             saved == SaveKey(Keys, levels)
  <2>1. /\ lexeme.line \in Nat /\ lexeme.index \in Nat /\ lexeme.col \in Int
        /\ tokensParsed + Len(Queue(levels)) \in Nat
    BY <1>1, <1>3 DEF InputShape, IsLexeme
  <2>2. k \in KeyRecords
    <3>1. (flowLevel = 0 /\ Last(levels) = lexeme.col) \in BOOLEAN
      OBVIOUS
    <3> QED
      BY <2>1, <3>1 DEF KeyRecords
  <2>3. k.number = tokensParsed + Len(Queue(levels))
    OBVIOUS
  <2>4. saved = [Keys EXCEPT ![Len(Keys)] = k]
    BY <1>7 DEF SaveKey
  <2>5. Len(Keys) \in 1 .. Len(Keys)
    BY <1>1, <1>2
  <2> HIDE DEF k, saved
  <2>6. /\ saved \in Seq(KeyRecords) /\ Len(saved) = Len(Keys)
        /\ \A j \in 1 .. Len(Keys) : saved[j] = IF j = Len(Keys) THEN k ELSE Keys[j]
    BY <1>2, <2>2, <2>4, <2>5, ExceptSeq
  <2>7. ASSUME NEW i \in 1 .. Len(saved), saved[i].possible, ~Stale(saved[i], m)
        PROVE  saved[i].number - tokensParsed \in 0 .. Len(longer)
    <3>1. CASE i = Len(Keys)
      <4>1. saved[i].number = tokensParsed + Len(Queue(levels))
        BY <2>3, <2>6, <2>7, <3>1
      <4> DEFINE number == saved[i].number
      <4>2. number = tokensParsed + Len(Queue(levels))
        BY <4>1
      <4> HIDE DEF number
      <4>3. number - tokensParsed \in 0 .. Len(longer)
        BY <1>1, <1>3, <4>2
      <4> QED
        BY <4>3 DEF number
    <3>2. CASE i # Len(Keys)
      BY <1>5, <2>6, <2>7, <3>2 DEF Within
    <3> QED
      BY <3>1, <3>2
  <2>8. Within(saved, m, longer)
    BY <2>7 DEF Within
  <2> QED
    BY <1>2, <2>6, <2>8 DEF saved
<1> QED
  BY <1>6, <1>7


-----------------------------------------------------------------------------
(* The fetchers *)

LEMMA FetchedStep ==
    ASSUME Standing, NEW queue, NEW keys, NEW allowed, NEW levels, NEW level \in Nat,
           NEW next, NEW m, Fetched(queue, keys, allowed, levels, level, next, m),
           Kept(levels, queue), keys \in Seq(KeyRecords), Len(keys) = level + 1,
           Within(keys, m, queue), InputShape'
    PROVE  FetchWell
<1>1. /\ tokens' = queue /\ simpleKeys' = keys /\ indents' = levels /\ flowLevel' = level
      /\ mark' = m /\ tokensParsed' = tokensParsed /\ tokenAvailable' = tokenAvailable
      /\ streamStarted' = streamStarted
  BY DEF Fetched, Advance
<1>2. /\ tokensParsed \in Nat /\ ~tokenAvailable /\ streamStarted
  BY DEF Standing, ScannerShape
<1>3. LevelsShape(levels, queue) /\ queue \in Seq(Tokens)
      /\ Balance(levels, queue) = Balance(indents, tokens)
  BY DEF Kept, LevelsShape
<1>4. Within(simpleKeys, mark, tokens)'
  BY <1>1 DEF Within, Stale
<1>5. LevelsShape(indents, tokens)'
  BY <1>1, <1>3 DEF LevelsShape
<1>6. ScannerShape'
  <2>1. /\ tokensParsed' \in Nat /\ flowLevel' \in Nat
        /\ tokenAvailable' = FALSE /\ streamStarted' = TRUE
        /\ tokens' \in Seq(Tokens) /\ simpleKeys' \in Seq(KeyRecords)
        /\ Len(simpleKeys') = flowLevel' + 1
    BY <1>1, <1>2, <1>3 DEF Standing, ScannerShape
  <2> QED
    BY <1>4, <1>5, <2>1 DEF ScannerShape
<1>7. Balance(indents, tokens)' = Balance(indents, tokens)
  BY <1>1, <1>3 DEF Balance
<1> QED
  BY <1>1, <1>2, <1>6, <1>7 DEF FetchWell

\* A lexeme that is not the last was read.
LEMMA ReadOn ==
    ASSUME Standing, lexeme.kind # "end", source' = source,
           NEW next \in Following(lexeme), NEW m \in {MarkAfter(lexeme), MarkAt(next)},
           Advance(next, m)
    PROVE  InputShape' /\ IsMark(m) /\ IsBefore(mark, m) /\ IsBefore(mark, lexeme)
<1>1. InputShape /\ IsBefore(mark, lexeme)
  BY DEF Standing, InputShape
<1>2. InputShape' /\ IsBefore(mark, m)
  BY <1>1, AdvanceStep
<1>3. mark' = m
  BY DEF Advance
<1> QED
  BY <1>1, <1>2, <1>3 DEF InputShape, IsMark

LEMMA LevelsKept ==
    ASSUME Standing, NEW column \in {-1, lexeme.col}
    PROVE  Kept(Unrolled(column), Queue(Unrolled(column)))
<1>1. LevelsShape(indents, tokens) /\ flowLevel \in Nat
  BY DEF Standing, ScannerShape
<1>2. column \in Int /\ column >= -1
  BY DEF Standing, InputShape, IsLexeme
<1> QED
  BY <1>1, <1>2, UnrolledKept

\* Tokens that begin and end no block.
OtherTokens == (Tokens \ StartTokens) \ EndTokens

LEMMA RemoveFetch ==
    ASSUME Standing, NEW levels, NEW queue, Kept(levels, queue), NEW t \in OtherTokens,
           NEW allowed, NEW next, NEW m, IsMark(m), IsBefore(mark, m), InputShape',
           Fetched(Append(queue, t), RemoveKey(Keys), allowed, levels, flowLevel, next, m)
    PROVE  FetchWell
<1>1. Kept(levels, Append(queue, t))
  BY AppendKept DEF OtherTokens
<1>2. Append(queue, t) \in Seq(Tokens) /\ Len(Append(queue, t)) >= Len(tokens)
  BY <1>1 DEF Kept, LevelsShape
<1>3. /\ RemoveKey(Keys) \in Seq(KeyRecords) /\ Len(RemoveKey(Keys)) = flowLevel + 1
      /\ Within(RemoveKey(Keys), m, Append(queue, t))
  BY <1>2, RemoveWithin
<1>4. flowLevel \in Nat
  BY DEF Standing, ScannerShape
<1> QED
  BY <1>1, <1>3, <1>4, FetchedStep

LEMMA SaveFetch ==
    ASSUME Standing, NEW levels, Kept(levels, Queue(levels)), NEW t \in OtherTokens,
           NEW allowed, NEW next, NEW m, IsMark(m), IsBefore(mark, m), InputShape',
           Fetched(Append(Queue(levels), t), SaveKey(Keys, levels), allowed, levels,
                   flowLevel, next, m)
    PROVE  FetchWell
<1>1. /\ Kept(levels, Append(Queue(levels), t))
      /\ Len(Append(Queue(levels), t)) = Len(Queue(levels)) + 1
  BY AppendKept DEF OtherTokens
<1>2. Append(Queue(levels), t) \in Seq(Tokens) /\ Queue(levels) \in Seq(Tokens)
  BY <1>1 DEF Kept, LevelsShape
<1>3. Len(Append(Queue(levels), t)) >= Len(Queue(levels))
  BY <1>1, <1>2, LenProperties
<1>4. /\ SaveKey(Keys, levels) \in Seq(KeyRecords) /\ Len(SaveKey(Keys, levels)) = flowLevel + 1
      /\ Within(SaveKey(Keys, levels), m, Append(Queue(levels), t))
  BY <1>2, <1>3, SaveWithin
<1>5. flowLevel \in Nat
  BY DEF Standing, ScannerShape
<1> QED
  BY <1>1, <1>4, <1>5, FetchedStep

\* The tokens of the indicators.
LEMMA Literals ==
    ASSUME NEW type \in TokenTypes \ (BlockStarts \cup {"block_end"}), NEW val \in Values
    PROVE  Token(type, val) \in OtherTokens
BY TokenFields DEF OtherTokens

LEMMA ValueFacts ==
    ASSUME Standing
    PROVE  /\ "" \in Values /\ lexeme.val \in Values
           /\ \A text : Recognized(text) \in Values
BY DEF Standing, InputShape, IsLexeme, Recognized, Values


LEMMA StreamEndFetch ==
    ASSUME Standing, FetchStreamEnd
    PROVE  FetchWell
<1> DEFINE levels == Unrolled(-1)
           m == [line  |-> lexeme.line + (IF lexeme.col # 0 THEN 1 ELSE 0),
                 index |-> lexeme.index]
           t == Token("stream_end", "")
<1>1. /\ lexeme.kind = "end"
      /\ Fetched(Append(Queue(levels), t), RemoveKey(Keys), FALSE, levels, flowLevel, lexeme, m)
  BY DEF FetchStreamEnd
<1>2. InputShape /\ IsLexeme(lexeme) /\ mark.line \in Nat /\ mark.index \in Nat
      /\ lexeme.line \in Nat /\ lexeme.index \in Nat
  BY DEF Standing, InputShape, IsLexeme
<1>3. /\ m.line = lexeme.line + (IF lexeme.col # 0 THEN 1 ELSE 0) /\ m.index = lexeme.index
  OBVIOUS
<1> HIDE DEF m
<1>4. m.line \in Nat /\ m.index \in Nat /\ m.line >= lexeme.line
  BY <1>2, <1>3
<1>5. IsMark(m) /\ IsBefore(mark, m)
  <2>1. CASE IsBefore(mark, lexeme)
    BY <1>2, <1>3, <1>4, <2>1 DEF IsMark, IsBefore
  <2>2. CASE mark.index = lexeme.index
             /\ mark.line = lexeme.line + (IF lexeme.col # 0 THEN 1 ELSE 0)
    BY <1>2, <1>3, <1>4, <2>2 DEF IsMark, IsBefore
  <2> QED
    BY <1>2, <2>1, <2>2 DEF InputShape
<1>6. /\ lexeme' = lexeme /\ mark' = m /\ source' = source
      /\ script' = (IF script # <<>> THEN Tail(script) ELSE script)
      /\ budget' = budget
  BY <1>1 DEF Fetched, Advance
<1>7. /\ script' \in Seq(Lexemes) /\ InOrder(script')
      /\ script' # <<>> => ComesAfter(Head(script'), lexeme)
  <2>1. CASE script = <<>>
    BY <1>2, <1>6, <2>1 DEF InputShape
  <2>2. CASE script # <<>>
    <3> DEFINE n == Head(script)
               h == Head(Tail(script))
    <3>1. /\ script' = Tail(script) /\ IsLexeme(n) /\ ComesAfter(n, lexeme)
          /\ Tail(script) \in Seq(Lexemes) /\ InOrder(Tail(script))
          /\ Tail(script) # <<>> => ComesAfter(h, n) /\ h.line \in Nat /\ h.index \in Nat
      <4>1. Tail(script) # <<>> => h \in Lexemes
        BY <1>2, <2>2, ScriptStep, HeadTailProperties
      <4>2. h \in Lexemes => h.line \in Nat /\ h.index \in Nat
        BY DEF Lexemes
      <4> QED
        BY <1>2, <1>6, <2>2, <4>1, <4>2, ScriptStep
    <3> HIDE DEF n, h
    <3>2. Tail(script) # <<>> => ComesAfter(h, lexeme)
      <4>1. /\ EndLine(lexeme) \in Nat /\ EndIndex(lexeme) \in Nat
            /\ EndLine(n) = n.line + n.lines /\ EndIndex(n) = n.index + n.length
            /\ n.line \in Nat /\ n.lines \in Nat /\ n.index \in Nat /\ n.length \in Nat
        <5>1. /\ lexeme.lines \in Nat /\ lexeme.length \in Nat
              /\ lexeme.line \in Nat /\ lexeme.index \in Nat
          BY <1>2 DEF IsLexeme
        <5>2. EndLine(lexeme) \in Nat /\ EndIndex(lexeme) \in Nat
          BY <5>1 DEF EndLine, EndIndex
        <5>3. /\ n.line \in Nat /\ n.lines \in Nat /\ n.index \in Nat /\ n.length \in Nat
          BY <3>1 DEF IsLexeme
        <5> QED
          BY <5>2, <5>3, Zenon DEF EndLine, EndIndex
      <4>2. n.line >= EndLine(lexeme) /\ n.index >= EndIndex(lexeme)
        BY <3>1 DEF ComesAfter
      <4>3. EndLine(n) >= EndLine(lexeme) /\ EndIndex(n) >= EndIndex(lexeme)
            /\ EndLine(n) \in Nat /\ EndIndex(n) \in Nat
        BY <4>1, <4>2
      <4>4. Tail(script) # <<>> => /\ h.line >= EndLine(n) /\ h.index >= EndIndex(n)
                                   /\ h.line \in Nat /\ h.index \in Nat
        BY <3>1 DEF ComesAfter
      <4> QED
        BY <4>1, <4>3, <4>4 DEF ComesAfter
    <3> QED
      BY <3>1, <3>2 DEF h
  <2> QED
    BY <2>1, <2>2
<1>8. InputShape'
  <2>1. \/ IsBefore(m, lexeme)
        \/ /\ lexeme.kind = "end" /\ m.index = lexeme.index
           /\ m.line = lexeme.line + (IF lexeme.col # 0 THEN 1 ELSE 0)
    BY <1>1, <1>3
  <2> QED
    BY <1>2, <1>4, <1>6, <1>7, <2>1 DEF InputShape
<1>9. t \in OtherTokens
  <2>1. "stream_end" \in TokenTypes \ (BlockStarts \cup {"block_end"}) /\ "" \in Values
    BY DEF TokenTypes, BlockStarts, Values
  <2> QED
    BY <2>1, Literals
<1>10. Kept(levels, Queue(levels))
  BY LevelsKept
<1> HIDE DEF levels, t
<1> QED
  BY <1>1, <1>5, <1>8, <1>9, <1>10, RemoveFetch

LEMMA ScannerErrorStep ==
    ASSUME Standing, ScannerError
    PROVE  FetchWell
<1>1. /\ UNCHANGED <<source, lexeme, script, budget, mark, tokens, tokensParsed,
                     tokenAvailable, streamStarted, indents, flowLevel, simpleKeys>>
  BY DEF ScannerError, inputVars, levelVars
<1>2. InputShape'
  BY <1>1 DEF Standing, InputShape
<1>3. Within(simpleKeys, mark, tokens)'
  BY <1>1 DEF Standing, ScannerShape, Within, Stale
<1>4. ScannerShape'
  BY <1>1, <1>3 DEF Standing, ScannerShape, LevelsShape
<1>5. Balance(indents, tokens)' = Balance(indents, tokens)
  BY <1>1 DEF Balance
<1> QED
  BY <1>1, <1>2, <1>4, <1>5 DEF FetchWell, Standing

\* An indicator that ends a simple key, or cannot be one.
LEMMA IndicatorFetch ==
    ASSUME Standing, lexeme.kind # "end", NEW next \in Following(lexeme),
           NEW m \in {MarkAfter(lexeme), MarkAt(next)},
           NEW levels, NEW queue, Kept(levels, queue), NEW t \in OtherTokens, NEW allowed,
           Fetched(Append(queue, t), RemoveKey(Keys), allowed, levels, flowLevel, next, m)
    PROVE  FetchWell
<1>1. Advance(next, m) /\ source' = source
  BY DEF Fetched
<1>2. InputShape' /\ IsMark(m) /\ IsBefore(mark, m)
  BY <1>1, ReadOn
<1> QED
  BY <1>2, RemoveFetch

LEMMA DirectiveFetch ==
    ASSUME Standing, FetchDirective \/ FetchDocumentIndicator \/ FetchBlockScalar
    PROVE  FetchWell
<1>1. \A type \in {"version_directive", "tag_directive", "document_start", "document_end",
                   "scalar"} :
         \A val \in Values : Token(type, val) \in OtherTokens
  <2>1. ASSUME NEW type \in {"version_directive", "tag_directive", "document_start",
                             "document_end", "scalar"}
        PROVE  type \in TokenTypes \ (BlockStarts \cup {"block_end"})
    BY DEF TokenTypes, BlockStarts
  <2> QED
    BY <2>1, Literals
<1>2. CASE FetchDirective
  <2> DEFINE levels == Unrolled(-1)
             t == ScanDirective
  <2>1. t \in OtherTokens
    BY <1>1, ValueFacts DEF ScanDirective
  <2>2. Kept(levels, Queue(levels))
    BY LevelsKept
  <2>3. lexeme.kind # "end"
    BY <1>2 DEF FetchDirective
  <2>4. PICK next \in Following(lexeme) :
          \/ ScannerError
          \/ Fetched(Append(Queue(levels), t), RemoveKey(Keys), FALSE, levels, flowLevel,
                     next, MarkAt(next))
    BY <1>2 DEF FetchDirective
  <2> HIDE DEF levels, t
  <2> QED
    BY <2>1, <2>2, <2>3, <2>4, IndicatorFetch, ScannerErrorStep
<1>3. CASE FetchDocumentIndicator
  <2> DEFINE levels == Unrolled(-1)
             type == IF lexeme.kind = "---" THEN "document_start" ELSE "document_end"
             t == Token(type, "")
  <2>1. t \in OtherTokens
    BY <1>1, ValueFacts
  <2>2. Kept(levels, Queue(levels))
    BY LevelsKept
  <2>3. lexeme.kind # "end"
    BY <1>3 DEF FetchDocumentIndicator
  <2>4. PICK next \in Following(lexeme) :
          Fetched(Append(Queue(levels), t), RemoveKey(Keys), FALSE, levels, flowLevel,
                  next, MarkAfter(lexeme))
    BY <1>3 DEF FetchDocumentIndicator
  <2> HIDE DEF levels, t
  <2> QED
    BY <2>1, <2>2, <2>3, <2>4, IndicatorFetch
<1>4. CASE FetchBlockScalar
  <2> DEFINE levels == Unrolled(lexeme.col)
             t == ScanBlockScalar
  <2>1. t \in OtherTokens
    BY <1>1, ValueFacts DEF ScanBlockScalar
  <2>2. Kept(levels, Queue(levels))
    BY LevelsKept
  <2>3. lexeme.kind # "end"
    BY <1>4 DEF FetchBlockScalar
  <2>4. PICK next \in Following(lexeme) :
          \/ ScannerError
          \/ Fetched(Append(Queue(levels), t), RemoveKey(Keys), TRUE, levels, flowLevel,
                     next, MarkAt(next))
    BY <1>4 DEF FetchBlockScalar
  <2> HIDE DEF levels, t
  <2> QED
    BY <2>1, <2>2, <2>3, <2>4, IndicatorFetch, ScannerErrorStep
<1> QED
  BY <1>2, <1>3, <1>4

LEMMA EntryFetch ==
    ASSUME Standing, FetchFlowEntry \/ FetchBlockEntry \/ FetchKey
    PROVE  FetchWell
<1> DEFINE levels == Unrolled(lexeme.col)
<1>1. Kept(levels, Queue(levels)) /\ lexeme.col \in Int
  BY LevelsKept DEF Standing, InputShape, IsLexeme
<1>2. \A type \in {"flow_entry", "block_entry", "key"} : Token(type, "") \in OtherTokens
  <2>1. ASSUME NEW type \in {"flow_entry", "block_entry", "key"}
        PROVE  type \in TokenTypes \ (BlockStarts \cup {"block_end"})
    BY DEF TokenTypes, BlockStarts
  <2> QED
    BY <2>1, ValueFacts, Literals
<1>3. \A type \in BlockStarts :
         Kept(Rolled(levels, lexeme.col), RolledQueue(levels, lexeme.col, type))
  BY <1>1, RolledKept
<1>4. lexeme.kind # "end"
  BY DEF FetchFlowEntry, FetchBlockEntry, FetchKey
<1>5. CASE FetchFlowEntry
  <2>1. PICK next \in Following(lexeme) :
          Fetched(Append(Queue(levels), Token("flow_entry", "")), RemoveKey(Keys), TRUE,
                  levels, flowLevel, next, MarkAfter(lexeme))
    BY <1>5 DEF FetchFlowEntry
  <2> HIDE DEF levels
  <2> QED
    BY <1>1, <1>2, <1>4, <2>1, IndicatorFetch
<1>6. CASE FetchBlockEntry
  <2> DEFINE queue == RolledQueue(levels, lexeme.col, "block_sequence_start")
             rolled == Rolled(levels, lexeme.col)
  <2>1. PICK next \in Following(lexeme) :
          Fetched(Append(queue, Token("block_entry", "")), RemoveKey(Keys), TRUE,
                  rolled, flowLevel, next, MarkAfter(lexeme))
    BY <1>6 DEF FetchBlockEntry
  <2>2. Kept(rolled, queue)
    BY <1>3 DEF BlockStarts
  <2> HIDE DEF queue, rolled
  <2> QED
    BY <1>2, <1>4, <2>1, <2>2, IndicatorFetch
<1>7. CASE FetchKey
  <2> DEFINE queue == RolledQueue(levels, lexeme.col, "block_mapping_start")
             rolled == Rolled(levels, lexeme.col)
             allowed == flowLevel = 0
  <2>1. PICK next \in Following(lexeme) :
          Fetched(Append(queue, Token("key", "")), RemoveKey(Keys), allowed,
                  rolled, flowLevel, next, MarkAfter(lexeme))
    BY <1>7 DEF FetchKey
  <2>2. Kept(rolled, queue)
    BY <1>3 DEF BlockStarts
  <2> HIDE DEF queue, rolled, allowed
  <2> QED
    BY <1>2, <1>4, <2>1, <2>2, IndicatorFetch
<1> QED
  BY <1>5, <1>6, <1>7


\* A token that may start a simple key.
LEMMA AtomFetch ==
    ASSUME Standing,
           FetchAnchor \/ FetchTag \/ FetchFlowScalar \/ FetchPlainScalar
    PROVE  FetchWell
<1> DEFINE levels == Unrolled(lexeme.col)
<1>1. Kept(levels, Queue(levels))
  BY LevelsKept
<1>2. \A type \in {"alias", "anchor", "tag", "scalar"} :
         \A val \in Values : Token(type, val) \in OtherTokens
  <2>1. ASSUME NEW type \in {"alias", "anchor", "tag", "scalar"}
        PROVE  type \in TokenTypes \ (BlockStarts \cup {"block_end"})
    BY DEF TokenTypes, BlockStarts
  <2> QED
    BY <2>1, Literals
<1>3. /\ ScanAnchor \in OtherTokens /\ ScanTag \in OtherTokens
      /\ ScanFlowScalar \in OtherTokens /\ ScanPlainScalar \in OtherTokens
  BY <1>2, ValueFacts DEF ScanAnchor, ScanTag, ScanFlowScalar, ScanPlainScalar
<1>4. lexeme.kind # "end"
  BY DEF FetchAnchor, FetchTag, FetchFlowScalar, FetchPlainScalar
<1>5. PICK t \in OtherTokens, allowed \in BOOLEAN, next \in Following(lexeme) :
        \E m \in {MarkAfter(lexeme), MarkAt(next)} :
            Fetched(Append(Queue(levels), t), SaveKey(Keys, levels), allowed, levels,
                    flowLevel, next, m)
  <2>1. CASE FetchPlainScalar
    <3>1. PICK next \in Following(lexeme) :
            Fetched(Append(Queue(levels), ScanPlainScalar), SaveKey(Keys, levels),
                    next.line > EndLine(lexeme), levels, flowLevel, next, MarkAt(next))
      BY <2>1 DEF FetchPlainScalar
    <3>2. (next.line > EndLine(lexeme)) \in BOOLEAN
      OBVIOUS
    <3> HIDE DEF levels
    <3> QED
      BY <1>3, <3>1, <3>2
  <2>2. ASSUME NEW t \in OtherTokens, Atom(t)
        PROVE  \E next \in Following(lexeme) :
                  Fetched(Append(Queue(levels), t), SaveKey(Keys, levels), FALSE, levels,
                          flowLevel, next, MarkAfter(lexeme))
    BY <2>2 DEF Atom
  <2>3. FetchPlainScalar \/ \E t \in OtherTokens : Atom(t)
    BY <1>3 DEF FetchAnchor, FetchTag, FetchFlowScalar
  <2> HIDE DEF levels
  <2>4. CASE \E t \in OtherTokens : Atom(t)
    BY <2>2, <2>4
  <2> QED
    BY <2>1, <2>3, <2>4
<1> HIDE DEF levels
<1>6. PICK m \in {MarkAfter(lexeme), MarkAt(next)} :
        Fetched(Append(Queue(levels), t), SaveKey(Keys, levels), allowed, levels,
                flowLevel, next, m)
  BY <1>5
<1>7. Advance(next, m) /\ source' = source
  BY <1>6 DEF Fetched
<1>8. InputShape' /\ IsMark(m) /\ IsBefore(mark, m)
  BY <1>4, <1>7, ReadOn
<1> QED
  BY <1>1, <1>6, <1>8, SaveFetch

\* One more key is no key, one less hides none.
LEMMA NoKeyWithin ==
    ASSUME NEW keys \in Seq(KeyRecords), NEW m, NEW queue, Within(keys, m, queue)
    PROVE  /\ Append(keys, NoKey) \in Seq(KeyRecords)
           /\ Len(Append(keys, NoKey)) = Len(keys) + 1
           /\ Within(Append(keys, NoKey), m, queue)
<1>1. NoKey \in KeyRecords /\ ~NoKey.possible
  BY DEF NoKey, KeyRecords
<1>2. /\ Append(keys, NoKey) \in Seq(KeyRecords)
      /\ Len(Append(keys, NoKey)) = Len(keys) + 1 /\ Len(keys) \in Nat
      /\ \A i \in 1 .. Len(keys) : Append(keys, NoKey)[i] = keys[i]
      /\ Append(keys, NoKey)[Len(keys) + 1] = NoKey
  BY <1>1, AppendProperties, LenProperties
<1> DEFINE r == Append(keys, NoKey)
           n == Len(keys)
<1> HIDE DEF r, n
<1>3. ASSUME NEW i \in 1 .. Len(r), r[i].possible, ~Stale(r[i], m)
      PROVE  r[i].number - tokensParsed \in 0 .. Len(queue)
  <2>1. i \in 1 .. n \/ i = n + 1
    BY <1>2 DEF r, n
  <2>2. i # n + 1
    BY <1>1, <1>2, <1>3 DEF r, n
  <2>3. i \in 1 .. Len(keys) /\ r[i] = keys[i]
    BY <1>2, <2>1, <2>2 DEF r, n
  <2> QED
    BY <1>3, <2>3 DEF Within
<1>4. Within(r, m, queue)
  BY <1>3 DEF Within
<1> QED
  BY <1>2, <1>4 DEF r

LEMMA FlowStartFetch ==
    ASSUME Standing, FetchFlowStart
    PROVE  FetchWell
<1> DEFINE levels == Unrolled(lexeme.col)
           t == Token(FlowStart[lexeme.kind], "")
           keys == SaveKey(Keys, levels)
<1>1. Kept(levels, Queue(levels))
  BY LevelsKept
<1>2. lexeme.kind \in {"[", "{"} /\ lexeme.kind # "end"
  BY DEF FetchFlowStart, FlowStart
<1>3. t \in OtherTokens
  <2>1. FlowStart[lexeme.kind] \in TokenTypes \ (BlockStarts \cup {"block_end"})
    BY <1>2 DEF FlowStart, TokenTypes, BlockStarts
  <2> QED
    BY <2>1, ValueFacts, Literals
<1>4. PICK next \in Following(lexeme) :
        Fetched(Append(Queue(levels), t), Append(keys, NoKey), TRUE, levels, flowLevel + 1,
                next, MarkAfter(lexeme))
  BY DEF FetchFlowStart
<1> DEFINE m == MarkAfter(lexeme)
<1> HIDE DEF levels, t, keys, m
<1>5. Advance(next, m) /\ source' = source
  BY <1>4 DEF Fetched, m
<1>6. InputShape' /\ IsMark(m) /\ IsBefore(mark, m)
  BY <1>2, <1>5, ReadOn DEF m
<1> DEFINE queue == Append(Queue(levels), t)
<1>7. Kept(levels, queue) /\ Len(queue) = Len(Queue(levels)) + 1
  BY <1>1, <1>3, AppendKept DEF OtherTokens
<1> HIDE DEF queue
<1>8. queue \in Seq(Tokens) /\ Len(queue) >= Len(Queue(levels))
  <2>1. queue \in Seq(Tokens) /\ Queue(levels) \in Seq(Tokens)
    BY <1>1, <1>7 DEF Kept, LevelsShape
  <2> QED
    BY <1>7, <2>1, LenProperties
<1>9. keys \in Seq(KeyRecords) /\ Len(keys) = flowLevel + 1 /\ Within(keys, m, queue)
  BY <1>1, <1>6, <1>8, SaveWithin DEF keys
<1>10. /\ Append(keys, NoKey) \in Seq(KeyRecords) /\ Len(Append(keys, NoKey)) = Len(keys) + 1
       /\ Within(Append(keys, NoKey), m, queue)
  BY <1>9, NoKeyWithin
<1>11. flowLevel + 1 \in Nat /\ Len(Append(keys, NoKey)) = (flowLevel + 1) + 1
  BY <1>9, <1>10 DEF Standing, ScannerShape
<1> QED
  BY <1>4, <1>6, <1>7, <1>10, <1>11, FetchedStep DEF m, queue

LEMMA FlowEndFetch ==
    ASSUME Standing, FetchFlowEnd
    PROVE  FetchWell
<1> DEFINE levels == Unrolled(lexeme.col)
           t == Token(FlowEnd[lexeme.kind], "")
           queue == Append(Queue(levels), t)
           removed == RemoveKey(Keys)
           keys == KeysOutside(removed)
           m == MarkAfter(lexeme)
<1>1. Kept(levels, Queue(levels))
  BY LevelsKept
<1>2. lexeme.kind \in {"]", "}"} /\ lexeme.kind # "end"
  BY DEF FetchFlowEnd, FlowEnd
<1>3. t \in OtherTokens
  <2>1. FlowEnd[lexeme.kind] \in TokenTypes \ (BlockStarts \cup {"block_end"})
    BY <1>2 DEF FlowEnd, TokenTypes, BlockStarts
  <2> QED
    BY <2>1, ValueFacts, Literals
<1>4. PICK next \in Following(lexeme) :
        Fetched(queue, keys, FALSE, levels, LevelOutside, next, m)
  BY DEF FetchFlowEnd
<1>5. Kept(levels, queue)
  <2> HIDE DEF levels, t
  <2> QED
    BY <1>1, <1>3, AppendKept DEF OtherTokens
<1> HIDE DEF levels, t, keys, m, removed, queue
<1>6. Advance(next, m) /\ source' = source
  BY <1>4 DEF Fetched
<1>7. InputShape' /\ IsMark(m) /\ IsBefore(mark, m)
  BY <1>2, <1>6, ReadOn DEF m
<1>8. queue \in Seq(Tokens) /\ Len(queue) >= Len(tokens)
  BY <1>5 DEF Kept, LevelsShape
<1>9. removed \in Seq(KeyRecords) /\ Len(removed) = flowLevel + 1 /\ Within(removed, m, queue)
  BY <1>7, <1>8, RemoveWithin DEF removed
<1>10. flowLevel \in Nat /\ tokensParsed \in Nat
  BY DEF Standing, ScannerShape
<1>11. /\ LevelOutside \in Nat /\ keys \in Seq(KeyRecords) /\ Len(keys) = LevelOutside + 1
       /\ Within(keys, m, queue)
  <2>1. CASE flowLevel > 0
    <3>1. keys = Front(removed) /\ LevelOutside = flowLevel - 1
      BY <2>1 DEF keys, KeysOutside, LevelOutside
    <3>2. removed # <<>>
      <4>1. Len(removed) # 0
        BY <1>9, <1>10
      <4> QED
        BY <4>1, EmptySeq
    <3>3. /\ keys \in Seq(KeyRecords) /\ Len(keys) = Len(removed) - 1
          /\ \A i \in 1 .. Len(removed) - 1 : keys[i] = removed[i]
      BY <1>9, <3>1, <3>2, FrontLast
    <3>4. LevelOutside \in Nat /\ Len(keys) = LevelOutside + 1
      BY <1>9, <1>10, <2>1, <3>1, <3>3
    <3>5. \A i \in 1 .. Len(keys) : i \in 1 .. Len(removed) /\ keys[i] = removed[i]
      BY <1>9, <1>10, <3>3
    <3>6. Within(keys, m, queue)
      <4>1. ASSUME NEW i \in 1 .. Len(keys), keys[i].possible, ~Stale(keys[i], m)
            PROVE  keys[i].number - tokensParsed \in 0 .. Len(queue)
        <5>1. i \in 1 .. Len(removed) /\ keys[i] = removed[i]
          BY <3>5
        <5> QED
          BY <1>9, <4>1, <5>1 DEF Within
      <4> QED
        BY <4>1 DEF Within
    <3> QED
      BY <3>3, <3>4, <3>6
  <2>2. CASE ~(flowLevel > 0)
    <3>1. keys = removed /\ LevelOutside = 0 /\ flowLevel = 0
      BY <1>10, <2>2 DEF keys, KeysOutside, LevelOutside
    <3> QED
      BY <1>9, <3>1
  <2> QED
    BY <2>1, <2>2
<1> QED
  BY <1>4, <1>5, <1>7, <1>11, FetchedStep


LEMMA SimpleValueFetch ==
    ASSUME Standing, FetchSimpleValue
    PROVE  FetchWell
<1> DEFINE levels == Unrolled(lexeme.col)
           k == Last(Keys)
           old == Queue(levels)
           before == k.number - tokensParsed
           queue == SubSeq(old, 1, before) \o KeyTokens(k, levels)
                        \o SubSeq(old, before + 1, Len(old)) \o <<Token("value", "")>>
           rolled == Rolled(levels, k.col)
           m == MarkAfter(lexeme)
<1>1. Kept(levels, old)
  BY LevelsKept
<1>2. lexeme.kind # "end" /\ k.possible
  BY DEF FetchSimpleValue
<1>3. PICK next \in Following(lexeme) :
        Fetched(queue, RemoveKey(Keys), FALSE, rolled, flowLevel, next, m)
  BY DEF FetchSimpleValue
<1>4. IsBefore(mark, lexeme)
  BY <1>2 DEF Standing, InputShape
<1>5. k.col \in Int /\ before \in 0 .. Len(old)
  <2>1. k \in KeyRecords /\ before \in 0 .. Len(tokens)
    BY <1>2, <1>4, KeysFields
  <2>2. Len(old) \in Nat /\ Len(tokens) \in Nat /\ Len(old) >= Len(tokens)
    BY <1>1, LenProperties DEF Kept, LevelsShape, Standing, ScannerShape
  <2>3. k.col \in Int
    BY <2>1 DEF KeyRecords
  <2> HIDE DEF k, before, old
  <2> QED
    BY <2>1, <2>2, <2>3
<1>6. Kept(rolled, queue)
  BY <1>1, <1>5, SimpleValueKept
<1> HIDE DEF levels, k, old, before, queue, rolled, m
<1>7. Advance(next, m) /\ source' = source
  BY <1>3 DEF Fetched
<1>8. InputShape' /\ IsMark(m) /\ IsBefore(mark, m)
  BY <1>2, <1>7, ReadOn DEF m
<1>9. queue \in Seq(Tokens) /\ Len(queue) >= Len(tokens)
  BY <1>6 DEF Kept, LevelsShape
<1>10. /\ RemoveKey(Keys) \in Seq(KeyRecords) /\ Len(RemoveKey(Keys)) = flowLevel + 1
       /\ Within(RemoveKey(Keys), m, queue)
  BY <1>8, <1>9, RemoveWithin
<1>11. flowLevel \in Nat
  BY DEF Standing, ScannerShape
<1> QED
  BY <1>3, <1>6, <1>8, <1>10, <1>11, FetchedStep

LEMMA ComplexValueFetch ==
    ASSUME Standing, FetchComplexValue
    PROVE  FetchWell
<1> DEFINE levels == Unrolled(lexeme.col)
           rolled == Rolled(levels, lexeme.col)
           old == RolledQueue(levels, lexeme.col, "block_mapping_start")
           t == Token("value", "")
           queue == Append(old, t)
           m == MarkAfter(lexeme)
           allowed == flowLevel = 0
<1>1. Kept(levels, Queue(levels)) /\ lexeme.col \in Int
  BY LevelsKept DEF Standing, InputShape, IsLexeme
<1>2. Kept(rolled, old)
  BY <1>1, RolledKept DEF BlockStarts
<1>3. lexeme.kind # "end"
  BY DEF FetchComplexValue
<1>4. PICK next \in Following(lexeme) :
        Fetched(queue, Keys, allowed, rolled, flowLevel, next, m)
  BY DEF FetchComplexValue
<1>5. t \in OtherTokens
  <2>1. "value" \in TokenTypes \ (BlockStarts \cup {"block_end"})
    BY DEF TokenTypes, BlockStarts
  <2> QED
    BY <2>1, ValueFacts, Literals
<1>6. Kept(rolled, queue)
  <2> HIDE DEF rolled, old, t
  <2> QED
    BY <1>2, <1>5, AppendKept DEF OtherTokens
<1> HIDE DEF levels, rolled, old, t, queue, m, allowed
<1>7. Advance(next, m) /\ source' = source
  BY <1>4 DEF Fetched
<1>8. InputShape' /\ IsMark(m) /\ IsBefore(mark, m)
  BY <1>3, <1>7, ReadOn DEF m
<1>9. queue \in Seq(Tokens) /\ Len(queue) >= Len(tokens)
  BY <1>6 DEF Kept, LevelsShape
<1>10. Keys \in Seq(KeyRecords) /\ Len(Keys) = flowLevel + 1 /\ Within(Keys, m, queue)
  BY <1>8, <1>9, KeysFields, KeysWithin
<1>11. flowLevel \in Nat
  BY DEF Standing, ScannerShape
<1> QED
  BY <1>4, <1>6, <1>8, <1>10, <1>11, FetchedStep

\* The first fetch makes the token that starts the stream.
LEMMA StreamStartFetch ==
    ASSUME ScannerShape, InputShape, ~tokenAvailable, FetchStreamStart
    PROVE  ScannerShape' /\ InputShape' /\ streamStarted' /\ Balance(indents, tokens)' = 1
<1> DEFINE t == Token("stream_start", "")
<1>1. /\ ~streamStarted /\ streamStarted' = TRUE /\ indents' = <<-1>>
      /\ simpleKeys' = Append(simpleKeys, NoKey) /\ tokens' = Append(tokens, t)
      /\ tokensParsed' = tokensParsed /\ tokenAvailable' = tokenAvailable
      /\ flowLevel' = flowLevel /\ source' = source
      /\ UNCHANGED <<lexeme, script, budget, mark>>
  BY DEF FetchStreamStart, inputVars
<1>2. /\ tokens = <<>> /\ flowLevel = 0 /\ simpleKeys \in Seq(KeyRecords)
      /\ Len(simpleKeys) = 0 /\ tokensParsed \in Nat /\ tokenAvailable \in BOOLEAN
      /\ tokens \in Seq(Tokens)
  BY <1>1 DEF ScannerShape
<1>3. InputShape'
  BY <1>1 DEF InputShape
<1>4. t \in Tokens /\ t \notin StartTokens /\ t \notin EndTokens
  <2>1. "stream_start" \in TokenTypes /\ "" \in Values /\ "stream_start" \notin BlockStarts
        /\ "stream_start" # "block_end"
    BY DEF TokenTypes, BlockStarts, Values
  <2> QED
    BY <2>1, TokenFields
<1> HIDE DEF t
<1>5. /\ tokens' \in Seq(Tokens)
      /\ Count(tokens', StartTokens) = 0 + 0 /\ Count(tokens', EndTokens) = 0 + 0
  <2>1. Append(tokens, t) \in Seq(Tokens)
    BY <1>2, <1>4, AppendProperties
  <2>2. \A set : Count(Append(tokens, t), set) = Count(tokens, set) + (IF t \in set THEN 1 ELSE 0)
    <3>1. tokens \in Seq(Tokens) /\ t \in Tokens
      BY <1>2, <1>4
    <3> QED
      BY <3>1, CountAppend
  <2>3. \A set : Count(tokens, set) = 0
    BY <1>2, CountEmpty
  <2> QED
    BY <1>1, <1>4, <2>1, <2>2, <2>3
<1>6. indents' \in Seq(Int) /\ indents' # <<>> /\ indents'[1] = -1 /\ Len(indents') = 1
  BY <1>1
<1>7. LevelsShape(indents, tokens)'
  BY <1>5, <1>6 DEF LevelsShape, Ascending
<1>8. Balance(indents, tokens)' = 1
  <2>1. Balance(indents, tokens)' = 1 - Count(tokens', StartTokens) + Count(tokens', EndTokens)
    BY <1>6 DEF Balance
  <2> QED
    BY <1>5, <2>1
<1>9. /\ simpleKeys' \in Seq(KeyRecords) /\ Len(simpleKeys') = 0 + 1
      /\ Within(simpleKeys, mark, tokens)'
  <2> DEFINE r == Append(simpleKeys, NoKey)
             q == Append(tokens, t)
  <2>1. Within(simpleKeys, mark, q)
    BY <1>2 DEF Within
  <2>2. r \in Seq(KeyRecords) /\ Len(r) = Len(simpleKeys) + 1 /\ Within(r, mark, q)
    BY <1>2, <2>1, NoKeyWithin
  <2> HIDE DEF r, q
  <2>3. Within(simpleKeys, mark, tokens)'
    BY <1>1, <2>2 DEF Within, Stale, r, q
  <2> QED
    BY <1>1, <1>2, <2>2, <2>3 DEF r
<1>10. ~tokenAvailable'
  BY <1>1
<1>11. flowLevel' = 0 /\ Len(simpleKeys') = flowLevel' + 1 /\ tokenAvailable' \in BOOLEAN
      /\ tokensParsed' \in Nat
  BY <1>1, <1>2, <1>9
<1>12. ScannerShape'
  BY <1>1, <1>5, <1>7, <1>9, <1>10, <1>11 DEF ScannerShape
<1> QED
  BY <1>1, <1>3, <1>8, <1>12

\* The head of the queue is given away when no key can begin there.
LEMMA EnoughStep ==
    ASSUME Standing, EnoughTokens
    PROVE  FetchWell
<1>1. CASE ScannerError
  BY <1>1, ScannerErrorStep
<1>2. CASE ~ScannerError
  <2>1. /\ tokens # <<>> /\ ~NeedMore /\ simpleKeys' = FreshKeys(mark) /\ tokenAvailable' = TRUE
        /\ UNCHANGED <<source, lexeme, script, budget, mark, tokens, tokensParsed,
                       streamStarted, indents, flowLevel>>
    BY <1>2 DEF EnoughTokens, inputVars
  <2>2. /\ simpleKeys \in Seq(KeyRecords) /\ tokensParsed \in Nat /\ flowLevel \in Nat
        /\ Within(simpleKeys, mark, tokens) /\ tokens \in Seq(Tokens) /\ streamStarted
        /\ LevelsShape(indents, tokens) /\ Len(simpleKeys) = flowLevel + 1 /\ InputShape
    BY DEF Standing, ScannerShape
  <2>3. /\ simpleKeys' \in Seq(KeyRecords) /\ Len(simpleKeys') = Len(simpleKeys)
        /\ \A i \in 1 .. Len(simpleKeys) :
              simpleKeys'[i].possible => simpleKeys'[i] = simpleKeys[i]
    BY <2>1, <2>2, FreshFields
  <2>4. ASSUME NEW i \in 1 .. Len(simpleKeys'), simpleKeys'[i].possible,
               ~Stale(simpleKeys'[i], mark)
        PROVE  /\ simpleKeys'[i].number - tokensParsed \in 0 .. Len(tokens)
               /\ simpleKeys'[i].number > tokensParsed
    <3> DEFINE k == simpleKeys[i]
    <3>1. i \in 1 .. Len(simpleKeys) /\ simpleKeys'[i] = k
      BY <2>3, <2>4
    <3>2. k.possible /\ ~Stale(k, mark) /\ k \in KeyRecords
      BY <2>2, <2>4, <3>1, ElementOfSeq
    <3>3. k.number - tokensParsed \in 0 .. Len(tokens)
      BY <2>2, <3>1, <3>2 DEF Within
    <3>4. k.number # tokensParsed
      <4>1. DOMAIN simpleKeys = 1 .. Len(simpleKeys)
        BY <2>2, LenProperties
      <4> QED
        BY <2>1, <3>1, <3>2, <4>1 DEF NeedMore, HeadMayBeKey
    <3> DEFINE number == k.number
    <3>5. number \in Nat /\ number # tokensParsed /\ number - tokensParsed \in 0 .. Len(tokens)
      BY <3>2, <3>3, <3>4 DEF KeyRecords
    <3> HIDE DEF number
    <3>6. number > tokensParsed
      BY <2>2, <3>5
    <3> QED
      BY <3>1, <3>3, <3>6 DEF number
  <2>5. Within(simpleKeys, mark, tokens)'
    BY <2>1, <2>4 DEF Within, Stale
  <2>6. \A i \in 1 .. Len(simpleKeys') :
           simpleKeys'[i].possible /\ ~Stale(simpleKeys[i], mark)' =>
               simpleKeys'[i].number > tokensParsed'
    BY <2>1, <2>4 DEF Stale
  <2>7. LevelsShape(indents, tokens)'
    BY <2>1, <2>2 DEF LevelsShape
  <2>8. ScannerShape'
    <3>1. /\ tokensParsed' \in Nat /\ flowLevel' \in Nat
          /\ tokenAvailable' = TRUE /\ streamStarted' = TRUE
          /\ tokens' \in Seq(Tokens) /\ tokens' # <<>> /\ simpleKeys' \in Seq(KeyRecords)
          /\ Len(simpleKeys') = flowLevel' + 1
      BY <2>1, <2>2, <2>3
    <3> QED
      BY <2>5, <2>6, <2>7, <3>1 DEF ScannerShape
  <2>9. InputShape'
    BY <2>1, <2>2 DEF InputShape
  <2> QED
    BY <2>1, <2>2, <2>8, <2>9 DEF FetchWell, Balance
<1> QED
  BY <1>1, <1>2

LEMMA FetchStep ==
    ASSUME ScannerShape, InputShape, ~tokenAvailable, FetchMoreTokens
    PROVE  /\ ScannerShape' /\ InputShape' /\ streamStarted'
           /\ Balance(indents, tokens)' = IF streamStarted THEN Balance(indents, tokens) ELSE 1
<1>1. CASE ~streamStarted
  <2>1. tokens = <<>>
    BY <1>1 DEF ScannerShape
  <2>2. FetchStreamStart
    BY <1>1, <2>1 DEF FetchMoreTokens, FetchNextToken, EnoughTokens
  <2> QED
    BY <1>1, <2>2, StreamStartFetch
<1>2. CASE streamStarted
  <2>1. Standing
    BY <1>2 DEF Standing
  <2>2. CASE EnoughTokens
    BY <1>2, <2>1, <2>2, EnoughStep DEF FetchWell
  <2>3. CASE FetchNextToken
    <3>1. CASE ScannerError
      BY <1>2, <2>1, <3>1, ScannerErrorStep DEF FetchWell
    <3>2. CASE ~ScannerError
      <4>1. \/ FetchStreamEnd
            \/ FetchDirective \/ FetchDocumentIndicator \/ FetchBlockScalar
            \/ FetchFlowStart
            \/ FetchFlowEnd
            \/ FetchFlowEntry \/ FetchBlockEntry \/ FetchKey
            \/ FetchSimpleValue
            \/ FetchComplexValue
            \/ FetchAnchor \/ FetchTag \/ FetchFlowScalar \/ FetchPlainScalar
        BY <1>2, <2>3, <3>2 DEF FetchNextToken, FetchStreamStart
      <4>2. FetchWell
        BY <2>1, <4>1, StreamEndFetch, DirectiveFetch, FlowStartFetch, FlowEndFetch,
           EntryFetch, SimpleValueFetch, ComplexValueFetch, AtomFetch
      <4> QED
        BY <1>2, <4>2 DEF FetchWell
    <3> QED
      BY <3>1, <3>2
  <2> QED
    BY <2>2, <2>3 DEF FetchMoreTokens
<1> QED
  BY <1>1, <1>2


-----------------------------------------------------------------------------
(* The parser and the queue *)

\* A step takes the head of the queue or leaves the scanner alone.
LEMMA QueueSteps ==
    ASSUME StateMachine
    PROVE  Skip \/ Stay \/ ParserError
<1>1. CASE ParseNode
  BY <1>1 DEF ParseNode, ParseAlias, ParseProperty, ParseContent
<1>2. CASE \/ ParseStreamStart \/ SkipDocumentEnd \/ ParseImplicitDocument
           \/ ParseDirective \/ ParseExplicitDocument \/ ParseStreamEnd
  BY <1>2 DEF ParseStreamStart, SkipDocumentEnd, ParseImplicitDocument, ParseDirective,
              ParseExplicitDocument, ParseStreamEnd
<1>3. CASE ParseDocumentContent \/ ParseDocumentEnd \/ OpenCollection
  BY <1>3 DEF ParseDocumentContent, ParseDocumentEnd, OpenCollection
<1>4. \A s : NodeOrEmpty(s) => Skip \/ Stay \/ ParserError
  BY DEF NodeOrEmpty, NodeThen
<1>5. CASE ParseBlockSequenceEntry \/ ParseBlockMappingKey \/ ParseIndentlessSequenceEntry
  BY <1>4, <1>5 DEF ParseBlockSequenceEntry, ParseBlockMappingKey, BlockEntry,
                    ParseIndentlessSequenceEntry, SkipIndicator, EndCollection
<1>6. CASE ParseBlockMappingValue \/ ParseFlowMappingValue \/ ParseFlowPairValue
  BY <1>4, <1>6 DEF ParseBlockMappingValue, ParseFlowMappingValue, ParseFlowPairValue,
                    ParseValue, SkipIndicator
<1>7. CASE ParseFlowSequenceEntry \/ ParseFlowPairKey \/ ParseFlowPairEnd
           \/ ParseFlowMappingKey \/ ParseFlowMappingEmptyValue
  BY <1>4, <1>7 DEF ParseFlowSequenceEntry, ParseFlowPairKey, ParseFlowPairEnd,
                    ParseFlowMappingKey, ParseFlowMappingEmptyValue, FlowCollection,
                    NodeThen, SkipIndicator, EndCollection
<1> QED
  BY <1>1, <1>2, <1>3, <1>5, <1>6, <1>7 DEF StateMachine

\* What the properties are about; the events and the error are not part of it.
readerVars == <<source, lexeme, script, budget, mark, tokens, tokensParsed, tokenAvailable,
                streamStarted, indents, flowLevel, simpleKeys>>

LEMMA ScannerUnchanged ==
    ASSUME ScannerShape, InputShape, UNCHANGED readerVars
    PROVE  /\ ScannerShape' /\ InputShape' /\ streamStarted' = streamStarted
           /\ tokens' = tokens
           /\ Balance(indents, tokens)' = Balance(indents, tokens)
<1>1. InputShape'
  BY DEF readerVars, InputShape
<1>2. Within(simpleKeys, mark, tokens)'
  BY DEF readerVars, ScannerShape, Within, Stale
<1>3. /\ UNCHANGED <<tokens, tokensParsed, tokenAvailable, streamStarted, indents, flowLevel,
                     simpleKeys, mark>>
  BY DEF readerVars
<1>4. tokenAvailable' =>
          \A i \in 1 .. Len(simpleKeys') :
              simpleKeys'[i].possible /\ ~Stale(simpleKeys[i], mark)' =>
                  simpleKeys'[i].number > tokensParsed'
  BY <1>3 DEF ScannerShape, Stale
<1>5. ScannerShape'
  BY <1>2, <1>3, <1>4 DEF ScannerShape, LevelsShape
<1> QED
  BY <1>1, <1>3, <1>5 DEF Balance

\* The keys that may still be inserted are behind the token that is taken.
LEMMA SkipScanner ==
    ASSUME ScannerShape, InputShape, tokenAvailable, Skip
    PROVE  /\ ScannerShape' /\ InputShape' /\ streamStarted /\ streamStarted'
           /\ Peek \in Tokens /\ tokens' = Tail(tokens) /\ tokens' # tokens
           /\ Balance(indents, tokens)' =
                 Balance(indents, tokens) + (IF Peek.type \in BlockStarts THEN 1 ELSE 0)
                                          - (IF Peek.type = "block_end" THEN 1 ELSE 0)
<1>1. /\ tokens # <<>> /\ tokens \in Seq(Tokens) /\ streamStarted
      /\ LevelsShape(indents, tokens) /\ tokensParsed \in Nat
      /\ simpleKeys \in Seq(KeyRecords)
  BY DEF ScannerShape
<1>2. /\ tokens' = Tail(tokens) /\ tokensParsed' = tokensParsed + 1 /\ tokenAvailable' = FALSE
      /\ UNCHANGED <<source, lexeme, script, budget, mark, streamStarted, indents, flowLevel,
                     simpleKeys>>
  BY DEF Skip, inputVars, levelVars
<1>3. /\ Tail(tokens) \in Seq(Tokens) /\ Len(Tail(tokens)) = Len(tokens) - 1
      /\ Len(tokens) \in Nat \ {0} /\ Peek \in Tokens
  BY <1>1, HeadTailProperties, EmptySeq DEF Peek
<1>4. InputShape'
  BY <1>2 DEF InputShape
<1>5. ASSUME NEW i \in 1 .. Len(simpleKeys), simpleKeys[i].possible, ~Stale(simpleKeys[i], mark)
      PROVE  simpleKeys[i].number - (tokensParsed + 1) \in 0 .. Len(Tail(tokens))
  <2> DEFINE number == simpleKeys[i].number
  <2>1. /\ number \in Nat /\ number > tokensParsed
        /\ number - tokensParsed \in 0 .. Len(tokens)
    <3>1. simpleKeys[i] \in KeyRecords
      BY <1>1, ElementOfSeq
    <3> QED
      BY <1>5, <3>1 DEF ScannerShape, Within, KeyRecords
  <2> HIDE DEF number
  <2>2. number - (tokensParsed + 1) \in 0 .. Len(Tail(tokens))
    BY <1>1, <1>3, <2>1
  <2> QED
    BY <2>2 DEF number
<1>6. Within(simpleKeys, mark, tokens)'
  BY <1>2, <1>5 DEF Within, Stale
<1>7. LevelsShape(indents, tokens)'
  BY <1>1, <1>2, <1>3 DEF LevelsShape
<1>8. ScannerShape'
  <2>1. /\ tokensParsed' \in Nat /\ tokenAvailable' = FALSE /\ streamStarted' = TRUE
        /\ tokens' \in Seq(Tokens) /\ flowLevel' \in Nat
        /\ simpleKeys' \in Seq(KeyRecords) /\ Len(simpleKeys') = flowLevel' + 1
    BY <1>1, <1>2, <1>3 DEF ScannerShape
  <2> QED
    BY <1>6, <1>7, <2>1 DEF ScannerShape
<1>9. tokens' # tokens
  <2> DEFINE n == Len(tokens)
  <2>1. tokens' = tokens => n = n - 1
    BY <1>2, <1>3, Zenon
  <2>2. n \in Nat
    BY <1>3
  <2> HIDE DEF n
  <2> QED
    BY <2>1, <2>2
<1>10. Balance(indents, tokens)' =
          Balance(indents, tokens) + (IF Peek.type \in BlockStarts THEN 1 ELSE 0)
                                   - (IF Peek.type = "block_end" THEN 1 ELSE 0)
  <2> DEFINE s == IF Peek.type \in BlockStarts THEN 1 ELSE 0
             e == IF Peek.type = "block_end" THEN 1 ELSE 0
  <2>1. \A set : /\ Count(Tail(tokens), set) \in Nat
                 /\ Count(tokens, set) = (IF Peek \in set THEN 1 ELSE 0) + Count(Tail(tokens), set)
    BY <1>1, CountTail DEF Peek
  <2>2. /\ (IF Peek \in StartTokens THEN 1 ELSE 0) = s
        /\ (IF Peek \in EndTokens THEN 1 ELSE 0) = e
    BY <1>3 DEF StartTokens, EndTokens
  <2>3. s \in Nat /\ e \in Nat
    OBVIOUS
  <2> HIDE DEF s, e
  <2>4. /\ Count(tokens, StartTokens) = s + Count(Tail(tokens), StartTokens)
        /\ Count(tokens, EndTokens) = e + Count(Tail(tokens), EndTokens)
        /\ Count(Tail(tokens), StartTokens) \in Nat /\ Count(Tail(tokens), EndTokens) \in Nat
    BY <2>1, <2>2, Zenon
  <2>5. Len(indents) \in Nat
    BY <1>1, BalanceType
  <2>6. Balance(indents, tokens)'
          = Len(indents) - Count(Tail(tokens), StartTokens) + Count(Tail(tokens), EndTokens)
    BY <1>2, Zenon DEF Balance
  <2>7. Balance(indents, tokens)' = Balance(indents, tokens) + s - e
    BY <2>3, <2>4, <2>5, <2>6 DEF Balance
  <2> QED
    BY <2>7 DEF s, e
<1> QED
  BY <1>1, <1>2, <1>3, <1>4, <1>8, <1>9, <1>10


-----------------------------------------------------------------------------
(* The reader: scanner and parser together *)

\* The marks are the collections that are open, the levels are the blocks
\* that are open or begun in the queue.
MarksCounted == marks = OpenIn(MarkedStates)
BlocksCounted ==
    OpenIn(BlockStates) = IF streamStarted THEN Balance(indents, tokens) - 1 ELSE 0

Reader == InputShape /\ ScannerShape /\ ParserShape /\ FirstShown /\ MarksCounted /\ BlocksCounted

LEMMA BalanceFact ==
    ASSUME ScannerShape, streamStarted
    PROVE  Balance(indents, tokens) \in Int
BY BalanceType DEF ScannerShape

LEMMA OpenFact ==
    ASSUME ParserShape
    PROVE  OpenIn(MarkedStates) \in Nat /\ OpenIn(BlockStates) \in Nat
<1>1. ASSUME NEW set \in CountedSets PROVE OpenIn(set) \in Nat
  <2>1. /\ Count(states, set) \in Nat
        /\ OpenIn(set) = Count(states, set) + Weight(state, call.at, set)
    BY OpenValue
  <2>2. Weight(state, call.at, set) \in Nat
    BY DEF Weight
  <2> QED
    BY <2>1, <2>2
<1> QED
  BY <1>1 DEF CountedSets

LEMMA ReaderFetch ==
    ASSUME Reader, ~tokenAvailable, FetchMoreTokens, UNCHANGED parserVars
    PROVE  Reader'
<1>1. /\ ScannerShape' /\ InputShape' /\ streamStarted'
      /\ Balance(indents, tokens)' = IF streamStarted THEN Balance(indents, tokens) ELSE 1
  BY FetchStep DEF Reader
<1>2. ParserShape' /\ FirstShown'
  BY DEF Reader, ParserShape, FirstShown, parserVars
<1>3. \A set : OpenIn(set)' = OpenIn(set)
  BY DEF OpenIn, Pending, parserVars
<1>4. MarksCounted'
  BY <1>3 DEF Reader, MarksCounted, parserVars
<1>5. BlocksCounted'
  <2>1. OpenIn(BlockStates)' = OpenIn(BlockStates)
    BY <1>3
  <2>2. OpenIn(BlockStates)' = Balance(indents, tokens)' - 1
    BY <1>1, <2>1 DEF Reader, BlocksCounted
  <2> QED
    BY <1>1, <2>2 DEF BlocksCounted
<1> QED
  BY <1>1, <1>2, <1>4, <1>5 DEF Reader

LEMMA ReaderParse ==
    ASSUME Reader, tokenAvailable, StateMachine
    PROVE  Reader'
<1>1. ScannerShape /\ InputShape /\ ParserShape /\ FirstShown
      /\ MarksCounted /\ BlocksCounted
  BY DEF Reader
<1>2. Peek \in Tokens /\ streamStarted
  <2>1. tokens # <<>> /\ tokens \in Seq(Tokens) /\ streamStarted
    BY <1>1 DEF ScannerShape
  <2> QED
    BY <2>1, HeadTailProperties DEF Peek
<1>3. ParserShape' /\ FirstShown' /\ (Steady \/ Opening \/ Closing)
  BY <1>1, <1>2, ParserStep DEF MayStep, StepsWell
<1>4. /\ OpenIn(MarkedStates) \in Nat /\ OpenIn(BlockStates) \in Nat
      /\ Balance(indents, tokens) \in Int
      /\ marks = OpenIn(MarkedStates) /\ OpenIn(BlockStates) = Balance(indents, tokens) - 1
  BY <1>1, <1>2, OpenFact, BalanceFact DEF MarksCounted, BlocksCounted
<1> DEFINE s == IF Peek.type \in BlockStarts THEN 1 ELSE 0
           e == IF Peek.type = "block_end" THEN 1 ELSE 0
           b == Balance(indents, tokens)
<1>5. s \in Nat /\ e \in Nat
  OBVIOUS
<1>6. CASE Skip
  <2>1. /\ ScannerShape' /\ InputShape' /\ streamStarted' /\ tokens' # tokens
        /\ b' = b + s - e
    BY <1>1, <1>6, SkipScanner
  <2>2. CASE Steady
    <3>1. s = 0 /\ e = 0 /\ marks' = marks
          /\ OpenIn(MarkedStates)' = OpenIn(MarkedStates)
          /\ OpenIn(BlockStates)' = OpenIn(BlockStates)
      BY <2>1, <2>2 DEF Steady, CountedSets
    <3> HIDE DEF s, e, b
    <3>2. marks' = OpenIn(MarkedStates)' /\ OpenIn(BlockStates)' = b' - 1
      BY <1>4, <2>1, <3>1 DEF b
    <3> QED
      BY <1>3, <2>1, <3>2 DEF Reader, MarksCounted, BlocksCounted, b
  <2>3. CASE Opening
    <3>1. e = 0 /\ marks' = marks + 1
          /\ OpenIn(MarkedStates)' = OpenIn(MarkedStates) + 1
          /\ OpenIn(BlockStates)' = OpenIn(BlockStates) + s
      BY <2>3 DEF Opening
    <3> HIDE DEF s, e
    <3>2. marks' = OpenIn(MarkedStates)' /\ OpenIn(BlockStates)' = b' - 1
      BY <1>4, <1>5, <2>1, <3>1
    <3> QED
      BY <1>3, <2>1, <3>2 DEF Reader, MarksCounted, BlocksCounted
  <2>4. CASE Closing
    <3>1. s = 0 /\ marks' = marks - 1
          /\ OpenIn(MarkedStates)' = OpenIn(MarkedStates) - 1
          /\ OpenIn(BlockStates)' = OpenIn(BlockStates) - e
      BY <2>4 DEF Closing
    <3> HIDE DEF s, e
    <3>2. marks' = OpenIn(MarkedStates)' /\ OpenIn(BlockStates)' = b' - 1
      BY <1>4, <1>5, <2>1, <3>1
    <3> QED
      BY <1>3, <2>1, <3>2 DEF Reader, MarksCounted, BlocksCounted
  <2> QED
    BY <1>3, <2>2, <2>3, <2>4
<1>7. CASE Stay \/ ParserError
  <2>1. UNCHANGED readerVars
    BY <1>7 DEF Stay, ParserError, scannerVars, inputVars, levelVars, readerVars
  <2>2. /\ ScannerShape' /\ InputShape' /\ streamStarted' = streamStarted
        /\ tokens' = tokens /\ b' = b
    BY <1>1, <2>1, ScannerUnchanged
  <2>3. tokens' # Tail(tokens)
    <3>1. tokens # <<>> /\ tokens \in Seq(Tokens)
      BY <1>1 DEF ScannerShape
    <3>2. Len(Tail(tokens)) = Len(tokens) - 1 /\ Len(tokens) \in Nat
      BY <3>1, HeadTailProperties, LenProperties
    <3> DEFINE n == Len(tokens)
    <3>3. tokens = Tail(tokens) => n = n - 1
      BY <3>2, Zenon
    <3>4. n \in Nat
      BY <3>2
    <3> HIDE DEF n
    <3>5. tokens # Tail(tokens)
      BY <3>3, <3>4
    <3> QED
      BY <2>2, <3>5
  <2>4. Steady
    BY <1>3, <2>3 DEF Opening, Closing
  <2>5. marks' = marks /\ OpenIn(MarkedStates)' = OpenIn(MarkedStates)
        /\ OpenIn(BlockStates)' = OpenIn(BlockStates)
    BY <2>4 DEF Steady, CountedSets
  <2>6. marks' = OpenIn(MarkedStates)' /\ OpenIn(BlockStates)' = b' - 1
    BY <1>4, <2>2, <2>5
  <2> QED
    BY <1>2, <1>3, <2>2, <2>6 DEF Reader, MarksCounted, BlocksCounted
<1> QED
  BY <1>6, <1>7, QueueSteps

\* The rest of the tool changes events and errors only.
LEMMA ReaderElsewhere ==
    ASSUME Reader, UNCHANGED readerVars, UNCHANGED <<state, states, marks, call>>
    PROVE  Reader'
<1>1. /\ ScannerShape' /\ InputShape' /\ streamStarted' = streamStarted
      /\ tokens' = tokens
      /\ Balance(indents, tokens)' = Balance(indents, tokens)
  BY ScannerUnchanged DEF Reader
<1>2. ParserShape' /\ FirstShown'
  BY DEF Reader, ParserShape, FirstShown, Peek, readerVars
<1>3. \A set : OpenIn(set)' = OpenIn(set)
  BY DEF OpenIn, Pending
<1>4. MarksCounted'
  BY <1>3 DEF Reader, MarksCounted
<1>5. BlocksCounted'
  BY <1>1, <1>3 DEF Reader, BlocksCounted
<1> QED
  BY <1>1, <1>2, <1>4, <1>5 DEF Reader

LEMMA ElsewhereSteps ==
    ASSUME Next, ~Parse
    PROVE  UNCHANGED readerVars /\ UNCHANGED <<state, states, marks, call>>
<1>1. CASE Load
  <2>1. ComposerError => UNCHANGED readerVars /\ UNCHANGED <<state, states, marks, call>>
    BY DEF ComposerError, inputVars, levelVars, parserVars, readerVars
  <2>2. \A n : CallParseThen(n) => UNCHANGED readerVars /\ UNCHANGED <<state, states, marks, call>>
    BY DEF CallParseThen, scannerVars, inputVars, levelVars, readerVars
  <2>3. \A how : Returned(how) => UNCHANGED readerVars /\ UNCHANGED <<state, states, marks, call>>
    BY DEF Returned, scannerVars, inputVars, levelVars, parserVars, readerVars
  <2>4. \A i, all, c : Attach(i, all, c) =>
           UNCHANGED readerVars /\ UNCHANGED <<state, states, marks, call>>
    BY <2>2 DEF Attach
  <2> QED
    BY <1>1, <2>1, <2>2, <2>3, <2>4
       DEF Load, LoadStart, LoadDocumentEnd, LoadAlias, LoadScalar, LoadCollection,
           LoadCollectionEnd
<1>2. CASE LoadNext
  BY <1>2 DEF LoadNext, CallParseThen, scannerVars, inputVars, levelVars, readerVars
<1>3. CASE Loaded \/ LoadFailed \/ NoMoreDocuments \/ Traverse \/ WriteMap \/ Ended
  BY <1>3 DEF Loaded, LoadFailed, NoMoreDocuments, Traverse, WriteMap, Ended,
              scannerVars, inputVars, levelVars, parserVars, readerVars
<1> QED
  BY <1>1, <1>2, <1>3 DEF Next, Read

LEMMA ReaderNext ==
    ASSUME Reader, [Next]_vars
    PROVE  Reader'
<1>1. CASE Parse
  BY <1>1, ReaderFetch, ReaderParse DEF Parse
<1>2. CASE Next /\ ~Parse
  BY <1>2, ElsewhereSteps, ReaderElsewhere
<1>3. CASE UNCHANGED vars
  <2>1. UNCHANGED readerVars /\ UNCHANGED <<state, states, marks, call>>
    BY <1>3 DEF vars, scannerVars, inputVars, levelVars, parserVars, readerVars
  <2> QED
    BY <2>1, ReaderElsewhere
<1> QED
  BY <1>1, <1>2, <1>3


LEMMA ReaderInit ==
    ASSUME Init
    PROVE  Reader
<1>1. /\ source \in Sources /\ ParserInit
      /\ mark = [line |-> 0, index |-> 0] /\ tokens = <<>> /\ tokensParsed = 0
      /\ tokenAvailable = FALSE /\ streamStarted = FALSE /\ indents = <<>> /\ flowLevel = 0
      /\ simpleKeys = <<>>
  BY DEF Init, ScannerInit
<1>2. /\ IsLexeme(lexeme) /\ script \in Seq(Lexemes) /\ InOrder(script)
      /\ script # <<>> => ComesAfter(Head(script), lexeme)
      /\ budget \in Nat /\ (budget > 0 => source.free > 0)
  <2>1. /\ source.free \in Nat
        /\ source.free > 0 => source.words \subseteq FreeWords
        /\ source.free = 0 => source.lexemes \in Seq(Lexemes) \ {<<>>} /\ InOrder(source.lexemes)
    BY <1>1, SourcesAssumption
  <2>2. CASE source.free > 0
    <3>1. PICK w \in source.words :
            lexeme = At(w, 0, 0, 0) /\ script = <<>> /\ budget = source.free - 1
      BY <2>2 DEF Init, ScannerInit
    <3>2. w.val \in Values /\ w.lines \in Nat /\ w.length \in Nat
      BY <2>1, <2>2 DEF FreeWords, Values
    <3>3. /\ lexeme.val = w.val /\ lexeme.lines = w.lines /\ lexeme.length = w.length
          /\ lexeme.line = 0 /\ lexeme.col = 0 /\ lexeme.index = 0
      BY <3>1 DEF At
    <3>4. IsLexeme(lexeme)
      BY <3>2, <3>3 DEF IsLexeme
    <3>5. script \in Seq(Lexemes) /\ InOrder(script)
      BY <3>1 DEF InOrder
    <3>6. budget \in Nat
      BY <2>1, <2>2, <3>1
    <3> QED
      BY <2>2, <3>1, <3>4, <3>5, <3>6
  <2>3. CASE ~(source.free > 0)
    <3> DEFINE text == source.lexemes
    <3>1. text \in Seq(Lexemes) /\ text # <<>> /\ InOrder(text)
      BY <2>1, <2>3
    <3>2. lexeme = Head(text) /\ script = Tail(text) /\ budget = 0
      BY <2>3 DEF Init, ScannerInit
    <3> HIDE DEF text
    <3>3. /\ IsLexeme(Head(text)) /\ Tail(text) \in Seq(Lexemes) /\ InOrder(Tail(text))
          /\ Tail(text) # <<>> => ComesAfter(Head(Tail(text)), Head(text))
      BY <3>1, TextStep
    <3> QED
      BY <3>2, <3>3
  <2> QED
    BY <2>2, <2>3
<1>3. mark.line = 0 /\ mark.index = 0
  BY <1>1
<1>4. InputShape
  <2>1. IsBefore(mark, lexeme)
    BY <1>2, <1>3 DEF IsBefore, IsLexeme
  <2> QED
    BY <1>1, <1>2, <1>3, <2>1 DEF InputShape
<1>5. ScannerShape
  <2>1. simpleKeys \in Seq(KeyRecords) /\ tokens \in Seq(Tokens) /\ Len(simpleKeys) = 0
    BY <1>1, EmptySeq
  <2>2. Within(simpleKeys, mark, tokens)
    BY <2>1 DEF Within
  <2>3. /\ tokensParsed \in Nat /\ flowLevel \in Nat /\ flowLevel = 0
        /\ tokenAvailable \in BOOLEAN /\ streamStarted \in BOOLEAN
        /\ ~tokenAvailable /\ ~streamStarted /\ tokens = <<>> /\ indents = <<>>
    BY <1>1
  <2> QED
    BY <2>1, <2>2, <2>3 DEF ScannerShape
<1>6. /\ state = "stream_start" /\ states = <<>> /\ marks = 0 /\ call = Enter
  BY <1>1 DEF ParserInit
<1>7. ParserShape
  <2>1. states \in Seq(AllStates) /\ Len(states) = 0 /\ state \in Outside
        /\ state \in AllStates /\ state \notin FirstStates
    BY <1>6 DEF Outside, AllStates, FirstStates
  <2> QED
    BY <1>6, <2>1, CallFields DEF ParserShape
<1>8. FirstShown
  BY <1>6 DEF FirstShown, FirstStates
<1>9. ASSUME NEW set \in CountedSets PROVE OpenIn(set) = 0
  <2>1. Count(states, set) = 0
    BY <1>6, CountEmpty
  <2>2. Weight(state, call.at, set) = 0
    BY <1>6, <1>9 DEF Weight, CountedSets, MarkedStates, BlockStates, FirstStates
  <2>3. OpenIn(set) = Count(states, set) + Weight(state, call.at, set)
    BY <1>7, OpenValue
  <2> QED
    BY <2>1, <2>2, <2>3
<1>10. MarksCounted /\ BlocksCounted
  BY <1>1, <1>6, <1>9 DEF MarksCounted, BlocksCounted, CountedSets
<1> QED
  BY <1>4, <1>5, <1>7, <1>8, <1>10 DEF Reader

\* For every set of texts, whatever is fed to the tool, scanner and parser
\* keep the counts of their stacks and of the queue between them.
THEOREM ReaderKept == Spec => []Reader
<1>1. Init => Reader
  BY ReaderInit
<1>2. Reader /\ [Next]_vars => Reader'
  BY ReaderNext
<1> QED
  BY <1>1, <1>2, PTL DEF Spec

-----------------------------------------------------------------------------
\* POP never takes from an empty stack: the stack of states ends in the end of
\* the document exactly while a document is open, and parser->marks has one
\* mark for each collection with a token of its own, whatever was read.
THEOREM StacksKept == Spec => []StacksInStep
<1>1. Reader => StacksInStep
  BY DEF Reader, ParserShape, MarksCounted, StacksInStep, Outside
<1> QED
  BY <1>1, ReaderKept, PTL

\* yaml_parser_fetch_more_tokens hands a token over only when no simple key of
\* any flow level can still begin there: what the ":" inserts is always at or
\* behind the head of the queue, and never before a token the parser has.
THEOREM KeysKept == Spec => []KeysAhead
<1>1. Reader => KeysAhead
  <2>1. ASSUME Reader PROVE KeysAhead
    <3>1. simpleKeys \in Seq(KeyRecords) /\ Within(simpleKeys, mark, tokens)
      BY <2>1 DEF Reader, ScannerShape
    <3>2. DOMAIN simpleKeys = 1 .. Len(simpleKeys)
      BY <3>1, LenProperties
    <3> QED
      BY <2>1, <3>1, <3>2 DEF Reader, ScannerShape, Within, KeysAhead
  <2> QED
    BY <2>1
<1> QED
  BY <1>1, ReaderKept, PTL

\* yaml_parser_unroll_indent ends exactly the blocks that yaml_parser_roll_indent
\* began: the levels are the blocks the parser has open and those whose start
\* waits in the queue, less those whose end does.
THEOREM BlocksKept == Spec => []BlocksInStep
<1>1. Reader => BlocksInStep
  <2>1. SUFFICES ASSUME Reader, streamStarted
                 PROVE  Len(indents) - 1 =
                           OpenIn(BlockStates)
                           + Queued({"block_sequence_start", "block_mapping_start"})
                           - Queued({"block_end"})
    BY DEF BlocksInStep
  <2>2. /\ tokens \in Seq(Tokens) /\ LevelsShape(indents, tokens)
        /\ OpenIn(BlockStates) = Balance(indents, tokens) - 1
    BY <2>1 DEF Reader, ScannerShape, BlocksCounted
  <2>3. \A i \in DOMAIN tokens : tokens[i] \in Tokens
    BY <2>2, LenProperties, ElementOfSeq
  <2>4. /\ Queued({"block_sequence_start", "block_mapping_start"}) = Count(tokens, StartTokens)
        /\ Queued({"block_end"}) = Count(tokens, EndTokens)
    <3>1. {i \in DOMAIN tokens : tokens[i].type \in {"block_sequence_start", "block_mapping_start"}}
            = {i \in DOMAIN tokens : tokens[i] \in StartTokens}
      BY <2>3 DEF StartTokens, BlockStarts
    <3>2. {i \in DOMAIN tokens : tokens[i].type \in {"block_end"}}
            = {i \in DOMAIN tokens : tokens[i] \in EndTokens}
      BY <2>3 DEF EndTokens
    <3> QED
      BY <3>1, <3>2, Zenon DEF Queued, Count
  <2>5. /\ Len(indents) \in Nat /\ Count(tokens, StartTokens) \in Nat
        /\ Count(tokens, EndTokens) \in Nat
    BY <2>2, BalanceType
  <2> DEFINE opened == OpenIn(BlockStates)
             levels == Len(indents)
             starts == Count(tokens, StartTokens)
             ends == Count(tokens, EndTokens)
  <2>6. opened = (levels - starts + ends) - 1
    BY <2>2 DEF Balance
  <2> HIDE DEF opened, levels, starts, ends
  <2>7. levels - 1 = opened + starts - ends
    BY <2>5, <2>6 DEF levels, starts, ends
  <2> QED
    BY <2>4, <2>7 DEF opened, levels, starts, ends
<1> QED
  BY <1>1, ReaderKept, PTL

-----------------------------------------------------------------------------
(* The collections that the parser and the loader have open *)

\* What an open collection waits for: its next item, a key or the end, or the
\* value of its key.
Role(all, o) == IF all[o.index].kind = "sequence" THEN "item"
                ELSE IF o.key = 0 THEN "key" ELSE "value"
RolesOf(all, collections) ==
    [i \in 1 .. Len(collections) |-> Role(all, collections[i])]
Turned(role) == IF role = "item" THEN "item" ELSE IF role = "key" THEN "value" ELSE "key"

\* Whose collection a state of the parser belongs to, and what that collection
\* waits for when the state is the current one; a state that waits for a node
\* on the stack, or follows one, goes on when the node has been taken.
\* A single pair in a flow sequence is a mapping of its own: it counts twice.
SequenceStates ==
    {"block_sequence_first_entry", "block_sequence_entry", "indentless_sequence_entry",
     "flow_sequence_first_entry", "flow_sequence_entry"}
KeyStates ==
    {"block_mapping_first_key", "block_mapping_key", "flow_mapping_first_key",
     "flow_mapping_key", "flow_sequence_entry_mapping_key",
     "flow_sequence_entry_mapping_end"}
PairStates ==
    {"flow_sequence_entry_mapping_key", "flow_sequence_entry_mapping_value",
     "flow_sequence_entry_mapping_end"}
WaitStates == {"document_end"} \cup EntryStates
StartStates ==
    FirstStates \cup {"indentless_sequence_entry", "flow_sequence_entry_mapping_key"}
Width(s) == IF s \in PairStates THEN 2
            ELSE IF s \in FirstStates \cup EntryStates THEN 1 ELSE 0
Now(s) == IF s \in SequenceStates THEN "item"
          ELSE IF s \in KeyStates THEN "key" ELSE "value"
Waits(s) == Turned(Now(s))

\* The last w of the first n roles are those of one state.
Fits(rs, n, w, role) ==
    /\ w <= n
    /\ w >= 1 => rs[n] = role
    /\ w = 2 => rs[n - 1] = "item"

\* The first m roles are those that the states of a stack wait for: d[i] of
\* them belong to the lowest i states.
Matches(ss, rs, m) ==
    \E d \in [0 .. Len(ss) -> 0 .. m] :
        /\ d[0] = 0 /\ d[Len(ss)] = m
        /\ \A i, j \in 0 .. Len(ss) : i <= j => d[i] <= d[j]
        /\ \A i \in 1 .. Len(ss) :
              /\ d[i] = d[i - 1] + Width(ss[i])
              /\ Fits(rs, d[i], Width(ss[i]), Waits(ss[i]))
Agree(ss, rs, n, w, role) == Fits(rs, n, w, role) /\ Matches(ss, rs, n - w)

LEMMA WidthType == ASSUME NEW s PROVE Width(s) \in 0 .. 2
BY DEF Width

LEMMA MatchNone ==
    ASSUME NEW rs, NEW n \in Nat
    PROVE  Matches(<<>>, rs, n) <=> n = 0
<1>1. Len(<<>>) = 0
  OBVIOUS
<1>2. ASSUME n = 0 PROVE Matches(<<>>, rs, n)
  <2> DEFINE d == [i \in 0 .. 0 |-> 0]
  <2>1. d \in [0 .. 0 -> 0 .. n] /\ d[0] = 0
    BY <1>2
  <2> HIDE DEF d
  <2>2. \A i, j \in 0 .. 0 : i <= j => d[i] <= d[j]
    BY <2>1
  <2> QED
    BY <1>1, <1>2, <2>1, <2>2 DEF Matches
<1> QED
  BY <1>1, <1>2 DEF Matches

LEMMA MatchPush ==
    ASSUME NEW S, NEW ss \in Seq(S), NEW s \in S, NEW rs, NEW n \in Nat,
           Agree(ss, rs, n, Width(s), Waits(s))
    PROVE  Matches(Append(ss, s), rs, n)
<1> DEFINE k == Len(ss)
           w == Width(s)
           t == Append(ss, s)
<1>1. k \in Nat /\ Len(t) = k + 1 /\ t[k + 1] = s
  BY LenProperties, AppendProperties
<1>2. \A i \in 1 .. k : t[i] = ss[i]
  BY AppendProperties
<1>3. w \in 0 .. 2 /\ w <= n /\ Fits(rs, n, w, Waits(s))
  BY WidthType DEF Agree, Fits
<1>4. PICK d \in [0 .. k -> 0 .. (n - w)] :
        /\ d[0] = 0 /\ d[k] = n - w
        /\ \A i, j \in 0 .. k : i <= j => d[i] <= d[j]
        /\ \A i \in 1 .. k : /\ d[i] = d[i - 1] + Width(ss[i])
                             /\ Fits(rs, d[i], Width(ss[i]), Waits(ss[i]))
  BY DEF Agree, Matches
<1> DEFINE e == [i \in 0 .. (k + 1) |-> IF i <= k THEN d[i] ELSE n]
<1>5. \A i \in 0 .. k : d[i] \in Nat /\ d[i] <= n - w /\ e[i] = d[i]
  BY <1>1, <1>3, <1>4
<1>6. e[k + 1] = n
  BY <1>1
<1> HIDE DEF k, w, t
<1>7. e \in [0 .. (k + 1) -> 0 .. n]
  BY <1>1, <1>3, <1>5
<1> HIDE DEF e
<1>8. e[0] = 0
  BY <1>1, <1>4, <1>5
<1>9. \A i, j \in 0 .. (k + 1) : i <= j => e[i] <= e[j]
  <2>1. \A i, j \in 0 .. k : i <= j => e[i] <= e[j]
    BY <1>4, <1>5
  <2>2. \A i \in 0 .. k : e[i] \in Nat /\ e[i] <= n
    BY <1>3, <1>5
  <2> QED
    BY <1>1, <1>6, <2>1, <2>2
<1>10. ASSUME NEW i \in 1 .. (k + 1)
       PROVE  /\ e[i] = e[i - 1] + Width(t[i])
              /\ Fits(rs, e[i], Width(t[i]), Waits(t[i]))
  <2>1. CASE i \in 1 .. k
    <3>1. i \in 0 .. k /\ i - 1 \in 0 .. k
      BY <1>1, <2>1
    <3>2. e[i] = d[i] /\ e[i - 1] = d[i - 1] /\ t[i] = ss[i]
      BY <1>2, <1>5, <2>1, <3>1
    <3>3. d[i] = d[i - 1] + Width(ss[i]) /\ Fits(rs, d[i], Width(ss[i]), Waits(ss[i]))
      BY <1>4, <2>1
    <3> QED
      BY <3>2, <3>3
  <2>2. CASE i = k + 1
    <3>1. k \in 0 .. k /\ i - 1 = k
      BY <1>1, <2>2
    <3>2. e[i - 1] = n - w /\ e[i] = n /\ t[i] = s
      BY <1>1, <1>4, <1>5, <1>6, <2>2, <3>1
    <3>3. e[i] = e[i - 1] + w
      BY <1>3, <3>2
    <3> QED
      BY <1>3, <3>2, <3>3 DEF w
  <2> QED
    BY <1>1, <2>1, <2>2
<1> QED
  BY <1>1, <1>6, <1>7, <1>8, <1>9, <1>10 DEF Matches, t

LEMMA MatchPop ==
    ASSUME NEW S, NEW ss \in Seq(S), ss # <<>>, NEW rs, NEW n \in Nat, Matches(ss, rs, n)
    PROVE  Agree(Front(ss), rs, n, Width(Last(ss)), Waits(Last(ss)))
<1> DEFINE k == Len(ss)
           s == Last(ss)
           w == Width(s)
           t == Front(ss)
<1>1. /\ k \in Nat /\ k >= 1 /\ t \in Seq(S) /\ s = ss[k] /\ Len(t) = k - 1
      /\ \A i \in 1 .. (k - 1) : t[i] = ss[i]
  BY FrontLast, LenProperties
<1>2. PICK d \in [0 .. k -> 0 .. n] :
        /\ d[0] = 0 /\ d[k] = n
        /\ \A i, j \in 0 .. k : i <= j => d[i] <= d[j]
        /\ \A i \in 1 .. k : /\ d[i] = d[i - 1] + Width(ss[i])
                             /\ Fits(rs, d[i], Width(ss[i]), Waits(ss[i]))
  BY DEF Matches
<1>3. w \in 0 .. 2
  BY WidthType
<1> HIDE DEF k, s, t
<1>4. n = d[k - 1] + w /\ Fits(rs, n, w, Waits(s)) /\ d[k - 1] \in Nat
  <2>1. k \in 1 .. k /\ k - 1 \in 0 .. k
    BY <1>1
  <2> QED
    BY <1>1, <1>2, <2>1
<1> HIDE DEF w
<1>5. d[k - 1] = n - w
  BY <1>3, <1>4
<1> DEFINE e == [i \in 0 .. (k - 1) |-> d[i]]
<1>6. \A i \in 0 .. (k - 1) : i \in 0 .. k /\ k - 1 \in 0 .. k /\ i <= k - 1
  BY <1>1
<1>7. \A i \in 0 .. (k - 1) : e[i] = d[i] /\ d[i] \in Nat /\ d[i] <= n - w
  <2>1. \A i \in 0 .. (k - 1) : d[i] <= d[k - 1]
    BY <1>2, <1>6
  <2>2. \A i \in 0 .. (k - 1) : d[i] \in 0 .. n
    BY <1>2, <1>6
  <2> QED
    BY <1>5, <2>1, <2>2
<1>8. e \in [0 .. (k - 1) -> 0 .. (n - w)]
  BY <1>1, <1>3, <1>4, <1>7
<1> HIDE DEF e
<1>9. e[0] = 0 /\ e[k - 1] = n - w
  BY <1>1, <1>2, <1>5, <1>7
<1>10. \A i, j \in 0 .. (k - 1) : i <= j => e[i] <= e[j]
  BY <1>2, <1>6, <1>7
<1>11. ASSUME NEW i \in 1 .. (k - 1)
       PROVE  e[i] = e[i - 1] + Width(t[i]) /\ Fits(rs, e[i], Width(t[i]), Waits(t[i]))
  <2>1. i \in 0 .. (k - 1) /\ i - 1 \in 0 .. (k - 1) /\ i \in 1 .. k
    BY <1>1
  <2> QED
    BY <1>1, <1>2, <1>7, <2>1
<1>12. w <= n
  BY <1>3, <1>4
<1>13. Matches(t, rs, n - w)
  BY <1>1, <1>8, <1>9, <1>10, <1>11 DEF Matches
<1> QED
  BY <1>4, <1>13 DEF Agree, w, s, t

\* Only the first m roles matter.
LEMMA MatchLocal ==
    ASSUME NEW S, NEW ss \in Seq(S), NEW rs, NEW m \in Nat, Matches(ss, rs, m),
           NEW qs, \A i \in 1 .. m : qs[i] = rs[i]
    PROVE  Matches(ss, qs, m)
<1> DEFINE k == Len(ss)
<1>1. k \in Nat
  BY LenProperties
<1>2. PICK d \in [0 .. k -> 0 .. m] :
        /\ d[0] = 0 /\ d[k] = m
        /\ \A i, j \in 0 .. k : i <= j => d[i] <= d[j]
        /\ \A i \in 1 .. k : /\ d[i] = d[i - 1] + Width(ss[i])
                             /\ Fits(rs, d[i], Width(ss[i]), Waits(ss[i]))
  BY DEF Matches
<1>3. ASSUME NEW i \in 1 .. k PROVE Fits(qs, d[i], Width(ss[i]), Waits(ss[i]))
  <2> DEFINE a == d[i]
             w == Width(ss[i])
  <2>1. a \in 0 .. m /\ Fits(rs, a, w, Waits(ss[i])) /\ w \in 0 .. 2
    BY <1>1, <1>2, WidthType
  <2> HIDE DEF a, w
  <2>2. /\ w >= 1 /\ w <= a => a \in 1 .. m
        /\ w = 2 /\ w <= a => a - 1 \in 1 .. m
    BY <2>1
  <2>3. Fits(qs, a, w, Waits(ss[i]))
    BY <2>1, <2>2 DEF Fits
  <2> QED
    BY <2>3 DEF a, w
<1> QED
  BY <1>2, <1>3 DEF Matches

-----------------------------------------------------------------------------
(* What the steps of the parser do to its states and its event *)

EventTypes == {"stream_start", "stream_end", "document_start", "document_end", "alias",
               "scalar", "sequence_start", "mapping_start", "sequence_end", "mapping_end"}
Events == [type : EventTypes, val : Values, anchor : Values, tag : Values]

\* The start and the end of a collection, by what the collection waits for.
StartsAs(type, role) == \/ type = "sequence_start" /\ role = "item"
                        \/ type = "mapping_start" /\ role = "key"
EndsAs(type, role) == \/ type = "sequence_end" /\ role = "item"
                      \/ type = "mapping_end" /\ role = "key"

\* Within the call: the place changes, or a node is to be parsed.
Keeps ==
    /\ state' = state /\ states' = states /\ event' = event
    /\ (call.at = "node" <=> call'.at = "node") \/ Width(state) = 0
Descends ==
    /\ call.at # "node" /\ call'.at = "node" /\ state' = state /\ event' = event
    /\ \E next \in WaitStates :
          /\ states' = Append(states, next)
          /\ Width(next) = Width(state) /\ Waits(next) = Now(state)
\* The call returns an event: an empty scalar,
Answers ==
    /\ call.at # "node" /\ states' = states /\ state' \in EntryStates
    /\ Width(state') = Width(state) /\ Waits(state') = Now(state)
    /\ event'.type = "scalar"
\* a node or the end of a collection,
Pops ==
    /\ states # <<>> /\ state' = Last(states) /\ states' = Front(states)
    /\ \/ event'.type \in {"alias", "scalar"} /\ (call.at = "node" \/ Width(state) = 0)
       \/ call.at # "node" /\ Width(state) = 1 /\ EndsAs(event'.type, Now(state))
\* the start of a collection,
Starts ==
    /\ states' = states /\ state' \in StartStates /\ StartsAs(event'.type, Now(state'))
    /\ \/ call.at = "node" /\ Width(state') = 1
       \/ /\ call.at # "node" /\ Width(state) = 1 /\ Now(state) = "item"
          /\ Width(state') = 2
\* the end of a single pair,
EndsPair ==
    /\ state = "flow_sequence_entry_mapping_end" /\ state' = "flow_sequence_entry"
    /\ states' = states /\ call.at # "node" /\ event'.type = "mapping_end"
\* or of a document or the stream.
Turns ==
    /\ states = <<>> /\ call.at # "node"
    /\ \/ /\ states' = <<>> /\ state = "stream_start"
          /\ event'.type = "stream_start" /\ state' = "implicit_document_start"
       \/ /\ states' = <<>> /\ state \in DocumentStart
          /\ event'.type = "stream_end" /\ state' = "end"
       \/ /\ states' = <<>> /\ state = "document_end"
          /\ event'.type = "document_end" /\ state' = "document_start"
       \/ /\ states' = Append(<<>>, "document_end") /\ state \in DocumentStart
          /\ event'.type = "document_start" /\ state' \in ContentStates

Delivered == event' \in Events /\ call' = Enter
Moves == \/ Keeps \/ Descends
         \/ Delivered /\ (Answers \/ Pops \/ Starts \/ EndsPair \/ Turns)
MayMove == ParserShape /\ FirstShown /\ Peek \in Tokens

LEMMA EventFields ==
    ASSUME NEW type \in EventTypes, NEW val \in Values
    PROVE  Event(type, val) \in Events /\ Event(type, val).type = type
BY DEF Event, Events, Values

LEMMA EmptyFields == EmptyScalar \in Events /\ EmptyScalar.type = "scalar"
BY DEF EmptyScalar, Event, Events, EventTypes, Values

LEMMA NodeEventFields ==
    ASSUME NEW type \in EventTypes, NEW val \in Values, call \in Calls
    PROVE  NodeEvent(type, val) \in Events /\ NodeEvent(type, val).type = type
BY DEF NodeEvent, Events, Calls

LEMMA ErrorMove ==
    ASSUME ParserError
    PROVE  Keeps
BY DEF ParserError, parserVars, Keeps

\* The place of the call, without the node.
LEMMA PlaceMove ==
    ASSUME call \in Calls, NEW at, at # "node", call.at # "node",
           call' = [call EXCEPT !.at = at], UNCHANGED <<state, states, event>>
    PROVE  Keeps
<1>1. call'.at = at
  BY DEF Calls
<1> QED
  BY <1>1 DEF Keeps

LEMMA StreamMoves ==
    ASSUME MayMove, call.at # "node",
           \/ ParseStreamStart \/ SkipDocumentEnd \/ ParseStreamEnd \/ ParseDocumentEnd
    PROVE  Moves
<1>1. /\ ParserShape
      /\ \A type \in EventTypes : Event(type, "") \in Events /\ Event(type, "").type = type
  <2>1. "" \in Values
    BY DEF Values
  <2> QED
    BY <2>1, EventFields DEF MayMove
<1>2. CASE SkipDocumentEnd
  BY <1>2 DEF SkipDocumentEnd, parserVars, Moves, Keeps
<1>3. CASE ParseStreamStart \/ ParseStreamEnd \/ ParseDocumentEnd
  <2> DEFINE Ahead(type, s) ==
          /\ Deliver(Event(type, ""), s) /\ states' = states
          /\ \/ state = "stream_start" /\ type = "stream_start"
                /\ s = "implicit_document_start"
             \/ state \in DocumentStart /\ type = "stream_end" /\ s = "end"
             \/ state = "document_end" /\ type = "document_end" /\ s = "document_start"
  <2>0. PICK type \in EventTypes : \E s : Ahead(type, s)
    <3>1. CASE ParseStreamStart
      <4>1. Ahead("stream_start", "implicit_document_start")
        BY <3>1 DEF ParseStreamStart
      <4> QED
        BY <4>1 DEF EventTypes
    <3>2. CASE ParseStreamEnd
      <4>1. Ahead("stream_end", "end")
        BY <3>2 DEF ParseStreamEnd
      <4> QED
        BY <4>1 DEF EventTypes
    <3>3. CASE ParseDocumentEnd
      <4>1. Ahead("document_end", "document_start")
        BY <3>3 DEF ParseDocumentEnd
      <4> QED
        BY <4>1 DEF EventTypes
    <3> QED
      BY <1>3, <3>1, <3>2, <3>3
  <2>1. PICK s : Ahead(type, s)
    BY <2>0
  <2>2. event' = Event(type, "") /\ state' = s /\ call' = Enter
    BY <2>1 DEF Deliver
  <2>3. event' \in Events /\ event'.type = type
    BY <1>1, <2>2
  <2>4. states = <<>>
    BY <1>1, <2>1 DEF ParserShape, Outside
  <2>5. Turns
    BY <2>1, <2>2, <2>3, <2>4 DEF Turns
  <2> QED
    BY <2>2, <2>3, <2>5 DEF Moves, Delivered
<1> QED
  BY <1>2, <1>3

LEMMA DocumentMoves ==
    ASSUME MayMove, call.at # "node",
           ParseImplicitDocument \/ ParseDirective \/ ParseExplicitDocument
    PROVE  Moves
<1>1. /\ ParserShape /\ call \in Calls /\ state \in DocumentStart /\ states = <<>>
      /\ Width(state) = 0
  <2>1. state \in DocumentStart
    BY DEF ParseImplicitDocument, Implicit, ParseDirective, ParseExplicitDocument,
           DocumentStart
  <2>2. Width(state) = 0
    BY <2>1 DEF DocumentStart, Width, PairStates, FirstStates, EntryStates, MarkedStates
  <2> QED
    BY <2>1, <2>2 DEF MayMove, ParserShape, Outside
<1>2. CASE /\ states' = Append(states, "document_end")
           /\ \E s \in ContentStates : Deliver(Event("document_start", ""), s)
  <2>1. "document_start" \in EventTypes /\ "" \in Values
    BY DEF EventTypes, Values
  <2>2. PICK s \in ContentStates : Deliver(Event("document_start", ""), s)
    BY <1>2
  <2>3. event' = Event("document_start", "") /\ state' = s /\ call' = Enter
    BY <2>2 DEF Deliver
  <2>4. event' \in Events /\ event'.type = "document_start"
    BY <2>1, <2>3, EventFields
  <2>5. Turns
    BY <1>1, <1>2, <2>3, <2>4 DEF Turns
  <2> QED
    BY <2>3, <2>4, <2>5 DEF Moves, Delivered
<1>3. CASE UNCHANGED <<state, states, event>>
  BY <1>1, <1>3 DEF Keeps, Moves
<1>4. CASE ParserError
  BY <1>4, ErrorMove DEF Moves
<1> QED
  BY <1>1, <1>2, <1>3, <1>4
     DEF ParseImplicitDocument, ParseDirective, ParseExplicitDocument, ContentStates

LEMMA ContentMoves ==
    ASSUME MayMove, call.at # "node", ParseDocumentContent
    PROVE  Moves
<1>1. ParserShape /\ states # <<>> /\ Width(state) = 0
  <2>1. state \in ContentStates
    BY DEF ParseDocumentContent, ContentStates
  <2>2. Width(state) = 0 /\ state \notin Outside
    BY <2>1 DEF ContentStates, Width, PairStates, FirstStates, EntryStates, MarkedStates,
                Outside, DocumentStart
  <2> QED
    BY <2>2 DEF MayMove, ParserShape
<1>2. CASE PopTo(EmptyScalar)
  <2>1. /\ event' = EmptyScalar /\ state' = Last(states) /\ states' = Front(states)
        /\ call' = Enter
    BY <1>2 DEF PopTo, Deliver
  <2> QED
    BY <1>1, <2>1, EmptyFields DEF Moves, Delivered, Pops
<1>3. CASE UNCHANGED <<state, states, event>>
  BY <1>1, <1>3 DEF Moves, Keeps
<1> QED
  BY <1>2, <1>3 DEF ParseDocumentContent

LEMMA NodeMoves ==
    ASSUME MayMove, ParseNode
    PROVE  Moves
<1>1. /\ ParserShape /\ call \in Calls /\ call.at = "node" /\ states # <<>>
      /\ Peek.val \in Values /\ "" \in Values
  BY DEF MayMove, ParserShape, ParseNode, Tokens, Values
<1>2. ASSUME NEW e \in Events, e.type \in {"alias", "scalar"}, PopTo(e)
      PROVE  Moves
  <2>1. /\ event' = e /\ state' = Last(states) /\ states' = Front(states) /\ call' = Enter
    BY <1>2 DEF PopTo, Deliver
  <2> QED
    BY <1>1, <1>2, <2>1 DEF Moves, Delivered, Pops
<1>3. ASSUME NEW e \in Events, NEW s \in StartStates, Deliver(e, s), states' = states,
             Width(s) = 1, StartsAs(e.type, Now(s))
      PROVE  Moves
  <2>1. event' = e /\ state' = s /\ call' = Enter
    BY <1>3 DEF Deliver
  <2> QED
    BY <1>1, <1>3, <2>1 DEF Moves, Delivered, Starts
<1>4. CASE ParseAlias
  <2>1. "alias" \in EventTypes
    BY DEF EventTypes
  <2>2. Event("alias", Peek.val) \in Events /\ Event("alias", Peek.val).type = "alias"
    BY <1>1, <2>1, EventFields
  <2> QED
    BY <1>2, <1>4, <2>2 DEF ParseAlias
<1>5. CASE ParseProperty
  <2>1. UNCHANGED <<state, states, event>>
        /\ (call' = [call EXCEPT !.anchor = Peek.val] \/ call' = [call EXCEPT !.tag = Peek.val])
    BY <1>5 DEF ParseProperty
  <2>2. call'.at = "node"
    BY <1>1, <2>1 DEF Calls
  <2> QED
    BY <1>1, <2>1, <2>2 DEF Moves, Keeps
<1>6. CASE ParseContent
  <2>1. /\ \A type \in EventTypes : \A val \in Values :
              NodeEvent(type, val) \in Events /\ NodeEvent(type, val).type = type
        /\ {"scalar", "sequence_start", "mapping_start"} \subseteq EventTypes
    <3>1. ASSUME NEW type \in EventTypes, NEW val \in Values
          PROVE  NodeEvent(type, val) \in Events /\ NodeEvent(type, val).type = type
      BY <1>1, NodeEventFields
    <3>2. {"scalar", "sequence_start", "mapping_start"} \subseteq EventTypes
      BY DEF EventTypes
    <3> QED
      BY <3>1, <3>2
  <2>2. CASE ParserError
    BY <2>2, ErrorMove DEF Moves
  <2>3. CASE Deliver(NodeEvent("sequence_start", ""), "indentless_sequence_entry")
             /\ states' = states
    <3>1. /\ "indentless_sequence_entry" \in StartStates
          /\ Width("indentless_sequence_entry") = 1
          /\ Now("indentless_sequence_entry") = "item"
      BY DEF StartStates, Width, PairStates, EntryStates, Now, SequenceStates
    <3>2. "sequence_start" \in EventTypes
      BY <2>1
    <3>3. NodeEvent("sequence_start", "") \in Events
          /\ NodeEvent("sequence_start", "").type = "sequence_start"
      BY <1>1, <2>1, <3>2
    <3> QED
      BY <1>3, <2>3, <3>1, <3>3 DEF StartsAs
  <2>4. CASE PopTo(NodeEvent("scalar", Peek.val)) \/ PopTo(NodeEvent("scalar", ""))
    <3>1. "scalar" \in EventTypes
      BY <2>1
    <3> QED
      BY <1>1, <1>2, <2>1, <2>4, <3>1
  <2>5. CASE /\ MayStart(Peek.type) /\ states' = states
             /\ Deliver(NodeEvent(CollectionStart[Peek.type][1], ""),
                        CollectionStart[Peek.type][2])
    <3> DEFINE type == CollectionStart[Peek.type][1]
               s == CollectionStart[Peek.type][2]
    <3>1. \/ type = "sequence_start"
             /\ s \in {"flow_sequence_first_entry", "block_sequence_first_entry"}
          \/ type = "mapping_start"
             /\ s \in {"flow_mapping_first_key", "block_mapping_first_key"}
      BY <2>5 DEF MayStart, CollectionStart
    <3>2. Deliver(NodeEvent(type, ""), s)
      BY <2>5
    <3> HIDE DEF type, s
    <3>3. s \in FirstStates
      BY <3>1 DEF FirstStates
    <3>4. s \in StartStates /\ Width(s) = 1
      BY <3>1, <3>3 DEF StartStates, Width, PairStates
    <3>5. StartsAs(type, Now(s))
      BY <3>1 DEF StartsAs, Now, SequenceStates, KeyStates
    <3>6. type \in EventTypes
      BY <2>1, <3>1
    <3>7. NodeEvent(type, "") \in Events /\ NodeEvent(type, "").type = type
      BY <1>1, <2>1, <3>6
    <3> QED
      BY <1>3, <2>5, <3>2, <3>4, <3>5, <3>7
  <2> QED
    BY <1>6, <2>2, <2>3, <2>4, <2>5 DEF ParseContent
<1> QED
  BY <1>4, <1>5, <1>6 DEF ParseNode

\* The state that follows an indicator waits for what the current one has.
LEMMA AfterMoves ==
    ASSUME NEW s \in Indicators
    PROVE  /\ AfterStates[s] \in EntryStates /\ AfterStates[s] \in WaitStates
           /\ Width(AfterStates[s]) =
                 IF s \in {"flow_pair_key", "flow_pair_value"} THEN 2 ELSE 1
           /\ Waits(AfterStates[s]) =
                 IF s \in {"block_sequence", "indentless_sequence"} THEN "item"
                 ELSE IF s \in {"block_key", "flow_pair_key", "flow_key"} THEN "key"
                 ELSE "value"
<1>1. AfterStates[s] \in EntryStates
  BY AfterFields
<1>2. Width(AfterStates[s]) = IF s \in {"flow_pair_key", "flow_pair_value"} THEN 2 ELSE 1
  BY <1>1 DEF AfterStates, Indicators, Width, PairStates
<1>3. Now(AfterStates[s]) =
         IF s \in {"block_sequence", "indentless_sequence"} THEN "item"
         ELSE IF s \in {"block_key", "flow_pair_key", "flow_key"} THEN "value"
         ELSE "key"
  BY DEF AfterStates, Indicators, Now, SequenceStates, KeyStates
<1> QED
  BY <1>1, <1>2, <1>3 DEF WaitStates, Waits, Turned

LEMMA NodeMove ==
    ASSUME call.at # "node", NEW next \in WaitStates, NEW node, NodeThen(next, node),
           node.at = "node", Width(next) = Width(state), Waits(next) = Now(state)
    PROVE  Moves
BY DEF NodeThen, Moves, Descends

LEMMA EmptyMove ==
    ASSUME call.at # "node", NEW next \in EntryStates, EmptyThen(next),
           Width(next) = Width(state), Waits(next) = Now(state)
    PROVE  Moves
<1>1. event' = EmptyScalar /\ state' = next /\ call' = Enter /\ states' = states
  BY DEF EmptyThen, Deliver
<1> QED
  BY <1>1, EmptyFields DEF Moves, Delivered, Answers

LEMMA NodeOrEmptyMove ==
    ASSUME call.at # "node", NEW s \in Indicators, NodeOrEmpty(s),
           Width(AfterStates[s]) = Width(state), Waits(AfterStates[s]) = Now(state)
    PROVE  Moves
<1>1. /\ AfterIndicator[s].next = AfterStates[s] /\ AfterIndicator[s].node.at = "node"
      /\ AfterStates[s] \in WaitStates /\ AfterStates[s] \in EntryStates
  BY AfterFields, AfterMoves
<1>2. CASE NodeThen(AfterIndicator[s].next, AfterIndicator[s].node)
  BY <1>1, <1>2, NodeMove
<1>3. CASE EmptyThen(AfterIndicator[s].next)
  BY <1>1, <1>3, EmptyMove
<1> QED
  BY <1>2, <1>3 DEF NodeOrEmpty

LEMMA IndicatorMove ==
    ASSUME call \in Calls, call.at # "node", SkipIndicator
    PROVE  Moves
BY PlaceMove DEF SkipIndicator, Moves

LEMMA EndMove ==
    ASSUME states # <<>>, call.at # "node", Width(state) = 1,
           NEW type \in EventTypes, PopTo(Event(type, "")), EndsAs(type, Now(state))
    PROVE  Moves
<1>1. /\ event' = Event(type, "") /\ state' = Last(states) /\ states' = Front(states)
      /\ call' = Enter
  BY DEF PopTo, Deliver
<1>2. "" \in Values
  BY DEF Values
<1>3. event' \in Events /\ event'.type = type
  BY <1>1, <1>2, EventFields
<1> QED
  BY <1>1, <1>3 DEF Moves, Delivered, Pops

LEMMA BlockEntryMoves ==
    ASSUME MayMove, call.at # "node", ParseBlockSequenceEntry \/ ParseBlockMappingKey
    PROVE  Moves
<1>1. PICK first, entry, indicator, after, end :
        /\ BlockEntry(first, entry, indicator, after, end)
        /\ \/ /\ first = "block_sequence_first_entry" /\ entry = "block_sequence_entry"
              /\ after = "block_sequence" /\ end = "sequence_end"
           \/ /\ first = "block_mapping_first_key" /\ entry = "block_mapping_key"
              /\ after = "block_key" /\ end = "mapping_end"
  BY DEF ParseBlockSequenceEntry, ParseBlockMappingKey
<1>2. /\ state \in {first, entry}
      /\ \/ NodeOrEmpty(after) \/ SkipIndicator \/ EndCollection(end) \/ ParserError
  BY <1>1 DEF BlockEntry
<1>3. /\ ParserShape /\ call \in Calls /\ state \in FirstStates \cup EntryStates
      /\ states # <<>>
  <2>1. state \in FirstStates \cup EntryStates
    BY <1>1, <1>2 DEF FirstStates, EntryStates, MarkedStates
  <2>2. state \notin Outside
    BY <1>1, <1>2 DEF Outside, DocumentStart
  <2> QED
    BY <2>1, <2>2 DEF MayMove, ParserShape
<1>4. /\ Width(state) = 1 /\ after \in Indicators
      /\ Now(state) = IF after = "block_sequence" THEN "item" ELSE "key"
      /\ end = IF after = "block_sequence" THEN "sequence_end" ELSE "mapping_end"
  BY <1>1, <1>2, <1>3 DEF Width, PairStates, Now, SequenceStates, KeyStates, Indicators
<1>5. CASE NodeOrEmpty(after)
  <2>1. Width(AfterStates[after]) = 1 /\ Waits(AfterStates[after]) = Now(state)
    BY <1>1, <1>4, AfterMoves
  <2> QED
    BY <1>4, <1>5, <2>1, NodeOrEmptyMove
<1>6. CASE EndCollection(end)
  <2>1. PopTo(Event(end, "")) /\ EndsAs(end, Now(state)) /\ end \in EventTypes
    BY <1>1, <1>4, <1>6 DEF EndCollection, EndsAs, EventTypes
  <2> QED
    BY <1>3, <1>4, <2>1, EndMove
<1> QED
  BY <1>2, <1>3, <1>5, <1>6, IndicatorMove, ErrorMove DEF Moves

LEMMA IndentlessMoves ==
    ASSUME MayMove, call.at # "node", ParseIndentlessSequenceEntry
    PROVE  Moves
<1>1. /\ ParserShape /\ call \in Calls /\ state = "indentless_sequence_entry"
  BY DEF MayMove, ParserShape, ParseIndentlessSequenceEntry
<1>2. /\ states # <<>> /\ Width(state) = 1 /\ Now(state) = "item"
      /\ "indentless_sequence" \in Indicators
      /\ "sequence_end" \in EventTypes /\ EndsAs("sequence_end", "item")
  BY <1>1 DEF ParserShape, Outside, DocumentStart, Width, PairStates, EntryStates, Now,
              SequenceStates, Indicators, EventTypes, EndsAs
<1>3. CASE NodeOrEmpty("indentless_sequence")
  <2>1. /\ Width(AfterStates["indentless_sequence"]) = 1
        /\ Waits(AfterStates["indentless_sequence"]) = "item"
    BY <1>2, AfterMoves
  <2> QED
    BY <1>2, <1>3, <2>1, NodeOrEmptyMove
<1>4. CASE PopTo(Event("sequence_end", ""))
  BY <1>2, <1>4, EndMove
<1> QED
  BY <1>1, <1>3, <1>4, IndicatorMove DEF ParseIndentlessSequenceEntry

LEMMA ValueMoves ==
    ASSUME MayMove, call.at # "node",
           ParseBlockMappingValue \/ ParseFlowMappingValue \/ ParseFlowPairValue
    PROVE  Moves
<1>1. PICK s, after :
        /\ ParseValue(s, after)
        /\ \/ s = "block_mapping_value" /\ after = "block_value"
           \/ s = "flow_mapping_value" /\ after = "flow_value"
           \/ s = "flow_sequence_entry_mapping_value" /\ after = "flow_pair_value"
  BY DEF ParseBlockMappingValue, ParseFlowMappingValue, ParseFlowPairValue
<1>2. /\ state = s /\ after \in Indicators
      /\ NodeOrEmpty(after) \/ SkipIndicator \/ EmptyThen(AfterIndicator[after].next)
  BY <1>1 DEF ParseValue, Indicators
<1>3. call \in Calls
  BY DEF MayMove, ParserShape
<1>4. /\ Width(state) = IF after = "flow_pair_value" THEN 2 ELSE 1
      /\ Now(state) = "value"
  BY <1>1, <1>2 DEF Width, PairStates, EntryStates, MarkedStates, Now, SequenceStates, KeyStates
<1>5. /\ Width(AfterStates[after]) = Width(state) /\ Waits(AfterStates[after]) = Now(state)
      /\ AfterStates[after] \in EntryStates /\ AfterIndicator[after].next = AfterStates[after]
  BY <1>1, <1>2, <1>4, AfterMoves, AfterFields
<1> QED
  BY <1>2, <1>3, <1>5, NodeOrEmptyMove, IndicatorMove, EmptyMove

LEMMA FlowCollectionMove ==
    ASSUME MayMove, call.at # "node", NEW first, NEW entry, NEW end,
           \/ first = "flow_sequence_first_entry" /\ entry = "flow_sequence_entry"
           \/ first = "flow_mapping_first_key" /\ entry = "flow_mapping_key",
           FlowCollection(first, entry, end)
    PROVE  Moves
<1>1. ParserShape /\ call \in Calls /\ state \in {first, entry}
  BY DEF MayMove, ParserShape, FlowCollection
<1>2. states # <<>> /\ state \in FirstStates \cup EntryStates
  BY <1>1 DEF ParserShape, Outside, DocumentStart, FirstStates, EntryStates, MarkedStates
<1>3. /\ Width(state) = 1
      /\ Now(state) = IF entry = "flow_sequence_entry" THEN "item" ELSE "key"
  BY <1>1, <1>2 DEF Width, PairStates, Now, SequenceStates, KeyStates
<1> DEFINE type == IF entry = "flow_sequence_entry" THEN "sequence_end" ELSE "mapping_end"
<1>4. CASE EndCollection(type)
  <2>1. PopTo(Event(type, "")) /\ EndsAs(type, Now(state)) /\ type \in EventTypes
    BY <1>3, <1>4 DEF EndCollection, EndsAs, EventTypes
  <2> HIDE DEF type
  <2> QED
    BY <1>2, <1>3, <2>1, EndMove
<1>5. CASE /\ call' = [call EXCEPT !.at = "separated"]
           /\ UNCHANGED <<state, states, event>>
  BY <1>1, <1>5, PlaceMove DEF Moves
<1> QED
  BY <1>4, <1>5, ErrorMove DEF FlowCollection, Moves

LEMMA FlowSequenceMoves ==
    ASSUME MayMove, call.at # "node", ParseFlowSequenceEntry
    PROVE  Moves
<1>1. CASE FlowCollection("flow_sequence_first_entry", "flow_sequence_entry",
                          "flow_sequence_end")
  BY <1>1, FlowCollectionMove
<1>2. CASE /\ state \in {"flow_sequence_first_entry", "flow_sequence_entry"}
           /\ \/ /\ Deliver(Event("mapping_start", ""), "flow_sequence_entry_mapping_key")
                 /\ states' = states
              \/ NodeThen("flow_sequence_entry", Node(FALSE, FALSE))
  <2>1. state \in FirstStates \cup EntryStates
    BY <1>2 DEF FirstStates, EntryStates, MarkedStates
  <2>2. Width(state) = 1 /\ Now(state) = "item"
    BY <1>2, <2>1 DEF Width, PairStates, Now, SequenceStates
  <2>3. CASE /\ Deliver(Event("mapping_start", ""), "flow_sequence_entry_mapping_key")
             /\ states' = states
    <3>1. "mapping_start" \in EventTypes /\ "" \in Values
      BY DEF EventTypes, Values
    <3>2. /\ event' = Event("mapping_start", "") /\ call' = Enter
          /\ state' = "flow_sequence_entry_mapping_key"
      BY <2>3 DEF Deliver
    <3>3. event' \in Events /\ event'.type = "mapping_start"
      BY <3>1, <3>2, EventFields
    <3>4. /\ state' \in StartStates /\ Now(state') = "key" /\ Width(state') = 2
      BY <3>2 DEF StartStates, Now, SequenceStates, KeyStates, Width, PairStates
    <3> QED
      BY <2>2, <2>3, <3>2, <3>3, <3>4 DEF Moves, Delivered, Starts, StartsAs
  <2>4. CASE NodeThen("flow_sequence_entry", Node(FALSE, FALSE))
    <3>1. /\ "flow_sequence_entry" \in WaitStates /\ Width("flow_sequence_entry") = 1
          /\ Waits("flow_sequence_entry") = "item"
      BY DEF WaitStates, EntryStates, MarkedStates, Width, PairStates, Waits, Turned, Now,
             SequenceStates
    <3>2. Node(FALSE, FALSE).at = "node"
      BY CallFields
    <3> QED
      BY <2>2, <2>4, <3>1, <3>2, NodeMove
  <2> QED
    BY <1>2, <2>3, <2>4
<1> QED
  BY <1>1, <1>2 DEF ParseFlowSequenceEntry

LEMMA FlowPairMoves ==
    ASSUME MayMove, call.at # "node", ParseFlowPairKey \/ ParseFlowPairEnd
    PROVE  Moves
<1>1. CASE ParseFlowPairKey
  <2> DEFINE next == AfterStates["flow_pair_key"]
  <2>1. "flow_pair_key" \in Indicators
    BY DEF Indicators
  <2>2. /\ AfterIndicator["flow_pair_key"].next = next /\ next \in WaitStates /\ next \in EntryStates
        /\ Width(next) = 2 /\ Waits(next) = "key" /\ Node(FALSE, FALSE).at = "node"
    BY <2>1, AfterFields, AfterMoves, CallFields
  <2>3. state = "flow_sequence_entry_mapping_key"
    BY <1>1 DEF ParseFlowPairKey
  <2>4. Width(state) = 2 /\ Now(state) = "key"
    BY <2>3 DEF Width, PairStates, Now, SequenceStates, KeyStates
  <2>5. NodeThen(next, Node(FALSE, FALSE)) \/ EmptyThen(next)
    BY <1>1, <2>2 DEF ParseFlowPairKey
  <2> HIDE DEF next
  <2> QED
    BY <2>2, <2>4, <2>5, NodeMove, EmptyMove
<1>2. CASE ParseFlowPairEnd
  <2>1. "mapping_end" \in EventTypes /\ "" \in Values
    BY DEF EventTypes, Values
  <2>2. /\ state = "flow_sequence_entry_mapping_end" /\ state' = "flow_sequence_entry"
        /\ states' = states /\ call' = Enter /\ event' = Event("mapping_end", "")
    BY <1>2 DEF ParseFlowPairEnd, Deliver
  <2>3. event' \in Events /\ event'.type = "mapping_end"
    BY <2>1, <2>2, EventFields
  <2> QED
    BY <2>2, <2>3 DEF Moves, Delivered, EndsPair
<1> QED
  BY <1>1, <1>2

LEMMA FlowMappingMoves ==
    ASSUME MayMove, call.at # "node", ParseFlowMappingKey \/ ParseFlowMappingEmptyValue
    PROVE  Moves
<1>1. CASE FlowCollection("flow_mapping_first_key", "flow_mapping_key", "flow_mapping_end")
  BY <1>1, FlowCollectionMove
<1>2. CASE /\ state \in {"flow_mapping_first_key", "flow_mapping_key"}
           /\ \/ NodeOrEmpty("flow_key")
              \/ SkipIndicator
              \/ NodeThen(AfterLoneKey, Node(FALSE, FALSE))
  <2>1. call \in Calls /\ state \in FirstStates \cup EntryStates
    BY <1>2 DEF MayMove, ParserShape, FirstStates, EntryStates, MarkedStates
  <2>2. Width(state) = 1 /\ Now(state) = "key"
    BY <1>2, <2>1 DEF Width, PairStates, Now, SequenceStates, KeyStates
  <2>3. CASE NodeOrEmpty("flow_key")
    <3>1. "flow_key" \in Indicators
      BY DEF Indicators
    <3>2. Width(AfterStates["flow_key"]) = 1 /\ Waits(AfterStates["flow_key"]) = "key"
      BY <3>1, AfterMoves
    <3> QED
      BY <2>2, <2>3, <3>1, <3>2, NodeOrEmptyMove
  <2>4. CASE NodeThen(AfterLoneKey, Node(FALSE, FALSE))
    <3>1. AfterLoneKey = "flow_mapping_empty_value" /\ Node(FALSE, FALSE).at = "node"
      BY CallFields DEF AfterLoneKey
    <3>2. AfterLoneKey \in WaitStates
      BY <3>1 DEF WaitStates, EntryStates, MarkedStates
    <3>3. Width(AfterLoneKey) = 1 /\ Waits(AfterLoneKey) = "key"
      BY <3>1, <3>2 DEF WaitStates, Width, PairStates, Waits, Turned, Now, SequenceStates,
                        KeyStates
    <3> QED
      BY <2>2, <2>4, <3>1, <3>2, <3>3, NodeMove
  <2> QED
    BY <1>2, <2>1, <2>3, <2>4, IndicatorMove
<1>3. CASE ParseFlowMappingEmptyValue
  <2>1. state = "flow_mapping_empty_value" /\ EmptyThen("flow_mapping_key")
    BY <1>3 DEF ParseFlowMappingEmptyValue
  <2>2. /\ "flow_mapping_key" \in EntryStates /\ Width("flow_mapping_key") = 1
        /\ Waits("flow_mapping_key") = "value" /\ Width(state) = 1 /\ Now(state) = "value"
    BY <2>1 DEF EntryStates, MarkedStates, Width, PairStates, Waits, Turned, Now,
                SequenceStates, KeyStates
  <2> QED
    BY <2>1, <2>2, EmptyMove
<1> QED
  BY <1>1, <1>2, <1>3 DEF ParseFlowMappingKey

LEMMA ParserMoves ==
    ASSUME MayMove, StateMachine
    PROVE  Moves
<1>1. CASE ParseNode
  BY <1>1, NodeMoves
<1>2. CASE /\ call.at # "node"
           /\ \/ ParseStreamStart \/ SkipDocumentEnd \/ ParseImplicitDocument
              \/ ParseDirective \/ ParseExplicitDocument \/ ParseStreamEnd
              \/ ParseDocumentContent \/ ParseDocumentEnd
  BY <1>2, StreamMoves, DocumentMoves, ContentMoves
<1>3. CASE call.at # "node" /\ OpenCollection
  <2>1. call \in Calls
    BY DEF MayMove, ParserShape
  <2>2. UNCHANGED <<state, states, event>> /\ call' = [call EXCEPT !.at = "opened"]
    BY <1>3 DEF OpenCollection
  <2> QED
    BY <1>3, <2>1, <2>2, PlaceMove DEF Moves
<1>4. CASE /\ call.at # "node"
           /\ \/ ParseBlockSequenceEntry \/ ParseBlockMappingKey
              \/ ParseIndentlessSequenceEntry \/ ParseBlockMappingValue
              \/ ParseFlowSequenceEntry \/ ParseFlowPairKey \/ ParseFlowPairValue
              \/ ParseFlowPairEnd \/ ParseFlowMappingKey
              \/ ParseFlowMappingValue \/ ParseFlowMappingEmptyValue
  BY <1>4, BlockEntryMoves, IndentlessMoves, ValueMoves, FlowSequenceMoves,
     FlowPairMoves, FlowMappingMoves
<1> QED
  BY <1>1, <1>2, <1>3, <1>4 DEF StateMachine

-----------------------------------------------------------------------------
(* Parser and loader agree *)

\* Event e was returned in state s, or is awaited there: what the loader
\* expects is what the parser is at.
InPhase(e, s, expected) ==
    \/ expected = "stream" /\ s = "stream_start" /\ e = Reading
    \/ expected = "stream" /\ s = "implicit_document_start" /\ e.type = "stream_start"
    \/ expected = "document" /\ s \in DocumentStart /\ e = Reading
    \/ expected = "document" /\ s \in ContentStates /\ e.type = "document_start"
    \/ expected \in {"document", "no_document"} /\ s = "end" /\ e.type = "stream_end"
    \/ expected = "node" /\ s \notin Outside /\ e = Reading
    \/ expected = "node" /\ s \in WaitStates /\ e.type \in {"alias", "scalar"}
    \/ expected = "node" /\ s \in WaitStates /\ \E role : EndsAs(e.type, role)
    \/ expected = "node" /\ s \in StartStates /\ StartsAs(e.type, Now(s))
    \/ expected = "document_end" /\ s = "document_end" /\ e = Reading
    \/ expected \in {"document_end", "loaded"} /\ s = "document_start"
          /\ e.type = "document_end"

\* The roles of the n collections that the loader has open are those that the
\* stack ss and the state s account for.  An event has moved the parser on, and
\* not yet the loader.
Located(e, s, ss, at, rs, n) ==
    /\ e = Reading =>
          Agree(ss, rs, n, IF at = "node" THEN 0 ELSE Width(s), Now(s))
    /\ e.type \in {"alias", "scalar"} => Agree(ss, rs, n, Width(s), Waits(s))
    /\ e.type \in {"sequence_start", "mapping_start"} =>
          Agree(ss, rs, n, Width(s) - 1, "item")
    /\ \A role : EndsAs(e.type, role) =>
          n >= 1 /\ rs[n] = role /\ Agree(ss, rs, n - 1, Width(s), Waits(s))
    /\ e.type \in {"stream_start", "stream_end", "document_start", "document_end"} =>
          n = 0 /\ Matches(ss, rs, 0)

EventShape == event = Reading \/ (event \in Events /\ call = Enter)

LEMMA ReadingFields == Reading.type = "reading" /\ Reading \notin Events
BY DEF Reading, Event, Events, EventTypes

\* What is waited for is the end of the document or an entry.
LEMMA LastWaits ==
    ASSUME ParserShape, states # <<>>
    PROVE  Last(states) \in WaitStates
<1>1. states[1] = "document_end" /\ \A i \in 2 .. Len(states) : states[i] \in EntryStates
  BY DEF ParserShape
<1>2. Len(states) \in Nat \ {0} /\ Last(states) = states[Len(states)]
  <2>1. states \in Seq(AllStates)
    BY DEF ParserShape
  <2>2. Len(states) \in Nat \ {0}
    BY <2>1, EmptySeq
  <2> QED
    BY <2>2 DEF Last
<1>3. Len(states) = 1 \/ Len(states) \in 2 .. Len(states)
  BY <1>2
<1> QED
  BY <1>1, <1>2, <1>3 DEF WaitStates

LEMMA WidthFacts ==
    /\ \A s \in Outside \cup ContentStates : Width(s) = 0
    /\ \A s \in EntryStates : Width(s) >= 1
<1>1. ASSUME NEW s \in Outside \cup ContentStates PROVE Width(s) = 0
  BY DEF Width, PairStates, FirstStates, EntryStates, MarkedStates, Outside, ContentStates,
         DocumentStart
<1>2. ASSUME NEW s \in EntryStates PROVE Width(s) >= 1
  BY DEF Width
<1> QED
  BY <1>1, <1>2

LEMMA NothingFits ==
    ASSUME NEW ss, NEW rs, NEW n \in Nat, NEW role
    PROVE  Agree(ss, rs, n, 0, role) <=> Matches(ss, rs, n)
<1>1. n - 0 = n /\ Fits(rs, n, 0, role)
  BY DEF Fits
<1> QED
  BY <1>1 DEF Agree

LEMMA AgreeLocal ==
    ASSUME NEW S, NEW ss \in Seq(S), NEW rs, NEW n \in Nat, NEW w \in 0 .. 2, NEW role,
           Agree(ss, rs, n, w, role), NEW qs, \A i \in 1 .. n : qs[i] = rs[i]
    PROVE  Agree(ss, qs, n, w, role)
<1>1. w <= n /\ Fits(rs, n, w, role) /\ Matches(ss, rs, n - w)
  BY DEF Agree, Fits
<1>2. n - w \in Nat /\ \A i \in 1 .. (n - w) : i \in 1 .. n
  BY <1>1
<1>3. Matches(ss, qs, n - w)
  BY <1>1, <1>2, MatchLocal
<1>4. (w >= 1 => n \in 1 .. n) /\ (w = 2 => n - 1 \in 1 .. n)
  BY <1>1
<1>5. Fits(qs, n, w, role)
  BY <1>1, <1>4 DEF Fits
<1> QED
  BY <1>3, <1>5 DEF Agree

\* The phase while a call runs, outside and inside of the nodes.
LEMMA PhaseNow ==
    ASSUME NEW s, NEW l, InPhase(Reading, s, l)
    PROVE  /\ s \notin Outside => l = "node"
           /\ s = "stream_start" => l = "stream"
           /\ s \in DocumentStart => l = "document"
           /\ s = "document_end" => l = "document_end"
<1>1. \/ l = "stream" /\ s = "stream_start"
      \/ l = "document" /\ s \in DocumentStart
      \/ l = "node" /\ s \notin Outside
      \/ l = "document_end" /\ s = "document_end"
  <2>1. ~\E role : EndsAs(Reading.type, role)
    BY ReadingFields DEF EndsAs
  <2>2. ~StartsAs(Reading.type, Now(s))
    BY ReadingFields DEF StartsAs
  <2> QED
    BY <2>1, <2>2, ReadingFields DEF InPhase
<1> QED
  BY <1>1 DEF Outside, DocumentStart

\* Each kind of move, for roles that stay.
LEMMA KeepsAgrees ==
    ASSUME event = Reading, NEW rs, NEW n \in Nat,
           Located(event, state, states, call.at, rs, n), Keeps \/ Descends, ParserShape
    PROVE  Located(event', state', states', call'.at, rs, n)
<1>1. event' = Reading /\ state' = state
  BY DEF Keeps, Descends
<1>2. Agree(states, rs, n, IF call.at = "node" THEN 0 ELSE Width(state), Now(state))
  BY DEF Located
<1>3. Agree(states', rs, n, IF call'.at = "node" THEN 0 ELSE Width(state'), Now(state'))
  <2>1. CASE Keeps
    BY <1>1, <1>2, <2>1 DEF Keeps
  <2>2. CASE Descends
    <3>1. PICK next \in WaitStates :
            /\ states' = Append(states, next)
            /\ Width(next) = Width(state) /\ Waits(next) = Now(state)
      BY <2>2 DEF Descends
    <3>2. Agree(states, rs, n, Width(next), Waits(next))
      BY <1>2, <2>2, <3>1 DEF Descends
    <3>3. states \in Seq(AllStates) /\ next \in AllStates
      BY DEF ParserShape, WaitStates, AllStates, Outside
    <3>4. Matches(states', rs, n)
      BY <3>1, <3>2, <3>3, MatchPush
    <3> QED
      BY <2>2, <3>4, NothingFits DEF Descends
  <2> QED
    BY <2>1, <2>2
<1>4. ~\E role : EndsAs(Reading.type, role)
  BY ReadingFields DEF EndsAs
<1> QED
  BY <1>1, <1>3, <1>4, ReadingFields DEF Located

LEMMA KeepsPhase ==
    ASSUME event = Reading, InPhase(event, state, loading), Keeps \/ Descends
    PROVE  InPhase(event', state', loading)
BY DEF Keeps, Descends

LEMMA PopsAgrees ==
    ASSUME ParserShape, event = Reading, NEW rs, NEW n \in Nat,
           Located(event, state, states, call.at, rs, n), InPhase(event, state, loading),
           event' \in Events, Pops
    PROVE  /\ Located(event', state', states', call'.at, rs, n)
           /\ InPhase(event', state', loading)
<1>1. /\ states \in Seq(AllStates) /\ states # <<>> /\ state \notin Outside
      /\ state' = Last(states) /\ states' = Front(states)
      /\ event' # Reading /\ state' \in WaitStates /\ loading = "node"
  BY LastWaits, PhaseNow, ReadingFields DEF ParserShape, Pops
<1>2. Agree(states, rs, n, IF call.at = "node" THEN 0 ELSE Width(state), Now(state))
  BY DEF Located
<1>3. CASE event'.type \in {"alias", "scalar"} /\ (call.at = "node" \/ Width(state) = 0)
  <2>1. Matches(states, rs, n)
    BY <1>2, <1>3, NothingFits
  <2>2. Agree(states', rs, n, Width(state'), Waits(state'))
    BY <1>1, <2>1, MatchPop
  <2> QED
    BY <1>1, <1>3, <2>2 DEF Located, InPhase, EndsAs
<1>4. CASE call.at # "node" /\ Width(state) = 1 /\ EndsAs(event'.type, Now(state))
  <2>1. Agree(states, rs, n, 1, Now(state))
    BY <1>2, <1>4
  <2>2. n >= 1 /\ rs[n] = Now(state) /\ Matches(states, rs, n - 1) /\ n - 1 \in Nat
    BY <2>1 DEF Agree, Fits
  <2>3. Agree(states', rs, n - 1, Width(state'), Waits(state'))
    BY <1>1, <2>2, MatchPop
  <2>4. \A role : EndsAs(event'.type, role) => role = Now(state)
    BY <1>4 DEF EndsAs
  <2>5. event'.type \in {"sequence_end", "mapping_end"}
    BY <1>4 DEF EndsAs
  <2> QED
    BY <1>1, <1>4, <2>2, <2>3, <2>4, <2>5 DEF Located, InPhase
<1> QED
  BY <1>3, <1>4 DEF Pops

LEMMA AnswersAgrees ==
    ASSUME ParserShape, event = Reading, NEW rs, NEW n \in Nat,
           Located(event, state, states, call.at, rs, n), InPhase(event, state, loading),
           event' \in Events, Answers
    PROVE  /\ Located(event', state', states', call'.at, rs, n)
           /\ InPhase(event', state', loading)
<1>1. /\ state' \in WaitStates /\ Width(state) >= 1 /\ event' # Reading
      /\ states' = states /\ event'.type = "scalar"
  BY WidthFacts, ReadingFields DEF Answers, WaitStates
<1>2. state \notin Outside
  BY <1>1, WidthFacts
<1>3. loading = "node"
  BY <1>2, PhaseNow
<1>4. Agree(states', rs, n, Width(state'), Waits(state'))
  BY DEF Located, Answers
<1> QED
  BY <1>1, <1>3, <1>4 DEF Located, InPhase, EndsAs

LEMMA StartsAgrees ==
    ASSUME ParserShape, event = Reading, NEW rs, NEW n \in Nat,
           Located(event, state, states, call.at, rs, n), InPhase(event, state, loading),
           event' \in Events, Starts
    PROVE  /\ Located(event', state', states', call'.at, rs, n)
           /\ InPhase(event', state', loading)
<1>1. /\ state' \in StartStates /\ StartsAs(event'.type, Now(state')) /\ event' # Reading
      /\ states' = states /\ event'.type \in {"sequence_start", "mapping_start"}
  BY ReadingFields DEF Starts, StartsAs
<1>2. state \notin Outside
  <2>1. CASE call.at = "node"
    BY <2>1 DEF ParserShape
  <2>2. CASE Width(state) = 1
    BY <2>2, WidthFacts
  <2> QED
    BY <2>1, <2>2 DEF Starts
<1>3. loading = "node"
  BY <1>2, PhaseNow
<1>4. Agree(states, rs, n, IF call.at = "node" THEN 0 ELSE Width(state), Now(state))
  BY DEF Located
<1>5. Agree(states', rs, n, Width(state') - 1, "item")
  <2>1. CASE call.at = "node" /\ Width(state') = 1
    <3>1. Width(state') - 1 = 0
      BY <2>1
    <3>2. Matches(states, rs, n)
      BY <1>4, <2>1, NothingFits
    <3> QED
      BY <1>1, <3>1, <3>2, NothingFits
  <2>2. CASE /\ call.at # "node" /\ Width(state) = 1 /\ Now(state) = "item"
             /\ Width(state') = 2
    <3>1. Width(state') - 1 = 1
      BY <2>2
    <3> QED
      BY <1>1, <1>4, <2>2, <3>1
  <2> QED
    BY <2>1, <2>2 DEF Starts
<1> QED
  BY <1>1, <1>3, <1>5 DEF Located, InPhase, EndsAs

LEMMA EndsPairAgrees ==
    ASSUME ParserShape, event = Reading, NEW rs, NEW n \in Nat,
           Located(event, state, states, call.at, rs, n), InPhase(event, state, loading),
           event' \in Events, EndsPair
    PROVE  /\ Located(event', state', states', call'.at, rs, n)
           /\ InPhase(event', state', loading)
<1>1. /\ Width(state) = 2 /\ Now(state) = "key" /\ Width(state') = 1
      /\ Waits(state') = "item" /\ state' \in WaitStates /\ state \notin Outside
  BY DEF EndsPair, Width, PairStates, Now, SequenceStates, KeyStates, Waits, Turned,
         WaitStates, EntryStates, MarkedStates, Outside, DocumentStart
<1>2. event' # Reading /\ loading = "node" /\ states' = states /\ event'.type = "mapping_end"
  BY <1>1, PhaseNow, ReadingFields DEF EndsPair
<1>3. Agree(states, rs, n, 2, "key")
  BY <1>1 DEF Located, EndsPair
<1>4. /\ 2 <= n /\ rs[n] = "key" /\ rs[n - 1] = "item" /\ Matches(states, rs, n - 2)
  BY <1>3 DEF Agree, Fits
<1>5. (n - 1) - 1 = n - 2 /\ 1 <= n - 1
  BY <1>4
<1>6. Agree(states, rs, n - 1, 1, "item")
  BY <1>4, <1>5 DEF Agree, Fits
<1>7. \A role : EndsAs("mapping_end", role) <=> role = "key"
  BY DEF EndsAs
<1>8. InPhase(event', state', loading)
  BY <1>1, <1>2, <1>7 DEF InPhase
<1> QED
  BY <1>1, <1>2, <1>4, <1>6, <1>7, <1>8 DEF Located

LEMMA TurnsAgrees ==
    ASSUME ParserShape, event = Reading, NEW rs, NEW n \in Nat,
           Located(event, state, states, call.at, rs, n), InPhase(event, state, loading),
           event' \in Events, Turns
    PROVE  /\ Located(event', state', states', call'.at, rs, n)
           /\ InPhase(event', state', loading)
<1>1. /\ states = <<>> /\ state \in Outside /\ event' # Reading
      /\ event'.type \in {"stream_start", "stream_end", "document_start", "document_end"}
  BY ReadingFields DEF Turns, Outside
<1>2. Width(state) = 0
  BY <1>1, WidthFacts
<1>3. Matches(<<>>, rs, n)
  BY <1>1, <1>2, NothingFits DEF Located, Turns
<1>4. Matches(states', rs, n)
  <2>1. CASE states' = <<>>
    BY <1>3, <2>1
  <2>2. CASE states' = Append(<<>>, "document_end")
    <3>1. "document_end" \in AllStates /\ <<>> \in Seq(AllStates)
      BY DEF AllStates, Outside
    <3>2. Width("document_end") = 0
      BY WidthFacts DEF Outside
    <3>3. Agree(<<>>, rs, n, Width("document_end"), Waits("document_end"))
      BY <1>3, <3>2, NothingFits
    <3> QED
      BY <2>2, <3>1, <3>3, MatchPush
  <2> QED
    BY <2>1, <2>2 DEF Turns
<1>5. n = 0
  BY <1>3, MatchNone
<1>6. InPhase(event', state', loading)
  BY PhaseNow DEF Turns, InPhase, Outside
<1> QED
  BY <1>1, <1>4, <1>5, <1>6 DEF Located, EndsAs

LEMMA MovesAgree ==
    ASSUME ParserShape, event = Reading, NEW rs, NEW n \in Nat,
           Located(event, state, states, call.at, rs, n), InPhase(event, state, loading),
           Moves
    PROVE  /\ Located(event', state', states', call'.at, rs, n)
           /\ InPhase(event', state', loading) /\ EventShape'
<1>1. CASE Keeps \/ Descends
  <2>1. event' = Reading
    BY <1>1 DEF Keeps, Descends
  <2> QED
    BY <1>1, <2>1, KeepsAgrees, KeepsPhase DEF EventShape
<1>2. CASE Delivered /\ (Answers \/ Pops \/ Starts \/ EndsPair \/ Turns)
  <2>1. event' \in Events /\ EventShape'
    BY <1>2 DEF Delivered, EventShape
  <2> QED
    BY <1>2, <2>1, AnswersAgrees, PopsAgrees, StartsAgrees, EndsPairAgrees, TurnsAgrees
<1> QED
  BY <1>1, <1>2 DEF Moves

-----------------------------------------------------------------------------
(* The loader *)

NodeRecords == [kind : {"scalar", "sequence", "mapping"}, val : Values,
                tag : Values \cup {"!!"}, kids : Seq(Nat)]
OpenRecords == [index : Nat, key : Nat]

KidsKnown(all) ==
    \A i \in 1 .. Len(all) : \A k \in 1 .. Len(all[i].kids) :
        all[i].kids[k] \in 1 .. Len(all)
IsOpen(all, o) ==
    /\ o.index \in 1 .. Len(all) /\ o.key \in 0 .. Len(all)
    /\ all[o.index].kind \in {"sequence", "mapping"}

\* Every index is that of a node of the document.
LoaderShape(all, named, collections) ==
    /\ all \in Seq(NodeRecords) /\ KidsKnown(all)
    /\ \A a \in named : a.index \in 1 .. Len(all)
    /\ collections \in Seq(OpenRecords)
    /\ \A i \in 1 .. Len(collections) : IsOpen(all, collections[i])

\* What Attach makes of the nodes and of the open collections, the innermost
\* being top.
TakesKey(all, top) == all[top.index].kind = "mapping" /\ top.key = 0
Items(all, top, index) ==
    IF all[top.index].kind = "mapping" THEN <<top.key, index>> ELSE <<index>>
NodesWith(all, top, index) ==
    IF TakesKey(all, top) THEN all
    ELSE [all EXCEPT ![top.index].kids = @ \o Items(all, top, index)]
OpenWith(all, collections, index) ==
    [collections EXCEPT ![Len(collections)].key =
        IF TakesKey(all, Last(collections)) THEN index ELSE 0]

LEMMA NodesWithFacts ==
    ASSUME NEW all \in Seq(NodeRecords), KidsKnown(all), NEW top, IsOpen(all, top),
           NEW index \in 1 .. Len(all)
    PROVE  LET more == NodesWith(all, top, index) IN
           /\ more \in Seq(NodeRecords) /\ Len(more) = Len(all) /\ KidsKnown(more)
           /\ \A i \in 1 .. Len(all) : more[i].kind = all[i].kind
<1> DEFINE more == NodesWith(all, top, index)
           n == Len(all)
           at == top.index
           items == Items(all, top, index)
           node == [all[at] EXCEPT !.kids = @ \o items]
<1>1. n \in Nat /\ at \in 1 .. n /\ \A i \in 1 .. n : all[i] \in NodeRecords
  BY LenProperties, ElementOfSeq DEF IsOpen
<1>2. CASE TakesKey(all, top)
  BY <1>2 DEF NodesWith
<1>3. CASE ~TakesKey(all, top)
  <2>1. more = [all EXCEPT ![at] = node]
    BY <1>3 DEF NodesWith
  <2>2. all[at] \in NodeRecords /\ all[at].kids \in Seq(Nat)
    BY <1>1 DEF NodeRecords
  <2>3. /\ items \in Seq(Nat) /\ Len(items) \in Nat
        /\ \A k \in 1 .. Len(items) : items[k] \in 1 .. n
    <3>1. index \in 1 .. n /\ index \in Nat
      BY <1>1
    <3>2. CASE all[at].kind = "mapping"
      <4>1. top.key \in 1 .. n
        BY <1>1, <1>3, <3>2 DEF TakesKey, IsOpen
      <4>2. items = <<top.key, index>>
        BY <3>2 DEF Items
      <4> QED
        BY <1>1, <3>1, <4>1, <4>2
    <3>3. CASE all[at].kind # "mapping"
      <4>1. items = <<index>>
        BY <3>3 DEF Items
      <4> QED
        BY <1>1, <3>1, <4>1
    <3> QED
      BY <3>2, <3>3
  <2> HIDE DEF items
  <2>4. /\ all[at].kids \o items \in Seq(Nat)
        /\ \A k \in 1 .. Len(all[at].kids \o items) : (all[at].kids \o items)[k] \in 1 .. n
    <3> DEFINE kids == all[at].kids
    <3>1. /\ kids \in Seq(Nat) /\ Len(kids) \in Nat
          /\ \A k \in 1 .. Len(kids) : kids[k] \in 1 .. n
      BY <1>1, <2>2, LenProperties DEF KidsKnown
    <3> HIDE DEF kids
    <3>2. /\ kids \o items \in Seq(Nat) /\ Len(kids \o items) = Len(kids) + Len(items)
          /\ \A k \in 1 .. Len(kids) + Len(items) :
                (kids \o items)[k] = IF k <= Len(kids) THEN kids[k] ELSE items[k - Len(kids)]
      BY <2>3, <3>1, ConcatProperties
    <3>3. ASSUME NEW k \in 1 .. Len(kids) + Len(items)
          PROVE  (kids \o items)[k] \in 1 .. n
      <4>1. CASE k <= Len(kids)
        <5>1. k \in 1 .. Len(kids)
          BY <3>1, <4>1
        <5> QED
          BY <3>1, <3>2, <4>1, <5>1
      <4>2. CASE ~(k <= Len(kids))
        <5>1. k - Len(kids) \in 1 .. Len(items)
          BY <2>3, <3>1, <4>2
        <5> QED
          BY <2>3, <3>2, <4>2, <5>1
      <4> QED
        BY <4>1, <4>2
    <3>4. \A k \in 1 .. Len(kids \o items) : (kids \o items)[k] \in 1 .. n
      BY <3>2, <3>3
    <3> QED
      BY <3>2, <3>4 DEF kids
  <2>5. /\ node \in NodeRecords /\ node.kind = all[at].kind
        /\ \A k \in 1 .. Len(node.kids) : node.kids[k] \in 1 .. n
    BY <2>2, <2>4 DEF NodeRecords
  <2> HIDE DEF node
  <2>6. /\ more \in Seq(NodeRecords) /\ Len(more) = n
        /\ \A i \in 1 .. n : more[i] = IF i = at THEN node ELSE all[i]
    BY <1>1, <2>1, <2>5, ExceptSeq
  <2> HIDE DEF more
  <2>7. KidsKnown(more)
    BY <2>5, <2>6 DEF KidsKnown
  <2>8. \A i \in 1 .. n : more[i].kind = all[i].kind
    BY <2>5, <2>6
  <2> QED
    BY <2>6, <2>7, <2>8 DEF more
<1> QED
  BY <1>2, <1>3

LEMMA OpenWithFacts ==
    ASSUME NEW all \in Seq(NodeRecords), NEW collections \in Seq(OpenRecords),
           collections # <<>>, \A i \in 1 .. Len(collections) : IsOpen(all, collections[i]),
           NEW index \in 1 .. Len(all)
    PROVE  LET more == OpenWith(all, collections, index)
               n == Len(collections)
           IN
           /\ more \in Seq(OpenRecords) /\ Len(more) = n /\ n \in Nat \ {0}
           /\ \A i \in 1 .. n : IsOpen(all, more[i])
           /\ \A i \in 1 .. (n - 1) : more[i] = collections[i]
           /\ Role(all, more[n]) = Turned(Role(all, collections[n]))
<1> DEFINE more == OpenWith(all, collections, index)
           n == Len(collections)
           top == collections[n]
           key == IF TakesKey(all, top) THEN index ELSE 0
           changed == [top EXCEPT !.key = key]
<1>1. n \in Nat \ {0} /\ n \in 1 .. n
  <2>1. n \in Nat \ {0}
    BY EmptySeq
  <2> QED
    BY <2>1
<1>2. Len(all) \in Nat /\ Last(collections) = top /\ top \in OpenRecords /\ IsOpen(all, top)
  BY <1>1, LenProperties, ElementOfSeq DEF Last
<1>3. more = [collections EXCEPT ![n] = changed]
  BY <1>2 DEF OpenWith
<1> HIDE DEF top
<1>4. /\ changed \in OpenRecords /\ changed.index = top.index /\ changed.key = key
      /\ key \in 0 .. Len(all)
  <2>1. key \in 0 .. Len(all) /\ key \in Nat
    BY <1>2
  <2> HIDE DEF key
  <2>2. top \in [index : Nat, key : Nat]
    BY <1>2 DEF OpenRecords
  <2> QED
    BY <2>1, <2>2 DEF OpenRecords
<1>5. IsOpen(all, changed)
  BY <1>2, <1>4 DEF IsOpen
<1>6. Role(all, changed) = Turned(Role(all, top))
  <2>1. all[top.index].kind \in {"sequence", "mapping"}
    BY <1>2 DEF IsOpen
  <2>2. index # 0
    OBVIOUS
  <2> QED
    BY <1>4, <2>1, <2>2 DEF Role, Turned, TakesKey
<1> HIDE DEF changed
<1>7. /\ more \in Seq(OpenRecords) /\ Len(more) = n
      /\ \A i \in 1 .. n : more[i] = IF i = n THEN changed ELSE collections[i]
  BY <1>1, <1>3, <1>4, ExceptSeq
<1> HIDE DEF more
<1>8. \A i \in 1 .. n : IsOpen(all, more[i])
  BY <1>5, <1>7
<1>9. \A i \in 1 .. (n - 1) : more[i] = collections[i]
  BY <1>1, <1>7
<1>10. Role(all, more[n]) = Turned(Role(all, collections[n]))
  BY <1>1, <1>6, <1>7 DEF top
<1> QED
  BY <1>1, <1>7, <1>8, <1>9, <1>10 DEF more

\* Roles depend on kinds only, and on collections that are open in both.
LEMMA RolesFacts ==
    ASSUME NEW all, NEW collections \in Seq(OpenRecords)
    PROVE  /\ Len(collections) \in Nat
           /\ \A i \in 1 .. Len(collections) :
                 RolesOf(all, collections)[i] = Role(all, collections[i])
BY LenProperties DEF RolesOf

LEMMA AttachRoles ==
    ASSUME NEW all, NEW named, NEW collections, LoaderShape(all, named, collections),
           collections # <<>>, NEW index \in 1 .. Len(all)
    PROVE  LET more == NodesWith(all, Last(collections), index)
               then == OpenWith(all, collections, index)
               n == Len(collections)
           IN
           /\ LoaderShape(more, named, then) /\ Len(then) = n /\ n \in Nat \ {0}
           /\ \A i \in 1 .. (n - 1) :
                 RolesOf(more, then)[i] = RolesOf(all, collections)[i]
           /\ RolesOf(more, then)[n] = Turned(RolesOf(all, collections)[n])
<1> DEFINE n == Len(collections)
           more == NodesWith(all, Last(collections), index)
           then == OpenWith(all, collections, index)
<1>1. /\ all \in Seq(NodeRecords) /\ KidsKnown(all) /\ collections \in Seq(OpenRecords)
      /\ \A i \in 1 .. n : IsOpen(all, collections[i])
      /\ \A a \in named : a.index \in 1 .. Len(all)
  BY DEF LoaderShape
<1>2. /\ then \in Seq(OpenRecords) /\ Len(then) = n /\ n \in Nat \ {0}
      /\ \A i \in 1 .. n : IsOpen(all, then[i])
      /\ \A i \in 1 .. (n - 1) : then[i] = collections[i]
      /\ Role(all, then[n]) = Turned(Role(all, collections[n]))
  BY <1>1, OpenWithFacts
<1>3. IsOpen(all, Last(collections))
  <2>1. n \in 1 .. n /\ Last(collections) = collections[n]
    BY <1>2 DEF Last
  <2> QED
    BY <1>1, <2>1
<1>4. /\ more \in Seq(NodeRecords) /\ Len(more) = Len(all) /\ KidsKnown(more)
      /\ \A i \in 1 .. Len(all) : more[i].kind = all[i].kind
  BY <1>1, <1>3, NodesWithFacts
<1> HIDE DEF more, then
<1>5. \A i \in 1 .. n : IsOpen(more, then[i]) /\ Role(more, then[i]) = Role(all, then[i])
  BY <1>2, <1>4 DEF IsOpen, Role
<1>6. LoaderShape(more, named, then)
  BY <1>1, <1>2, <1>4, <1>5 DEF LoaderShape
<1>7. /\ \A i \in 1 .. n : RolesOf(more, then)[i] = Role(more, then[i])
      /\ \A i \in 1 .. n : RolesOf(all, collections)[i] = Role(all, collections[i])
  BY <1>1, <1>2, RolesFacts
<1>8. n \in 1 .. n /\ \A i \in 1 .. (n - 1) : i \in 1 .. n
  BY <1>2
<1>9. \A i \in 1 .. (n - 1) : RolesOf(more, then)[i] = RolesOf(all, collections)[i]
  BY <1>2, <1>5, <1>7, <1>8
<1>10. RolesOf(more, then)[n] = Turned(RolesOf(all, collections)[n])
  BY <1>2, <1>5, <1>7, <1>8
<1> QED
  BY <1>2, <1>6, <1>9, <1>10 DEF more, then

\* A node is pushed; it is named if it has an anchor.
LEMMA PushedNode ==
    ASSUME NEW all, NEW named, NEW collections, LoaderShape(all, named, collections),
           NEW node \in NodeRecords, node.kids = <<>>
    PROVE  LET more == Append(all, node)
               n == Len(all) + 1
           IN
           /\ more \in Seq(NodeRecords) /\ Len(more) = n /\ n \in 1 .. n /\ more[n] = node
           /\ \A i \in 1 .. Len(all) : more[i] = all[i]
           /\ \A names : (\A a \in names : a \in named \/ a.index = n) =>
                 LoaderShape(more, names, collections)
           /\ RolesOf(more, collections) = RolesOf(all, collections)
<1> DEFINE more == Append(all, node)
           n == Len(all) + 1
<1>1. /\ all \in Seq(NodeRecords) /\ KidsKnown(all) /\ collections \in Seq(OpenRecords)
      /\ \A i \in 1 .. Len(collections) : IsOpen(all, collections[i])
      /\ \A a \in named : a.index \in 1 .. Len(all)
  BY DEF LoaderShape
<1>2. Len(all) \in Nat /\ n \in Nat /\ n \in 1 .. n /\ \A i \in 1 .. Len(all) : i \in 1 .. n
  BY <1>1, LenProperties
<1>3. /\ more \in Seq(NodeRecords) /\ Len(more) = n /\ more[n] = node
      /\ \A i \in 1 .. Len(all) : more[i] = all[i]
  BY <1>1, AppendProperties
<1> HIDE DEF more
<1>4. KidsKnown(more)
  <2>1. ASSUME NEW i \in 1 .. n, NEW k \in 1 .. Len(more[i].kids)
        PROVE  more[i].kids[k] \in 1 .. n
    <3>1. CASE i = n
      <4>1. Len(more[i].kids) = 0
        BY <1>3, <3>1
      <4> QED
        BY <4>1
    <3>2. CASE i # n
      <4>1. i \in 1 .. Len(all)
        BY <1>2, <3>2
      <4>2. more[i].kids[k] \in 1 .. Len(all)
        BY <1>1, <1>3, <4>1 DEF KidsKnown
      <4> QED
        BY <1>2, <4>2
    <3> QED
      BY <3>1, <3>2
  <2> QED
    BY <1>3, <2>1 DEF KidsKnown
<1>5. \A i \in 1 .. Len(collections) :
         /\ IsOpen(more, collections[i])
         /\ Role(more, collections[i]) = Role(all, collections[i])
  <2>1. ASSUME NEW i \in 1 .. Len(collections)
        PROVE  /\ IsOpen(more, collections[i])
               /\ Role(more, collections[i]) = Role(all, collections[i])
    <3> DEFINE o == collections[i]
    <3>1. /\ o.index \in 1 .. Len(all) /\ o.key \in 0 .. Len(all)
          /\ all[o.index].kind \in {"sequence", "mapping"}
      BY <1>1 DEF IsOpen
    <3> HIDE DEF o
    <3>2. o.index \in 1 .. n /\ o.key \in 0 .. n
      BY <1>2, <3>1
    <3>3. more[o.index] = all[o.index]
      BY <1>3, <3>1
    <3>4. IsOpen(more, o) /\ Role(more, o) = Role(all, o)
      BY <1>3, <3>1, <3>2, <3>3 DEF IsOpen, Role
    <3> QED
      BY <3>4 DEF o
  <2> QED
    BY <2>1
<1>6. ASSUME NEW names, \A a \in names : a \in named \/ a.index = n
      PROVE  LoaderShape(more, names, collections)
  <2>1. \A a \in names : a.index \in 1 .. n
    BY <1>1, <1>2, <1>6
  <2> QED
    BY <1>1, <1>3, <1>4, <1>5, <2>1 DEF LoaderShape
<1>7. RolesOf(more, collections) = RolesOf(all, collections)
  BY <1>5, Zenon DEF RolesOf
<1> QED
  BY <1>2, <1>3, <1>6, <1>7 DEF more

-----------------------------------------------------------------------------
(* The loader follows the parser *)

InStep ==
    /\ EventShape /\ InPhase(event, state, loading)
    /\ LoaderShape(nodes, aliases, open)
    /\ Located(event, state, states, call.at, RolesOf(nodes, open), Len(open))
    /\ loading \in {"document_end", "loaded"} => nodes # <<>>
Sync == InStep /\ (status = "walking" => loading = "loaded")

LEMMA OpenCount ==
    ASSUME NEW all, NEW names, NEW collections, LoaderShape(all, names, collections)
    PROVE  /\ Len(collections) \in Nat
           /\ Len(collections) = 0 <=> collections = <<>>
<1>1. collections \in Seq(OpenRecords)
  BY DEF LoaderShape
<1> QED
  BY <1>1, EmptySeq, LenProperties

\* The next event is parsed at a place where nothing is open.
LEMMA OutsideStep ==
    ASSUME call = Enter, state \in Outside \cup ContentStates, state # "end",
           NEW next, CallParseThen(next),
           InPhase(Reading, state, next), NEW rs, Matches(states, rs, 0)
    PROVE  /\ EventShape' /\ InPhase(event', state', loading')
           /\ Located(event', state', states', call'.at, rs, 0)
<1>1. /\ event' = Reading /\ state' = state /\ states' = states /\ call' = call
      /\ loading' = next
  BY DEF CallParseThen, CallParse
<1>2. Width(state) = 0
  BY WidthFacts
<1>3. Agree(states, rs, 0, IF call.at = "node" THEN 0 ELSE Width(state), Now(state))
  BY <1>2, NothingFits
<1>4. ~\E role : EndsAs(Reading.type, role)
  BY ReadingFields DEF EndsAs
<1> QED
  BY <1>1, <1>3, <1>4, ReadingFields DEF EventShape, Located

LEMMA WaitFacts ==
    ASSUME NEW s \in WaitStates
    PROVE  /\ s # "end" /\ Width(s) \in 0 .. 2
           /\ Width(s) = 0 <=> s = "document_end"
           /\ s # "document_end" => s \notin Outside /\ Turned(Waits(s)) = Now(s)
<1>1. CASE s = "document_end"
  BY <1>1, WidthFacts DEF Outside
<1>2. CASE s \in EntryStates
  <2>1. Width(s) \in 0 .. 2 /\ Width(s) >= 1
    BY <1>2, WidthType, WidthFacts
  <2>2. s # "end" /\ s # "document_end" /\ s \notin Outside
    BY <1>2 DEF EntryStates, MarkedStates, Outside, DocumentStart
  <2>3. Turned(Turned(Now(s))) = Now(s)
    BY DEF Turned, Now
  <2>4. Width(s) # 0
    BY <2>1
  <2> QED
    BY <2>1, <2>2, <2>3, <2>4 DEF Waits
<1> QED
  BY <1>1, <1>2 DEF WaitStates

\* A node is given to the collection that waits for it, or it is the root.
LEMMA AttachStep ==
    ASSUME ParserShape, call = Enter, state \in WaitStates,
           NEW all, NEW collections, LoaderShape(all, aliases', collections),
           NEW index \in 1 .. Len(all),
           Agree(states, RolesOf(all, collections), Len(collections),
                 Width(state), Waits(state)),
           Attach(index, all, collections)
    PROVE  InStep'
<1> DEFINE n == Len(collections)
           rs == RolesOf(all, collections)
           qs == RolesOf(nodes', open')
           w == Width(state)
<1>1. n \in Nat /\ (n = 0 <=> collections = <<>>)
  BY OpenCount
<1>2. /\ w \in 0 .. 2 /\ state # "end" /\ (w = 0 <=> state = "document_end")
      /\ state # "document_end" => state \notin Outside /\ Turned(Waits(state)) = Now(state)
  BY WaitFacts
<1>3. /\ Fits(rs, n, w, Waits(state)) /\ Matches(states, rs, n - w) /\ w <= n
  BY DEF Agree, Fits
<1>4. /\ event' = Reading /\ state' = state /\ states' = states /\ call' = call
      /\ loading' = IF collections = <<>> THEN "document_end" ELSE "node"
  BY <1>2 DEF Attach, CallParseThen, CallParse
<1>5. call.at # "node" /\ states \in Seq(AllStates)
  BY CallFields DEF ParserShape
<1>6. \A role : ~EndsAs(Reading.type, role)
  BY ReadingFields DEF EndsAs
<1>7. all # <<>>
  BY LenProperties DEF LoaderShape
<1>8. CASE collections = <<>>
  <2>1. n = 0 /\ w = 0 /\ state = "document_end"
    BY <1>1, <1>2, <1>3, <1>8
  <2>2. nodes' = all /\ open' = collections /\ loading' = "document_end"
    BY <1>4, <1>8 DEF Attach
  <2>3. InPhase(event', state', loading')
    BY <1>4, <2>1, <2>2 DEF InPhase
  <2>4. Matches(states, rs, 0)
    BY <1>3, <2>1
  <2>5. Agree(states, rs, 0, 0, Now(state))
    BY <2>4, NothingFits
  <2>6. Located(event', state', states', call'.at, rs, 0)
    BY <1>4, <1>5, <1>6, <2>1, <2>5, ReadingFields DEF Located
  <2> QED
    BY <1>4, <1>7, <2>1, <2>2, <2>3, <2>6 DEF InStep, EventShape
<1>9. CASE collections # <<>>
  <2>1. state # "document_end"
    <3>1. SUFFICES ASSUME state = "document_end" PROVE FALSE
      OBVIOUS
    <3>2. states = <<>> /\ w = 0
      BY <1>2, <3>1 DEF ParserShape, Outside
    <3>3. Matches(<<>>, rs, n)
      BY <1>1, <1>3, <3>2
    <3> QED
      BY <1>1, <1>9, <3>3, MatchNone
  <2>2. w >= 1 /\ w \in Nat
    BY <1>2, <2>1
  <2>3. /\ nodes' = NodesWith(all, Last(collections), index)
        /\ open' = OpenWith(all, collections, index)
    BY <1>9, Zenon DEF Attach, NodesWith, OpenWith, TakesKey, Items
  <2>4. /\ LoaderShape(nodes', aliases', open') /\ Len(open') = n
        /\ \A i \in 1 .. (n - 1) : qs[i] = rs[i]
        /\ qs[n] = Turned(rs[n])
    BY <1>9, <2>3, AttachRoles
  <2> HIDE DEF n, rs, qs, w
  <2>5. qs[n] = Now(state)
    BY <1>2, <1>3, <2>1, <2>2, <2>4 DEF Fits
  <2>6. w = 2 => qs[n - 1] = "item"
    <3>1. SUFFICES ASSUME w = 2 PROVE qs[n - 1] = "item"
      OBVIOUS
    <3>2. n - 1 \in 1 .. (n - 1) /\ rs[n - 1] = "item"
      BY <1>1, <1>3, <3>1 DEF Fits
    <3> QED
      BY <2>4, <3>2
  <2>7. Fits(qs, n, w, Now(state))
    BY <1>3, <2>5, <2>6 DEF Fits
  <2>8. n - w \in Nat /\ \A i \in 1 .. (n - w) : i \in 1 .. (n - 1)
    BY <1>1, <1>3, <2>2
  <2>9. Matches(states, qs, n - w)
    BY <1>3, <1>5, <2>4, <2>8, MatchLocal
  <2>10. Agree(states, qs, n, w, Now(state))
    BY <2>7, <2>9 DEF Agree
  <2>11. Located(event', state', states', call'.at, qs, n)
    BY <1>4, <1>5, <1>6, <2>10, ReadingFields DEF Located, w
  <2>12. loading' = "node" /\ InPhase(event', state', loading')
    BY <1>2, <1>4, <1>9, <2>1 DEF InPhase
  <2> QED
    BY <1>4, <2>4, <2>11, <2>12 DEF InStep, EventShape, qs
<1> QED
  BY <1>8, <1>9

\* What an event that was returned says of the place.
LEMMA EventFacts ==
    ASSUME InStep, event # Reading
    PROVE  /\ event \in Events /\ call = Enter
           /\ loading = "stream" =>
                 event.type = "stream_start" /\ state = "implicit_document_start"
           /\ loading = "document" =>
                 \/ event.type = "document_start" /\ state \in ContentStates
                 \/ event.type = "stream_end" /\ state = "end"
           /\ loading = "node" =>
                 \/ event.type \in {"alias", "scalar"} /\ state \in WaitStates
                 \/ (\E role : EndsAs(event.type, role)) /\ state \in WaitStates
                 \/ StartsAs(event.type, Now(state)) /\ state \in StartStates
           /\ loading \in {"document_end", "loaded"} =>
                 event.type = "document_end" /\ state = "document_start"
BY DEF InStep, EventShape, InPhase

LEMMA StartStep ==
    ASSUME ParserShape, InStep, event # Reading, LoadStart
    PROVE  InStep'
<1> DEFINE rs == RolesOf(nodes, open)
           n == Len(open)
<1>1. /\ event \in Events /\ call = Enter /\ LoaderShape(nodes, aliases, open)
      /\ Located(event, state, states, call.at, rs, n)
      /\ n \in Nat /\ (n = 0 <=> open = <<>>) /\ open' = open
  BY EventFacts, OpenCount DEF InStep, LoadStart
<1>2. event.type \in {"stream_start", "stream_end", "document_start"} =>
         n = 0 /\ Matches(states, rs, 0)
  BY <1>1 DEF Located
<1>3. CASE loading = "stream" /\ event.type = "stream_start" /\ CallParseThen("document")
           /\ UNCHANGED <<nodes, aliases>>
  <2>1. state = "implicit_document_start" /\ state \in Outside /\ state # "end"
        /\ state \in DocumentStart
    BY <1>3, EventFacts DEF Outside, DocumentStart
  <2>2. InPhase(Reading, state, "document")
    BY <2>1 DEF InPhase
  <2>3. /\ EventShape' /\ InPhase(event', state', loading')
        /\ Located(event', state', states', call'.at, rs, 0)
    BY <1>1, <1>2, <1>3, <2>1, <2>2, OutsideStep
  <2>4. loading' = "document"
    BY <1>3 DEF CallParseThen
  <2> QED
    BY <1>1, <1>2, <1>3, <2>3, <2>4 DEF InStep
<1>4. CASE loading = "document" /\ event.type = "stream_end" /\ Returned("no_document")
           /\ UNCHANGED <<nodes, aliases>>
  <2>1. state = "end"
    BY <1>4, EventFacts
  <2>2. /\ loading' = "no_document" /\ event' = event /\ state' = state /\ states' = states
        /\ call' = call
    BY <1>4 DEF Returned, parserVars
  <2>3. InPhase(event', state', loading') /\ EventShape'
    BY <1>1, <1>4, <2>1, <2>2 DEF InPhase, EventShape
  <2> QED
    BY <1>1, <1>4, <2>2, <2>3 DEF InStep
<1>5. CASE loading = "document" /\ event.type = "document_start" /\ CallParseThen("node")
           /\ nodes' = <<>> /\ aliases' = {}
  <2>1. state \in ContentStates /\ state \notin Outside /\ state # "end"
    BY <1>5, EventFacts DEF ContentStates, Outside, DocumentStart
  <2>2. InPhase(Reading, state, "node")
    BY <2>1 DEF InPhase
  <2>3. n = 0 /\ open = <<>> /\ Matches(states, rs, 0)
    BY <1>1, <1>2, <1>5
  <2>4. /\ EventShape' /\ InPhase(event', state', loading')
        /\ Located(event', state', states', call'.at, rs, 0)
    BY <1>1, <1>5, <2>1, <2>2, <2>3, OutsideStep
  <2>5. RolesOf(<<>>, open) = rs
    <3>1. \A i \in 1 .. n : FALSE
      BY <2>3
    <3> QED
      BY <3>1, Zenon DEF RolesOf
  <2>6. LoaderShape(<<>>, {}, <<>>)
    <3>1. Len(<<>>) = 0 /\ <<>> \in Seq(NodeRecords) /\ <<>> \in Seq(OpenRecords)
      OBVIOUS
    <3> QED
      BY <3>1 DEF LoaderShape, KidsKnown
  <2>7. loading' = "node"
    BY <1>5 DEF CallParseThen
  <2> QED
    BY <1>1, <1>5, <2>3, <2>4, <2>5, <2>6, <2>7 DEF InStep
<1> QED
  BY <1>3, <1>4, <1>5 DEF LoadStart

LEMMA DocumentEndStep ==
    ASSUME InStep, event # Reading, LoadDocumentEnd
    PROVE  InStep'
<1>1. /\ loading' = "loaded" /\ UNCHANGED <<event, state, states, call, nodes, aliases, open>>
      /\ loading = "document_end"
  BY DEF LoadDocumentEnd, Returned, parserVars
<1>2. event.type = "document_end" /\ state = "document_start"
  BY <1>1, EventFacts
<1>3. InPhase(event', state', loading')
  BY <1>1, <1>2 DEF InPhase
<1> QED
  BY <1>1, <1>3 DEF InStep, EventShape

LEMMA NodeOfFields ==
    ASSUME event \in Events, NEW kind \in {"scalar", "sequence", "mapping"}
    PROVE  NodeOf(kind) \in NodeRecords /\ NodeOf(kind).kids = <<>> /\ NodeOf(kind).kind = kind
<1>1. event.val \in Values /\ event.tag \in Values /\ <<>> \in Seq(Nat)
  BY DEF Events
<1> QED
  BY <1>1 DEF NodeOf, NodeRecords

LEMMA RegisteredFields ==
    ASSUME NEW index
    PROVE  \A a \in Registered(index) : a \in aliases \/ a.index = index
<1> DEFINE new == [anchor |-> event.anchor, index |-> index]
<1>1. new.index = index
  OBVIOUS
<1>2. Registered(index) \subseteq aliases \cup {new}
  BY DEF Registered
<1> HIDE DEF new
<1> QED
  BY <1>1, <1>2

LEMMA LeafStep ==
    ASSUME ParserShape, InStep, event # Reading, loading = "node", LoadAlias \/ LoadScalar
    PROVE  InStep'
<1> DEFINE rs == RolesOf(nodes, open)
           n == Len(open)
<1>1. /\ event \in Events /\ call = Enter /\ LoaderShape(nodes, aliases, open)
      /\ Located(event, state, states, call.at, rs, n)
      /\ event.type \in {"alias", "scalar"}
  BY EventFacts DEF InStep, LoadAlias, LoadScalar
<1>2. state \in WaitStates /\ Agree(states, rs, n, Width(state), Waits(state))
  BY <1>1, EventFacts DEF Located, StartsAs
<1>3. CASE ComposerError
  BY <1>3 DEF ComposerError, parserVars, loaderVars, InStep, EventShape
<1>4. ASSUME NEW a \in aliases, Attach(a.index, nodes, open), UNCHANGED aliases
      PROVE  InStep'
  <2>1. a.index \in 1 .. Len(nodes)
    BY <1>1 DEF LoaderShape
  <2> QED
    BY <1>1, <1>2, <1>4, <2>1, AttachStep
<1>5. ASSUME aliases' = Registered(Len(nodes) + 1),
             Attach(Len(nodes) + 1, Append(nodes, NodeOf("scalar")), open)
      PROVE  InStep'
  <2> DEFINE all == Append(nodes, NodeOf("scalar"))
             index == Len(nodes) + 1
  <2>1. NodeOf("scalar") \in NodeRecords /\ NodeOf("scalar").kids = <<>>
    BY <1>1, NodeOfFields
  <2>2. \A a \in aliases' : a \in aliases \/ a.index = index
    BY <1>5, RegisteredFields
  <2>3. /\ Len(all) = index /\ index \in 1 .. index
        /\ LoaderShape(all, aliases', open) /\ RolesOf(all, open) = rs
    BY <1>1, <2>1, <2>2, PushedNode
  <2> HIDE DEF all, index
  <2>4. index \in 1 .. Len(all)
    BY <2>3
  <2>5. Attach(index, all, open)
    BY <1>5 DEF all, index
  <2>6. Agree(states, RolesOf(all, open), n, Width(state), Waits(state))
    BY <1>2, <2>3
  <2> QED
    BY <1>1, <1>2, <2>3, <2>4, <2>5, <2>6, AttachStep
<1> QED
  BY <1>3, <1>4, <1>5 DEF LoadAlias, LoadScalar

LEMMA StartStateFacts ==
    ASSUME NEW s \in StartStates
    PROVE  s \notin Outside /\ s # "end" /\ Width(s) \in {1, 2}
<1>1. s \notin Outside /\ s # "end"
  BY DEF StartStates, FirstStates, Outside, DocumentStart
<1>2. Width(s) >= 1
  BY DEF StartStates, Width, PairStates, FirstStates, EntryStates
<1> QED
  BY <1>1, <1>2, WidthType

\* A collection is opened: its role is that of the state the parser went to.
LEMMA CollectionStep ==
    ASSUME ParserShape, InStep, event # Reading, loading = "node", LoadCollection
    PROVE  InStep'
<1> DEFINE rs == RolesOf(nodes, open)
           n == Len(open)
           kind == IF event.type = "sequence_start" THEN "sequence" ELSE "mapping"
           node == NodeOf(kind)
           index == Len(nodes) + 1
           o == [index |-> index, key |-> 0]
           qs == RolesOf(nodes', open')
           w == Width(state)
<1>1. /\ event \in Events /\ call = Enter /\ LoaderShape(nodes, aliases, open)
      /\ Located(event, state, states, call.at, rs, n)
      /\ event.type \in {"sequence_start", "mapping_start"} /\ n \in Nat
  BY EventFacts, OpenCount DEF InStep, LoadCollection
<1>2. /\ state \in StartStates /\ StartsAs(event.type, Now(state))
      /\ Agree(states, rs, n, w - 1, "item")
  BY <1>1, EventFacts DEF Located, EndsAs
<1>3. state \notin Outside /\ state # "end" /\ w \in {1, 2} /\ states \in Seq(AllStates)
  BY <1>2, StartStateFacts DEF ParserShape
<1>4. CASE ComposerError
  BY <1>4 DEF ComposerError, parserVars, loaderVars, InStep, EventShape
<1>5. CASE /\ aliases' = Registered(index) /\ nodes' = Append(nodes, node)
           /\ open' = Append(open, o) /\ CallParseThen("node")
  <2>1. node \in NodeRecords /\ node.kids = <<>> /\ node.kind = kind
    BY <1>1, NodeOfFields
  <2>2. \A a \in aliases' : a \in aliases \/ a.index = index
    BY <1>5, RegisteredFields
  <2>3. /\ Len(nodes') = index /\ index \in 1 .. index /\ nodes'[index] = node
        /\ LoaderShape(nodes', aliases', open) /\ RolesOf(nodes', open) = rs
    BY <1>1, <1>5, <2>1, <2>2, PushedNode
  <2>4. o.index = index /\ o.key = 0 /\ o \in OpenRecords /\ IsOpen(nodes', o)
    <3>1. kind \in {"sequence", "mapping"} /\ index \in Nat
      BY <2>3
    <3>2. 0 \in 0 .. index
      BY <3>1
    <3>3. o.index = index /\ o.key = 0 /\ o \in OpenRecords
      BY <3>1 DEF OpenRecords
    <3> HIDE DEF o, index, node, kind
    <3> QED
      BY <2>1, <2>3, <3>1, <3>2, <3>3 DEF IsOpen
  <2>5. /\ open \in Seq(OpenRecords) /\ open' \in Seq(OpenRecords) /\ Len(open') = n + 1
        /\ \A i \in 1 .. n : open'[i] = open[i]
        /\ open'[n + 1] = o
    <3>1. open \in Seq(OpenRecords)
      BY <1>1 DEF LoaderShape
    <3> QED
      BY <1>5, <2>4, <3>1, AppendProperties
  <2>6. LoaderShape(nodes', aliases', open')
    <3>1. \A i \in 1 .. n : IsOpen(nodes', open[i])
      BY <2>3 DEF LoaderShape
    <3>2. \A i \in 1 .. (n + 1) : i \in 1 .. n \/ i = n + 1
      BY <1>1
    <3> HIDE DEF n, o
    <3>3. \A i \in 1 .. (n + 1) : IsOpen(nodes', open'[i])
      BY <2>4, <2>5, <3>1, <3>2
    <3> QED
      BY <2>3, <2>5, <3>3 DEF LoaderShape
  <2>7. /\ \A i \in 1 .. n : qs[i] = rs[i]
        /\ qs[n + 1] = Role(nodes', o)
    <3>1. \A i \in 1 .. (n + 1) : qs[i] = Role(nodes', open'[i])
      BY <2>5, RolesFacts
    <3>2. \A i \in 1 .. n : RolesOf(nodes', open)[i] = Role(nodes', open[i])
      BY <2>5, RolesFacts
    <3>3. n + 1 \in 1 .. (n + 1) /\ \A i \in 1 .. n : i \in 1 .. (n + 1)
      BY <1>1
    <3> HIDE DEF n, o, qs
    <3> QED
      BY <2>3, <2>5, <3>1, <3>2, <3>3 DEF rs
  <2>8. Role(nodes', o) = Now(state)
    <3>1. Role(nodes', o) = IF kind = "sequence" THEN "item" ELSE "key"
      BY <2>1, <2>3, <2>4 DEF Role
    <3> QED
      BY <1>1, <1>2, <3>1 DEF StartsAs
  <2> HIDE DEF n, qs, rs, w, o, node, index, kind
  <2>9. /\ Fits(rs, n, w - 1, "item") /\ Matches(states, rs, n - (w - 1))
    BY <1>2 DEF Agree
  <2>10. n - (w - 1) = (n + 1) - w /\ (n + 1) - w \in Nat
    BY <1>1, <1>3, <2>9 DEF Fits
  <2>11. \A i \in 1 .. ((n + 1) - w) : i \in 1 .. n
    BY <1>1, <1>3, <2>10
  <2>12. Matches(states, qs, (n + 1) - w)
    BY <1>3, <2>7, <2>9, <2>10, <2>11, MatchLocal
  <2>13. Fits(qs, n + 1, w, Now(state))
    <3>1. w <= n + 1
      BY <1>1, <1>3, <2>9 DEF Fits
    <3>2. w = 2 => n \in 1 .. n /\ (n + 1) - 1 = n /\ rs[n] = "item"
      BY <1>1, <2>9 DEF Fits
    <3> QED
      BY <2>7, <2>8, <3>1, <3>2 DEF Fits
  <2>14. Agree(states, qs, n + 1, w, Now(state))
    BY <2>12, <2>13 DEF Agree
  <2>15. /\ event' = Reading /\ state' = state /\ states' = states /\ call' = call
         /\ loading' = "node" /\ call.at # "node"
    BY <1>1, <1>3, <1>5, CallFields DEF CallParseThen, CallParse
  <2>16. \A role : ~EndsAs(Reading.type, role)
    BY ReadingFields DEF EndsAs
  <2>17. Located(event', state', states', call'.at, qs, n + 1)
    BY <2>14, <2>15, <2>16, ReadingFields DEF Located, w
  <2>18. InPhase(event', state', loading')
    BY <1>3, <2>15 DEF InPhase
  <2> QED
    BY <1>1, <2>5, <2>6, <2>15, <2>17, <2>18 DEF InStep, EventShape, qs
<1> QED
  BY <1>4, <1>5 DEF LoadCollection

\* What ends is the innermost collection, and it is a node itself.
LEMMA CollectionEndStep ==
    ASSUME ParserShape, InStep, event # Reading, loading = "node", LoadCollectionEnd
    PROVE  InStep'
<1> DEFINE rs == RolesOf(nodes, open)
           n == Len(open)
           rest == Front(open)
           qs == RolesOf(nodes, rest)
<1>1. /\ event \in Events /\ call = Enter /\ LoaderShape(nodes, aliases, open)
      /\ Located(event, state, states, call.at, rs, n)
      /\ event.type \in {"sequence_end", "mapping_end"} /\ open # <<>>
  BY EventFacts DEF InStep, LoadCollectionEnd, Ends
<1>2. state \in WaitStates /\ \E role : EndsAs(event.type, role)
  BY <1>1, EventFacts DEF StartsAs
<1>3. n >= 1 /\ Agree(states, rs, n - 1, Width(state), Waits(state))
  BY <1>1, <1>2 DEF Located
<1>4. /\ open \in Seq(OpenRecords) /\ n \in Nat \ {0} /\ rest \in Seq(OpenRecords)
      /\ Len(rest) = n - 1 /\ Last(open) = open[n]
      /\ \A i \in 1 .. (n - 1) : rest[i] = open[i]
  <2>1. open \in Seq(OpenRecords)
    BY <1>1 DEF LoaderShape
  <2>2. n \in Nat \ {0}
    BY <1>1, <2>1, EmptySeq
  <2> QED
    BY <1>1, <2>1, <2>2, FrontLast DEF Last
<1>5. n - 1 \in Nat /\ n \in 1 .. n /\ \A i \in 1 .. (n - 1) : i \in 1 .. n
  BY <1>4
<1> HIDE DEF rest
<1>6. Last(open).index \in 1 .. Len(nodes)
  BY <1>1, <1>4, <1>5 DEF LoaderShape, IsOpen
<1>7. LoaderShape(nodes, aliases, rest)
  BY <1>1, <1>4, <1>5 DEF LoaderShape
<1>8. \A i \in 1 .. (n - 1) : qs[i] = rs[i]
  <2>1. \A i \in 1 .. n : rs[i] = Role(nodes, open[i])
    BY <1>4, RolesFacts
  <2>2. \A i \in 1 .. (n - 1) : qs[i] = Role(nodes, rest[i])
    BY <1>4, RolesFacts
  <2> HIDE DEF rs, qs, n
  <2> QED
    BY <1>4, <1>5, <2>1, <2>2
<1>9. Agree(states, qs, n - 1, Width(state), Waits(state))
  <2>1. Width(state) \in 0 .. 2 /\ states \in Seq(AllStates)
    BY WidthType DEF ParserShape
  <2> HIDE DEF rs, qs, n
  <2> QED
    BY <1>3, <1>5, <1>8, <2>1, AgreeLocal
<1>10. Attach(Last(open).index, nodes, rest) /\ aliases' = aliases
  BY DEF LoadCollectionEnd, rest
<1> QED
  BY <1>1, <1>2, <1>4, <1>6, <1>7, <1>9, <1>10, AttachStep

LEMMA LoadStep ==
    ASSUME ParserShape, InStep, Load
    PROVE  InStep'
BY StartStep, DocumentEndStep, LeafStep, CollectionStep, CollectionEndStep DEF Load

LEMMA ParseKeepsStep ==
    ASSUME Reader, InStep, Parse, UNCHANGED loaderVars
    PROVE  InStep'
<1>1. /\ ParserShape /\ FirstShown /\ event = Reading
      /\ Located(event, state, states, call.at, RolesOf(nodes, open), Len(open))
      /\ InPhase(event, state, loading) /\ Len(open) \in Nat
  BY OpenCount DEF Reader, InStep, Parse
<1>2. /\ loading' = loading /\ nodes' = nodes /\ aliases' = aliases /\ open' = open
  BY DEF loaderVars
<1>3. CASE UNCHANGED parserVars
  BY <1>2, <1>3 DEF parserVars, InStep, EventShape
<1>4. CASE tokenAvailable /\ StateMachine
  <2>1. Peek \in Tokens
    <3>1. tokens # <<>> /\ tokens \in Seq(Tokens)
      BY <1>4 DEF Reader, ScannerShape
    <3> QED
      BY <3>1, HeadTailProperties DEF Peek
  <2>2. Moves
    BY <1>1, <1>4, <2>1, ParserMoves DEF MayMove
  <2>3. /\ Located(event', state', states', call'.at, RolesOf(nodes, open), Len(open))
        /\ InPhase(event', state', loading) /\ EventShape'
    BY <1>1, <2>2, MovesAgree
  <2> QED
    BY <1>2, <2>3 DEF InStep
<1> QED
  BY <1>3, <1>4 DEF Parse

\* The walk is over, and the next document is loaded.
LEMMA LoadNextStep ==
    ASSUME ParserShape, Sync, LoadNext
    PROVE  InStep'
<1> DEFINE rs == RolesOf(nodes, open)
           n == Len(open)
<1>1. loading = "loaded" /\ InStep
  BY DEF Sync, LoadNext
<1>2. event # Reading
  BY <1>1, ReadingFields DEF InStep, InPhase
<1>3. /\ event \in Events /\ call = Enter /\ event.type = "document_end"
      /\ state = "document_start"
  BY <1>1, <1>2, EventFacts
<1>4. n = 0 /\ Matches(states, rs, 0)
  BY <1>1, <1>3 DEF InStep, Located
<1>5. state \in Outside /\ state # "end" /\ InPhase(Reading, state, "document")
  BY <1>3 DEF Outside, DocumentStart, InPhase
<1>6. /\ EventShape' /\ InPhase(event', state', loading')
      /\ Located(event', state', states', call'.at, rs, 0)
  BY <1>3, <1>4, <1>5, OutsideStep DEF LoadNext
<1>7. nodes' = nodes /\ aliases' = aliases /\ open' = open /\ loading' = "document"
  BY DEF LoadNext, CallParseThen
<1> QED
  BY <1>1, <1>4, <1>6, <1>7 DEF InStep

LEMMA SyncNext ==
    ASSUME Reader, Sync, [Next]_vars
    PROVE  Sync'
<1>1. ParserShape /\ InStep
  BY DEF Reader, Sync
<1>2. CASE Parse /\ UNCHANGED <<loaderVars, toolVars>>
  <2>1. InStep'
    BY <1>1, <1>2, ParseKeepsStep
  <2> QED
    BY <1>2, <2>1 DEF Sync, loaderVars, toolVars
<1>3. CASE Load /\ status = "reading" /\ UNCHANGED toolVars
  <2>1. InStep' /\ status' = "reading"
    BY <1>1, <1>3, LoadStep DEF toolVars
  <2> QED
    BY <2>1 DEF Sync
<1>4. CASE LoadNext
  <2>1. InStep' /\ status' = "reading"
    BY <1>1, <1>4, LoadNextStep DEF LoadNext
  <2> QED
    BY <2>1 DEF Sync
<1>5. CASE \/ Loaded \/ LoadFailed \/ NoMoreDocuments \/ Traverse \/ WriteMap \/ Ended
           \/ UNCHANGED vars
  <2>1. UNCHANGED <<parserVars, loaderVars>>
    BY <1>5 DEF Loaded, LoadFailed, NoMoreDocuments, Traverse, WriteMap, Ended, vars
  <2>2. InStep'
    BY <1>1, <2>1 DEF InStep, EventShape, parserVars, loaderVars
  <2>3. status' = "walking" => status = "walking" \/ loading = "loaded"
    BY <1>5 DEF Loaded, LoadFailed, NoMoreDocuments, Traverse, WriteMap, Ended, vars, toolVars,
                Exit
  <2> QED
    BY <2>1, <2>2, <2>3 DEF Sync, loaderVars
<1> QED
  BY <1>2, <1>3, <1>4, <1>5 DEF Next, Read

LEMMA SyncInit ==
    ASSUME Init
    PROVE  Sync
<1>1. /\ state = "stream_start" /\ states = <<>> /\ event = Reading /\ call = Enter
      /\ loading = "stream" /\ nodes = <<>> /\ aliases = {} /\ open = <<>>
      /\ status = "reading"
  BY DEF Init, ParserInit, LoaderInit
<1>2. /\ Len(<<>>) = 0 /\ <<>> \in Seq(NodeRecords) /\ <<>> \in Seq(OpenRecords)
      /\ Width("stream_start") = 0
  BY WidthFacts DEF Outside
<1>3. LoaderShape(nodes, aliases, open)
  BY <1>1, <1>2 DEF LoaderShape, KidsKnown
<1>4. InPhase(event, state, loading) /\ EventShape
  BY <1>1 DEF InPhase, EventShape
<1>5. Matches(states, RolesOf(nodes, open), 0)
  BY <1>1, MatchNone
<1>6. Agree(states, RolesOf(nodes, open), 0,
            IF call.at = "node" THEN 0 ELSE Width(state), Now(state))
  BY <1>1, <1>2, <1>5, NothingFits
<1>7. \A role : ~EndsAs(Reading.type, role)
  BY ReadingFields DEF EndsAs
<1>8. Located(event, state, states, call.at, RolesOf(nodes, open), Len(open))
  BY <1>1, <1>2, <1>6, <1>7, ReadingFields DEF Located
<1> QED
  BY <1>1, <1>3, <1>4, <1>8 DEF Sync, InStep

\* For every set of texts, whatever is fed to the tool, the collections that
\* the loader has open are those of the states of the parser, each waiting for
\* the same: an item, a key or a value.
THEOREM SyncKept == Spec => []Sync
<1>1. Init => Sync
  BY SyncInit
<1>2. Reader /\ Sync /\ [Next]_vars => Sync'
  BY SyncNext
<1> QED
  BY <1>1, <1>2, ReaderKept, PTL DEF Spec

\* The assertions of the loader hold whatever is read: a node comes where a
\* node is expected, a collection ends only when it is the innermost one open
\* and is not between a key and its value, and its document ends after the root.
THEOREM EventsKept == Spec => []EventsWellFormed
<1>1. Sync => EventsWellFormed
  <2>1. SUFFICES ASSUME InStep, event # Reading
                 PROVE  /\ loading = "stream" => event.type = "stream_start"
                        /\ loading = "document" =>
                              event.type \in {"stream_end", "document_start"}
                        /\ loading = "document_end" => event.type = "document_end"
                        /\ loading = "node" =>
                              event.type \in NodeEvents \/ Ends(event.type)
    BY DEF Sync, EventsWellFormed
  <2>2. ASSUME NEW role, EndsAs(event.type, role)
        PROVE  Ends(event.type)
    <3>1. /\ open \in Seq(OpenRecords)
          /\ \A i \in 1 .. Len(open) : IsOpen(nodes, open[i])
          /\ Len(open) >= 1 /\ RolesOf(nodes, open)[Len(open)] = role
      BY <2>1, <2>2 DEF InStep, LoaderShape, Located
    <3>2. Len(open) \in Nat /\ Len(open) \in 1 .. Len(open) /\ open # <<>>
      BY <3>1, LenProperties
    <3>3. Role(nodes, Last(open)) = role /\ IsOpen(nodes, Last(open))
      BY <3>1, <3>2, RolesFacts DEF Last
    <3> QED
      BY <2>2, <3>2, <3>3 DEF Role, IsOpen, EndsAs, Ends
  <2> QED
    BY <2>1, <2>2, EventFacts DEF NodeEvents, StartsAs
<1> QED
  BY <1>1, SyncKept, PTL

-----------------------------------------------------------------------------
(* The walk through the nodes *)

Errors == {"none", "scanner", "parser", "composer"}
Statuses == Running \cup {"written", "bad_value", "assertion", "endless"}

LEMMA ErrorNext ==
    ASSUME error \in Errors, [Next]_vars
    PROVE  error' \in Errors
<1>1. FetchMoreTokens => error' \in {error, "scanner"}
  <2>1. ASSUME NEW queue, NEW keys, NEW allowed, NEW levels, NEW level, NEW next, NEW m,
               Fetched(queue, keys, allowed, levels, level, next, m)
        PROVE  error' = error
    BY <2>1 DEF Fetched
  <2>2. ASSUME NEW token, Atom(token)
        PROVE  error' = error
    BY <2>1, <2>2 DEF Atom
  <2>3. ScannerError => error' = "scanner"
    BY DEF ScannerError
  <2>4. ASSUME \/ FetchStreamEnd \/ FetchDocumentIndicator \/ FetchFlowStart \/ FetchFlowEnd
               \/ FetchFlowEntry \/ FetchBlockEntry \/ FetchKey \/ FetchSimpleValue
               \/ FetchComplexValue \/ FetchPlainScalar
        PROVE  error' = error
    BY <2>1, <2>4 DEF FetchStreamEnd, FetchDocumentIndicator, FetchFlowStart, FetchFlowEnd,
                FetchFlowEntry, FetchBlockEntry, FetchKey, FetchSimpleValue,
                FetchComplexValue, FetchPlainScalar
  <2>5. FetchAnchor \/ FetchTag \/ FetchFlowScalar => error' = error
    BY <2>2 DEF FetchAnchor, FetchTag, FetchFlowScalar
  <2>6. FetchDirective \/ FetchBlockScalar => error' \in {error, "scanner"}
    BY <2>1, <2>3 DEF FetchDirective, FetchBlockScalar
  <2>7. FetchStreamStart => error' = error
    BY DEF FetchStreamStart
  <2>8. EnoughTokens => error' \in {error, "scanner"}
    BY <2>3 DEF EnoughTokens
  <2> QED
    BY <2>3, <2>4, <2>5, <2>6, <2>7, <2>8 DEF FetchMoreTokens, FetchNextToken
<1>2. StateMachine => error' \in {error, "parser"}
  BY QueueSteps DEF Skip, Stay, ParserError, scannerVars
<1>3. Load => error' \in {error, "composer"}
  <2>1. ComposerError => error' = "composer"
    BY DEF ComposerError
  <2>2. \A n : CallParseThen(n) => error' = error
    BY DEF CallParseThen, scannerVars
  <2>3. \A how : Returned(how) => error' = error
    BY DEF Returned, scannerVars
  <2>4. \A i, all, c : Attach(i, all, c) => error' = error
    BY <2>2 DEF Attach
  <2> QED
    BY <2>1, <2>2, <2>3, <2>4
       DEF Load, LoadStart, LoadDocumentEnd, LoadAlias, LoadScalar, LoadCollection,
           LoadCollectionEnd
<1>4. LoadNext => error' = error
  BY DEF LoadNext, CallParseThen, scannerVars
<1>5. Loaded \/ LoadFailed \/ NoMoreDocuments \/ Traverse \/ WriteMap \/ Ended => error' = error
  BY DEF Loaded, LoadFailed, NoMoreDocuments, Traverse, WriteMap, Ended, scannerVars
<1>6. UNCHANGED vars => error' = error
  BY DEF vars, scannerVars
<1> QED
  BY <1>1, <1>2, <1>3, <1>4, <1>5, <1>6 DEF Next, Read, Parse, Errors, scannerVars

LEMMA StatusNext ==
    ASSUME status \in Statuses, [Next]_vars
    PROVE  status' \in Statuses
<1>1. Traverse => status' \in {status, "assertion", "bad_value", "endless"}
  BY DEF Traverse, VisitKid, Visit, VisitValue, Return, TakeField, SetField, AddRegion,
         Endless, Exit
<1> QED
  BY <1>1 DEF Next, Read, LoadNext, Loaded, LoadFailed, NoMoreDocuments, WriteMap, Ended, Exit,
              Statuses, Running, vars, toolVars

\* The pairs of a mapping are complete.
PairsEven(all) ==
    \A i \in 1 .. Len(all) : all[i].kind = "mapping" => Len(all[i].kids) % 2 = 0

LEMMA AppendEven ==
    ASSUME NEW all \in Seq(NodeRecords), PairsEven(all), NEW node \in NodeRecords,
           node.kids = <<>>
    PROVE  PairsEven(Append(all, node))
<1> DEFINE more == Append(all, node)
<1>1. /\ Len(all) \in Nat /\ Len(more) = Len(all) + 1 /\ more[Len(all) + 1] = node
      /\ \A i \in 1 .. Len(all) : more[i] = all[i]
  BY LenProperties, AppendProperties
<1>2. \A i \in 1 .. (Len(all) + 1) : i \in 1 .. Len(all) \/ i = Len(all) + 1
  BY <1>1
<1>3. Len(node.kids) = 0 /\ 0 % 2 = 0
  OBVIOUS
<1> HIDE DEF more
<1> QED
  BY <1>1, <1>2, <1>3 DEF PairsEven, more

LEMMA NodesWithEven ==
    ASSUME NEW all \in Seq(NodeRecords), PairsEven(all), NEW top, IsOpen(all, top),
           NEW index \in 1 .. Len(all)
    PROVE  PairsEven(NodesWith(all, top, index))
<1> DEFINE more == NodesWith(all, top, index)
           n == Len(all)
           at == top.index
           items == Items(all, top, index)
           kids == all[at].kids
           node == [all[at] EXCEPT !.kids = @ \o items]
<1>1. n \in Nat /\ at \in 1 .. n /\ top.key \in 0 .. n /\ all[at] \in NodeRecords
  BY LenProperties, ElementOfSeq DEF IsOpen
<1>2. kids \in Seq(Nat)
  BY <1>1 DEF NodeRecords
<1>3. CASE TakesKey(all, top)
  BY <1>3 DEF NodesWith
<1>4. CASE ~TakesKey(all, top)
  <2>1. more = [all EXCEPT ![at] = node]
    BY <1>4 DEF NodesWith
  <2>2. items \in Seq(Nat) /\ (all[at].kind = "mapping" => Len(items) = 2)
    <3>1. top.key \in Nat /\ index \in Nat
      BY <1>1
    <3>2. <<top.key, index>> \in Seq(Nat) /\ Len(<<top.key, index>>) = 2
          /\ <<index>> \in Seq(Nat)
      BY <3>1
    <3> QED
      BY <3>2 DEF Items
  <2> HIDE DEF items
  <2>3. /\ kids \o items \in Seq(Nat) /\ Len(kids \o items) = Len(kids) + Len(items)
        /\ Len(kids) \in Nat /\ Len(items) \in Nat
    BY <1>2, <2>2, ConcatProperties, LenProperties
  <2>4. node \in NodeRecords /\ node.kind = all[at].kind /\ node.kids = kids \o items
    <3> HIDE DEF at
    <3> QED
      BY <1>1, <2>3 DEF NodeRecords
  <2>5. /\ Len(more) = n
        /\ \A i \in 1 .. n : more[i] = IF i = at THEN node ELSE all[i]
    <3> HIDE DEF node, more
    <3> QED
      BY <1>1, <2>1, <2>4, ExceptSeq
  <2>6. node.kind = "mapping" => Len(node.kids) % 2 = 0
    <3>1. SUFFICES ASSUME all[at].kind = "mapping"
                   PROVE  Len(kids \o items) % 2 = 0
      BY <2>4
    <3>2. Len(kids) % 2 = 0
      BY <1>1, <3>1 DEF PairsEven
    <3>3. Len(items) = 2
      BY <2>2, <3>1
    <3> DEFINE k == Len(kids)
    <3>4. k \in Nat /\ k % 2 = 0 /\ Len(kids \o items) = k + 2
      BY <2>3, <3>2, <3>3
    <3> HIDE DEF k
    <3>5. (k + 2) % 2 = 0
      BY <3>4
    <3> QED
      BY <3>4, <3>5
  <2> HIDE DEF node, more
  <2>7. PairsEven(more)
    BY <2>5, <2>6 DEF PairsEven
  <2> QED
    BY <2>7 DEF more
<1> QED
  BY <1>3, <1>4

\* The calls of the walk are at kids of their nodes; the fields and the entries
\* that were made from them have a text for every name.
FrameRecords == [node : Nat, next : Nat, done : Nat]
FrameFits(all, f) ==
    f.node \in 1 .. Len(all) /\ f.next \in 1 .. (Len(all[f.node].kids) + 1)
Texts == Values \cup {"zero", "default", "unused", "garbage"}
FieldTexts == [FieldNames -> Texts]
WalkShape ==
    /\ frames \in Seq(FrameRecords)
    /\ \A i \in 1 .. Len(frames) : FrameFits(nodes, frames[i])
    /\ status = "reading" => frames = <<>>
    /\ fields \in FieldTexts /\ table \in Seq(FieldTexts)
    /\ PairsEven(nodes)

\* Where the loader is, the walk is not.
LEMMA LoadWalk ==
    ASSUME InStep, WalkShape, Load, status = "reading", UNCHANGED toolVars
    PROVE  WalkShape'
<1>1. LoaderShape(nodes, aliases, open) /\ PairsEven(nodes) /\ frames = <<>>
      /\ nodes \in Seq(NodeRecords)
  BY DEF InStep, WalkShape, LoaderShape
<1>2. event \in Events
  BY DEF InStep, EventShape, Load
<1>3. ASSUME NEW all, NEW collections, NEW index \in 1 .. Len(all), PairsEven(all),
             LoaderShape(all, {}, collections), Attach(index, all, collections)
      PROVE  PairsEven(nodes')
  <2>1. CASE collections = <<>>
    BY <1>3, <2>1 DEF Attach
  <2>2. CASE collections # <<>>
    <3>1. nodes' = NodesWith(all, Last(collections), index)
      BY <1>3, <2>2, Zenon DEF Attach, NodesWith, TakesKey, Items
    <3>2. all \in Seq(NodeRecords) /\ collections \in Seq(OpenRecords)
          /\ \A i \in 1 .. Len(collections) : IsOpen(all, collections[i])
      BY <1>3 DEF LoaderShape
    <3>3. Len(collections) \in 1 .. Len(collections)
      BY <2>2, <3>2, EmptySeq
    <3>4. IsOpen(all, Last(collections))
      BY <3>2, <3>3 DEF Last
    <3> QED
      BY <1>3, <3>1, <3>2, <3>4, NodesWithEven
  <2> QED
    BY <2>1, <2>2
<1>4. PairsEven(nodes')
  <2>1. CASE LoadStart \/ LoadDocumentEnd \/ ComposerError
    <3>1. nodes' = nodes \/ nodes' = <<>>
      BY <2>1 DEF LoadStart, LoadDocumentEnd, ComposerError, loaderVars
    <3>2. PairsEven(<<>>)
      BY DEF PairsEven
    <3> QED
      BY <1>1, <3>1, <3>2
  <2>2. CASE LoadAlias /\ ~ComposerError
    <3>1. PICK a \in aliases : Attach(a.index, nodes, open)
      BY <2>2 DEF LoadAlias
    <3>2. a.index \in 1 .. Len(nodes) /\ LoaderShape(nodes, {}, open)
      BY <1>1 DEF LoaderShape
    <3> QED
      BY <1>1, <1>3, <3>1, <3>2
  <2>3. CASE LoadScalar /\ ~ComposerError
    <3> DEFINE all == Append(nodes, NodeOf("scalar"))
    <3>1. NodeOf("scalar") \in NodeRecords /\ NodeOf("scalar").kids = <<>>
      BY <1>2, NodeOfFields
    <3>2. PairsEven(all)
      BY <1>1, <3>1, AppendEven
    <3>3. \A names : (\A a \in names : a \in aliases \/ a.index = Len(nodes) + 1) =>
                         LoaderShape(all, names, open)
      BY <1>1, <3>1, PushedNode
    <3>4. LoaderShape(all, {}, open)
      BY <3>3
    <3>5. Len(nodes) + 1 \in 1 .. Len(all)
      BY <1>1, <3>1, PushedNode
    <3>6. Attach(Len(nodes) + 1, all, open)
      BY <2>3 DEF LoadScalar
    <3> HIDE DEF all
    <3> QED
      BY <1>3, <3>2, <3>4, <3>5, <3>6
  <2>4. CASE LoadCollection /\ ~ComposerError
    <3> DEFINE kind == IF event.type = "sequence_start" THEN "sequence" ELSE "mapping"
    <3>1. nodes' = Append(nodes, NodeOf(kind))
      BY <2>4 DEF LoadCollection
    <3>2. NodeOf(kind) \in NodeRecords /\ NodeOf(kind).kids = <<>>
      BY <1>2, NodeOfFields
    <3> QED
      BY <1>1, <3>1, <3>2, AppendEven
  <2>5. CASE LoadCollectionEnd
    <3>1. open \in Seq(OpenRecords) /\ open # <<>>
          /\ \A i \in 1 .. Len(open) : IsOpen(nodes, open[i])
      BY <1>1, <2>5 DEF LoaderShape, LoadCollectionEnd, Ends
    <3>2. /\ Len(open) \in Nat \ {0} /\ Front(open) \in Seq(OpenRecords)
          /\ Len(Front(open)) = Len(open) - 1
          /\ \A i \in 1 .. (Len(open) - 1) : Front(open)[i] = open[i]
      BY <3>1, FrontLast, EmptySeq
    <3>3. Len(open) \in 1 .. Len(open) /\ \A i \in 1 .. (Len(open) - 1) : i \in 1 .. Len(open)
      BY <3>2
    <3>4. Last(open).index \in 1 .. Len(nodes)
      BY <3>1, <3>3 DEF Last, IsOpen
    <3>5. LoaderShape(nodes, {}, Front(open))
      BY <1>1, <3>1, <3>2, <3>3 DEF LoaderShape
    <3> QED
      BY <1>1, <1>3, <2>5, <3>4, <3>5 DEF LoadCollectionEnd
  <2> QED
    BY <2>1, <2>2, <2>3, <2>4, <2>5 DEF Load, LoadAlias, LoadScalar, LoadCollection
<1>5. frames' = <<>> /\ fields' = fields /\ table' = table
  BY <1>1 DEF toolVars
<1>6. Len(<<>>) = 0 /\ <<>> \in Seq(FrameRecords)
  OBVIOUS
<1> QED
  BY <1>4, <1>5, <1>6 DEF WalkShape

\* The call on top, and what the others are left with.
LEMMA TopFacts ==
    ASSUME InStep, WalkShape, frames # <<>>
    PROVE  /\ Top \in FrameRecords /\ FrameFits(nodes, Top)
           /\ Front(frames) \in Seq(FrameRecords)
           /\ \A i \in 1 .. Len(Front(frames)) : FrameFits(nodes, Front(frames)[i])
           /\ Len(Kids) \in Nat
           /\ \A i \in 1 .. Len(Kids) : /\ Kids[i] \in 1 .. Len(nodes)
                                         /\ Kid(i) \in NodeRecords
           /\ IsMapping => Len(Kids) % 2 = 0
<1>1. /\ frames \in Seq(FrameRecords) /\ \A i \in 1 .. Len(frames) : FrameFits(nodes, frames[i])
      /\ nodes \in Seq(NodeRecords) /\ KidsKnown(nodes) /\ PairsEven(nodes)
  BY DEF InStep, WalkShape, LoaderShape
<1>2. /\ Len(frames) \in Nat \ {0} /\ Len(frames) \in 1 .. Len(frames)
      /\ Front(frames) \in Seq(FrameRecords) /\ Len(Front(frames)) = Len(frames) - 1
      /\ \A i \in 1 .. (Len(frames) - 1) : Front(frames)[i] = frames[i]
  <2>1. frames \in Seq(FrameRecords) /\ frames # <<>>
    BY <1>1
  <2>2. Len(frames) \in Nat \ {0}
    BY <2>1, EmptySeq
  <2> QED
    BY <2>1, <2>2, FrontLast
<1>3. Top \in FrameRecords /\ FrameFits(nodes, Top)
  BY <1>1, <1>2, ElementOfSeq DEF Top, Last
<1>4. \A i \in 1 .. Len(Front(frames)) : i \in 1 .. Len(frames)
  BY <1>2
<1>5. Top.node \in 1 .. Len(nodes) /\ nodes[Top.node] \in NodeRecords
  BY <1>1, <1>3, ElementOfSeq DEF FrameFits
<1>6. Kids \in Seq(Nat) /\ Len(Kids) \in Nat
  BY <1>5, LenProperties DEF Kids, NodeRecords
<1>7. \A i \in 1 .. Len(Kids) : Kids[i] \in 1 .. Len(nodes)
  BY <1>1, <1>5 DEF KidsKnown, Kids
<1>8. \A i \in 1 .. Len(Kids) : Kid(i) \in NodeRecords
  BY <1>1, <1>7, ElementOfSeq DEF Kid
<1>9. IsMapping => Len(Kids) % 2 = 0
  BY <1>1, <1>5 DEF PairsEven, IsMapping, Kids
<1> QED
  BY <1>1, <1>2, <1>3, <1>4, <1>6, <1>7, <1>8, <1>9

\* The frame on top changes; it stays at its node and at a kid.
LEMMA WithFacts ==
    ASSUME InStep, WalkShape, frames # <<>>, NEW f \in FrameRecords, FrameFits(nodes, f)
    PROVE  /\ With(f) \in Seq(FrameRecords)
           /\ \A i \in 1 .. Len(With(f)) : FrameFits(nodes, With(f)[i])
<1> DEFINE rest == Front(frames)
           n == Len(rest)
<1>1. rest \in Seq(FrameRecords) /\ \A i \in 1 .. n : FrameFits(nodes, rest[i])
  BY TopFacts
<1>2. /\ With(f) \in Seq(FrameRecords) /\ Len(With(f)) = n + 1 /\ With(f)[n + 1] = f
      /\ \A i \in 1 .. n : With(f)[i] = rest[i]
  BY <1>1, AppendProperties DEF With
<1>3. \A i \in 1 .. (n + 1) : i \in 1 .. n \/ i = n + 1
  BY <1>1, LenProperties
<1> QED
  BY <1>1, <1>2, <1>3

LEMMA PushFacts ==
    ASSUME NEW all, NEW stack \in Seq(FrameRecords),
           \A i \in 1 .. Len(stack) : FrameFits(all, stack[i]),
           NEW f \in FrameRecords, FrameFits(all, f)
    PROVE  /\ Append(stack, f) \in Seq(FrameRecords)
           /\ \A i \in 1 .. Len(Append(stack, f)) : FrameFits(all, Append(stack, f)[i])
<1> DEFINE n == Len(stack)
           more == Append(stack, f)
<1>1. /\ more \in Seq(FrameRecords) /\ Len(more) = n + 1 /\ more[n + 1] = f
      /\ \A i \in 1 .. n : more[i] = stack[i]
  BY AppendProperties
<1>2. \A i \in 1 .. (n + 1) : i \in 1 .. n \/ i = n + 1
  BY LenProperties
<1> HIDE DEF more
<1> QED
  BY <1>1, <1>2 DEF more

\* A step of the walk that sets the frame on top, or ends the walk.
LEMMA WalkStep ==
    ASSUME InStep, WalkShape, frames # <<>>, UNCHANGED nodes,
           frames' \in Seq(FrameRecords),
           \A i \in 1 .. Len(frames') : FrameFits(nodes, frames'[i]),
           fields' \in FieldTexts, table' \in Seq(FieldTexts), status' # "reading"
    PROVE  WalkShape'
BY DEF WalkShape, FrameFits

LEMMA VisitStep ==
    ASSUME InStep, WalkShape, frames # <<>>, Top.next <= Len(Kids), Visit
    PROVE  /\ frames' \in Seq(FrameRecords)
           /\ \A i \in 1 .. Len(frames') : FrameFits(nodes, frames'[i])
<1>1. /\ Top \in FrameRecords /\ FrameFits(nodes, Top) /\ Len(Kids) \in Nat
      /\ \A i \in 1 .. Len(Kids) : Kids[i] \in 1 .. Len(nodes) /\ Kid(i) \in NodeRecords
  BY TopFacts
<1> DEFINE at == Top.next
           f == Frame(Kids[at])
<1>2. at \in Nat /\ at \in 1 .. Len(Kids) /\ at + 1 \in 1 .. (Len(Kids) + 1)
  BY <1>1 DEF FrameRecords, FrameFits
<1>3. Advanced \in FrameRecords /\ Advanced.node = Top.node /\ Advanced.next = at + 1
  BY <1>1 DEF Advanced, FrameRecords
<1>4. FrameFits(nodes, Advanced)
  BY <1>1, <1>2, <1>3 DEF FrameFits, Kids
<1>5. f \in FrameRecords /\ f.node = Kids[at] /\ f.next = 1
  BY <1>1, <1>2 DEF Frame, FrameRecords
<1>6. FrameFits(nodes, f)
  <2>1. Kid(at).kids \in Seq(Nat)
    BY <1>1, <1>2 DEF NodeRecords
  <2>2. Len(nodes[Kids[at]].kids) \in Nat
    BY <2>1, LenProperties DEF Kid
  <2>3. 1 \in 1 .. (Len(nodes[Kids[at]].kids) + 1)
    BY <2>2
  <2> QED
    BY <1>1, <1>2, <1>5, <2>3 DEF FrameFits
<1>7. /\ With(Advanced) \in Seq(FrameRecords)
      /\ \A i \in 1 .. Len(With(Advanced)) : FrameFits(nodes, With(Advanced)[i])
  BY <1>3, <1>4, WithFacts
<1>8. frames' = Append(With(Advanced), f)
  BY DEF Visit
<1> HIDE DEF f
<1> QED
  BY <1>5, <1>6, <1>7, <1>8, PushFacts

LEMMA FieldFacts ==
    /\ Defaults \in FieldTexts /\ Unused \in FieldTexts
    /\ \A f \in FieldTexts, name \in FieldNames, text \in Texts :
          [f EXCEPT ![name] = text] \in FieldTexts
    /\ \A f \in FieldTexts, n \in Nat : [i \in 1 .. n |-> f] \in Seq(FieldTexts)
<1>1. Defaults \in FieldTexts /\ Unused \in FieldTexts
  BY DEF Defaults, Unused, FieldTexts, Texts
<1>2. \A f \in FieldTexts, name \in FieldNames, text \in Texts :
         [f EXCEPT ![name] = text] \in FieldTexts
  BY DEF FieldTexts
<1>3. \A f \in FieldTexts, n \in Nat : [i \in 1 .. n |-> f] \in Seq(FieldTexts)
  <2>1. ASSUME NEW f \in FieldTexts, NEW n \in Nat
        PROVE  [i \in 1 .. n |-> f] \in Seq(FieldTexts)
    BY <2>1, SeqDef
  <2> QED
    BY <2>1
<1> QED
  BY <1>1, <1>2, <1>3

LEMMA TakeFieldStep ==
    ASSUME InStep, WalkShape, frames # <<>>, TakeField, UNCHANGED nodes, status = "walking"
    PROVE  WalkShape'
<1>1. /\ Top \in FrameRecords /\ FrameFits(nodes, Top) /\ Len(Kids) \in Nat
      /\ \A i \in 1 .. Len(Kids) : Kids[i] \in 1 .. Len(nodes) /\ Kid(i) \in NodeRecords
  BY TopFacts
<1>2. /\ frames \in Seq(FrameRecords) /\ \A i \in 1 .. Len(frames) : FrameFits(nodes, frames[i])
      /\ fields \in FieldTexts /\ table \in Seq(FieldTexts)
  BY DEF WalkShape
<1> DEFINE value == Kid(Top.next - 1)
           at == Top.next
           done == Top.done
<1>3. at \in Nat /\ done \in Nat /\ at <= Len(Kids) + 1 /\ at >= 1
  BY <1>1 DEF FrameRecords, FrameFits, Kids
<1>4. value.val \in Texts
  <2>1. at % 2 = 1 /\ done < at \div 2
    BY DEF TakeField, AtField
  <2>2. at - 1 \in 1 .. Len(Kids)
    <3> DEFINE n == Len(Kids)
    <3>1. n \in Nat
      BY <1>1
    <3> HIDE DEF at, done, n
    <3>2. at # 1
      BY <1>3, <2>1
    <3>3. at - 1 \in 1 .. n
      BY <1>3, <3>1, <3>2 DEF n
    <3> QED
      BY <3>3 DEF n
  <2>3. value \in NodeRecords
    BY <1>1, <2>2
  <2> QED
    BY <2>3 DEF NodeRecords, Texts
<1>5. PairDone => /\ frames' \in Seq(FrameRecords)
                  /\ \A i \in 1 .. Len(frames') : FrameFits(nodes, frames'[i])
  <2> DEFINE f == [Top EXCEPT !.done = @ + 1]
  <2>1. f \in FrameRecords /\ f.node = Top.node /\ f.next = Top.next
    BY <1>1 DEF FrameRecords
  <2>2. FrameFits(nodes, f)
    BY <1>1, <2>1 DEF FrameFits
  <2> HIDE DEF f
  <2>3. /\ With(f) \in Seq(FrameRecords)
        /\ \A i \in 1 .. Len(With(f)) : FrameFits(nodes, With(f)[i])
    BY <2>1, <2>2, WithFacts
  <2> QED
    BY <2>3 DEF PairDone, f
<1> HIDE DEF value
<1>6. ASSUME NEW name \in FieldNames, SetField(name, value)
      PROVE  WalkShape'
  <2>1. CASE UNCHANGED <<fields, frames, table>> /\ status' # "reading"
    BY <1>2, <2>1, WalkStep
  <2>2. CASE PairDone /\ UNCHANGED <<status, table>>
             /\ \E text \in Texts : fields' = [fields EXCEPT ![name] = text]
    <3>1. fields' \in FieldTexts
      BY <1>2, <2>2, FieldFacts
    <3> QED
      BY <1>2, <1>5, <2>2, <3>1, WalkStep
  <2>3. "garbage" \in Texts
    BY DEF Texts
  <2>4. \A how \in {"assertion", "bad_value"} : 
           Exit(how) => UNCHANGED <<fields, frames, table>> /\ status' # "reading"
    BY DEF Exit
  <2> QED
    BY <1>4, <1>6, <2>1, <2>2, <2>3, <2>4 DEF SetField
<1>7. CASE AddRegion
  <2>1. PICK complete \in BOOLEAN : \E n \in EntryCounts \cup (IF complete THEN {} ELSE {0}) :
            /\ table' = table \o [i \in 1 .. n |-> fields]
            /\ PairDone
            /\ UNCHANGED <<status, fields>>
    BY <1>7 DEF AddRegion
  <2>2. PICK n \in EntryCounts \cup (IF complete THEN {} ELSE {0}) :
            /\ table' = table \o [i \in 1 .. n |-> fields]
            /\ PairDone
            /\ UNCHANGED <<status, fields>>
    BY <2>1
  <2>3. n \in Nat
    BY ToolAssumption
  <2>4. [i \in 1 .. n |-> fields] \in Seq(FieldTexts)
    BY <1>2, <2>3, FieldFacts
  <2>5. table' \in Seq(FieldTexts)
    BY <1>2, <2>2, <2>4, ConcatProperties
  <2> QED
    BY <1>2, <1>5, <2>2, <2>5, WalkStep
<1>8. CASE PairDone /\ UNCHANGED <<status, fields, table>>
  BY <1>2, <1>5, <1>8, WalkStep
<1> QED
  BY <1>6, <1>7, <1>8 DEF TakeField, value

LEMMA TraverseStep ==
    ASSUME InStep, WalkShape, Traverse
    PROVE  WalkShape'
<1>1. /\ frames # <<>> /\ status = "walking" /\ nodes' = nodes
      /\ VisitKid \/ VisitValue \/ Return \/ TakeField \/ Endless
  BY DEF Traverse, loaderVars
<1>2. /\ frames \in Seq(FrameRecords) /\ \A i \in 1 .. Len(frames) : FrameFits(nodes, frames[i])
      /\ fields \in FieldTexts /\ table \in Seq(FieldTexts)
  BY DEF WalkShape
<1>3. CASE VisitKid
  <2>1. Top.next <= Len(Kids) /\ Visit /\ UNCHANGED <<fields, table, status>>
    BY <1>3 DEF VisitKid, Visit
  <2> QED
    BY <1>1, <1>2, <2>1, VisitStep, WalkStep
<1>4. CASE VisitValue /\ Visit
  <2> DEFINE at == Top.next
             n == Len(Kids)
  <2>1. IsMapping /\ at % 2 = 0 /\ fields' = FieldsAtValue /\ UNCHANGED <<table, status>>
    BY <1>1, <1>4 DEF VisitValue, AtValue, Exit, Visit
  <2>2. at \in Nat /\ at <= n + 1 /\ n \in Nat /\ n % 2 = 0
    <3>1. Top \in FrameRecords /\ FrameFits(nodes, Top) /\ n \in Nat
      BY <1>1, TopFacts
    <3>2. IsMapping => n % 2 = 0
      BY <1>1, TopFacts
    <3>3. at \in Nat /\ at \in 1 .. (n + 1)
      BY <3>1 DEF FrameRecords, FrameFits, Kids
    <3> HIDE DEF at, n
    <3>4. at <= n + 1
      BY <3>1, <3>3
    <3> QED
      BY <2>1, <3>1, <3>2, <3>3, <3>4
  <2> HIDE DEF at, n
  <2>3. at <= n
    BY <2>1, <2>2
  <2>4. FieldsAtValue \in FieldTexts
    BY <1>2, FieldFacts DEF FieldsAtValue
  <2> QED
    BY <1>1, <1>2, <1>4, <2>1, <2>3, <2>4, VisitStep, WalkStep DEF at, n
<1>5. CASE Return
  <2>1. /\ frames' = Front(frames) /\ UNCHANGED <<status, fields, table>>
        /\ Front(frames) \in Seq(FrameRecords)
        /\ \A i \in 1 .. Len(Front(frames)) : FrameFits(nodes, Front(frames)[i])
    BY <1>1, <1>5, TopFacts DEF Return
  <2> QED
    BY <1>1, <1>2, <2>1, WalkStep
<1>6. CASE TakeField
  BY <1>1, <1>6, TakeFieldStep
<1>7. CASE (VisitValue /\ ~Visit) \/ Endless
  <2>1. UNCHANGED <<fields, frames, table>> /\ status' # "reading"
    BY <1>7 DEF VisitValue, Endless, Exit
  <2> QED
    BY <1>1, <1>2, <2>1, WalkStep
<1> QED
  BY <1>1, <1>3, <1>4, <1>5, <1>6, <1>7

LEMMA WalkNext ==
    ASSUME Sync, WalkShape, [Next]_vars
    PROVE  WalkShape'
<1>1. InStep /\ PairsEven(nodes)
  BY DEF Sync, WalkShape
<1>2. CASE UNCHANGED nodes /\ UNCHANGED toolVars
  BY <1>2 DEF WalkShape, toolVars
<1>3. CASE Read
  <2>1. CASE Parse /\ UNCHANGED <<loaderVars, toolVars>>
    BY <1>2, <2>1 DEF loaderVars
  <2>2. CASE Load /\ status = "reading" /\ UNCHANGED toolVars
    BY <1>1, <2>2, LoadWalk
  <2> QED
    BY <1>3, <2>1, <2>2 DEF Read
<1>4. CASE LoadNext
  <2>1. frames' = <<>> /\ UNCHANGED <<nodes, fields, table>>
    BY <1>4 DEF LoadNext
  <2> QED
    BY <2>1 DEF WalkShape
<1>5. CASE Loaded
  <2>1. /\ frames' = <<Frame(1)>> /\ status' = "walking" /\ UNCHANGED <<fields, table, nodes>>
        /\ loading = "loaded"
    BY <1>5 DEF Loaded, loaderVars
  <2>2. nodes # <<>> /\ nodes \in Seq(NodeRecords)
    BY <1>1, <2>1 DEF InStep, LoaderShape
  <2>3. 1 \in 1 .. Len(nodes)
    BY <2>2, EmptySeq
  <2>4. nodes[1].kids \in Seq(Nat)
    <3>1. nodes[1] \in NodeRecords
      BY <2>2, <2>3, ElementOfSeq
    <3> QED
      BY <3>1 DEF NodeRecords
  <2>5. 1 \in 1 .. (Len(nodes[1].kids) + 1)
    BY <2>4, LenProperties
  <2>6. Frame(1) \in FrameRecords /\ Frame(1).node = 1 /\ Frame(1).next = 1
    BY DEF Frame, FrameRecords
  <2>7. FrameFits(nodes, Frame(1))
    BY <2>3, <2>5, <2>6 DEF FrameFits
  <2> DEFINE f == Frame(1)
  <2> HIDE DEF f
  <2>8. /\ <<f>> \in Seq(FrameRecords) /\ \A i \in 1 .. Len(<<f>>) : <<f>>[i] = f
    BY <2>6 DEF f
  <2>9. \A i \in 1 .. Len(frames') : FrameFits(nodes', frames'[i])
    BY <2>1, <2>7, <2>8 DEF f
  <2> QED
    BY <2>1, <2>8, <2>9 DEF WalkShape, f
<1>6. CASE LoadFailed \/ NoMoreDocuments
  <2>1. UNCHANGED <<frames, fields, table, nodes>> /\ status' = "read"
    BY <1>6 DEF LoadFailed, NoMoreDocuments, Exit, loaderVars
  <2> QED
    BY <2>1 DEF WalkShape
<1>7. CASE Traverse
  BY <1>1, <1>7, TraverseStep
<1>8. CASE WriteMap
  <2> DEFINE n == TableSize - Len(table)
             more == [i \in 1 .. n |-> Unused]
  <2>1. table \in Seq(FieldTexts) /\ Len(table) \in Nat
    BY LenProperties DEF WalkShape
  <2>2. more \in Seq(FieldTexts)
    <3>1. n \in Int
      BY <2>1, ToolAssumption
    <3>2. CASE n \in Nat
      BY <3>2, FieldFacts
    <3>3. CASE n \notin Nat
      <4>1. 1 .. n = 1 .. 0
        BY <3>1, <3>3
      <4>2. [i \in 1 .. 0 |-> Unused] \in Seq(FieldTexts)
        BY FieldFacts
      <4> QED
        BY <4>1, <4>2
    <3> QED
      BY <3>2, <3>3
  <2> HIDE DEF more
  <2>3. table \o more \in Seq(FieldTexts)
    BY <2>1, <2>2, ConcatProperties
  <2>4. /\ table' = table \o more /\ status' = "written" /\ UNCHANGED <<nodes, fields, frames>>
    BY <1>8 DEF WriteMap, loaderVars, more
  <2> QED
    BY <2>3, <2>4 DEF WalkShape
<1>9. CASE Ended \/ UNCHANGED vars
  BY <1>2, <1>9 DEF Ended, vars, loaderVars
<1> QED
  BY <1>3, <1>4, <1>5, <1>6, <1>7, <1>8, <1>9 DEF Next

LEMMA WalkInit ==
    ASSUME Init
    PROVE  WalkShape /\ error \in Errors /\ status \in Statuses
<1>1. /\ frames = <<>> /\ table = <<>> /\ fields = [f \in FieldNames |-> "zero"]
      /\ nodes = <<>> /\ error = "none" /\ status = "reading"
  BY DEF Init, ScannerInit, LoaderInit
<1>2. fields \in FieldTexts
  BY <1>1 DEF FieldTexts, Texts
<1>3. Len(<<>>) = 0 /\ <<>> \in Seq(FrameRecords) /\ <<>> \in Seq(FieldTexts)
  OBVIOUS
<1>4. \A i \in 1 .. 0 : FALSE
  OBVIOUS
<1> QED
  BY <1>1, <1>2, <1>3, <1>4 DEF WalkShape, PairsEven, Errors, Statuses, Running

\* For every set of texts, the walk only follows nodes of the document it is
\* in, at a kid or behind the last, and a key always has its value.
THEOREM WalkKept == Spec => [](WalkShape /\ error \in Errors /\ status \in Statuses)
<1> DEFINE Walk == WalkShape /\ error \in Errors /\ status \in Statuses
<1>1. Init => Walk
  BY WalkInit
<1>2. Sync /\ Walk /\ [Next]_vars => Walk'
  BY WalkNext, ErrorNext, StatusNext
<1> QED
  BY <1>1, <1>2, SyncKept, PTL DEF Spec

\* The type invariant of the tool, whatever is read: the levels of indentation
\* ascend, every index is that of a node, and every entry of the table was
\* made from a full set of fields.
THEOREM ToolTyped == Spec => []TypeOK
<1> DEFINE Walk == WalkShape /\ error \in Errors /\ status \in Statuses
<1>1. Reader /\ Sync /\ Walk => TypeOK
  <2> SUFFICES ASSUME Reader, Sync, Walk
               PROVE  TypeOK
    OBVIOUS
  <2>1. /\ error \in {"none", "scanner", "parser", "composer"}
        /\ status \in Running \cup {"written", "bad_value", "assertion", "endless"}
    BY DEF Errors, Statuses
  <2>2. loading \in {"stream", "document", "node", "document_end", "loaded", "no_document"}
    BY DEF Sync, InStep, InPhase
  <2>3. /\ Len(simpleKeys) = (IF streamStarted THEN flowLevel + 1 ELSE 0)
        /\ tokensParsed \in Nat
    BY DEF Reader, ScannerShape
  <2>4. \A i, j \in DOMAIN indents : i < j => indents[i] < indents[j]
    <3>1. CASE ~streamStarted
      BY <3>1 DEF Reader, ScannerShape
    <3>2. CASE streamStarted
      <4>1. indents \in Seq(Int) /\ Ascending(indents)
        BY <3>2 DEF Reader, ScannerShape, LevelsShape
      <4>2. DOMAIN indents = 1 .. Len(indents)
        BY <4>1, LenProperties
      <4> QED
        BY <4>1, <4>2 DEF Ascending
    <3> QED
      BY <3>1, <3>2
  <2>5. marks \in Nat
    BY OpenFact DEF Reader, MarksCounted
  <2>6. /\ DOMAIN nodes = 1 .. Len(nodes)
        /\ \A i \in DOMAIN nodes : \A k \in DOMAIN nodes[i].kids :
              nodes[i].kids[k] \in DOMAIN nodes
    <3>1. nodes \in Seq(NodeRecords) /\ KidsKnown(nodes)
      BY DEF Sync, InStep, LoaderShape
    <3>2. DOMAIN nodes = 1 .. Len(nodes)
      BY <3>1, LenProperties
    <3>3. \A i \in 1 .. Len(nodes) : nodes[i].kids \in Seq(Nat)
      <4>1. \A i \in 1 .. Len(nodes) : nodes[i] \in NodeRecords
        BY <3>1, ElementOfSeq
      <4> QED
        BY <4>1 DEF NodeRecords
    <3>4. \A i \in 1 .. Len(nodes) : DOMAIN nodes[i].kids = 1 .. Len(nodes[i].kids)
      BY <3>3, LenProperties
    <3> QED
      BY <3>1, <3>2, <3>4 DEF KidsKnown
  <2>7. \A i \in DOMAIN frames : frames[i].node \in DOMAIN nodes
    <3>1. frames \in Seq(FrameRecords)
          /\ \A i \in 1 .. Len(frames) : FrameFits(nodes, frames[i])
      BY DEF WalkShape
    <3>2. DOMAIN frames = 1 .. Len(frames)
      BY <3>1, LenProperties
    <3> QED
      BY <2>6, <3>1, <3>2 DEF FrameFits
  <2>8. \A i \in DOMAIN table : DOMAIN table[i] = FieldNames
    <3>1. table \in Seq(FieldTexts)
      BY DEF WalkShape
    <3>2. \A i \in DOMAIN table : table[i] \in FieldTexts
      BY <3>1, LenProperties, ElementOfSeq
    <3> QED
      BY <3>2 DEF FieldTexts
  <2> QED
    BY <2>1, <2>2, <2>3, <2>4, <2>5, <2>6, <2>7, <2>8 DEF TypeOK
<1> QED
  BY <1>1, ReaderKept, SyncKept, WalkKept, PTL

==============================================================================
