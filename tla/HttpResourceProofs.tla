------------------------- MODULE HttpResourceProofs -------------------------
(***************************************************************************)
(* Proofs about the parsing loop, for resources of any length over any     *)
(* characters and for any size_t that is wide enough for their positions.  *)
(***************************************************************************)
EXTENDS HttpResource, LeastElement, SequenceTheorems, TLAPS

\* The minimum of a set of positions exists.
LEMMA MinIsLeast ==
    ASSUME NEW S \in SUBSET Nat, S # {}
    PROVE  Min(S) \in S /\ \A y \in S : Min(S) <= y
<1>. QED
  BY LeastExists DEF Min

\* find() answers with the first place at or after the one it starts from, or
\* with npos when there is none.
LEMMA FindIsFirst ==
    ASSUME NEW s \in Text, NEW ch, NEW from \in Nat
    PROVE  \/ Find(s, ch, from) = NPos /\ \A i \in from .. Len(s) - 1 : s[i + 1] # ch
           \/ /\ Find(s, ch, from) \in from .. Len(s) - 1
              /\ s[Find(s, ch, from) + 1] = ch
              /\ \A i \in from .. Find(s, ch, from) - 1 : s[i + 1] # ch
<1>. DEFINE found == {i \in from .. Len(s) - 1 : s[i + 1] = ch}
<1>1. Len(s) \in Nat
  BY DEF Text
<1>2. found \in SUBSET Nat
  BY <1>1
<1>3. CASE found = {}
  BY <1>3 DEF Find
<1>4. CASE found # {}
  <2>. DEFINE least == Find(s, ch, from)
  <2>1. Min(found) \in found /\ \A i \in found : Min(found) <= i
    BY <1>2, <1>4, MinIsLeast
  <2>2. Find(s, ch, from) = Min(found)
    BY <1>4 DEF Find
  <2>3. least \in found /\ \A i \in found : least <= i
    BY <2>1, <2>2
  <2>. HIDE DEF least
  <2>4. least \in from .. Len(s) - 1 /\ s[least + 1] = ch
    BY <2>3
  <2>5. ASSUME NEW i \in from .. least - 1 PROVE s[i + 1] # ch
    <3>1. i \in from .. Len(s) - 1 /\ ~ least <= i
      BY <1>1, <2>4
    <3>. QED BY <2>3, <3>1
  <2>. QED
    BY <2>4, <2>5 DEF least
<1>. QED
  BY <1>3, <1>4

\* find() answers with a position at or after the one it starts from and
\* inside the text, or with npos.
LEMMA FindInRange ==
    ASSUME NEW s \in Text, NEW ch, NEW from \in Nat
    PROVE  \/ Find(s, ch, from) = NPos
           \/ Find(s, ch, from) \in Nat /\ Find(s, ch, from) >= from
                                        /\ Find(s, ch, from) < Len(s)
<1>1. Len(s) \in Nat
  BY DEF Text
<1>. QED
  BY <1>1, FindIsFirst

\* substr() of a text is a text.
LEMMA SubstrIsText ==
    ASSUME NEW s \in Text, NEW pos \in Nat, NEW count \in Nat
    PROVE  Substr(s, pos, count) \in Text
<1>. DEFINE last == IF count < Len(s) - pos THEN pos + count ELSE Len(s)
<1>1. Len(s) \in Nat /\ \A i \in 1 .. Len(s) : s[i] \in Chars
  BY DEF Text
<1>2. last \in Int /\ pos + 1 \in Int /\ last <= Len(s)
  BY <1>1
<1>3. \A i \in pos + 1 .. last : s[i] \in Chars
  BY <1>1, <1>2
<1>4. SubSeq(s, pos + 1, last) \in Seq(Chars)
  <2>. HIDE DEF last
  <2>. QED BY <1>2, <1>3, SubSeqProperties
<1>. QED
  BY <1>4 DEF Substr, Text

\* Adding an argument keeps the keys and values texts.
LEMMA AddArgKeepsType ==
    ASSUME TypeOK, NEW chunk \in Text, AddArg(chunk)
    PROVE  /\ DOMAIN argv' \subseteq Text
           /\ \A key \in DOMAIN argv' : argv'[key] \in Seq(Text)
<1>. DEFINE eqsign == Find(chunk, "=", 0)
            key == Substr(chunk, 0, eqsign)
            value == IF eqsign = NPos THEN <<>> ELSE Substr(chunk, Succ(eqsign), NPos)
            values(k) == IF k \in DOMAIN argv THEN argv[k] ELSE <<>>
<1>1. eqsign \in Nat
  BY FindInRange, ResourceAssumption
<1>2. key \in Text
  BY <1>1, SubstrIsText
<1>3. value \in Text
  <2>1. CASE eqsign = NPos
    BY <2>1 DEF Text
  <2>2. CASE eqsign # NPos
    <3>1. Succ(eqsign) \in Nat
      BY <1>1 DEF Succ
    <3>. QED BY <2>2, <3>1, SubstrIsText, ResourceAssumption
  <2>. QED BY <2>1, <2>2
<1>4. \A k : values(k) \in Seq(Text)
  BY DEF TypeOK
<1>. HIDE DEF eqsign, key, value, values
<1>5. \A k : Append(values(k), value) \in Seq(Text)
  BY <1>3, <1>4
<1>6. argv' = [k \in DOMAIN argv \cup {key} |->
                  IF k = key THEN Append(values(k), value) ELSE argv[k]]
  BY DEF AddArg, eqsign, key, value, values
<1>. QED
  BY <1>2, <1>5, <1>6 DEF TypeOK

-----------------------------------------------------------------------------
(* The reference definition and the functions of std::string *)

\* First is the first place of a character, counted from 1, or the place
\* after the end.
LEMMA FirstIsFirst ==
    ASSUME NEW s \in Text, NEW ch, NEW i \in 1 .. Len(s) + 1
    PROVE  /\ First(s, ch, i) \in i .. Len(s) + 1
           /\ First(s, ch, i) <= Len(s) => s[First(s, ch, i)] = ch
           /\ \A j \in i .. First(s, ch, i) - 1 : s[j] # ch
<1>. DEFINE places == {j \in i .. Len(s) : s[j] = ch} \cup {Len(s) + 1}
<1>1. Len(s) \in Nat
  BY DEF Text
<1>2. places \in SUBSET Nat /\ places # {}
  BY <1>1
<1>3. Min(places) \in places /\ \A j \in places : Min(places) <= j
  BY <1>2, MinIsLeast
<1>. DEFINE p == First(s, ch, i)
<1>4. p = Min(places)
  BY DEF First
<1>5. p \in places /\ \A j \in places : p <= j
  BY <1>3, <1>4
<1>. HIDE DEF p
<1>6. p \in i .. Len(s) + 1 /\ (p <= Len(s) => s[p] = ch)
  BY <1>1, <1>5
<1>7. ASSUME NEW j \in i .. p - 1 PROVE s[j] # ch
  <2>1. j \in i .. Len(s) /\ ~ p <= j
    BY <1>1, <1>6
  <2>. QED BY <1>5, <2>1
<1>. QED
  BY <1>6, <1>7 DEF p

\* find(), which counts from 0, finds that place, and npos when a text that
\* is shorter than npos has none.
LEMMA FindFindsFirst ==
    ASSUME NEW s \in Text, Len(s) < NPos, NEW ch, NEW from \in 0 .. Len(s)
    PROVE  /\ Find(s, ch, from) = NPos => First(s, ch, from + 1) = Len(s) + 1
           /\ Find(s, ch, from) # NPos => /\ Find(s, ch, from) \in from .. Len(s) - 1
                                          /\ First(s, ch, from + 1) = Find(s, ch, from) + 1
<1>. DEFINE f == Find(s, ch, from)
            p == First(s, ch, from + 1)
<1>1. Len(s) \in Nat /\ from \in Nat /\ from + 1 \in 1 .. Len(s) + 1 /\ NPos \in Nat
  BY ResourceAssumption DEF Text
<1>2. \/ f = NPos /\ \A i \in from .. Len(s) - 1 : s[i + 1] # ch
      \/ /\ f \in from .. Len(s) - 1 /\ s[f + 1] = ch
         /\ \A i \in from .. f - 1 : s[i + 1] # ch
  BY <1>1, FindIsFirst
<1>3. /\ p \in from + 1 .. Len(s) + 1
      /\ p <= Len(s) => s[p] = ch
      /\ \A j \in from + 1 .. p - 1 : s[j] # ch
  BY <1>1, FirstIsFirst
<1>. HIDE DEF f, p
<1>4. CASE f = NPos
  <2>1. \A i \in from .. Len(s) - 1 : s[i + 1] # ch
    BY <1>1, <1>2, <1>4
  <2>2. ~ p <= Len(s)
    <3>. SUFFICES ASSUME p <= Len(s) PROVE FALSE
      OBVIOUS
    <3>1. p - 1 \in from .. Len(s) - 1 /\ s[(p - 1) + 1] = ch
      BY <1>1, <1>3
    <3>. QED BY <2>1, <3>1
  <2>. QED BY <1>1, <1>3, <1>4, <2>2 DEF f, p
<1>5. CASE f # NPos
  <2>1. f \in from .. Len(s) - 1 /\ s[f + 1] = ch /\ \A i \in from .. f - 1 : s[i + 1] # ch
    BY <1>2, <1>5
  <2>2. ~ f + 1 < p
    <3>1. f + 1 < p => f + 1 \in from + 1 .. p - 1
      BY <1>1, <1>3, <2>1
    <3>. QED BY <1>3, <2>1, <3>1
  <2>3. ~ p < f + 1
    <3>. SUFFICES ASSUME p < f + 1 PROVE FALSE
      OBVIOUS
    <3>1. p - 1 \in from .. f - 1 /\ s[(p - 1) + 1] = ch
      BY <1>1, <1>3, <2>1
    <3>. QED BY <2>1, <3>1
  <2>. QED BY <1>1, <1>3, <1>5, <2>1, <2>2, <2>3 DEF f, p
<1>. QED
  BY <1>4, <1>5

\* A part of a text is a text, and not longer.
LEMMA PartIsText ==
    ASSUME NEW s \in Text, NEW i \in 1 .. Len(s) + 2, NEW j \in 0 .. Len(s)
    PROVE  /\ SubSeq(s, i, j) \in Text
           /\ Len(SubSeq(s, i, j)) = IF i <= j THEN j - i + 1 ELSE 0
           /\ Len(SubSeq(s, i, j)) <= Len(s)
<1>1. Len(s) \in Nat /\ \A k \in 1 .. Len(s) : s[k] \in Chars
  BY DEF Text
<1>2. i \in Int /\ j \in Int /\ \A k \in i .. j : s[k] \in Chars
  BY <1>1
<1>3. /\ SubSeq(s, i, j) \in Seq(Chars)
      /\ Len(SubSeq(s, i, j)) = IF i <= j THEN j - i + 1 ELSE 0
  BY <1>2, SubSeqProperties
<1>. QED
  BY <1>1, <1>3 DEF Text

\* AddArg takes the key and the value that the reference definition gives.
LEMMA AddArgAdds ==
    ASSUME NEW chunk \in Text, Len(chunk) < NPos, AddArg(chunk)
    PROVE  argv' = [k \in DOMAIN argv \cup {KeyOf(chunk)} |->
                       IF k = KeyOf(chunk)
                       THEN Append(IF k \in DOMAIN argv THEN argv[k] ELSE <<>>, ValueOf(chunk))
                       ELSE argv[k]]
<1>. DEFINE eqsign == Find(chunk, "=", 0)
            key == Substr(chunk, 0, eqsign)
            value == IF eqsign = NPos THEN <<>> ELSE Substr(chunk, Succ(eqsign), NPos)
<1>1. Len(chunk) \in Nat /\ 0 \in 0 .. Len(chunk) /\ NPos \in Nat
  BY ResourceAssumption DEF Text
<1>2. /\ eqsign = NPos => First(chunk, "=", 1) = Len(chunk) + 1
      /\ eqsign # NPos => /\ eqsign \in 0 .. Len(chunk) - 1
                          /\ First(chunk, "=", 1) = eqsign + 1
  BY <1>1, FindFindsFirst
<1>3. key = KeyOf(chunk) /\ value = ValueOf(chunk)
  <2>. HIDE DEF eqsign
  <2>1. CASE eqsign = NPos
    <3>1. value = <<>> /\ key = SubSeq(chunk, 1, Len(chunk))
      BY <1>1, <2>1 DEF Substr
    <3>2. KeyOf(chunk) = SubSeq(chunk, 1, Len(chunk))
      BY <1>1, <1>2, <2>1 DEF KeyOf
    <3>3. ValueOf(chunk) = SubSeq(chunk, Len(chunk) + 2, Len(chunk))
      BY <1>1, <1>2, <2>1 DEF ValueOf
    <3>4. SubSeq(chunk, Len(chunk) + 2, Len(chunk)) = <<>>
      BY <1>1, SubSeqEmpty
    <3>. QED BY <3>1, <3>2, <3>3, <3>4
  <2>2. CASE eqsign # NPos
    <3>1. Succ(eqsign) = eqsign + 1 /\ eqsign \in Nat /\ eqsign < Len(chunk)
      BY <1>1, <1>2, <2>2 DEF Succ
    <3>2. key = SubSeq(chunk, 1, eqsign)
      BY <1>1, <3>1 DEF Substr
    <3>3. value = SubSeq(chunk, eqsign + 2, Len(chunk))
      BY <1>1, <2>2, <3>1 DEF Substr
    <3>4. KeyOf(chunk) = SubSeq(chunk, 1, eqsign)
      BY <1>2, <2>2, <3>1 DEF KeyOf
    <3>5. ValueOf(chunk) = SubSeq(chunk, eqsign + 2, Len(chunk))
      BY <1>2, <2>2, <3>1 DEF ValueOf
    <3>. QED BY <3>2, <3>3, <3>4, <3>5
  <2>. QED BY <2>1, <2>2
<1>. HIDE DEF eqsign, key, value
<1>4. argv' = [k \in DOMAIN argv \cup {key} |->
                  IF k = key THEN Append(IF k \in DOMAIN argv THEN argv[k] ELSE <<>>, value)
                  ELSE argv[k]]
  BY DEF AddArg, eqsign, key, value
<1>. QED
  BY <1>3, <1>4

\* When argv holds some chunks and AddArg adds one that starts after them,
\* argv holds that one too.
LEMMA AddArgHoldsOneMore ==
    ASSUME TypeOK,
           NEW starts \in SUBSET Nat, IsFiniteSet(starts),
           HoldsChunks(argv, resource, starts),
           NEW i \in Nat, \A j \in starts : j < i,
           ChunkAt(resource, i) \in Text, Len(ChunkAt(resource, i)) < NPos,
           AddArg(ChunkAt(resource, i))
    PROVE  HoldsChunks(argv', resource, starts \cup {i})
<1>. DEFINE keyAt(j) == KeyOf(ChunkAt(resource, j))
            valueAt(j) == ValueOf(ChunkAt(resource, j))
            key == keyAt(i)
            old(k) == {j \in starts : keyAt(j) = k}
            new(k) == {j \in starts \cup {i} : keyAt(j) = k}
            values == IF key \in DOMAIN argv THEN argv[key] ELSE <<>>
<1>1. /\ DOMAIN argv = {keyAt(j) : j \in starts}
      /\ \A j \in starts : /\ Len(argv[keyAt(j)]) = Cardinality(old(keyAt(j)))
                           /\ argv[keyAt(j)][Cardinality({l \in old(keyAt(j)) : l <= j})]
                                = valueAt(j)
  BY DEF HoldsChunks, SameKey
<1>2. argv' = [k \in DOMAIN argv \cup {key} |->
                  IF k = key THEN Append(values, valueAt(i)) ELSE argv[k]]
  BY AddArgAdds
<1>3. /\ values \in Seq(Text) /\ valueAt(i) \in Text
      /\ \A k \in DOMAIN argv : argv[k] \in Seq(Text)
  <2>1. valueAt(i) \in Text
    <3>. DEFINE c == ChunkAt(resource, i)
    <3>1. Len(c) \in Nat /\ First(c, "=", 1) \in 1 .. Len(c) + 1
      <4>1. Len(c) \in Nat /\ 1 \in 1 .. Len(c) + 1
        BY DEF Text
      <4>. QED BY <4>1, FirstIsFirst
    <3>. HIDE DEF c
    <3>2. First(c, "=", 1) + 1 \in 1 .. Len(c) + 2 /\ Len(c) \in 0 .. Len(c)
      BY <3>1
    <3>3. ValueOf(c) \in Text
      BY <3>2, PartIsText DEF ValueOf, c
    <3>. QED BY <3>3 DEF c
  <2>. QED BY <2>1 DEF TypeOK
<1>4. \A k : IsFiniteSet(old(k)) /\ Cardinality(old(k)) \in Nat
  <2>. SUFFICES ASSUME NEW k PROVE IsFiniteSet(old(k)) /\ Cardinality(old(k)) \in Nat
    OBVIOUS
  <2>1. old(k) \in SUBSET starts
    OBVIOUS
  <2>. HIDE DEF old
  <2>. QED BY <2>1, FS_Subset, FS_CardinalityType
<1>5. i \notin starts
  OBVIOUS
<1>6. new(key) = old(key) \cup {i} /\ i \notin old(key)
  BY <1>5
<1>7. Cardinality(new(key)) = Cardinality(old(key)) + 1
  <2>. HIDE DEF new, old, key
  <2>. QED BY <1>4, <1>6, FS_AddElement
<1>8. Len(values) = Cardinality(old(key))
  <2>1. CASE key \in DOMAIN argv
    <3>1. PICK j \in starts : keyAt(j) = key
      BY <1>1, <2>1
    <3>. QED BY <1>1, <2>1, <3>1
  <2>2. CASE key \notin DOMAIN argv
    <3>1. old(key) = {}
      BY <1>1, <2>2
    <3>. HIDE DEF old, key
    <3>. QED BY <2>2, <3>1, FS_EmptySet
  <2>. QED BY <2>1, <2>2
<1>9. /\ argv'[key] = Append(values, valueAt(i))
      /\ \A k \in DOMAIN argv : k # key => argv'[k] = argv[k]
      /\ DOMAIN argv' = {keyAt(j) : j \in starts \cup {i}}
  BY <1>1, <1>2
<1>10. /\ Len(argv'[key]) = Len(values) + 1
       /\ argv'[key][Len(values) + 1] = valueAt(i)
       /\ \A n \in 1 .. Len(values) : argv'[key][n] = values[n]
  <2>. HIDE DEF values, valueAt, key
  <2>. QED BY <1>3, <1>9, AppendProperties
<1>11. ASSUME NEW j \in starts \cup {i}
       PROVE  /\ Len(argv'[keyAt(j)]) = Cardinality(new(keyAt(j)))
              /\ argv'[keyAt(j)][Cardinality({l \in new(keyAt(j)) : l <= j})] = valueAt(j)
  <2>1. CASE keyAt(j) # key
    <3>1. j \in starts /\ keyAt(j) \in DOMAIN argv
      BY <1>1, <2>1
    <3>2. new(keyAt(j)) = old(keyAt(j))
      BY <2>1
    <3>3. argv'[keyAt(j)] = argv[keyAt(j)]
      BY <1>9, <2>1, <3>1
    <3>. HIDE DEF new, old, keyAt, valueAt
    <3>. QED BY <1>1, <3>1, <3>2, <3>3
  <2>2. CASE keyAt(j) = key /\ j \in starts
    <3>. DEFINE rank == {l \in old(key) : l <= j}
    <3>1. {l \in new(key) : l <= j} = rank
      BY <1>6, <2>2
    <3>2. Cardinality(rank) \in 1 .. Len(values)
      <4>1. rank \in SUBSET old(key) /\ j \in rank
        BY <2>2
      <4>. HIDE DEF rank, old, key, values
      <4>2. IsFiniteSet(rank) /\ Cardinality(rank) <= Cardinality(old(key))
        BY <1>4, <4>1, FS_Subset
      <4>3. Cardinality(rank) \in Nat /\ Cardinality(rank) # 0
        BY <4>1, <4>2, FS_CardinalityType, FS_EmptySet
      <4>. QED BY <1>4, <1>8, <4>2, <4>3
    <3>3. values = argv[key] /\ argv[key][Cardinality(rank)] = valueAt(j)
      BY <1>1, <2>2
    <3>. HIDE DEF rank, new, old, values, valueAt
    <3>. QED BY <1>7, <1>8, <1>10, <2>2, <3>1, <3>2, <3>3
  <2>3. CASE j = i
    <3>1. {l \in new(key) : l <= i} = new(key)
      <4>1. \A l \in starts \cup {i} : l <= i
        OBVIOUS
      <4>2. \A l \in new(key) : l <= i
        BY <4>1
      <4>. HIDE DEF new
      <4>. QED BY <4>2
    <3>. HIDE DEF new, old, values, valueAt
    <3>. QED BY <1>7, <1>8, <1>10, <2>3, <3>1
  <2>. QED BY <2>1, <2>2, <2>3
<1>. QED
  BY <1>9, <1>11 DEF HoldsChunks, SameKey

-----------------------------------------------------------------------------
\* While the loop goes on, the next chunk starts inside the resource or just
\* at its end.
PositionInv ==
    /\ pc # "throws"
    /\ pc = "loop" => subend >= Len(resource) \/ substart <= Len(resource)

\* The starts of the chunks that the loop has taken: those before the next
\* one, and all of them after the last.
Taken == {i \in ChunkStarts(resource) : i <= substart \/ subend >= Len(resource)}

\* argv holds the chunks taken so far, and the next one is a chunk of the
\* reference definition.
SplitInv ==
    /\ pc = "begin" => DOMAIN argv = {}
    /\ pc \in {"loop", "done"} => location = SubSeq(resource, 1, Mark(resource) - 1)
    /\ pc = "loop" => /\ Mark(resource) <= subend
                      /\ subend < Len(resource) => substart + 1 \in Starts(resource)
                      /\ HoldsChunks(argv, resource, Taken)
    /\ pc = "done" => HoldsChunks(argv, resource, ChunkStarts(resource))

IInv == TypeOK /\ PositionInv

\* The constructor starts with no position taken.
LEMMA InitInv == Init => IInv
<1>. SUFFICES ASSUME Init PROVE IInv
  OBVIOUS
<1>1. PICK n \in 0 .. MaxLength : resource \in [1 .. n -> Chars]
  BY DEF Init, Resources
<1>2. resource \in Text /\ Len(resource) <= MaxLength
  BY <1>1, ResourceAssumption DEF Text
<1>. QED
  BY <1>2, ResourceAssumption DEF Init, IInv, TypeOK, PositionInv, Text

\* Where a turn of the loop leaves the positions.
LEMMA TurnPositions ==
    ASSUME IInv, ParseChunk
    PROVE  /\ substart <= Len(resource)
           /\ substart' \in 0 .. NPos /\ subend' \in 0 .. NPos
           /\ subend' >= Len(resource) \/ (substart' > substart /\ substart' <= Len(resource))
<1>. DEFINE end == Find(resource, "&", substart)
<1>1. /\ Len(resource) \in Nat /\ Len(resource) < NPos /\ NPos \in Nat
      /\ substart \in Nat /\ substart <= Len(resource)
  BY ResourceAssumption DEF IInv, TypeOK, PositionInv, ParseChunk, Text
<1>2. resource \in Text
  BY DEF IInv, TypeOK
<1>3. end = NPos \/ (end \in Nat /\ end >= substart /\ end < Len(resource))
  BY <1>1, <1>2, FindInRange
<1>4. subend' = end /\ substart' = Succ(end)
  BY DEF ParseChunk
<1>. HIDE DEF end
<1>. QED
  BY <1>1, <1>3, <1>4 DEF Succ

\* Every step of the constructor keeps the invariant.
LEMMA NextInv == IInv /\ [Next]_vars => IInv'
<1>. SUFFICES ASSUME IInv, [Next]_vars PROVE IInv'
  OBVIOUS
<1>. USE DEF IInv
<1>1. CASE SplitLocation
  <2>. DEFINE qmark == Find(resource, "?", 0)
  <2>1. resource \in Text /\ Len(resource) \in Nat /\ Len(resource) < NPos /\ NPos \in Nat
    BY ResourceAssumption DEF TypeOK, Text
  <2>2. qmark = NPos \/ (qmark \in Nat /\ qmark < Len(resource))
    BY <2>1, FindInRange
  <2>3. CASE qmark = NPos
    BY <1>1, <2>1, <2>3 DEF SplitLocation, TypeOK, PositionInv
  <2>4. CASE qmark # NPos
    <3>1. Substr(resource, 0, qmark) \in Text
      BY <2>1, <2>2, <2>4, SubstrIsText
    <3>2. /\ location' = Substr(resource, 0, qmark) /\ pc' = "loop"
          /\ substart' = qmark + 1 /\ subend' = qmark + 1
          /\ UNCHANGED <<resource, argv>>
      BY <1>1, <2>4 DEF SplitLocation, Succ
    <3>. HIDE DEF qmark
    <3>. QED BY <2>1, <2>2, <2>4, <3>1, <3>2 DEF TypeOK, PositionInv
  <2>. QED BY <2>3, <2>4
<1>2. CASE ParseChunk
  <2>. DEFINE end == Find(resource, "&", substart)
              chunk == Substr(resource, substart, Minus(end, substart))
  <2>1. /\ resource \in Text /\ Len(resource) \in Nat /\ Len(resource) < NPos
        /\ NPos \in Nat /\ substart \in Nat
    BY ResourceAssumption DEF TypeOK, Text
  <2>2. /\ substart <= Len(resource)
        /\ substart' \in 0 .. NPos /\ subend' \in 0 .. NPos
        /\ subend' >= Len(resource) \/ substart' <= Len(resource)
    BY <1>2, TurnPositions
  <2>3. end = NPos \/ (end \in Nat /\ end >= substart)
    BY <2>1, FindInRange
  <2>4. chunk \in Text
    <3>1. Minus(end, substart) \in Nat
      BY <2>1, <2>2, <2>3 DEF Minus
    <3>. QED BY <2>1, <3>1, SubstrIsText
  <2>5. /\ pc' = "loop" /\ pc = "loop" /\ UNCHANGED <<resource, location>>
        /\ UNCHANGED argv \/ AddArg(chunk)
    BY <1>2, <2>1, <2>2 DEF ParseChunk
  <2>6. /\ DOMAIN argv' \subseteq Text
        /\ \A key \in DOMAIN argv' : argv'[key] \in Seq(Text)
    <3>. HIDE DEF chunk
    <3>. QED BY <2>4, <2>5, AddArgKeepsType DEF TypeOK
  <2>. QED
    BY <2>2, <2>5, <2>6 DEF TypeOK, PositionInv
<1>3. CASE LoopEnds
  BY <1>3 DEF LoopEnds, TypeOK, PositionInv
<1>4. CASE UNCHANGED vars
  BY <1>4 DEF vars, TypeOK, PositionInv
<1>. QED
  BY <1>1, <1>2, <1>3, <1>4 DEF Next, Returned

-----------------------------------------------------------------------------
\* The inductive invariant holds in every reachable state.
THEOREM Invariance == Spec => []IInv
<1>1. Init => IInv
  BY InitInv
<1>2. IInv /\ [Next]_vars => IInv'
  BY NextInv
<1>. QED
  BY <1>1, <1>2, PTL DEF Spec

\* The members of HttpResource and the positions of the loop keep their
\* types: no position outgrows size_t.
THEOREM TypeCorrect == Spec => []TypeOK
<1>1. IInv => TypeOK
  BY DEF IInv
<1>. QED
  BY <1>1, Invariance, PTL

\* substr() is never called beyond the end of the resource, for any resource.
THEOREM ParsingIsSafe == Spec => []NeverThrows
<1>1. IInv => NeverThrows
  BY DEF IInv, PositionInv, NeverThrows
<1>. QED
  BY <1>1, Invariance, PTL

\* Each turn of the loop moves on or is the last, for any resource.
THEOREM ParsingMovesOn == Spec => EachTurnMovesOn
<1>1. IInv /\ [Next]_vars =>
         [pc = "loop" /\ pc' = "loop" => substart' > substart \/ subend' >= Len(resource)]_vars
  <2>. SUFFICES ASSUME IInv, Next, pc = "loop", pc' = "loop"
       PROVE substart' > substart \/ subend' >= Len(resource) \/ UNCHANGED vars
    OBVIOUS
  <2>1. ParseChunk
    BY DEF Next, SplitLocation, LoopEnds, Returned
  <2>. QED
    BY <2>1, TurnPositions
<1>. QED
  BY <1>1, Invariance, PTL DEF Spec, EachTurnMovesOn

-----------------------------------------------------------------------------
(* The arguments *)

\* What a turn of the loop takes: the chunk at substart + 1, unless it is
\* empty and followed by an '&'; nothing between it and the next one.
LEMMA TurnTakes ==
    ASSUME IInv, SplitInv, ParseChunk
    PROVE  LET i == substart + 1
           IN  /\ i \in 1 .. Len(resource) + 1
               /\ \A j \in Taken : j < i
               /\ \/ Taken' = Taken /\ UNCHANGED argv
                  \/ /\ Taken' = Taken \cup {i}
                     /\ ChunkAt(resource, i) \in Text
                     /\ Len(ChunkAt(resource, i)) <= Len(resource)
                     /\ AddArg(ChunkAt(resource, i))
               /\ Mark(resource) <= subend'
               /\ subend' < Len(resource) => substart' + 1 \in Starts(resource)
<1>. DEFINE i == substart + 1
            end == Find(resource, "&", substart)
            next == First(resource, "&", i)
            n == Len(resource)
            mark == Mark(resource)
            chunk == ChunkAt(resource, i)
<1>1. /\ resource \in Text /\ n \in Nat /\ n < NPos /\ NPos \in Nat
      /\ substart \in 0 .. n /\ i \in 1 .. n + 1 /\ i \in Nat
      /\ subend \in Nat /\ subend < n
  BY ResourceAssumption DEF IInv, TypeOK, PositionInv, ParseChunk, Text
<1>2. /\ end = NPos => next = n + 1
      /\ end # NPos => end \in substart .. n - 1 /\ next = end + 1
  BY <1>1, FindFindsFirst
<1>3. /\ next \in i .. n + 1
      /\ next <= n => resource[next] = "&"
      /\ \A j \in i .. next - 1 : resource[j] # "&"
  BY <1>1, FirstIsFirst
<1>4. i \in Starts(resource) /\ mark <= subend
  BY <1>1 DEF SplitInv, ParseChunk
<1>5. mark \in 1 .. n + 1
  BY <1>1, FirstIsFirst DEF Mark
<1>6. mark < n /\ mark < i
  BY <1>1, <1>4, <1>5 DEF Starts
<1>7. /\ subend' = end /\ substart' = Succ(end) /\ UNCHANGED resource
      /\ IF end = substart THEN UNCHANGED argv
         ELSE AddArg(Substr(resource, substart, Minus(end, substart)))
  BY <1>1 DEF ParseChunk
<1>8. /\ chunk = SubSeq(resource, i, next - 1) /\ chunk \in Text /\ Len(chunk) <= n
      /\ Len(chunk) = IF i <= next - 1 THEN next - i ELSE 0
  <2>1. chunk = SubSeq(resource, i, next - 1)
    BY DEF ChunkAt
  <2>2. next - 1 \in 0 .. n /\ i \in 1 .. n + 2
    BY <1>1, <1>3
  <2>. HIDE DEF next, i, chunk
  <2>. QED BY <1>1, <1>3, <2>1, <2>2, PartIsText
<1>9. i \in ChunkStarts(resource) <=> next > i \/ i = n + 1
  <2>1. chunk = <<>> <=> Len(chunk) = 0
    BY <1>8, EmptySeq DEF Text
  <2>2. i \in ChunkStarts(resource) <=> chunk # <<>> \/ (i = n + 1 /\ mark < n)
    BY <1>4 DEF ChunkStarts
  <2>. HIDE DEF next, i, n, chunk, mark
  <2>. QED BY <1>1, <1>3, <1>6, <1>8, <2>1, <2>2
<1>10. \A k \in Starts(resource) : k > i => k > next
  <2>1. SUFFICES ASSUME NEW k \in Starts(resource), k > i PROVE k > next
    OBVIOUS
  <2>2. k \in 2 .. n + 1 /\ resource[k - 1] = "&"
    BY <1>1, <1>5, <1>6, <2>1 DEF Starts
  <2>3. k - 1 \notin i .. next - 1
    BY <1>3, <2>2
  <2>. HIDE DEF next, i, n
  <2>. QED BY <1>1, <1>3, <2>1, <2>2, <2>3
<1>11. ChunkStarts(resource) \subseteq Starts(resource) /\ Starts(resource) \subseteq Nat
  BY <1>1 DEF ChunkStarts, Starts
<1>12. Taken = {k \in ChunkStarts(resource) : k < i}
  <2>1. ~ subend >= n
    BY <1>1
  <2>2. \A k \in ChunkStarts(resource) : k <= substart <=> k < i
    BY <1>1, <1>11
  <2>. QED BY <2>1, <2>2 DEF Taken
<1>13. Taken' = {k \in ChunkStarts(resource) : k <= Succ(end) \/ end >= n}
  BY <1>7 DEF Taken
<1>14. CASE end = NPos
  <2>1. next = n + 1 /\ end # substart /\ end >= n
    BY <1>1, <1>2, <1>14
  <2>2. Substr(resource, substart, Minus(end, substart)) = chunk
    <3>1. Minus(end, substart) = NPos - substart
      BY <1>1, <1>14 DEF Minus
    <3>2. ~ NPos - substart < n - substart
      BY <1>1
    <3>3. Substr(resource, substart, NPos - substart) = SubSeq(resource, i, n)
      BY <3>2 DEF Substr
    <3>4. chunk = SubSeq(resource, i, n)
      BY <1>1, <1>8, <2>1
    <3>. QED BY <3>1, <3>3, <3>4
  <2>3. Taken' = ChunkStarts(resource)
    BY <1>13, <2>1
  <2>4. i \in ChunkStarts(resource)
    BY <1>1, <1>9, <2>1
  <2>5. \A k \in ChunkStarts(resource) : k < i \/ k = i
    <3>1. \A k \in Starts(resource) : k <= n + 1
      BY <1>1 DEF Starts
    <3>. HIDE DEF i, n, next
    <3>. QED BY <1>1, <1>10, <1>11, <2>1, <3>1
  <2>6. Taken' = Taken \cup {i}
    BY <1>12, <2>3, <2>4, <2>5
  <2>7. AddArg(chunk)
    BY <1>7, <2>1, <2>2
  <2>8. mark <= subend' /\ ~ subend' < n
    BY <1>1, <1>5, <1>6, <1>7, <1>14, <2>1
  <2>. QED BY <1>1, <1>8, <1>12, <2>6, <2>7, <2>8
<1>15. CASE end # NPos
  <2>1. end \in substart .. n - 1 /\ next = end + 1 /\ Succ(end) = next
    BY <1>1, <1>2, <1>15 DEF Succ
  <2>2. mark <= subend' /\ substart' + 1 \in Starts(resource)
    <3>1. mark <= end
      BY <1>1, <1>4, <1>5, <1>6, <2>1
    <3>2. next + 1 \in 2 .. n + 1 /\ resource[(next + 1) - 1] = "&" /\ next + 1 > mark + 1
      <4>. HIDE DEF next, n, i, end, mark
      <4>. QED BY <1>1, <1>3, <1>5, <2>1, <3>1
    <3>3. next + 1 \in Starts(resource)
      BY <3>2 DEF Starts
    <3>. QED BY <1>7, <2>1, <3>1, <3>3
  <2>3. Taken' = {k \in ChunkStarts(resource) : k <= next}
    BY <1>1, <1>13, <2>1
  <2>4. \A k \in ChunkStarts(resource) : k <= next <=> k < i \/ k = i
    <3>1. i <= next
      BY <1>1, <1>3
    <3>. HIDE DEF i, n, next
    <3>. QED BY <1>1, <1>3, <1>10, <1>11, <3>1
  <2>5. CASE end = substart
    <3>1. next = i /\ i # n + 1
      BY <1>1, <2>1, <2>5
    <3>2. i \notin ChunkStarts(resource)
      BY <1>1, <1>9, <3>1
    <3>3. Taken' = Taken
      BY <1>12, <2>3, <2>4, <3>2
    <3>. QED BY <1>1, <1>7, <1>12, <2>2, <2>5, <3>3
  <2>6. CASE end # substart
    <3>1. next > i
      BY <1>1, <2>1, <2>6
    <3>2. i \in ChunkStarts(resource)
      BY <1>9, <3>1
    <3>3. Taken' = Taken \cup {i}
      BY <1>12, <2>3, <2>4, <3>2
    <3>4. Substr(resource, substart, Minus(end, substart)) = chunk
      <4>1. Minus(end, substart) = end - substart /\ end - substart < n - substart
        BY <1>1, <2>1 DEF Minus
      <4>2. Substr(resource, substart, end - substart) = SubSeq(resource, i, substart + (end - substart))
        BY <4>1 DEF Substr
      <4>3. substart + (end - substart) = next - 1
        BY <1>1, <2>1
      <4>. QED BY <1>8, <4>1, <4>2, <4>3
    <3>5. AddArg(chunk)
      BY <1>7, <2>6, <3>4
    <3>. QED BY <1>1, <1>8, <1>12, <2>2, <3>3, <3>5
  <2>. QED BY <2>5, <2>6
<1>. QED
  BY <1>14, <1>15

\* Every step of the constructor keeps argv to the chunks taken so far.
LEMMA NextSplits == IInv /\ SplitInv /\ [Next]_vars => SplitInv'
<1>. SUFFICES ASSUME IInv, SplitInv, [Next]_vars PROVE SplitInv'
  OBVIOUS
<1>1. /\ resource \in Text /\ Len(resource) \in Nat /\ Len(resource) < NPos /\ NPos \in Nat
      /\ substart \in Nat /\ subend \in Nat
  BY ResourceAssumption DEF IInv, TypeOK, Text
<1>2. CASE SplitLocation
  <2>. DEFINE qmark == Find(resource, "?", 0)
              mark == Mark(resource)
  <2>1. /\ qmark = NPos => mark = Len(resource) + 1
        /\ qmark # NPos => qmark \in 0 .. Len(resource) - 1 /\ mark = qmark + 1
    <3>1. 0 \in 0 .. Len(resource)
      BY <1>1
    <3>. QED BY <1>1, <3>1, FindFindsFirst DEF Mark
  <2>2. DOMAIN argv = {} /\ UNCHANGED <<resource, argv>>
    BY <1>2 DEF SplitLocation, SplitInv
  <2>3. HoldsChunks(argv, resource, {})
    BY <2>2 DEF HoldsChunks
  <2>4. CASE qmark = NPos
    <3>1. location' = SubSeq(resource, 1, mark - 1) /\ pc' = "done"
      <4>1. location' = resource /\ pc' = "done"
        BY <1>2, <2>4 DEF SplitLocation
      <4>2. SubSeq(resource, 1, Len(resource)) = resource
        BY <1>1, SubSeqFull DEF Text
      <4>. QED BY <1>1, <2>1, <2>4, <4>1, <4>2
    <3>2. ChunkStarts(resource) = {}
      <4>1. Starts(resource) = {}
        BY <1>1, <2>1, <2>4 DEF Starts
      <4>. QED BY <4>1 DEF ChunkStarts
    <3>. QED BY <2>2, <2>3, <3>1, <3>2 DEF SplitInv
  <2>5. CASE qmark # NPos
    <3>1. /\ location' = Substr(resource, 0, qmark) /\ pc' = "loop"
          /\ substart' = mark /\ subend' = mark
      BY <1>1, <1>2, <2>1, <2>5 DEF SplitLocation, Succ
    <3>2. Substr(resource, 0, qmark) = SubSeq(resource, 1, mark - 1)
      <4>1. qmark < Len(resource) - 0 /\ 0 + qmark = mark - 1 /\ 0 + 1 = 1
        BY <1>1, <2>1, <2>5
      <4>. HIDE DEF qmark, mark
      <4>. QED BY <4>1 DEF Substr
    <3>3. mark \in 1 .. Len(resource)
      BY <1>1, <2>1, <2>5
    <3>4. mark < Len(resource) => mark + 1 \in Starts(resource)
      BY <1>1, <3>3 DEF Starts
    <3>5. Taken' = {}
      <4>1. Taken' = {i \in ChunkStarts(resource) : i <= mark \/ mark >= Len(resource)}
        BY <2>2, <3>1 DEF Taken
      <4>2. \A i \in Starts(resource) : i \in Nat /\ i > mark /\ i <= Len(resource) + 1
        BY <1>1, <3>3 DEF Starts
      <4>3. ASSUME mark = Len(resource), NEW i \in ChunkStarts(resource) PROVE FALSE
        <5>1. i = Len(resource) + 1
          BY <1>1, <4>2, <4>3 DEF ChunkStarts
        <5>2. ChunkAt(resource, i) = <<>>
          <6>1. First(resource, "&", i) = Len(resource) + 1
            BY <1>1, <5>1, FirstIsFirst
          <6>. QED BY <1>1, <5>1, <6>1, SubSeqEmpty DEF ChunkAt
        <5>. QED BY <1>1, <4>3, <5>2 DEF ChunkStarts
      <4>4. ASSUME mark < Len(resource), NEW i \in ChunkStarts(resource)
            PROVE  ~ (i <= mark \/ mark >= Len(resource))
        BY <1>1, <3>3, <4>2, <4>4 DEF ChunkStarts
      <4>. HIDE DEF mark
      <4>. QED BY <1>1, <3>3, <4>1, <4>3, <4>4
    <3>. QED BY <2>2, <2>3, <3>1, <3>2, <3>3, <3>4, <3>5 DEF SplitInv
  <2>. QED BY <2>4, <2>5
<1>3. CASE ParseChunk
  <2>. DEFINE i == substart + 1
  <2>1. /\ i \in 1 .. Len(resource) + 1
        /\ \A j \in Taken : j < i
        /\ \/ Taken' = Taken /\ UNCHANGED argv
           \/ /\ Taken' = Taken \cup {i}
              /\ ChunkAt(resource, i) \in Text
              /\ Len(ChunkAt(resource, i)) <= Len(resource)
              /\ AddArg(ChunkAt(resource, i))
        /\ Mark(resource) <= subend'
        /\ subend' < Len(resource) => substart' + 1 \in Starts(resource)
    BY <1>3, TurnTakes
  <2>2. /\ pc = "loop" /\ pc' = "loop" /\ UNCHANGED <<resource, location>>
    <3>1. substart <= Len(resource)
      BY <1>3, TurnPositions
    <3>. QED BY <1>1, <1>3, <3>1 DEF ParseChunk
  <2>3. HoldsChunks(argv, resource, Taken)
    BY <2>2 DEF SplitInv
  <2>4. HoldsChunks(argv', resource, Taken')
    <3>1. CASE Taken' = Taken /\ UNCHANGED argv
      BY <2>3, <3>1
    <3>2. CASE /\ Taken' = Taken \cup {i}
               /\ ChunkAt(resource, i) \in Text
               /\ Len(ChunkAt(resource, i)) <= Len(resource)
               /\ AddArg(ChunkAt(resource, i))
      <4>1. Taken \in SUBSET Nat /\ IsFiniteSet(Taken)
        <5>1. Taken \in SUBSET (2 .. Len(resource) + 1)
          BY DEF Taken, ChunkStarts, Starts
        <5>2. 2 .. Len(resource) + 1 \in SUBSET Nat /\ IsFiniteSet(2 .. Len(resource) + 1)
          BY <1>1, FS_Interval
        <5>. QED BY <5>1, <5>2, FS_Subset
      <4>2. Len(ChunkAt(resource, i)) < NPos
        <5>1. Len(ChunkAt(resource, i)) \in Nat
          BY <3>2 DEF Text
        <5>. QED BY <1>1, <3>2, <5>1
      <4>3. i \in Nat /\ TypeOK
        BY <1>1 DEF IInv
      <4>. HIDE DEF i
      <4>4. HoldsChunks(argv', resource, Taken \cup {i})
        BY <2>1, <2>3, <3>2, <4>1, <4>2, <4>3, AddArgHoldsOneMore
      <4>. QED BY <3>2, <4>4
    <3>. QED BY <2>1, <3>1, <3>2
  <2>. QED
    BY <2>1, <2>2, <2>4 DEF SplitInv
<1>4. CASE LoopEnds
  <2>1. Taken = ChunkStarts(resource)
    BY <1>4 DEF LoopEnds, Taken
  <2>. QED BY <1>4, <2>1 DEF LoopEnds, SplitInv
<1>5. CASE UNCHANGED vars
  BY <1>5 DEF vars, SplitInv, Taken
<1>. QED
  BY <1>2, <1>3, <1>4, <1>5 DEF Next, Returned

\* The constructor yields the location and the arguments that splitting the
\* resource yields, whatever its length and its characters.
THEOREM ParsingIsSplitting == Spec => []ParsesLikeSplitting
<1>1. Init => SplitInv
  BY DEF Init, SplitInv
<1>2. SplitInv => ParsesLikeSplitting
  BY DEF SplitInv, ParsesLikeSplitting
<1>. QED
  BY <1>1, <1>2, Invariance, NextSplits, PTL DEF Spec

=============================================================================
