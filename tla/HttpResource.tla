---------------------------- MODULE HttpResource ----------------------------
(***************************************************************************)
(* The constructor of HttpResource: the resource of a request is split at  *)
(* the first '?' into the location and the query, and the query into       *)
(* key=value chunks at '&'.  The loop runs on size_t positions, counted    *)
(* from 0, and ends by the wrapping of npos + 1.                           *)
(***************************************************************************)
EXTENDS Naturals, Sequences, FiniteSets, FiniteSetsExt

CONSTANTS
    Letters,    \* characters that mean nothing to the parser
    MaxLength,  \* bound on the length of a resource
    NPos        \* std::string::npos, the largest size_t

Chars == Letters \cup {"?", "&", "="}
Text == Seq(Chars)
Resources == UNION {[1 .. n -> Chars] : n \in 0 .. MaxLength}

ASSUME ResourceAssumption ==
    /\ MaxLength \in Nat
    /\ NPos \in Nat
    /\ MaxLength < NPos

VARIABLES
    resource,   \* aResource
    location,   \* mLocation
    argv,       \* mArgv: a sequence of values for each key
    substart,   \* where the next chunk starts
    subend,     \* where the last one ended
    pc

vars == <<resource, location, argv, substart, subend, pc>>

-----------------------------------------------------------------------------
(* std::string *)

\* variant: positions in a type wider than npos
SuccWide(n) == n + 1

\* n + 1 and m - n of type size_t
Succ(n) == IF n = NPos THEN 0 ELSE n + 1
Minus(m, n) == IF m >= n THEN m - n ELSE m + NPos + 1 - n

\* s.find(ch, from)
Find(s, ch, from) ==
    LET found == {i \in from .. Len(s) - 1 : s[i + 1] = ch}
    IN  IF found = {} THEN NPos ELSE Min(found)

\* s.substr(pos, count), for a pos that is not beyond the end of s
Substr(s, pos, count) ==
    SubSeq(s, pos + 1, IF count < Len(s) - pos THEN pos + count ELSE Len(s))

-----------------------------------------------------------------------------
Init == /\ resource \in Resources
        /\ location = <<>>
        /\ argv = [key \in {} |-> <<>>]
        /\ substart = 0
        /\ subend = 0
        /\ pc = "begin"

SplitLocation ==
    /\ pc = "begin"
    /\ LET qmark == Find(resource, "?", 0)
       IN  IF qmark = NPos
           THEN /\ location' = resource
                /\ pc' = "done"
                /\ UNCHANGED <<substart, subend>>
           ELSE /\ location' = Substr(resource, 0, qmark)
                /\ pc' = "loop"
                /\ substart' = Succ(qmark)
                /\ subend' = Succ(qmark)
    /\ UNCHANGED <<resource, argv>>

\* variant: a key given twice keeps its last value
SetArg(chunk) ==
    LET eqsign == Find(chunk, "=", 0)
        key == Substr(chunk, 0, eqsign)
        value == IF eqsign = NPos THEN <<>> ELSE Substr(chunk, Succ(eqsign), NPos)
    IN  argv' = [k \in DOMAIN argv \cup {key} |-> IF k = key THEN <<value>> ELSE argv[k]]

AddArg(chunk) ==
    LET eqsign == Find(chunk, "=", 0)
        key == Substr(chunk, 0, eqsign)
        value == IF eqsign = NPos THEN <<>> ELSE Substr(chunk, Succ(eqsign), NPos)
        values(k) == IF k \in DOMAIN argv THEN argv[k] ELSE <<>>
    IN  argv' = [k \in DOMAIN argv \cup {key} |->
                    IF k = key THEN Append(values(k), value) ELSE argv[k]]

\* variant: the next chunk starts at the '&' itself
ParseFromAmpersand ==
    /\ pc = "loop"
    /\ subend < Len(resource)
    /\ LET end == Find(resource, "&", substart)
       IN  /\ subend' = end
           /\ substart' = end
           /\ IF end = substart THEN UNCHANGED argv
              ELSE AddArg(Substr(resource, substart, Minus(end, substart)))
    /\ UNCHANGED <<resource, location, pc>>

\* variant: each '&' is searched from the start of the resource
ParseFirstAmpersand ==
    /\ pc = "loop"
    /\ subend < Len(resource)
    /\ LET end == Find(resource, "&", 0)
       IN  /\ subend' = end
           /\ substart' = Succ(end)
           /\ IF end = substart THEN UNCHANGED argv
              ELSE AddArg(Substr(resource, substart, Minus(end, substart)))
    /\ UNCHANGED <<resource, location, pc>>

\* variant: the next chunk starts two characters on
ParseTwoOn ==
    /\ pc = "loop"
    /\ subend < Len(resource)
    /\ LET end == Find(resource, "&", substart)
       IN  /\ subend' = end
           /\ substart' = Succ(Succ(end))
           /\ IF end = substart THEN UNCHANGED <<argv, pc>>
              ELSE IF substart > Len(resource) THEN pc' = "throws" /\ UNCHANGED argv
              ELSE AddArg(Substr(resource, substart, Minus(end, substart))) /\ UNCHANGED pc
    /\ UNCHANGED <<resource, location>>

\* One turn of the loop; substr() throws when substart is beyond the end.
ParseChunk ==
    /\ pc = "loop"
    /\ subend < Len(resource)
    /\ LET end == Find(resource, "&", substart)
       IN  /\ subend' = end
           /\ substart' = Succ(end)
           /\ IF end = substart THEN UNCHANGED <<argv, pc>>
              ELSE IF substart > Len(resource) THEN pc' = "throws" /\ UNCHANGED argv
              ELSE AddArg(Substr(resource, substart, Minus(end, substart))) /\ UNCHANGED pc
    /\ UNCHANGED <<resource, location>>

LoopEnds == /\ pc = "loop"
            /\ subend >= Len(resource)
            /\ pc' = "done"
            /\ UNCHANGED <<resource, location, argv, substart, subend>>

Returned == pc \in {"done", "throws"} /\ UNCHANGED vars

Next == SplitLocation \/ ParseChunk \/ LoopEnds \/ Returned

Spec == Init /\ [][Next]_vars

FairSpec == Spec /\ WF_vars(SplitLocation \/ ParseChunk \/ LoopEnds)

-----------------------------------------------------------------------------
(* Properties *)

\* Every variable keeps its type; positions are of type size_t.
TypeOK == /\ resource \in Text
          /\ Len(resource) <= MaxLength
          /\ location \in Text
          /\ DOMAIN argv \subseteq Text
          /\ \A key \in DOMAIN argv : argv[key] \in Seq(Text)
          /\ substart \in 0 .. NPos
          /\ subend \in 0 .. NPos
          /\ pc \in {"begin", "loop", "done", "throws"}

\* substr() is never called with a position beyond the end of the resource,
\* not even after an '&' at its end or the wrapping of npos + 1.
NeverThrows == pc # "throws"

\* Each turn of the loop moves on or is the last: after the wrapping of
\* npos + 1 the resource is not parsed a second time.
EachTurnMovesOn ==
    [][pc = "loop" /\ pc' = "loop" => substart' > substart \/ subend' >= Len(resource)]_vars

\* What the arguments should be: the chunks between the '&' after the first
\* '?', the empty ones left out, but for an '&' at the end, after which the
\* code adds an empty key.  A chunk is known by the place where it starts.
First(s, ch, i) == Min({j \in i .. Len(s) : s[j] = ch} \cup {Len(s) + 1})
Mark(s) == First(s, "?", 1)
Starts(s) == {i \in 2 .. Len(s) + 1 : \/ i = Mark(s) + 1
                                      \/ i > Mark(s) + 1 /\ s[i - 1] = "&"}
ChunkAt(s, i) == SubSeq(s, i, First(s, "&", i) - 1)
ChunkStarts(s) == {i \in Starts(s) : \/ ChunkAt(s, i) # <<>>
                                     \/ i = Len(s) + 1 /\ Mark(s) < Len(s)}
KeyOf(c) == SubSeq(c, 1, First(c, "=", 1) - 1)
ValueOf(c) == SubSeq(c, First(c, "=", 1) + 1, Len(c))
SameKey(s, starts, key) == {i \in starts : KeyOf(ChunkAt(s, i)) = key}

\* args holds the chunks of s that start at starts: the keys are theirs, and
\* each is the n-th value of its key when it is the n-th chunk with that key.
HoldsChunks(args, s, starts) ==
    /\ DOMAIN args = {KeyOf(ChunkAt(s, i)) : i \in starts}
    /\ \A i \in starts :
           LET key == KeyOf(ChunkAt(s, i))
               same == SameKey(s, starts, key)
           IN  /\ Len(args[key]) = Cardinality(same)
               /\ args[key][Cardinality({j \in same : j <= i})] = ValueOf(ChunkAt(s, i))

\* The constructor yields the text before the first '?' as the location and
\* the arguments of the text after it.
ParsesLikeSplitting ==
    pc = "done" => /\ location = SubSeq(resource, 1, Mark(resource) - 1)
                   /\ HoldsChunks(argv, resource, ChunkStarts(resource))

\* The constructor returns, whatever the resource.
ParsingEnds == <>(pc = "done")
=============================================================================
