----------------------------- MODULE Porcupine -----------------------------
(***************************************************************************)
(* The linearizability checker of porcupine/ with the key/value model of   *)
(* models/kv.go: checkOperations() splits a history by key, a goroutine    *)
(* per key searches for a linearization (checkSingle()), and               *)
(* checkParallel() collects the verdicts, until a time limit.              *)
(*                                                                         *)
(* A history is the list of its call and return entries in the order of    *)
(* their times, which are taken to be distinct.  The linked list of        *)
(* entries, with lift() and unlift(), and the bitset of linearized         *)
(* operations are modelled as they are, the words Width bits wide.         *)
(***************************************************************************)
EXTENDS Integers, Sequences, FiniteSets, SequencesExt, Bitwise

CONSTANTS
    Key, Operations,    \* [key, op, value]: value is what a put or an append
                        \* writes, and what a get has returned
    MaxOps,     \* bound: operations of a history
    Width,      \* bits of a word of a bitset (64 in the code)
    Nil

VARIABLES
    ops,        \* the operations, numbered in the order of their calls
    entries,    \* their entries: [kind, id], in the order of their times
    verbose,    \* computeInfo
    timeout,    \* there is a time limit
    single,     \* per key: the state of checkSingle()
    results,    \* the channel
    looping,    \* checkParallel() is in its select loop
    kill, ok, timedOut, count,
    result,     \* what checkParallel() returns, Nil before
    partials,   \* per key: its partialLinearizations, Nil without details
    picture     \* per key: what is drawn of them, Nil before

input == <<ops, entries, verbose, timeout>>
vars == <<input, single, results, looping, kill, ok, timedOut, count, result, partials, picture>>

-----------------------------------------------------------------------------
(* models/kv.go: the state of one key is the values it is made of *)

Start == <<>>
Accepts(st, o) == o.op = "get" => o.value = st
After(st, o) ==
    CASE o.op = "get" -> st
      [] o.op = "put" -> o.value
      [] o.op = "append" -> st \o o.value

\* Partition(): the entries of one key.
Partition(k) == SelectSeq(entries, LAMBDA e : ops[e.id].key = k)
Used == {k \in Key : \E i \in DOMAIN ops : ops[i].key = k}

-----------------------------------------------------------------------------
(* porcupine/bitset.go *)

newBitset(bits) == [w \in 0..(bits \div Width + (IF bits % Width # 0 THEN 1 ELSE 0)) - 1 |-> 0]
bitsetIndex(pos) == <<pos \div Width, pos % Width>>
get(b, pos) == LET x == bitsetIndex(pos) IN (b[x[1]] \div 2 ^ x[2]) % 2 = 1
set(b, pos) ==
    LET x == bitsetIndex(pos)
    IN  IF get(b, pos) THEN b ELSE [b EXCEPT ![x[1]] = @ + 2 ^ x[2]]
clear(b, pos) ==
    LET x == bitsetIndex(pos)
    IN  IF get(b, pos) THEN [b EXCEPT ![x[1]] = @ - 2 ^ x[2]] ELSE b
popcnt(b) == Cardinality({<<w, i>> \in (DOMAIN b) \X (0..Width - 1) : get(b, w * Width + i)})
hash(b) == FoldFunction(LAMBDA v, h : h ^^ v, popcnt(b), b)

-----------------------------------------------------------------------------
(* The linked entries: node j is the j-th entry of the key, 0 the head *)

\* makeEntries(): the operations of a key are numbered from 0, in the order of
\* its history.  The numbers do no more than name them.
Number(k, id) == Cardinality({i \in 1..id - 1 : ops[i].key = k})

\* makeLinkedEntries(): match is the return of a call, and nil for a return.
MatchOf(es, j) ==
    IF es[j].kind = "return" THEN Nil
    ELSE CHOOSE r \in 1..Len(es) : es[r].kind = "return" /\ es[r].id = es[j].id

\* insertBefore(), for one entry after the other from the last to the first.
Linked(n) ==
    [next |-> [j \in 0..n |-> IF j = n THEN Nil ELSE j + 1],
     prev |-> [j \in 0..n |-> IF j = 0 THEN Nil ELSE j - 1]]

makeLinkedEntries(k) ==
    LET es == Partition(k) n == Len(es) IN
    [id    |-> [j \in 1..n |-> Number(k, es[j].id)],
     op    |-> [j \in 1..n |-> ops[es[j].id]],
     match |-> [j \in 1..n |-> MatchOf(es, j)],
     next  |-> Linked(n).next,
     prev  |-> Linked(n).prev]

lift(l, e) ==
    LET m  == l.match[e]
        n1 == [l.next EXCEPT ![l.prev[e]] = l.next[e]]
        p1 == [l.prev EXCEPT ![l.next[e]] = l.prev[e]]
        n2 == [n1 EXCEPT ![p1[m]] = n1[m]]
        p2 == IF n2[m] = Nil THEN p1 ELSE [p1 EXCEPT ![n2[m]] = p1[m]]
    IN  [l EXCEPT !.next = n2, !.prev = p2]

\* Mutant: the entry after the return keeps its pointer.
unliftHalf(l, e) ==
    LET m  == l.match[e]
        n1 == [l.next EXCEPT ![l.prev[m]] = m]
        n2 == [n1 EXCEPT ![l.prev[e]] = e]
        p2 == [l.prev EXCEPT ![n2[e]] = e]
    IN  [l EXCEPT !.next = n2, !.prev = p2]

unlift(l, e) ==
    LET m  == l.match[e]
        n1 == [l.next EXCEPT ![l.prev[m]] = m]
        p1 == IF l.next[m] = Nil THEN l.prev ELSE [l.prev EXCEPT ![l.next[m]] = m]
        n2 == [n1 EXCEPT ![p1[e]] = e]
        p2 == [p1 EXCEPT ![n2[e]] = e]
    IN  [l EXCEPT !.next = n2, !.prev = p2]

-----------------------------------------------------------------------------
(* checkSingle(), one turn of its loop at a time *)

NewSingle(k) ==
    LET l == makeLinkedEntries(k) n == Len(Partition(k)) \div 2 IN
    [list |-> l, entry |-> 1, linearized |-> newBitset(n), cache |-> {},
     calls |-> <<>>, state |-> Start, longest |-> [i \in 0..n - 1 |-> Nil],
     running |-> TRUE]

\* The operations on the stack, in the order in which they were linearized.
Sequence(s) == [j \in 1..Len(s.calls) |-> s.list.id[s.calls[j].entry]]

\* Mutant: bitsets with the same hash are taken to be the same.
cacheContainsHash(cache, bs, st) == \E c \in cache : hash(c[1]) = hash(bs) /\ c[2] = st

\* The entries under the hash of bs are compared with it.
cacheContains(cache, bs, st) ==
    \E c \in cache : hash(c[1]) = hash(bs) /\ c[1] = bs /\ c[2] = st

\* The call under the cursor is linearized next, unless the operations with
\* this outcome were tried before.
Linearize(s) ==
    LET st  == After(s.state, s.list.op[s.entry])
        bs  == set(s.linearized, s.list.id[s.entry])
        l   == lift(s.list, s.entry)
    IN  IF Accepts(s.state, s.list.op[s.entry]) /\ ~cacheContains(s.cache, bs, st)
        THEN [s EXCEPT !.cache = @ \cup {<<bs, st>>},
                       !.calls = Append(@, [entry |-> s.entry, state |-> s.state]),
                       !.state = st, !.linearized = bs, !.list = l,
                       !.entry = l.next[0]]
        ELSE [s EXCEPT !.entry = s.list.next[s.entry]]

\* Mutant: the first prefix found for an entry is kept.
BacktrackKeepsFirst(s) ==
    LET seq == Sequence(s)
        top == Last(s.calls)
        l   == unlift(s.list, top.entry)
    IN  [s EXCEPT
            !.longest = [i \in DOMAIN @ |->
                IF verbose /\ i \in ToSet(seq) /\ @[i] = Nil THEN seq ELSE @[i]],
            !.state = top.state,
            !.linearized = clear(@, s.list.id[top.entry]),
            !.calls = Front(@),
            !.list = l,
            !.entry = l.next[top.entry]]

\* The cursor is at a return: the last choice is taken back.
Backtrack(s) ==
    LET seq == Sequence(s)
        top == Last(s.calls)
        l   == unlift(s.list, top.entry)
    IN  [s EXCEPT
            !.longest = [i \in DOMAIN @ |->
                IF verbose /\ i \in ToSet(seq) /\ (@[i] = Nil \/ Len(seq) > Len(@[i]))
                THEN seq ELSE @[i]],
            !.state = top.state,
            !.linearized = clear(@, s.list.id[top.entry]),
            !.calls = Front(@),
            !.list = l,
            !.entry = l.next[top.entry]]

Return(k, s, verdict) ==
    /\ single' = [single EXCEPT ![k] = [s EXCEPT !.running = FALSE]]
    /\ results' = Append(results, verdict)

checkSingle(k) ==
    LET s == single[k] IN
    /\ k \in Used /\ s.running
    /\ \/ /\ s.list.next[0] = Nil
          /\ Return(k, [s EXCEPT !.longest = [i \in DOMAIN @ |-> Sequence(s)]], TRUE)
       \/ /\ s.list.next[0] # Nil
          /\ \/ kill /\ Return(k, s, FALSE)
             \/ /\ ~kill /\ s.list.match[s.entry] # Nil
                /\ single' = [single EXCEPT ![k] = Linearize(s)]
                /\ UNCHANGED results
             \/ /\ ~kill /\ s.list.match[s.entry] = Nil /\ s.calls # <<>>
                /\ single' = [single EXCEPT ![k] = Backtrack(s)]
                /\ UNCHANGED results
             \/ /\ ~kill /\ s.list.match[s.entry] = Nil /\ s.calls = <<>>
                /\ Return(k, s, FALSE)
    /\ UNCHANGED <<input, looping, kill, ok, timedOut, count, result, partials, picture>>

-----------------------------------------------------------------------------
(* checkParallel() *)

\* Mutant: the loop waits for one result more than there are goroutines.
ReceiveOneMore ==
    /\ looping /\ results # <<>>
    /\ results' = Tail(results)
    /\ count' = count + 1
    /\ ok' = (ok /\ Head(results))
    /\ kill' = (~ok' /\ ~verbose)
    /\ looping' = (~kill' /\ count' <= Cardinality(Used))
    /\ UNCHANGED <<input, single, timedOut, result, partials, picture>>

Receive ==
    /\ looping /\ results # <<>>
    /\ results' = Tail(results)
    /\ count' = count + 1
    /\ ok' = (ok /\ Head(results))
    /\ kill' = (~ok' /\ ~verbose)
    /\ looping' = (~kill' /\ count' < Cardinality(Used))
    /\ UNCHANGED <<input, single, timedOut, result, partials, picture>>

Timeout ==
    /\ looping /\ timeout
    /\ timedOut' = TRUE /\ kill' = TRUE /\ looping' = FALSE
    /\ UNCHANGED <<input, single, results, ok, count, result, partials, picture>>

\* "make sure we've waited for all goroutines to finish"
Drain ==
    /\ ~looping /\ verbose /\ count < Cardinality(Used)
    /\ results # <<>>
    /\ results' = Tail(results)
    /\ count' = count + 1
    /\ UNCHANGED <<input, single, looping, kill, ok, timedOut, result, partials, picture>>

\* Mutant: the prefixes are read while goroutines are at work on them.
FinishNoWait ==
    /\ ~looping /\ result = Nil
    /\ result' = CASE ~ok -> "Illegal"
                   [] ok /\ timedOut -> "Unknown"
                   [] OTHER -> "Ok"
    /\ partials' = IF verbose
                   THEN [k \in Used |-> Range(single[k].longest) \ {Nil}]
                   ELSE Nil
    /\ UNCHANGED <<input, single, results, looping, kill, ok, timedOut, count, picture>>

Finish ==
    /\ ~looping /\ result = Nil
    /\ verbose => count = Cardinality(Used)
    /\ result' = CASE ~ok -> "Illegal"
                   [] ok /\ timedOut -> "Unknown"
                   [] OTHER -> "Ok"
    /\ partials' = IF verbose
                   THEN [k \in Used |-> Range(single[k].longest) \ {Nil}]
                   ELSE Nil
    /\ UNCHANGED <<input, single, results, looping, kill, ok, timedOut, count, picture>>

-----------------------------------------------------------------------------
(* computeVisualizationData() *)

\* Does Step() accept a sequence of operations of a key?  The drawing panics
\* if it does not.
Replay(k, seq) ==
    LET Op(id) == ops[CHOOSE i \in DOMAIN ops : ops[i].key = k /\ Number(k, i) = id]
        Do(acc, id) == [good |-> acc.good /\ Accepts(acc.state, Op(id)),
                        state |-> After(acc.state, Op(id))]
    IN  FoldLeft(Do, [good |-> TRUE, state |-> Start], seq).good

\* Largest: the index of the first partial with an operation that is longer
\* than those with it before.
Largest(drawn) ==
    LET Size(i) == IF i = 0 THEN 0 ELSE Len(drawn[i])
        Do(acc, i) == [id \in DOMAIN acc |->
            IF id \in ToSet(drawn[i]) /\ Size(acc[id]) < Size(i) THEN i ELSE acc[id]]
    IN  FoldLeft(Do, [id \in UNION {ToSet(d) : d \in ToSet(drawn)} |-> 0],
                 [i \in DOMAIN drawn |-> i])

\* The partials are sorted by their lengths, equal ones in any order.
computeVisualizationData(k) ==
    LET Sorted == {d \in SetToSeqs(partials[k]) :
                      \A i, j \in DOMAIN d : i < j => Len(d[i]) >= Len(d[j])}
    IN  {[drawn |-> d, largest |-> Largest(d),
          panic |-> \E p \in partials[k] : ~Replay(k, p)] : d \in Sorted}

Visualize ==
    /\ result # Nil /\ verbose /\ picture = Nil
    /\ picture' \in {p \in [Used -> UNION {computeVisualizationData(k) : k \in Used}] :
                         \A k \in Used : p[k] \in computeVisualizationData(k)}
    /\ UNCHANGED <<input, single, results, looping, kill, ok, timedOut, count, result, partials>>

-----------------------------------------------------------------------------
\* The orders in which n operations may be called and return.
Orders(n) ==
    LET At(s, i) == {j \in 1..2 * n : s[j] = i}
        First(s, i) == CHOOSE j \in At(s, i) : \A m \in At(s, i) : j <= m
    IN  {[j \in 1..2 * n |->
            [kind |-> IF First(s, s[j]) = j THEN "call" ELSE "return", id |-> s[j]]] :
         s \in {s \in [1..2 * n -> 1..n] :
                 /\ \A i \in 1..n : Cardinality(At(s, i)) = 2
                 /\ \A i \in 2..n : First(s, i - 1) < First(s, i)}}

\* An empty history has no partition, and checkParallel() waits for ever.
Init ==
    /\ \E n \in 1..MaxOps : ops \in [1..n -> Operations] /\ entries \in Orders(n)
    /\ verbose \in BOOLEAN
    /\ timeout \in BOOLEAN
    /\ single = [k \in Used |-> NewSingle(k)]
    /\ results = <<>>
    /\ looping = TRUE
    /\ kill = FALSE /\ ok = TRUE /\ timedOut = FALSE
    /\ count = 0
    /\ result = Nil /\ partials = Nil /\ picture = Nil

Next == (\E k \in Key : checkSingle(k)) \/ Receive \/ Timeout \/ Drain \/ Finish \/ Visualize

Spec == Init /\ [][Next]_vars

\* Goroutines are scheduled; a time limit need not be reached.
FairSpec ==
    /\ Spec
    /\ \A k \in Key : WF_vars(checkSingle(k))
    /\ WF_vars(Receive \/ Drain \/ Finish)

-----------------------------------------------------------------------------
(* What linearizable means *)

Position(kind, i) == CHOOSE j \in DOMAIN entries : entries[j] = [kind |-> kind, id |-> i]
Precedes(i, j) == Position("return", i) < Position("call", j)

\* A store of all keys, and whether a sequence of operations explains the
\* outputs.
Explains(seq) ==
    LET Do(acc, i) ==
            [good |-> acc.good /\ Accepts(acc.store[ops[i].key], ops[i]),
             store |-> [acc.store EXCEPT ![ops[i].key] = After(@, ops[i])]]
    IN  FoldLeft(Do, [good |-> TRUE, store |-> [k \in Key |-> Start]], seq).good

\* Partial linearizations of a set of operations: nothing is left out that
\* has returned before something in the sequence was called.
Partials(S) ==
    {seq \in SetToAllKPermutations(S) :
        /\ \A j \in DOMAIN seq : \A i \in S :
               Precedes(i, seq[j]) => \E m \in 1..j - 1 : seq[m] = i
        /\ Explains(seq)}

Linearizable == \E seq \in Partials(DOMAIN ops) : Len(seq) = Len(ops)

-----------------------------------------------------------------------------
(* Properties *)

\* The verdict is right, for the history as a whole although it is found key
\* by key, whatever the goroutines and the time limit race; the answer is
\* withheld only after the time limit.
VerdictCorrect ==
    /\ result = "Ok" => Linearizable
    /\ result = "Illegal" => ~Linearizable
    /\ result = "Unknown" => timeout

\* At the head of the loop the list holds the entries of the operations that
\* are not on the stack, in their order, and the bitset those that are:
\* unlift() undoes lift() exactly, however deep the search has gone.
ListIsRest ==
    \A k \in Used :
        LET s == single[k]
            n == Len(Partition(k))
            Out == ToSet(Sequence(s))
            Rest == {j \in 1..n : s.list.id[j] \notin Out}
            Succ(j) == LET A == {r \in Rest : r > j}
                       IN  IF A = {} THEN Nil ELSE CHOOSE r \in A : \A q \in A : r <= q
        IN  /\ \A j \in Rest \cup {0} :
                  /\ s.list.next[j] = Succ(j)
                  /\ Succ(j) # Nil => s.list.prev[Succ(j)] = j
            /\ \A i \in 0..n \div 2 - 1 : get(s.linearized, i) <=> i \in Out

\* "longest linearizable prefix that includes the given entry": when a
\* verbose check of a key ends undisturbed, longest[] is that.
LongestCorrect ==
    \A k \in Used :
        LET s == single[k]
            S == {i \in DOMAIN ops : ops[i].key = k}
            Numbered(seq) == [j \in DOMAIN seq |-> Number(k, seq[j])]
            P == {Numbered(seq) : seq \in Partials(S)}
        IN  verbose /\ ~s.running /\ ~kill =>
                \A i \in DOMAIN s.longest :
                    LET With == {seq \in P : i \in ToSet(seq)} IN
                    IF s.longest[i] = Nil THEN With = {}
                    ELSE /\ s.longest[i] \in With
                         /\ \A seq \in With : Len(seq) <= Len(s.longest[i])

\* What is drawn of a key are the prefixes its goroutine ended with, none read
\* while it was at work, also after the time limit; "valid partial linearization
\* returned non-ok result from model step" never happens; and every operation of
\* a partial linearization is shown with the longest one it is in.
PictureSound ==
    picture # Nil => \A k \in Used :
        LET p == picture[k] IN
        /\ ~single[k].running
        /\ ToSet(p.drawn) = Range(single[k].longest) \ {Nil}
        /\ ~p.panic
        /\ \A id \in DOMAIN p.largest :
               /\ p.largest[id] \in DOMAIN p.drawn
               /\ id \in ToSet(p.drawn[p.largest[id]])
               /\ \A d \in ToSet(p.drawn) :
                      id \in ToSet(d) => Len(d) <= Len(p.drawn[p.largest[id]])

\* A check of a non-empty history ends, and no goroutine of it stays behind.
CheckEnds == <>(result # Nil /\ \A k \in Used : ~single[k].running)

=============================================================================
