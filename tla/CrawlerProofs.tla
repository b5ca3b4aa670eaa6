--------------------------- MODULE CrawlerProofs ----------------------------
(***************************************************************************)
(* The crawlers of module Crawler on every finite web: a page is fetched   *)
(* at most once and only within the depth, and when a crawler returns it   *)
(* has fetched all that can be reached and left no goroutine behind.       *)
(***************************************************************************)
EXTENDS Crawler, FiniteSetTheorems, WellFoundedInduction, TLAPS

\* The prover of a leaf that names none, and the seconds it has; a leaf that takes
\* arithmetic or sequences names SMT.
USE ZenonT(30)

-----------------------------------------------------------------------------
(* The invariant *)

\* The call from which, in the end, p was made: k pages on the way to it.
Pre(p, k) == SubSeq(p, 1, k)

\* What is true of one call of a crawler that makes calls.  Those in T have
\* marked their page.
CallOK(T, p) ==
    /\ p \in Seq(Page) /\ Way(p)
    /\ calls[p] \in {"enter", "fetch", "wait", "done"}
    /\ calls[p] \in {"fetch", "wait"} => p \in T
    /\ calls[p] = "done" /\ depth = NPages => url(p) \in fetched
    /\ \A k \in 1..Len(p) - 1 :
          /\ Pre(p, k) \in T
          /\ calls[Pre(p, k)] \in {"wait", "done"}
          /\ calls[p] # "done" => calls[Pre(p, k)] = "wait"

\* What is true of a call that has marked its page: no other one has marked
\* it, its page is fetched once it is past Fetch(), and it returns after the
\* calls it has made.
TakerOK(T, p) ==
    /\ Len(p) <= depth
    /\ calls[p] # "enter"
    /\ calls[p] = "fetch" => fetches[url(p)] = 0
    /\ calls[p] # "fetch" => fetches[url(p)] = 1
    /\ calls[p] = "done" => \A c \in Children(p) : c \in DOMAIN calls /\ calls[c] = "done"
    /\ \A q \in T : url(q) = url(p) => q = p

\* Serial(), ConcurrentMutex() and Crawl().
TreeInv(T) ==
    /\ T \subseteq DOMAIN calls
    /\ <<Root>> \in DOMAIN calls
    /\ n = 0
    /\ \A p \in DOMAIN calls : CallOK(T, p)
    /\ \A p \in T : TakerOK(T, p)
    /\ fetched = {url(p) : p \in T}
    /\ \A u \in Page \ fetched : fetches[u] = 0

\* The goroutines that master() still has to hear of.
Running == {p \in DOMAIN calls : calls[p] # "done"}

\* ConcurrentChannel().
ChannelInv ==
    /\ DOMAIN calls = {<<>>} \cup {<<u>> : u \in fetched}
    /\ calls[<<>>] \in {"send", "done"}
    /\ calls[<<>>] = "send" => fetched = {}
    /\ calls[<<>>] = "done" => Root \in fetched
    /\ \A u \in fetched :
          /\ calls[<<u>>] \in {"fetch", "send", "done"}
          /\ calls[<<u>>] = "fetch" => fetches[u] = 0
          /\ calls[<<u>>] # "fetch" => fetches[u] = 1
          /\ calls[<<u>>] = "done" => Urls(u) \subseteq fetched
          /\ u \in Within(Cardinality(fetched))
    /\ \A u \in Page \ fetched : fetches[u] = 0
    /\ n = Cardinality(Running)

\* The web and the depth, and the maps.
InputInv ==
    /\ crawler \in Crawlers
    /\ links \in [Page -> (SUBSET Page) \cup {Missing}]
    /\ depth \in 1..NPages
    /\ crawler # "Crawl" => depth = NPages
    /\ fetched \subseteq Page
    /\ fetches \in [Page -> Nat]
    /\ calls = [p \in DOMAIN calls |-> calls[p]]

Inv ==
    /\ InputInv
    /\ crawler # "ConcurrentChannel" => \E T \in SUBSET DOMAIN calls : TreeInv(T)
    /\ crawler = "ConcurrentChannel" => ChannelInv

-----------------------------------------------------------------------------
(* Paths and pages *)

\* The number of pages is a natural number.
LEMMA PagesFinite == IsFiniteSet(Page) /\ NPages \in Nat /\ Root \in Page
BY PageAssumption, FS_CardinalityType DEF NPages

\* The names of calls are the sequences of pages that are not too long.
LEMMA PathIsSeq ==
    ASSUME NEW p
    PROVE  p \in Path <=> p \in Seq(Page) /\ Len(p) <= NPages + 1
<1>1. ASSUME p \in Path PROVE p \in Seq(Page) /\ Len(p) <= NPages + 1
  <2>1. PICK l \in 0..NPages + 1 : p \in [1..l -> Page]
    BY <1>1 DEF Path
  <2>2. l \in Nat
    BY PagesFinite, SMTT(30)
  <2> QED
    BY <2>1, <2>2, PagesFinite, SMTT(30)
<1>2. ASSUME p \in Seq(Page), Len(p) <= NPages + 1 PROVE p \in Path
  <2>1. Len(p) \in 0..NPages + 1 /\ p \in [1..Len(p) -> Page]
    BY <1>2, PagesFinite, SMTT(30)
  <2> QED
    BY <2>1 DEF Path
<1> QED
  BY <1>1, <1>2

\* The links of a page lead to URLs.
LEMMA UrlsType ==
    ASSUME InputInv, NEW u \in Page
    PROVE  Urls(u) \subseteq Page
<1>1. links[u] \in (SUBSET Page) \cup {Missing}
  BY DEF InputInv
<1> QED
  BY <1>1 DEF Urls

\* The call of a link that was found.
LEMMA AppendPath ==
    ASSUME NEW p \in Seq(Page), NEW u \in Page
    PROVE  /\ Append(p, u) \in Seq(Page)
           /\ Len(Append(p, u)) = Len(p) + 1
           /\ url(Append(p, u)) = u
           /\ Append(p, u)[Len(p) + 1] = u
           /\ \A k \in 1..Len(p) : Append(p, u)[k] = p[k]
BY SMTT(30) DEF url

\* The beginning of a path is a path.
LEMMA PrePath ==
    ASSUME NEW p \in Seq(Page), NEW k \in 1..Len(p)
    PROVE  /\ Pre(p, k) \in Seq(Page) /\ Len(Pre(p, k)) = k
           /\ \A i \in 1..k : Pre(p, k)[i] = p[i]
           /\ url(Pre(p, k)) = p[k]
           /\ k = Len(p) => Pre(p, k) = p
<1>1. /\ Pre(p, k) \in Seq(Page) /\ Len(Pre(p, k)) = k
      /\ \A i \in 1..k : Pre(p, k)[i] = p[i]
  BY SMTT(30) DEF Pre
<1>2. url(Pre(p, k)) = p[k]
  BY <1>1, SMTT(30) DEF url
<1>3. ASSUME k = Len(p) PROVE Pre(p, k) = p
  BY <1>1, <1>3, SMTT(30)
<1> QED
  BY <1>1, <1>2, <1>3

\* Two paths of the same length with the same pages are the same.
LEMMA SamePath ==
    ASSUME NEW p \in Seq(Page), NEW q \in Seq(Page), Len(p) = Len(q),
           \A k \in 1..Len(p) : p[k] = q[k]
    PROVE  p = q
BY SMTT(30)

\* The beginnings of a longer path.
LEMMA PreAppend ==
    ASSUME NEW p \in Seq(Page), NEW u \in Page, NEW k \in 1..Len(p)
    PROVE  Pre(Append(p, u), k) = Pre(p, k)
<1> DEFINE c == Append(p, u)
<1>1. c \in Seq(Page) /\ k \in 1..Len(c) /\ \A i \in 1..Len(p) : c[i] = p[i]
  BY AppendPath, SMTT(30)
<1>2. /\ Pre(c, k) \in Seq(Page) /\ Len(Pre(c, k)) = k
      /\ \A i \in 1..k : Pre(c, k)[i] = c[i]
  BY <1>1, PrePath
<1>3. /\ Pre(p, k) \in Seq(Page) /\ Len(Pre(p, k)) = k
      /\ \A i \in 1..k : Pre(p, k)[i] = p[i]
  BY PrePath
<1>4. \A i \in 1..k : i \in 1..Len(p)
  BY SMTT(30)
<1> HIDE DEF c
<1>5. \A i \in 1..Len(Pre(c, k)) : Pre(c, k)[i] = Pre(p, k)[i]
  BY <1>1, <1>2, <1>3, <1>4
<1>6. Pre(c, k) = Pre(p, k)
  BY <1>2, <1>3, <1>5, SamePath
<1> QED
  BY <1>6 DEF c

\* One page more on the way is the call of a link.
LEMMA PreNext ==
    ASSUME NEW p \in Seq(Page), NEW k \in 1..Len(p) - 1
    PROVE  Pre(p, k + 1) = Append(Pre(p, k), p[k + 1])
<1>1. k \in 1..Len(p) /\ k + 1 \in 1..Len(p) /\ p[k + 1] \in Page
  BY SMTT(30)
<1> DEFINE q == Pre(p, k)
<1>2. /\ q \in Seq(Page) /\ Len(q) = k /\ \A i \in 1..k : q[i] = p[i]
  BY <1>1, PrePath
<1>3. /\ Pre(p, k + 1) \in Seq(Page) /\ Len(Pre(p, k + 1)) = k + 1
      /\ \A i \in 1..k + 1 : Pre(p, k + 1)[i] = p[i]
  BY <1>1, PrePath
<1> HIDE DEF q
<1>4. /\ Append(q, p[k + 1]) \in Seq(Page) /\ Len(Append(q, p[k + 1])) = k + 1
      /\ Append(q, p[k + 1])[k + 1] = p[k + 1]
      /\ \A i \in 1..k : Append(q, p[k + 1])[i] = q[i]
  BY <1>1, <1>2, AppendPath
<1>5. \A i \in 1..Len(Pre(p, k + 1)) : Pre(p, k + 1)[i] = Append(q, p[k + 1])[i]
  <2> SUFFICES ASSUME NEW i \in 1..k + 1
               PROVE  Pre(p, k + 1)[i] = Append(q, p[k + 1])[i]
    BY <1>3
  <2>1. i \in 1..k \/ i = k + 1
    BY SMTT(30)
  <2> QED
    BY <1>2, <1>3, <1>4, <2>1
<1>6. Pre(p, k + 1) = Append(q, p[k + 1])
  BY <1>3, <1>4, <1>5, SamePath
<1> QED
  BY <1>6 DEF q

\* A path without a repetition is not longer than there are pages; if it is
\* as long, it has them all.
LEMMA DistinctPath ==
    ASSUME NEW p \in Seq(Page), \A i, j \in 1..Len(p) : p[i] = p[j] => i = j
    PROVE  /\ Len(p) <= NPages
           /\ Len(p) = NPages => \A u \in Page : \E i \in 1..Len(p) : p[i] = u
<1>1. p \in [1..Len(p) -> Page] /\ Len(p) \in Nat
  BY SMTT(30)
<1>2. p \in Injection(1..Len(p), Page)
  BY <1>1 DEF Injection, IsInjective
<1>3. Cardinality(1..Len(p)) = Len(p)
  <2>1. Cardinality(1..Len(p)) = IF 1 > Len(p) THEN 0 ELSE Len(p) - 1 + 1
    BY <1>1, FS_Interval, SMTT(30)
  <2> QED
    BY <1>1, <2>1, SMTT(30)
<1>4. /\ Cardinality(1..Len(p)) <= Cardinality(Page)
      /\ Cardinality(1..Len(p)) = Cardinality(Page) <=> p \in Surjection(1..Len(p), Page)
  BY <1>2, PagesFinite, FS_Injection
<1> QED
  BY <1>3, <1>4 DEF NPages, Surjection

\* A set of naturals has a smallest element.
LEMMA SmallestExists ==
    ASSUME NEW S \in SUBSET Nat, S # {}
    PROVE  \E m \in S : \A k \in S : m <= k
<1>1. PICK m \in S : \A k \in S : ~(<<k, m>> \in OpToRel(<, Nat))
  BY NatLessThanWellFounded, WFMin
<1>2. \A k \in S : ~(k < m)
  BY <1>1 DEF OpToRel
<1> QED
  BY <1>2, SMTT(30)

\* A set with the first page that is closed under links has every page that
\* can be reached.
LEMMA ClosedHasAll ==
    ASSUME NEW F, Root \in F, \A u \in F : Urls(u) \subseteq F,
           NEW d \in Nat
    PROVE  Within(d) \subseteq F
<1> SUFFICES ASSUME NEW q \in Path, Way(q)
             PROVE  url(q) \in F
  BY DEF Within
<1>1. q \in Seq(Page) /\ Len(q) \in 1..Len(q)
  BY PathIsSeq, SMTT(30) DEF Way
<1>2. \A i \in 1..Len(q) : q[i] \in F
  <2> SUFFICES ASSUME NEW j \in 1..Len(q), q[j] \notin F
               PROVE  FALSE
    OBVIOUS
  <2> DEFINE S == {i \in 1..Len(q) : q[i] \notin F}
  <2>1. S \in SUBSET Nat /\ S # {}
    BY <1>1, SMTT(30)
  <2>2. PICK m \in S : \A k \in S : m <= k
    BY <2>1, SmallestExists
  <2>3. m # 1
    BY <2>2 DEF Way
  <2>4. m - 1 \in 1..Len(q) - 1 /\ m - 1 \in 1..Len(q) /\ (m - 1) + 1 = m
    BY <1>1, <2>2, <2>3, SMTT(30)
  <2>5. q[m - 1] \in F
    <3>1. m - 1 \notin S
      BY <2>2, <2>4, SMTT(30)
    <3> QED
      BY <2>4, <3>1
  <2>6. q[m] \in Urls(q[m - 1])
    BY <2>4 DEF Way
  <2> QED
    BY <2>2, <2>5, <2>6
<1> QED
  BY <1>1, <1>2 DEF url

-----------------------------------------------------------------------------
(* Calls and their children *)

\* What a call is named by.
LEMMA CallPath ==
    ASSUME NEW T, TreeInv(T), NEW p \in DOMAIN calls
    PROVE  p \in Seq(Page) /\ Len(p) \in Nat /\ Len(p) >= 1 /\ url(p) \in Page
<1>1. p \in Seq(Page) /\ Len(p) > 0
  BY DEF TreeInv, CallOK, Way
<1> QED
  BY <1>1, SMTT(30) DEF url

\* The pages of the calls from which p was made are all different, as each of
\* them was marked by its call.
LEMMA AncestorsDistinct ==
    ASSUME NEW T, TreeInv(T), NEW p \in DOMAIN calls,
           NEW i \in 1..Len(p) - 1, NEW j \in 1..Len(p) - 1, p[i] = p[j]
    PROVE  i = j /\ p[i] \in fetched
<1>1. p \in Seq(Page) /\ i \in 1..Len(p) /\ j \in 1..Len(p)
  BY CallPath, SMTT(30)
<1>2. /\ url(Pre(p, i)) = p[i] /\ Len(Pre(p, i)) = i
      /\ url(Pre(p, j)) = p[j] /\ Len(Pre(p, j)) = j
  BY <1>1, PrePath
<1>3. Pre(p, i) \in T /\ Pre(p, j) \in T
  BY DEF TreeInv, CallOK
<1>4. Pre(p, i) = Pre(p, j)
  BY <1>2, <1>3, SMTT(30) DEF TreeInv, TakerOK
<1> QED
  BY <1>2, <1>3, <1>4 DEF TreeInv

\* A call whose page nobody has marked has no page twice on its way.
LEMMA NewIsShort ==
    ASSUME NEW T, TreeInv(T), NEW p \in DOMAIN calls, url(p) \notin fetched
    PROVE  Len(p) <= NPages
<1>1. p \in Seq(Page) /\ Len(p) \in Nat /\ Len(p) >= 1
  BY CallPath
<1>2. ASSUME NEW i \in 1..Len(p), NEW j \in 1..Len(p), p[i] = p[j]
      PROVE  i = j
  <2>1. p[Len(p)] \notin fetched
    BY DEF url
  <2>2. \A k \in 1..Len(p) - 1 : p[k] \in fetched
    BY AncestorsDistinct
  <2>3. (i = Len(p) \/ i \in 1..Len(p) - 1) /\ (j = Len(p) \/ j \in 1..Len(p) - 1)
    BY <1>1, SMTT(30)
  <2>4. CASE i \in 1..Len(p) - 1 /\ j \in 1..Len(p) - 1
    BY <1>2, <2>4, AncestorsDistinct
  <2> QED
    BY <1>2, <2>1, <2>2, <2>3, <2>4
<1> QED
  BY <1>1, <1>2, DistinctPath

\* Where the depth is used up although no path without a repetition is that
\* long, every page is marked.
LEMMA TooDeepIsMarked ==
    ASSUME NEW T, TreeInv(T), InputInv, NEW p \in DOMAIN calls, Len(p) > NPages
    PROVE  url(p) \in fetched
<1>1. p \in Seq(Page) /\ Len(p) \in Nat /\ url(p) \in Page /\ NPages \in Nat
  BY CallPath, PagesFinite
<1> SUFFICES ASSUME url(p) \notin fetched PROVE FALSE
  OBVIOUS
<1>2. Len(p) <= NPages
  BY NewIsShort
<1> QED
  BY <1>1, <1>2, SMTT(30)

\* No call is named by more pages than a path in Path has.
LEMMA CallsInPath ==
    ASSUME NEW T, TreeInv(T), InputInv
    PROVE  DOMAIN calls \subseteq Path
<1> SUFFICES ASSUME NEW p \in DOMAIN calls PROVE Len(p) <= NPages + 1
  BY CallPath, PathIsSeq
<1>1. p \in Seq(Page) /\ Len(p) \in Nat /\ NPages \in Nat /\ depth \in 1..NPages
  BY CallPath, PagesFinite DEF InputInv
<1>2. CASE Len(p) <= 1
  BY <1>1, <1>2, SMTT(30)
<1>3. CASE Len(p) > 1
  <2>1. Len(p) - 1 \in 1..Len(p) - 1 /\ Len(p) - 1 \in 1..Len(p)
    BY <1>1, <1>3, SMTT(30)
  <2>2. Pre(p, Len(p) - 1) \in T
    BY <2>1 DEF TreeInv, CallOK
  <2>3. Len(Pre(p, Len(p) - 1)) = Len(p) - 1
    BY <1>1, <2>1, PrePath
  <2>4. Len(p) - 1 <= depth
    BY <2>2, <2>3 DEF TreeInv, TakerOK
  <2> QED
    BY <1>1, <2>4, SMTT(30)
<1> QED
  BY <1>1, <1>2, <1>3, SMTT(30)

\* A child of a call: a way that is one link longer.
LEMMA ChildPath ==
    ASSUME NEW T, TreeInv(T), InputInv, NEW p \in DOMAIN calls, NEW c \in Children(p)
    PROVE  /\ c \in Seq(Page) /\ Len(c) = Len(p) + 1 /\ Way(c)
           /\ Pre(c, Len(p)) = p
           /\ \A k \in 1..Len(p) : Pre(c, k) = Pre(p, k)
<1>1. p \in Seq(Page) /\ Len(p) \in Nat /\ Len(p) >= 1 /\ url(p) \in Page
  BY CallPath
<1>2. PICK u \in Urls(url(p)) : c = Append(p, u)
  BY DEF Children
<1>3. u \in Page
  BY <1>1, <1>2, UrlsType
<1>4. /\ c \in Seq(Page) /\ Len(c) = Len(p) + 1
      /\ c[Len(p) + 1] = u /\ \A k \in 1..Len(p) : c[k] = p[k]
  BY <1>1, <1>2, <1>3, AppendPath
<1>5. \A k \in 1..Len(p) : Pre(c, k) = Pre(p, k)
  BY <1>1, <1>2, <1>3, PreAppend
<1>6. Pre(c, Len(p)) = p
  <2>1. Len(p) \in 1..Len(p)
    BY <1>1, SMTT(30)
  <2>2. Pre(p, Len(p)) = p
    BY <1>1, <2>1, PrePath
  <2> QED
    BY <1>5, <2>1, <2>2
<1>7. Way(c)
  <2>1. Way(p)
    BY DEF TreeInv, CallOK
  <2>2. c[1] = Root
    BY <1>1, <1>4, <2>1, SMTT(30) DEF Way
  <2>3. ASSUME NEW i \in 1..Len(c) - 1 PROVE c[i + 1] \in Urls(c[i])
    <3>1. i \in 1..Len(p)
      BY <1>1, <1>4, SMTT(30)
    <3>2. CASE i = Len(p)
      <4>1. c[i] = url(p)
        BY <1>4, <3>1, <3>2 DEF url
      <4> QED
        BY <1>2, <1>4, <3>2, <4>1
    <3>3. CASE i # Len(p)
      <4>1. i \in 1..Len(p) - 1 /\ i + 1 \in 1..Len(p)
        BY <1>1, <3>1, <3>3, SMTT(30)
      <4> QED
        BY <1>4, <2>1, <3>1, <4>1 DEF Way
    <3> QED
      BY <3>2, <3>3
  <2> QED
    BY <1>1, <1>4, <2>2, <2>3, SMTT(30) DEF Way
<1> QED
  BY <1>4, <1>5, <1>6, <1>7

\* When all the calls that p has made have returned, so have the calls made
\* by those.
LEMMA DescendantsDone ==
    ASSUME NEW T, TreeInv(T), InputInv, NEW p \in DOMAIN calls,
           \A c \in Children(p) : c \in DOMAIN calls /\ calls[c] = "done",
           NEW q \in DOMAIN calls, NEW k \in 1..Len(q) - 1, Pre(q, k) = p
    PROVE  calls[q] = "done"
<1>1. q \in Seq(Page) /\ Len(q) \in Nat /\ k \in 1..Len(q) /\ k + 1 \in 1..Len(q)
  BY CallPath, SMTT(30)
<1>2. Len(p) = k /\ url(p) = q[k] /\ q[k + 1] \in Urls(q[k])
  <2>1. Way(q)
    BY DEF TreeInv, CallOK
  <2> QED
    BY <1>1, <2>1, PrePath DEF Way
<1>3. Pre(q, k + 1) = Append(p, q[k + 1])
  BY <1>1, PreNext
<1>4. Pre(q, k + 1) \in Children(p)
  BY <1>2, <1>3 DEF Children
<1>5. calls[Pre(q, k + 1)] = "done"
  BY <1>4
<1>6. CASE k + 1 = Len(q)
  BY <1>1, <1>5, <1>6, PrePath
<1>7. CASE k + 1 # Len(q)
  <2>1. k + 1 \in 1..Len(q) - 1
    BY <1>1, <1>7, SMTT(30)
  <2>2. calls[q] # "done" => calls[Pre(q, k + 1)] = "wait"
    BY <2>1 DEF TreeInv, CallOK
  <2> QED
    BY <1>5, <2>2
<1> QED
  BY <1>6, <1>7

-----------------------------------------------------------------------------
(* The steps of Serial(), ConcurrentMutex() and Crawl() *)

\* Call p goes on, and marks its page if it is in U and not in T.
Moved(T, U, p) ==
    /\ p \in DOMAIN calls /\ calls[p] # "done"
    /\ U \subseteq DOMAIN calls /\ T \subseteq U /\ U \subseteq T \cup {p}
    /\ UNCHANGED <<input, n>>
    /\ \A q \in DOMAIN calls : q \in DOMAIN calls' /\ (q # p => calls'[q] = calls[q])
    /\ \A c \in DOMAIN calls' :
          c \notin DOMAIN calls => c \in Children(p) /\ calls'[c] = "enter" /\ calls'[p] = "wait"
    /\ calls'[p] \in {"fetch", "wait", "done"}
    /\ calls[p] = "wait" => calls'[p] # "fetch"
    /\ calls'[p] # "done" => p \in U
    /\ calls'[p] = "done" /\ p \in U =>
          \A c \in Children(p) : c \in DOMAIN calls /\ calls[c] = "done"
    /\ calls'[p] = "done" /\ depth = NPages => url(p) \in fetched'
    /\ p \in U /\ p \notin T => url(p) \notin fetched /\ Len(p) <= depth
    /\ fetched' = {url(q) : q \in U}
    /\ \A u \in Page : u # url(p) => fetches'[u] = fetches[u]
    /\ p \in U => /\ calls'[p] = "fetch" => fetches'[url(p)] = 0
                  /\ calls'[p] # "fetch" => fetches'[url(p)] = 1
    /\ p \notin U => fetches'[url(p)] = fetches[url(p)]

\* The web stays as it is.
LEMMA SameWeb ==
    ASSUME UNCHANGED input
    PROVE  /\ \A u : Urls(u)' = Urls(u)
           /\ \A q : Way(q)' <=> Way(q)
           /\ \A q : Children(q)' = Children(q)
           /\ \A d : Within(d)' = Within(d)
<1>1. \A u : Urls(u)' = Urls(u)
  BY DEF input, Urls
<1>2. \A q : Way(q)' <=> Way(q)
  BY <1>1 DEF Way
<1>3. \A q : Children(q)' = Children(q)
  BY <1>1 DEF Children
<1>4. \A d : Within(d)' = Within(d)
  BY <1>2 DEF Within
<1> QED
  BY <1>1, <1>2, <1>3, <1>4

\* A call whose ancestors were well keeps being so when p goes on.
LEMMA MovedCalls ==
    ASSUME NEW T, NEW U, NEW p, InputInv, TreeInv(T), Moved(T, U, p),
           NEW q \in DOMAIN calls'
    PROVE  CallOK(U, q)'
<1>1. p \in DOMAIN calls /\ p \in Seq(Page) /\ Len(p) \in Nat /\ Len(p) >= 1
  BY CallPath DEF Moved
<1>2. (Way(q)' <=> Way(q)) /\ depth' = depth
  BY SameWeb DEF Moved, input
<1>3. fetched \subseteq fetched'
  BY DEF Moved, TreeInv
<1>4. CASE q \in DOMAIN calls
  <2>1. CallOK(T, q) /\ q \in Seq(Page)
    BY <1>4 DEF TreeInv, CallOK
  <2>2. ASSUME NEW k \in 1..Len(q) - 1
        PROVE  /\ Pre(q, k) \in U
               /\ calls'[Pre(q, k)] \in {"wait", "done"}
               /\ calls'[q] # "done" => calls'[Pre(q, k)] = "wait"
    <3>1. /\ Pre(q, k) \in T /\ Pre(q, k) \in DOMAIN calls
          /\ calls[Pre(q, k)] \in {"wait", "done"}
          /\ calls[q] # "done" => calls[Pre(q, k)] = "wait"
      BY <2>1 DEF CallOK, TreeInv
    <3>2. Pre(q, k) \in U
      BY <3>1 DEF Moved
    <3>3. CASE Pre(q, k) # p
      <4>1. calls'[Pre(q, k)] = calls[Pre(q, k)]
        BY <3>1, <3>3 DEF Moved
      <4>2. calls'[q] # "done" => calls[q] # "done"
        BY <1>4 DEF Moved
      <4> QED
        BY <3>1, <3>2, <4>1, <4>2
    <3>4. CASE Pre(q, k) = p
      <4>1. calls[p] = "wait" /\ p \in T
        BY <3>1, <3>4 DEF Moved
      <4>2. calls'[p] \in {"wait", "done"} /\ p \in U
        BY <4>1 DEF Moved
      <4>3. q # p
        <5>1. Len(Pre(q, k)) = k /\ k # Len(q)
          BY <2>1, PrePath, SMTT(30)
        <5> QED
          BY <3>4, <5>1
      <4>4. ASSUME calls'[p] = "done" PROVE calls'[q] = "done"
        <5>1. \A c \in Children(p) : c \in DOMAIN calls /\ calls[c] = "done"
          BY <4>2, <4>4 DEF Moved
        <5>2. calls[q] = "done"
          BY <1>1, <1>4, <3>4, <5>1, DescendantsDone
        <5> QED
          BY <1>4, <4>3, <5>2 DEF Moved
      <4> QED
        BY <3>2, <3>4, <4>2, <4>4
    <3> QED
      BY <3>3, <3>4
  <2>3. CASE q # p
    <3>1. calls'[q] = calls[q]
      BY <1>4, <2>3 DEF Moved
    <3>2. q \in T => q \in U
      BY DEF Moved
    <3> QED
      BY <1>2, <1>3, <2>1, <2>2, <3>1, <3>2 DEF CallOK
  <2>4. CASE q = p
    <3>1. /\ calls'[p] \in {"fetch", "wait", "done"}
          /\ calls'[p] \in {"fetch", "wait"} => p \in U
          /\ calls'[p] = "done" /\ depth = NPages => url(p) \in fetched'
      BY DEF Moved
    <3> QED
      BY <1>2, <2>1, <2>2, <2>4, <3>1 DEF CallOK
  <2> QED
    BY <2>3, <2>4
<1>5. CASE q \notin DOMAIN calls
  <2>1. q \in Children(p) /\ calls'[q] = "enter" /\ calls'[p] = "wait" /\ p \in U
    BY <1>5 DEF Moved
  <2>2. /\ q \in Seq(Page) /\ Len(q) = Len(p) + 1 /\ Way(q)
        /\ Pre(q, Len(p)) = p
        /\ \A k \in 1..Len(p) : Pre(q, k) = Pre(p, k)
    BY <1>1, <2>1, ChildPath
  <2>3. ASSUME NEW k \in 1..Len(q) - 1
        PROVE  Pre(q, k) \in U /\ calls'[Pre(q, k)] = "wait"
    <3>1. k \in 1..Len(p)
      BY <1>1, <2>2, SMTT(30)
    <3>2. CASE k = Len(p)
      BY <2>1, <2>2, <3>2
    <3>3. CASE k # Len(p)
      <4>1. k \in 1..Len(p) - 1
        BY <1>1, <3>1, <3>3, SMTT(30)
      <4>2. Pre(p, k) \in T /\ Pre(p, k) \in DOMAIN calls /\ calls[Pre(p, k)] = "wait"
        BY <1>1, <4>1 DEF TreeInv, CallOK, Moved
      <4>3. Pre(p, k) # p
        BY <1>1, <3>1, <3>3, PrePath
      <4> QED
        BY <2>2, <3>1, <4>2, <4>3 DEF Moved
    <3> QED
      BY <3>2, <3>3
  <2> QED
    BY <1>2, <2>1, <2>2, <2>3 DEF CallOK
<1> QED
  BY <1>4, <1>5

\* So does a call that has marked its page.
LEMMA MovedTakers ==
    ASSUME NEW T, NEW U, NEW p, InputInv, TreeInv(T), Moved(T, U, p),
           NEW q \in U
    PROVE  TakerOK(U, q)'
<1>1. Children(q)' = Children(q) /\ depth' = depth
  BY SameWeb DEF Moved, input
<1>2. p \in DOMAIN calls /\ q \in DOMAIN calls /\ url(q) \in Page /\ url(p) \in Page
  BY CallPath DEF Moved
<1>3. ASSUME NEW r \in U, NEW t \in U, url(r) = url(t) PROVE r = t
  <2>1. (r \in T \/ r = p) /\ (t \in T \/ t = p)
    BY DEF Moved
  <2>2. p \notin T => (\A x \in T : url(x) # url(p)) \/ p \notin U
    BY DEF Moved, TreeInv
  <2>3. r \in T /\ t \in T => r = t
    BY <1>3 DEF TreeInv, TakerOK
  <2> QED
    BY <1>3, <2>1, <2>2, <2>3
<1>4. CASE q # p
  <2>1. q \in T /\ TakerOK(T, q)
    BY <1>4 DEF Moved, TreeInv
  <2>2. calls'[q] = calls[q]
    BY <1>2, <1>4 DEF Moved
  <2>3. fetches'[url(q)] = fetches[url(q)]
    <3>1. p \in U => url(q) # url(p)
      BY <1>3, <1>4
    <3> QED
      BY <1>2, <3>1 DEF Moved
  <2>4. ASSUME calls[q] = "done", NEW c \in Children(q)
        PROVE  c \in DOMAIN calls' /\ calls'[c] = "done"
    <3>1. c \in DOMAIN calls /\ calls[c] = "done"
      BY <2>1, <2>4 DEF TakerOK
    <3> QED
      BY <3>1 DEF Moved
  <2> QED
    BY <1>1, <1>3, <2>1, <2>2, <2>3, <2>4 DEF TakerOK
<1>5. CASE q = p
  <2>1. Len(p) <= depth
    BY <1>5 DEF Moved, TreeInv, TakerOK
  <2>2. ASSUME calls'[p] = "done", NEW c \in Children(p)
        PROVE  c \in DOMAIN calls' /\ calls'[c] = "done"
    <3>1. c \in DOMAIN calls /\ calls[c] = "done"
      BY <1>5, <2>2 DEF Moved
    <3> QED
      BY <3>1 DEF Moved
  <2>3. /\ calls'[p] # "enter"
        /\ calls'[p] = "fetch" => fetches'[url(p)] = 0
        /\ calls'[p] # "fetch" => fetches'[url(p)] = 1
    BY <1>5 DEF Moved
  <2> QED
    BY <1>1, <1>3, <1>5, <2>1, <2>2, <2>3 DEF TakerOK
<1> QED
  BY <1>4, <1>5

\* Together: the step of a call keeps the invariant.
LEMMA MovedTree ==
    ASSUME NEW T, NEW U, NEW p, InputInv, TreeInv(T), Moved(T, U, p)
    PROVE  TreeInv(U)'
<1>1. \A q \in DOMAIN calls' : CallOK(U, q)'
  BY MovedCalls
<1>2. \A q \in U : TakerOK(U, q)'
  BY MovedTakers
<1>3. U \subseteq DOMAIN calls' /\ <<Root>> \in DOMAIN calls' /\ n' = 0
  BY DEF Moved, TreeInv
<1>4. fetched' = {url(q) : q \in U}
  BY DEF Moved
<1>5. ASSUME NEW u \in Page \ fetched' PROVE fetches'[u] = 0
  <2>1. u \notin fetched
    BY <1>5, <1>4 DEF Moved, TreeInv
  <2>2. fetches[u] = 0
    BY <2>1 DEF TreeInv
  <2>3. p \in U => u # url(p)
    BY <1>4
  <2> QED
    BY <2>2, <2>3 DEF Moved
<1> QED
  BY <1>1, <1>2, <1>3, <1>4, <1>5 DEF TreeInv

\* The step of one call: p goes to l, and the calls in S are made.
Goes(p, l, S) ==
    /\ DOMAIN calls' = DOMAIN calls \cup S
    /\ calls' = [q \in DOMAIN calls' |-> calls'[q]]
    /\ p \in DOMAIN calls => calls'[p] = l
    /\ \A q \in DOMAIN calls : q # p => calls'[q] = calls[q]
    /\ \A c \in S : c \notin DOMAIN calls => calls'[c] = "enter"

\* A call that goes on by itself.
LEMMA GoesAlone ==
    ASSUME InputInv, NEW p \in DOMAIN calls, NEW l, calls' = [calls EXCEPT ![p] = l]
    PROVE  Goes(p, l, {})
BY DEF InputInv, Goes

\* A call that makes others.
LEMMA GoesBegin ==
    ASSUME InputInv, NEW p \in DOMAIN calls, NEW l, NEW S,
           calls' = Begin([calls EXCEPT ![p] = l], S, "enter")
    PROVE  Goes(p, l, S)
<1> DEFINE f == [calls EXCEPT ![p] = l]
<1>1. DOMAIN f = DOMAIN calls /\ f[p] = l /\ \A q \in DOMAIN calls : q # p => f[q] = calls[q]
  BY DEF InputInv
<1> HIDE DEF f
<1>2. calls' = Begin(f, S, "enter")
  BY DEF f
<1>3. /\ DOMAIN calls' = DOMAIN f \cup S
      /\ \A c \in DOMAIN f : calls'[c] = f[c]
      /\ \A c \in S : c \notin DOMAIN f => calls'[c] = "enter"
      /\ calls' = [c \in DOMAIN calls' |-> calls'[c]]
  BY <1>2 DEF Begin
<1> QED
  BY <1>1, <1>3 DEF Goes

\* Serial() and ConcurrentMutex() look their page up and mark it.
LEMMA EnterTree ==
    ASSUME NEW T, InputInv, TreeInv(T), NEW p \in DOMAIN calls, Enter(p)
    PROVE  \E U : U \subseteq DOMAIN calls' /\ TreeInv(U)'
<1>1. T \subseteq DOMAIN calls /\ fetched = {url(q) : q \in T} /\ url(p) \in Page
  BY CallPath DEF TreeInv
<1>2. crawler # "Crawl" /\ depth = NPages /\ calls[p] = "enter" /\ p \notin T
  BY DEF Enter, InputInv, TreeInv, TakerOK
<1>3. CASE url(p) \in fetched
  <2>1. Goes(p, "done", {})
    BY <1>3, GoesAlone DEF Enter
  <2>2. fetched' = fetched /\ fetches' = fetches /\ UNCHANGED <<input, n>>
    BY <1>3 DEF Enter
  <2>3. Moved(T, T, p)
    BY <1>1, <1>2, <1>3, <2>1, <2>2 DEF Moved, Goes
  <2>4. TreeInv(T)'
    BY <2>3, MovedTree
  <2> QED
    BY <2>4 DEF TreeInv
<1>4. CASE url(p) \notin fetched
  <2> DEFINE U == T \cup {p}
  <2>1. Goes(p, "fetch", {})
    BY <1>4, GoesAlone DEF Enter
  <2>2. fetched' = fetched \cup {url(p)} /\ fetches' = fetches /\ UNCHANGED <<input, n>>
    BY DEF Enter
  <2>3. Len(p) <= depth
    BY <1>2, <1>4, NewIsShort
  <2>4. fetches[url(p)] = 0
    BY <1>1, <1>4 DEF TreeInv
  <2>5. fetched' = {url(q) : q \in U}
    BY <1>1, <2>2
  <2>6. Moved(T, U, p)
    BY <1>1, <1>2, <1>4, <2>1, <2>2, <2>3, <2>4, <2>5 DEF Moved, Goes
  <2>7. TreeInv(U)'
    BY <2>6, MovedTree
  <2> QED
    BY <2>7 DEF TreeInv
<1> QED
  BY <1>3, <1>4

\* Crawl() does both, and Fetch(), under one lock.
LEMMA CrawlEnterTree ==
    ASSUME NEW T, InputInv, TreeInv(T), NEW p \in DOMAIN calls, CrawlEnter(p)
    PROVE  \E U : U \subseteq DOMAIN calls' /\ TreeInv(U)'
<1>1. T \subseteq DOMAIN calls /\ fetched = {url(q) : q \in T} /\ url(p) \in Page
  BY CallPath DEF TreeInv
<1>2. calls[p] = "enter" /\ p \notin T /\ UNCHANGED <<input, n>>
  BY DEF CrawlEnter, TreeInv, TakerOK
<1>3. Len(p) \in Nat /\ depth \in Nat /\ NPages \in Nat
  BY CallPath, PagesFinite, SMTT(30) DEF InputInv
<1>4. CASE depth - (Len(p) - 1) <= 0 \/ url(p) \in fetched
  <2>1. calls' = [calls EXCEPT ![p] = "done"] /\ fetched' = fetched /\ fetches' = fetches
    BY <1>3, <1>4, SMTT(30) DEF CrawlEnter
  <2>2. Goes(p, "done", {})
    BY <2>1, GoesAlone
  <2>3. depth = NPages => url(p) \in fetched
    <3>1. depth = NPages /\ depth - (Len(p) - 1) <= 0 => Len(p) > NPages
      BY <1>3, SMTT(30)
    <3> QED
      BY <1>4, <3>1, TooDeepIsMarked
  <2>4. Moved(T, T, p)
    BY <1>1, <1>2, <2>1, <2>2, <2>3 DEF Moved, Goes
  <2>5. TreeInv(T)'
    BY <2>4, MovedTree
  <2> QED
    BY <2>5 DEF TreeInv
<1>5. CASE depth - (Len(p) - 1) > 0 /\ url(p) \notin fetched
  <2> DEFINE U == T \cup {p}
  <2>1. /\ fetched' = fetched \cup {url(p)}
        /\ fetches' = [fetches EXCEPT ![url(p)] = @ + 1]
        /\ calls' = IF links[url(p)] = Missing THEN [calls EXCEPT ![p] = "done"]
                    ELSE Begin([calls EXCEPT ![p] = "wait"], Children(p), "enter")
    BY <1>3, <1>5, SMTT(30) DEF CrawlEnter
  <2>2. Len(p) <= depth
    BY <1>3, <1>5, SMTT(30)
  <2>3. fetches'[url(p)] = 1 /\ \A u \in Page : u # url(p) => fetches'[u] = fetches[u]
    <3>1. fetches[url(p)] = 0 /\ fetches \in [Page -> Nat]
      BY <1>1, <1>5 DEF TreeInv, InputInv
    <3> QED
      BY <1>1, <2>1, <3>1, SMTT(30)
  <2>4. fetched' = {url(q) : q \in U} /\ url(p) \in fetched'
    BY <1>1, <2>1
  <2>5. CASE links[url(p)] = Missing
    <3>1. Goes(p, "done", {}) /\ Children(p) = {}
      BY <2>1, <2>5, GoesAlone DEF Children, Urls
    <3>2. Moved(T, U, p)
      BY <1>1, <1>2, <1>5, <2>2, <2>3, <2>4, <3>1 DEF Moved, Goes
    <3>3. TreeInv(U)'
      BY <3>2, MovedTree
    <3> QED
      BY <3>3 DEF TreeInv
  <2>6. CASE links[url(p)] # Missing
    <3>1. Goes(p, "wait", Children(p))
      BY <2>1, <2>6, GoesBegin
    <3>2. Moved(T, U, p)
      BY <1>1, <1>2, <1>5, <2>2, <2>3, <2>4, <3>1 DEF Moved, Goes
    <3>3. TreeInv(U)'
      BY <3>2, MovedTree
    <3> QED
      BY <3>3 DEF TreeInv
  <2> QED
    BY <2>5, <2>6
<1> QED
  BY <1>3, <1>4, <1>5, SMTT(30)

\* Fetch() is called once for the page that the call has marked.
LEMMA FetchTree ==
    ASSUME NEW T, InputInv, TreeInv(T), NEW p \in DOMAIN calls, Fetch(p)
    PROVE  \E U : U \subseteq DOMAIN calls' /\ TreeInv(U)'
<1>1. T \subseteq DOMAIN calls /\ fetched = {url(q) : q \in T} /\ url(p) \in Page
  BY CallPath DEF TreeInv
<1>2. calls[p] = "fetch" /\ p \in T /\ fetched' = fetched /\ UNCHANGED <<input, n>>
  BY DEF Fetch, TreeInv, CallOK
<1>3. fetches'[url(p)] = 1 /\ \A u \in Page : u # url(p) => fetches'[u] = fetches[u]
  <2>1. fetches[url(p)] = 0 /\ fetches \in [Page -> Nat]
    BY <1>2 DEF TreeInv, TakerOK, InputInv
  <2> QED
    BY <1>1, <2>1, SMTT(30) DEF Fetch
<1>4. url(p) \in fetched
  BY <1>1, <1>2
<1>5. \/ Goes(p, "done", {}) /\ Children(p) = {}
      \/ Goes(p, "wait", {})
      \/ Goes(p, "wait", Children(p))
  <2>1. CASE links[url(p)] = Missing
    BY <2>1, GoesAlone DEF Fetch, Children, Urls
  <2>2. CASE links[url(p)] # Missing /\ crawler = "Serial"
    BY <2>2, GoesAlone DEF Fetch
  <2>3. CASE links[url(p)] # Missing /\ crawler # "Serial"
    <3>1. calls' = Begin([calls EXCEPT ![p] = "wait"], Children(p), "enter")
      BY <2>3 DEF Fetch
    <3> QED
      BY <3>1, GoesBegin
  <2> QED
    BY <2>1, <2>2, <2>3
<1>6. Moved(T, T, p)
  BY <1>1, <1>2, <1>3, <1>4, <1>5 DEF Moved, Goes
<1>7. TreeInv(T)'
  BY <1>6, MovedTree
<1> QED
  BY <1>7 DEF TreeInv

\* Serial() makes the next of its calls.
LEMMA SerialCallTree ==
    ASSUME NEW T, InputInv, TreeInv(T), NEW p \in DOMAIN calls, SerialCall(p)
    PROVE  \E U : U \subseteq DOMAIN calls' /\ TreeInv(U)'
<1>1. T \subseteq DOMAIN calls /\ fetched = {url(q) : q \in T} /\ url(p) \in Page
  BY CallPath DEF TreeInv
<1>2. /\ calls[p] = "wait" /\ p \in T
      /\ fetched' = fetched /\ fetches' = fetches /\ UNCHANGED <<input, n>>
  BY DEF SerialCall, TreeInv, CallOK
<1>3. PICK c \in Children(p) : calls' = Begin(calls, {c}, "enter")
  BY DEF SerialCall
<1>4. Goes(p, "wait", {c})
  <2>1. /\ DOMAIN calls' = DOMAIN calls \cup {c}
        /\ \A q \in DOMAIN calls : calls'[q] = calls[q]
        /\ c \notin DOMAIN calls => calls'[c] = "enter"
        /\ calls' = [q \in DOMAIN calls' |-> calls'[q]]
    BY <1>3 DEF Begin
  <2> QED
    BY <1>2, <2>1 DEF Goes
<1>5. fetches[url(p)] = 1
  BY <1>2 DEF TreeInv, TakerOK
<1>6. Moved(T, T, p)
  BY <1>1, <1>2, <1>3, <1>4, <1>5 DEF Moved, Goes
<1>7. TreeInv(T)'
  BY <1>6, MovedTree
<1> QED
  BY <1>7 DEF TreeInv

\* A call returns after those it waits for.
LEMMA WaitTree ==
    ASSUME NEW T, InputInv, TreeInv(T), NEW p \in DOMAIN calls, Wait(p)
    PROVE  \E U : U \subseteq DOMAIN calls' /\ TreeInv(U)'
<1>1. T \subseteq DOMAIN calls /\ fetched = {url(q) : q \in T} /\ url(p) \in Page
  BY CallPath DEF TreeInv
<1>2. /\ calls[p] = "wait" /\ p \in T
      /\ fetched' = fetched /\ fetches' = fetches /\ UNCHANGED <<input, n>>
  BY DEF Wait, TreeInv, CallOK
<1>3. Goes(p, "done", {})
  BY GoesAlone DEF Wait
<1>4. \A c \in Children(p) : c \in DOMAIN calls /\ calls[c] = "done"
  BY DEF Wait
<1>5. fetches[url(p)] = 1 /\ url(p) \in fetched
  BY <1>1, <1>2 DEF TreeInv, TakerOK
<1>6. Moved(T, T, p)
  BY <1>1, <1>2, <1>3, <1>4, <1>5 DEF Moved, Goes
<1>7. TreeInv(T)'
  BY <1>6, MovedTree
<1> QED
  BY <1>7 DEF TreeInv

-----------------------------------------------------------------------------
(* The steps of ConcurrentChannel() *)

\* There are as many workers as pages for them.
LEMMA WorkersCount ==
    ASSUME NEW S, IsFiniteSet(S)
    PROVE  /\ IsFiniteSet({<<u>> : u \in S})
           /\ Cardinality({<<u>> : u \in S}) = Cardinality(S)
<1> DEFINE W == {<<u>> : u \in S}
           f == [u \in S |-> <<u>>]
<1>1. f \in [S -> W]
  OBVIOUS
<1>2. \A u, v \in S : f[u] = f[v] => u = v
  OBVIOUS
<1>3. \A w \in W : \E u \in S : f[u] = w
  OBVIOUS
<1> HIDE DEF f, W
<1>4. f \in Bijection(S, W)
  BY <1>1, <1>2, <1>3 DEF Bijection, Injection, Surjection, IsInjective
<1>5. ExistsBijection(S, W)
  BY <1>4 DEF ExistsBijection
<1> QED
  BY <1>5, FS_Bijection DEF W

\* Who is fewer links away is also less than more links away.
LEMMA WithinGrows ==
    ASSUME NEW d \in Nat, NEW e \in Nat, d <= e
    PROVE  Within(d) \subseteq Within(e)
<1>1. ASSUME NEW w \in Path, Len(w) <= d PROVE Len(w) <= e
  <2>1. Len(w) \in Nat
    BY PathIsSeq, SMTT(30)
  <2> QED
    BY <1>1, <2>1, SMTT(30)
<1> QED
  BY <1>1 DEF Within

\* A link leads one link farther.
LEMMA WithinNext ==
    ASSUME InputInv, NEW d \in 0..NPages, NEW u \in Within(d), NEW v \in Urls(u)
    PROVE  v \in Within(d + 1)
<1>1. PICK q \in Path : Len(q) <= d /\ Way(q) /\ u = url(q)
  BY DEF Within
<1>2. q \in Seq(Page) /\ Len(q) \in Nat /\ Len(q) >= 1 /\ NPages \in Nat
  BY <1>1, PathIsSeq, PagesFinite, SMTT(30) DEF Way
<1>3. u \in Page /\ v \in Page
  BY <1>1, <1>2, UrlsType, SMTT(30) DEF url
<1> DEFINE c == Append(q, v)
<1>4. /\ c \in Seq(Page) /\ Len(c) = Len(q) + 1 /\ url(c) = v
      /\ c[Len(q) + 1] = v /\ \A k \in 1..Len(q) : c[k] = q[k]
  BY <1>2, <1>3, AppendPath
<1> HIDE DEF c
<1>5. c \in Path /\ Len(c) <= d + 1
  BY <1>1, <1>2, <1>4, PathIsSeq, SMTT(30)
<1>6. Way(c)
  <2>1. c[1] = Root
    BY <1>1, <1>2, <1>4, SMTT(30) DEF Way
  <2>2. ASSUME NEW i \in 1..Len(c) - 1 PROVE c[i + 1] \in Urls(c[i])
    <3>1. i \in 1..Len(q)
      BY <1>2, <1>4, SMTT(30)
    <3>2. CASE i = Len(q)
      <4>1. c[i] = u
        BY <1>1, <1>4, <3>1, <3>2 DEF url
      <4> QED
        BY <1>4, <3>2, <4>1
    <3>3. CASE i # Len(q)
      <4>1. i \in 1..Len(q) - 1 /\ i + 1 \in 1..Len(q)
        BY <1>2, <3>1, <3>3, SMTT(30)
      <4> QED
        BY <1>1, <1>4, <3>1, <4>1 DEF Way
    <3> QED
      BY <3>2, <3>3
  <2> QED
    BY <1>2, <1>4, <2>1, <2>2, SMTT(30) DEF Way
<1> QED
  BY <1>4, <1>5, <1>6 DEF Within

\* The first page is there at once.
LEMMA RootWithin == Root \in Within(1)
<1>1. PICK q \in Seq(Page) : Len(q) = 1 /\ q[1] = Root
  <2>1. <<Root>> \in Seq(Page) /\ Len(<<Root>>) = 1 /\ <<Root>>[1] = Root
    BY PagesFinite, SMTT(30)
  <2> QED
    BY <2>1
<1>2. q \in Path
  <2>1. Len(q) <= NPages + 1
    BY <1>1, PagesFinite, SMTT(30)
  <2> QED
    BY <2>1, PathIsSeq
<1>3. Way(q)
  BY <1>1, SMTT(30) DEF Way
<1>4. url(q) = Root
  BY <1>1 DEF url
<1>5. Len(q) <= 1
  BY <1>1, SMTT(30)
<1> QED
  BY <1>2, <1>3, <1>4, <1>5 DEF Within

\* worker() fetches its page, which nobody has fetched, and has then
\* something to send.
LEMMA WorkerChannel ==
    ASSUME InputInv, ChannelInv, NEW p \in DOMAIN calls, worker(p)
    PROVE  ChannelInv'
<1>1. PICK u \in fetched : p = <<u>>
  BY DEF worker, ChannelInv
<1>2. url(p) = u /\ u \in Page /\ fetches \in [Page -> Nat] /\ fetched \subseteq Page
  BY <1>1 DEF url, InputInv
<1>3. /\ DOMAIN calls' = DOMAIN calls /\ calls'[p] = "send"
      /\ \A q \in DOMAIN calls : q # p => calls'[q] = calls[q]
  BY DEF worker, InputInv
<1>4. fetched' = fetched /\ n' = n /\ UNCHANGED input /\ calls[p] = "fetch"
  BY DEF worker
<1>5. fetches[u] = 0
  BY <1>1, <1>4 DEF ChannelInv
<1>6. fetches'[u] = 1 /\ \A v \in Page : v # u => fetches'[v] = fetches[v]
  BY <1>2, <1>5, SMTT(30) DEF worker
<1>7. Running' = Running
  BY <1>3, <1>4 DEF Running
<1>8. p # <<>> /\ \A v \in fetched : v # u => <<v>> # p
  BY <1>1
<1>9. ASSUME NEW v \in fetched
      PROVE  /\ calls'[<<v>>] \in {"fetch", "send", "done"}
             /\ calls'[<<v>>] = "fetch" => fetches'[v] = 0
             /\ calls'[<<v>>] # "fetch" => fetches'[v] = 1
             /\ calls'[<<v>>] = "done" => Urls(v)' \subseteq fetched'
             /\ v \in Within(Cardinality(fetched))'
  <2>1. Urls(v)' = Urls(v) /\ Within(Cardinality(fetched))' = Within(Cardinality(fetched))
    BY <1>4, SameWeb
  <2>2. <<v>> \in DOMAIN calls /\ v \in Page
    BY <1>2 DEF ChannelInv
  <2>3. CASE v = u
    BY <1>1, <1>3, <1>6, <2>1, <2>3 DEF ChannelInv
  <2>4. CASE v # u
    <3>1. calls'[<<v>>] = calls[<<v>>] /\ fetches'[v] = fetches[v]
      BY <1>3, <1>6, <1>8, <2>2, <2>4
    <3> QED
      BY <1>4, <2>1, <3>1 DEF ChannelInv
  <2> QED
    BY <2>3, <2>4
<1>10. calls'[<<>>] = calls[<<>>]
  BY <1>3, <1>8 DEF ChannelInv
<1>11. \A v \in Page \ fetched : fetches'[v] = 0
  BY <1>1, <1>6 DEF ChannelInv
<1> QED
  BY <1>3, <1>4, <1>7, <1>9, <1>10, <1>11 DEF ChannelInv

\* master() takes what p sends: urls, of which the pages in new were not
\* marked.  It starts a worker for each of those.
Takes(p, urls, new) ==
    /\ new = urls \ fetched
    /\ calls[p] = "send" /\ UNCHANGED <<input, fetches>>
    /\ fetched' = fetched \cup new
    /\ n' = n + Cardinality(new) - 1
    /\ DOMAIN calls' = DOMAIN calls \cup {<<u>> : u \in new}
    /\ calls'[p] = "done"
    /\ \A q \in DOMAIN calls : q # p => calls'[q] = calls[q]
    /\ \A u \in new : calls'[<<u>>] = "fetch"

\* The counter of master(): one goroutine has sent, the new ones have not.
LEMMA MasterCounts ==
    ASSUME InputInv, ChannelInv, NEW p \in DOMAIN calls, NEW urls, NEW new \in SUBSET Page,
           Takes(p, urls, new)
    PROVE  n' = Cardinality(Running')
<1> DEFINE N == {<<u>> : u \in new}
<1>1. IsFiniteSet(new) /\ IsFiniteSet(fetched)
  BY PagesFinite, FS_Subset DEF InputInv
<1>2. IsFiniteSet(N) /\ Cardinality(N) = Cardinality(new)
  BY <1>1, WorkersCount
<1>3. IsFiniteSet(Running)
  <2>1. IsFiniteSet({<<u>> : u \in fetched})
    BY <1>1, WorkersCount
  <2>2. IsFiniteSet({<<u>> : u \in fetched} \cup {<<>>})
    BY <2>1, FS_AddElement
  <2>3. Running \in SUBSET ({<<u>> : u \in fetched} \cup {<<>>})
    BY DEF Running, ChannelInv
  <2> QED
    BY <2>2, <2>3, FS_Subset
<1>4. N \cap DOMAIN calls = {}
  <2>1. ASSUME NEW u \in new, <<u>> \in DOMAIN calls PROVE FALSE
    <3>1. <<u>> # <<>>
      OBVIOUS
    <3>2. PICK v \in fetched : <<u>> = <<v>>
      BY <2>1, <3>1 DEF ChannelInv
    <3>3. u = v
      BY <3>2
    <3> QED
      BY <3>3 DEF Takes
  <2> QED
    BY <2>1
<1>5. p \in Running
  BY DEF Running, Takes
<1>6. Running' = (Running \ {p}) \cup N
  <2>1. ASSUME NEW q \in Running' PROVE q \in (Running \ {p}) \cup N
    <3>1. q \in DOMAIN calls' /\ calls'[q] # "done"
      BY <2>1 DEF Running
    <3>2. q \in DOMAIN calls \/ q \in N
      BY <3>1 DEF Takes
    <3> QED
      BY <3>1, <3>2 DEF Takes, Running
  <2>2. ASSUME NEW q \in Running, q # p PROVE q \in Running'
    BY <2>2 DEF Running, Takes
  <2>3. ASSUME NEW q \in N PROVE q \in Running'
    BY <2>3 DEF Running, Takes
  <2> QED
    BY <2>1, <2>2, <2>3
<1> HIDE DEF N
<1>7. /\ IsFiniteSet(Running \ {p})
      /\ Cardinality(Running \ {p}) = Cardinality(Running) - 1
  BY <1>3, <1>5, FS_RemoveElement
<1>8. (Running \ {p}) \cap N = {}
  BY <1>4 DEF Running
<1>9. Cardinality((Running \ {p}) \cup N) = Cardinality(Running) - 1 + Cardinality(N) - 0
  <2>1. Cardinality((Running \ {p}) \cup N) =
          Cardinality(Running \ {p}) + Cardinality(N) - Cardinality((Running \ {p}) \cap N)
    BY <1>2, <1>7, FS_Union
  <2>2. Cardinality((Running \ {p}) \cap N) = 0
    BY <1>8, FS_EmptySet
  <2> QED
    BY <1>7, <2>1, <2>2
<1>10. Cardinality(Running) \in Nat /\ Cardinality(N) \in Nat
  BY <1>2, <1>3, FS_CardinalityType
<1>11. n = Cardinality(Running) /\ n' = n + Cardinality(new) - 1
  BY DEF ChannelInv, Takes
<1> QED
  BY <1>2, <1>6, <1>9, <1>10, <1>11, SMTT(30)

\* A page that master() has marked can be reached over pages it has marked.
LEMMA MasterWithin ==
    ASSUME InputInv, ChannelInv, NEW p \in DOMAIN calls, NEW urls, NEW new \in SUBSET Page,
           Takes(p, urls, new),
           p = <<>> => urls = {Root},
           \A u \in fetched : p = <<u>> => urls = Urls(u),
           NEW v \in fetched'
    PROVE  v \in Within(Cardinality(fetched'))
<1>1. /\ fetched' \in SUBSET Page /\ fetched \in SUBSET Page
      /\ fetched' = fetched \cup new
  BY DEF InputInv, Takes
<1>2. IsFiniteSet(fetched') /\ IsFiniteSet(fetched)
  BY <1>1, PagesFinite, FS_Subset
<1>3. /\ Cardinality(fetched) <= Cardinality(fetched')
      /\ Cardinality(fetched) = Cardinality(fetched') => fetched = fetched'
      /\ Cardinality(fetched) <= NPages
  <2>1. fetched \in SUBSET fetched'
    BY <1>1
  <2> QED
    BY <1>1, <1>2, <2>1, PagesFinite, FS_Subset DEF NPages
<1>4. Cardinality(fetched) \in Nat /\ Cardinality(fetched') \in Nat
  BY <1>2, FS_CardinalityType
<1>5. CASE v \in fetched
  BY <1>3, <1>4, <1>5, WithinGrows DEF ChannelInv
<1>6. CASE v \notin fetched
  <2>1. v \in new /\ v \in urls /\ v \in Page
    BY <1>1, <1>6 DEF Takes
  <2>2. Cardinality(fetched) + 1 <= Cardinality(fetched')
    BY <1>3, <1>4, <1>6, SMTT(30)
  <2>3. v \in Within(Cardinality(fetched) + 1)
    <3>1. CASE p = <<>>
      <4>1. v = Root
        BY <2>1, <3>1
      <4>2. fetched = {}
        BY <3>1 DEF ChannelInv, Takes
      <4>3. Cardinality(fetched) + 1 = 1
        BY <4>2, FS_EmptySet, SMTT(30)
      <4> QED
        BY <4>1, <4>3, RootWithin
    <3>2. CASE p # <<>>
      <4>1. PICK u \in fetched : p = <<u>>
        BY <3>2 DEF ChannelInv
      <4>2. v \in Urls(u) /\ u \in Within(Cardinality(fetched))
        BY <2>1, <4>1 DEF ChannelInv
      <4>3. Cardinality(fetched) \in 0..NPages
        BY <1>3, <1>4, PagesFinite, SMTT(30)
      <4> QED
        BY <4>2, <4>3, WithinNext
    <3> QED
      BY <3>1, <3>2
  <2> QED
    BY <1>4, <2>2, <2>3, WithinGrows, SMTT(30)
<1> QED
  BY <1>5, <1>6

\* master() counts a worker for every page that it marks.
LEMMA TakesChannel ==
    ASSUME InputInv, ChannelInv, NEW p \in DOMAIN calls, NEW urls, NEW new \in SUBSET Page,
           Takes(p, urls, new),
           p = <<>> => urls = {Root},
           \A u \in fetched : p = <<u>> => urls = Urls(u)
    PROVE  ChannelInv'
<1>1. /\ \A u : Urls(u)' = Urls(u)
      /\ \A d : Within(d)' = Within(d)
  BY SameWeb DEF Takes
<1>2. n' = Cardinality(Running')
  BY MasterCounts
<1>3. \A v \in fetched' : v \in Within(Cardinality(fetched'))
  BY MasterWithin, SMTT(30)
<1>4. fetched' = fetched \cup new /\ urls \subseteq fetched'
  BY DEF Takes
<1>5. DOMAIN calls' = {<<>>} \cup {<<u>> : u \in fetched'}
  BY <1>4, SMTT(30) DEF Takes, ChannelInv
<1>6. \A u \in new : u \notin fetched /\ fetches[u] = 0
  BY DEF Takes, ChannelInv
<1>7. <<>> \in DOMAIN calls /\ \A u \in fetched : <<u>> \in DOMAIN calls
  BY DEF ChannelInv
<1>8. /\ calls'[<<>>] \in {"send", "done"}
      /\ calls'[<<>>] = "send" => fetched' = {}
      /\ calls'[<<>>] = "done" => Root \in fetched'
  <2>1. CASE p = <<>>
    BY <1>4, <2>1 DEF Takes
  <2>2. CASE p # <<>>
    <3>1. calls'[<<>>] = calls[<<>>]
      BY <1>7, <2>2 DEF Takes
    <3>2. fetched # {}
      BY <2>2 DEF ChannelInv
    <3> QED
      BY <1>4, <3>1, <3>2 DEF ChannelInv
  <2> QED
    BY <2>1, <2>2
<1>9. ASSUME NEW v \in fetched'
      PROVE  /\ calls'[<<v>>] \in {"fetch", "send", "done"}
             /\ calls'[<<v>>] = "fetch" => fetches'[v] = 0
             /\ calls'[<<v>>] # "fetch" => fetches'[v] = 1
             /\ calls'[<<v>>] = "done" => Urls(v) \subseteq fetched'
  <2>1. CASE v \in new
    BY <1>6, <2>1 DEF Takes
  <2>2. CASE v \in fetched /\ p = <<v>>
    <3>1. calls'[<<v>>] = "done" /\ urls = Urls(v) /\ calls[<<v>>] = "send"
      BY <2>2 DEF Takes
    <3> QED
      BY <1>4, <2>2, <3>1 DEF Takes, ChannelInv
  <2>3. CASE v \in fetched /\ p # <<v>>
    <3>1. calls'[<<v>>] = calls[<<v>>] /\ fetches'[v] = fetches[v]
      BY <1>7, <2>3 DEF Takes
    <3> QED
      BY <1>4, <2>3, <3>1 DEF ChannelInv
  <2> QED
    BY <1>4, <2>1, <2>2, <2>3
<1>10. \A u \in Page \ fetched' : fetches'[u] = 0
  BY <1>4 DEF Takes, ChannelInv
<1> QED
  BY <1>1, <1>2, <1>3, <1>5, <1>8, <1>9, <1>10 DEF ChannelInv

LEMMA MasterChannel ==
    ASSUME InputInv, ChannelInv, NEW p \in DOMAIN calls, master(p)
    PROVE  ChannelInv' /\ InputInv'
<1> DEFINE urls == IF p = <<>> THEN {Root} ELSE Urls(url(p))
           new  == urls \ fetched
           f    == [calls EXCEPT ![p] = "done"]
<1>1. /\ calls[p] = "send" /\ UNCHANGED <<input, fetches>>
      /\ fetched' = fetched \cup new
      /\ n' = n + Cardinality(new) - 1
      /\ calls' = Begin(f, {<<u>> : u \in new}, "fetch")
  BY DEF master
<1>2. \A u \in fetched : p = <<u>> => urls = Urls(u)
  BY SMTT(30) DEF url
<1>3. urls \subseteq Page
  <2>1. CASE p = <<>>
    BY <2>1, PagesFinite
  <2>2. CASE p # <<>>
    <3>1. PICK u \in fetched : p = <<u>>
      BY <2>2 DEF ChannelInv
    <3>2. u \in Page /\ urls = Urls(u)
      BY <1>2, <3>1 DEF InputInv
    <3> QED
      BY <3>2, UrlsType
  <2> QED
    BY <2>1, <2>2
<1>4. DOMAIN f = DOMAIN calls /\ f[p] = "done" /\ \A q \in DOMAIN calls : q # p => f[q] = calls[q]
  BY DEF InputInv
<1>5. p = <<>> => urls = {Root}
  OBVIOUS
<1> HIDE DEF f, urls
<1>6. /\ DOMAIN calls' = DOMAIN f \cup {<<u>> : u \in new}
      /\ \A c \in DOMAIN f : calls'[c] = f[c]
      /\ \A c \in {<<u>> : u \in new} : c \notin DOMAIN f => calls'[c] = "fetch"
      /\ calls' = [c \in DOMAIN calls' |-> calls'[c]]
  BY <1>1 DEF Begin
<1>7. \A u \in new : <<u>> \notin DOMAIN calls
  <2>1. ASSUME NEW u \in new, <<u>> \in DOMAIN calls PROVE FALSE
    <3>1. <<u>> # <<>>
      OBVIOUS
    <3>2. PICK v \in fetched : <<u>> = <<v>>
      BY <2>1, <3>1 DEF ChannelInv
    <3>3. u = v
      BY <3>2
    <3> QED
      BY <3>3
  <2> QED
    BY <2>1
<1>8. Takes(p, urls, new)
  BY <1>1, <1>4, <1>6, <1>7 DEF Takes
<1>9. ChannelInv'
  <2>1. new \in SUBSET Page
    BY <1>3
  <2> HIDE DEF new
  <2> QED
    BY <1>2, <1>5, <1>8, <2>1, TakesChannel, SMTT(30)
<1>10. InputInv'
  BY <1>1, <1>3, <1>6 DEF InputInv, input
<1> QED
  BY <1>9, <1>10

-----------------------------------------------------------------------------
(* All steps *)

\* What main() starts with.
LEMMA InitInv == Init => Inv
<1> SUFFICES ASSUME Init PROVE Inv
  OBVIOUS
<1>1. fetched = {} /\ fetches = [u \in Page |-> 0] /\ \A u \in Page : fetches[u] = 0
  BY DEF Init
<1>2. CASE crawler = "ConcurrentChannel"
  <2>1. calls = [c \in {<<>>} |-> "send"] /\ n = 1
    BY <1>2 DEF Init
  <2>2. DOMAIN calls = {<<>>} /\ calls[<<>>] = "send"
    BY <2>1
  <2>3. Running = {<<>>}
    BY <2>2 DEF Running
  <2>4. n = Cardinality(Running)
    BY <2>1, <2>3, FS_Singleton
  <2>5. ChannelInv
    BY <1>1, <2>2, <2>4 DEF ChannelInv
  <2>6. InputInv
    BY <1>1, <2>1, SMTT(30) DEF Init, InputInv
  <2> QED
    BY <1>2, <2>5, <2>6 DEF Inv
<1>3. CASE crawler # "ConcurrentChannel"
  <2>1. calls = [c \in {<<Root>>} |-> "enter"] /\ n = 0
    BY <1>3 DEF Init
  <2>2. DOMAIN calls = {<<Root>>} /\ calls[<<Root>>] = "enter"
    BY <2>1
  <2>3. /\ <<Root>> \in Seq(Page) /\ Len(<<Root>>) = 1 /\ <<Root>>[1] = Root
        /\ 1..Len(<<Root>>) - 1 = {}
    BY PagesFinite, SMTT(30)
  <2>4. CallOK({}, <<Root>>)
    BY <2>2, <2>3, SMTT(30) DEF CallOK, Way
  <2>5. TreeInv({})
    BY <1>1, <2>1, <2>2, <2>4 DEF TreeInv
  <2>6. InputInv
    BY <1>1, <2>1, SMTT(30) DEF Init, InputInv
  <2> QED
    BY <1>3, <2>5, <2>6 DEF Inv
<1> QED
  BY <1>2, <1>3

\* The web, the depth and the maps stay what they are, whoever goes on.
LEMMA StepInput ==
    ASSUME Inv, NEW p \in DOMAIN calls, Step(p)
    PROVE  InputInv'
<1> USE DEF Inv
<1>1. ASSUME crawler # "ConcurrentChannel" PROVE url(p) \in Page
  BY <1>1, CallPath
<1>2. fetches \in [Page -> Nat] /\ fetched \subseteq Page
  BY DEF InputInv
<1>3. \A u \in Page : [fetches EXCEPT ![u] = @ + 1] \in [Page -> Nat]
  BY <1>2, SMTT(30)
<1>4. CASE Enter(p)
  BY <1>1, <1>2, <1>4 DEF Enter, InputInv, input
<1>5. CASE CrawlEnter(p)
  <2>1. url(p) \in Page
    BY <1>1, <1>5 DEF CrawlEnter
  <2>2. fetches' \in [Page -> Nat] /\ fetched' \subseteq Page
    BY <1>2, <1>3, <1>5, <2>1 DEF CrawlEnter
  <2>3. calls' = [q \in DOMAIN calls' |-> calls'[q]]
    <3>1. \/ calls' = [calls EXCEPT ![p] = "done"]
          \/ calls' = Begin([calls EXCEPT ![p] = "wait"], Children(p), "enter")
      BY <1>5 DEF CrawlEnter
    <3> QED
      BY <3>1, GoesAlone, GoesBegin DEF Goes
  <2> QED
    BY <1>5, <2>2, <2>3 DEF CrawlEnter, InputInv, input
<1>6. CASE Fetch(p)
  <2>1. url(p) \in Page
    BY <1>1, <1>6 DEF Fetch
  <2>2. fetches' \in [Page -> Nat] /\ fetched' = fetched
    BY <1>3, <1>6, <2>1 DEF Fetch
  <2>3. calls' = [q \in DOMAIN calls' |-> calls'[q]]
    <3>1. \/ \E l : calls' = [calls EXCEPT ![p] = l]
          \/ calls' = Begin([calls EXCEPT ![p] = "wait"], Children(p), "enter")
      BY <1>6 DEF Fetch
    <3> QED
      BY <3>1, GoesAlone, GoesBegin DEF Goes
  <2> QED
    BY <1>6, <2>2, <2>3 DEF Fetch, InputInv, input
<1>7. CASE SerialCall(p)
  BY <1>7, SMTT(30) DEF SerialCall, InputInv, input, Begin
<1>8. CASE Wait(p)
  BY <1>8 DEF Wait, InputInv, input
<1>9. CASE worker(p)
  <2>1. url(p) \in Page
    <3>1. PICK u \in fetched : p = <<u>>
      BY <1>9 DEF worker, ChannelInv
    <3> QED
      BY <1>2, <3>1 DEF url
  <2> QED
    BY <1>3, <1>9, <2>1 DEF worker, InputInv, input
<1>10. CASE master(p)
  BY <1>10, MasterChannel DEF master
<1> QED
  BY <1>4, <1>5, <1>6, <1>7, <1>8, <1>9, <1>10 DEF Step

\* Every step of every crawler keeps the invariant.
LEMMA StepInv ==
    ASSUME Inv, [Next]_vars
    PROVE  Inv'
<1>1. CASE UNCHANGED vars
  <2>1. InputInv'
    BY <1>1 DEF Inv, InputInv, vars
  <2>2. UNCHANGED input
    BY <1>1 DEF vars, input
  <2>3. CASE crawler = "ConcurrentChannel"
    <3>1. ChannelInv'
      BY <1>1, <2>2, <2>3, SameWeb DEF Inv, ChannelInv, Running, vars
    <3> QED
      BY <1>1, <2>1, <2>3, <3>1 DEF Inv, vars
  <2>4. CASE crawler # "ConcurrentChannel"
    <3>1. PICK T \in SUBSET DOMAIN calls : TreeInv(T)
      BY <2>4 DEF Inv
    <3>2. TreeInv(T)'
      BY <1>1, <2>2, <3>1, SameWeb, SMTT(30) DEF TreeInv, CallOK, TakerOK, vars
    <3> QED
      BY <1>1, <2>1, <2>4, <3>2 DEF Inv, TreeInv, vars
  <2> QED
    BY <2>3, <2>4
<1>2. ASSUME NEW p \in DOMAIN calls, Step(p) PROVE Inv'
  <2>1. InputInv' /\ InputInv
    BY <1>2, StepInput DEF Inv
  <2>2. crawler' = crawler
    BY <1>2 DEF Step, Enter, CrawlEnter, Fetch, SerialCall, Wait, worker, master, input
  <2>3. CASE crawler # "ConcurrentChannel"
    <3>1. PICK T \in SUBSET DOMAIN calls : TreeInv(T)
      BY <2>3 DEF Inv
    <3>2. \E U : U \subseteq DOMAIN calls' /\ TreeInv(U)'
      <4>1. Enter(p) \/ CrawlEnter(p) \/ Fetch(p) \/ SerialCall(p) \/ Wait(p)
        BY <1>2, <2>3 DEF Step, worker, master
      <4> QED
        BY <2>1, <3>1, <4>1, EnterTree, CrawlEnterTree, FetchTree, SerialCallTree, WaitTree
    <3>3. PICK U : U \subseteq DOMAIN calls' /\ TreeInv(U)'
      BY <3>2
    <3> QED
      BY <2>1, <2>2, <2>3, <3>3 DEF Inv
  <2>4. CASE crawler = "ConcurrentChannel"
    <3>1. worker(p) \/ master(p)
      BY <1>2, <2>4 DEF Step, Enter, CrawlEnter, Fetch, SerialCall, Wait
    <3>2. ChannelInv'
      BY <2>1, <2>4, <3>1, WorkerChannel, MasterChannel DEF Inv
    <3> QED
      BY <2>1, <2>2, <2>4, <3>2 DEF Inv
  <2> QED
    BY <2>3, <2>4
<1> QED
  BY <1>1, <1>2 DEF Next

\* The invariant holds in every state.
LEMMA CrawlerInvariant == Spec => []Inv
BY InitInv, StepInv, PTL DEF Spec

-----------------------------------------------------------------------------
(* What it gives *)

\* The crawlers stay within their maps; no call is named by more pages than
\* there are, plus one, and master() never waits for more workers than that.
THEOREM CrawlerTypeCorrect == Spec => []TypeOK
<1>1. ASSUME Inv PROVE TypeOK
  <2> USE <1>1
  <2>1. CASE crawler # "ConcurrentChannel"
    <3>1. PICK T \in SUBSET DOMAIN calls : TreeInv(T)
      BY <2>1 DEF Inv
    <3>2. DOMAIN calls \subseteq Path
      BY <3>1, CallsInPath DEF Inv
    <3>3. \A p \in DOMAIN calls : calls[p] \in {"enter", "fetch", "wait", "send", "done"}
      BY <3>1 DEF TreeInv, CallOK
    <3>4. n \in 0..NPages + 1
      BY <3>1, PagesFinite, SMTT(30) DEF TreeInv
    <3> QED
      BY <3>2, <3>3, <3>4 DEF Inv, InputInv, TypeOK
  <2>2. CASE crawler = "ConcurrentChannel"
    <3>1. ChannelInv /\ fetched \in SUBSET Page
      BY <2>2 DEF Inv, InputInv
    <3>2. ASSUME NEW p \in DOMAIN calls
          PROVE  p \in Path /\ calls[p] \in {"enter", "fetch", "wait", "send", "done"}
      <4>1. CASE p = <<>>
        <5>1. p \in Seq(Page) /\ Len(p) <= NPages + 1
          BY <4>1, PagesFinite, SMTT(30)
        <5> QED
          BY <3>1, <4>1, <5>1, PathIsSeq DEF ChannelInv
      <4>2. CASE p # <<>>
        <5>1. PICK u \in fetched : p = <<u>>
          BY <3>1, <4>2 DEF ChannelInv
        <5>2. p \in Seq(Page) /\ Len(p) = 1
          BY <3>1, <5>1, SMTT(30)
        <5>3. Len(p) <= NPages + 1
          BY <5>2, PagesFinite, SMTT(30)
        <5> QED
          BY <3>1, <5>1, <5>2, <5>3, PathIsSeq DEF ChannelInv
      <4> QED
        BY <4>1, <4>2
    <3>3. n \in 0..NPages + 1
      <4> DEFINE W == {<<u>> : u \in fetched} \cup {<<>>}
      <4>1. IsFiniteSet(fetched) /\ Cardinality(fetched) <= NPages
        BY <3>1, PagesFinite, FS_Subset DEF NPages
      <4>2. /\ IsFiniteSet({<<u>> : u \in fetched})
            /\ Cardinality({<<u>> : u \in fetched}) = Cardinality(fetched)
        BY <4>1, WorkersCount
      <4>3. Cardinality(fetched) \in Nat /\ NPages \in Nat
        BY <4>1, PagesFinite, FS_CardinalityType
      <4>4. <<>> \notin {<<u>> : u \in fetched}
        OBVIOUS
      <4>5. IsFiniteSet(W) /\ Cardinality(W) = Cardinality(fetched) + 1
        BY <4>2, <4>4, FS_AddElement
      <4> HIDE DEF W
      <4>6. Running \in SUBSET W
        BY <3>1 DEF Running, ChannelInv, W
      <4>7. IsFiniteSet(Running) /\ Cardinality(Running) <= Cardinality(W)
        BY <4>5, <4>6, FS_Subset
      <4>8. Cardinality(Running) \in Nat
        BY <4>7, FS_CardinalityType
      <4> QED
        BY <3>1, <4>1, <4>3, <4>5, <4>7, <4>8, SMTT(30) DEF ChannelInv
    <3> QED
      BY <3>2, <3>3 DEF Inv, InputInv, TypeOK
  <2> QED
    BY <2>1, <2>2
<1> QED
  BY CrawlerInvariant, <1>1, PTL

\* A page that a call has marked is within the depth.
LEMMA TakerWithin ==
    ASSUME NEW T, TreeInv(T), InputInv, NEW u \in fetched
    PROVE  u \in Within(depth)
<1>1. PICK p \in T : u = url(p)
  BY DEF TreeInv
<1>2. p \in DOMAIN calls /\ Way(p) /\ Len(p) <= depth
  BY DEF TreeInv, CallOK, TakerOK
<1>3. p \in Path
  BY <1>2, CallsInPath
<1> QED
  BY <1>1, <1>2, <1>3 DEF Within

\* No page is fetched twice, whichever goroutines find a link to it at the
\* same time, and none that is beyond the depth: for every finite web.
THEOREM FetchedOnceHolds == Spec => []FetchedOnce
<1>1. ASSUME Inv PROVE FetchedOnce
  <2> USE <1>1
  <2>1. ASSUME NEW u \in Page
        PROVE  fetches[u] <= 1 /\ (u \notin Within(depth) => fetches[u] <= 0)
    <3>1. CASE crawler # "ConcurrentChannel"
      <4>1. PICK T \in SUBSET DOMAIN calls : TreeInv(T)
        BY <3>1 DEF Inv
      <4>2. CASE u \notin fetched
        BY <4>1, <4>2, SMTT(30) DEF TreeInv
      <4>3. CASE u \in fetched
        <5>1. PICK p \in T : u = url(p)
          BY <4>1, <4>3 DEF TreeInv
        <5>2. fetches[u] = 0 \/ fetches[u] = 1
          BY <4>1, <5>1 DEF TreeInv, TakerOK
        <5>3. u \in Within(depth)
          BY <4>1, <4>3, TakerWithin DEF Inv
        <5> QED
          BY <5>2, <5>3, SMTT(30)
      <4> QED
        BY <4>2, <4>3
    <3>2. CASE crawler = "ConcurrentChannel"
      <4>1. ChannelInv /\ fetched \in SUBSET Page /\ depth = NPages
        BY <3>2 DEF Inv, InputInv
      <4>2. CASE u \notin fetched
        BY <4>1, <4>2, SMTT(30) DEF ChannelInv
      <4>3. CASE u \in fetched
        <5>1. IsFiniteSet(fetched) /\ Cardinality(fetched) <= NPages
          BY <4>1, PagesFinite, FS_Subset DEF NPages
        <5>2. Cardinality(fetched) \in Nat /\ NPages \in Nat
          BY <5>1, PagesFinite, FS_CardinalityType
        <5>3. u \in Within(Cardinality(fetched)) /\ (fetches[u] = 0 \/ fetches[u] = 1)
          BY <4>1, <4>3 DEF ChannelInv
        <5>4. u \in Within(depth)
          BY <4>1, <5>1, <5>2, <5>3, WithinGrows
        <5> QED
          BY <5>3, <5>4, SMTT(30)
      <4> QED
        BY <4>2, <4>3
    <3> QED
      BY <3>1, <3>2
  <2> QED
    BY <2>1 DEF FetchedOnce
<1> QED
  BY CrawlerInvariant, <1>1, PTL

\* A crawler that has returned has fetched every page that can be reached,
\* and no goroutine of it is left: for every finite web.
THEOREM CompleteOnReturnHolds == Spec => []CompleteOnReturn
<1>1. ASSUME Inv, Returned, depth = NPages
      PROVE  /\ \A u \in Within(NPages) : fetches[u] = 1
             /\ \A p \in DOMAIN calls : calls[p] = "done"
  <2>0. NPages \in Nat
    BY PagesFinite
  <2>1. CASE crawler # "ConcurrentChannel"
    <3>1. PICK T \in SUBSET DOMAIN calls : TreeInv(T)
      BY <1>1, <2>1 DEF Inv
    <3>2. calls[<<Root>>] = "done" /\ <<Root>> \in DOMAIN calls
      BY <1>1, <2>1, <3>1 DEF Returned, TreeInv
    <3>3. ASSUME NEW p \in DOMAIN calls PROVE calls[p] = "done"
      <4>1. p \in Seq(Page) /\ Len(p) \in Nat /\ Len(p) >= 1 /\ p[1] = Root
        BY <3>1, CallPath DEF TreeInv, CallOK, Way
      <4>2. CASE Len(p) = 1
        <5>1. p = <<Root>>
          BY <4>1, <4>2, SMTT(30)
        <5> QED
          BY <3>2, <5>1
      <4>3. CASE Len(p) # 1
        <5>1. 1 \in 1..Len(p) - 1 /\ 1 \in 1..Len(p)
          <6>1. \A m \in Nat : m >= 1 /\ m # 1 => 1 \in 1..m - 1 /\ 1 \in 1..m
            BY SMTT(30)
          <6> QED
            BY <4>1, <4>3, <6>1
        <5>2. Pre(p, 1) = <<Root>>
          <6>1. Pre(p, 1) \in Seq(Page) /\ Len(Pre(p, 1)) = 1 /\ Pre(p, 1)[1] = p[1]
            <7>1. /\ Pre(p, 1) \in Seq(Page) /\ Len(Pre(p, 1)) = 1
                  /\ \A i \in 1..1 : Pre(p, 1)[i] = p[i]
              BY <4>1, <5>1, PrePath
            <7> QED
              BY <7>1, SMTT(30)
          <6> QED
            BY <4>1, <6>1, SMTT(30)
        <5>3. calls[p] # "done" => calls[Pre(p, 1)] = "wait"
          BY <3>1, <5>1 DEF TreeInv, CallOK
        <5> QED
          BY <3>2, <5>2, <5>3
      <4> QED
        BY <4>2, <4>3
    <3>4. Root \in fetched
      <4>1. url(<<Root>>) \in fetched
        BY <1>1, <3>1, <3>2 DEF TreeInv, CallOK
      <4> QED
        BY <4>1 DEF url
    <3>5. ASSUME NEW u \in fetched PROVE Urls(u) \subseteq fetched
      <4>1. PICK p \in T : u = url(p)
        BY <3>1 DEF TreeInv
      <4>2. p \in DOMAIN calls /\ calls[p] = "done" /\ p \in Seq(Page) /\ u \in Page
        BY <3>1, <3>3, <4>1, CallPath
      <4>3. ASSUME NEW v \in Urls(u) PROVE v \in fetched
        <5>1. Append(p, v) \in Children(p)
          BY <4>1, <4>3 DEF Children
        <5>2. Append(p, v) \in DOMAIN calls /\ calls[Append(p, v)] = "done"
          BY <3>1, <4>1, <4>2, <5>1 DEF TreeInv, TakerOK
        <5>3. url(Append(p, v)) \in fetched
          BY <1>1, <3>1, <5>2 DEF TreeInv, CallOK
        <5>4. v \in Page
          BY <1>1, <4>2, <4>3, UrlsType DEF Inv
        <5>5. url(Append(p, v)) = v
          BY <4>2, <5>4, AppendPath
        <5> QED
          BY <5>3, <5>5
      <4> QED
        BY <4>3
    <3>6. Within(NPages) \subseteq fetched
      BY <2>0, <3>4, <3>5, ClosedHasAll
    <3>7. ASSUME NEW u \in fetched PROVE fetches[u] = 1
      <4>1. PICK p \in T : u = url(p)
        BY <3>1 DEF TreeInv
      <4>2. p \in DOMAIN calls /\ calls[p] = "done"
        BY <3>3, <4>1
      <4> QED
        BY <3>1, <4>1, <4>2 DEF TreeInv, TakerOK
    <3> QED
      BY <3>3, <3>6, <3>7
  <2>2. CASE crawler = "ConcurrentChannel"
    <3>1. ChannelInv /\ n = 0 /\ fetched \in SUBSET Page
      BY <1>1, <2>2 DEF Inv, InputInv, Returned
    <3>2. IsFiniteSet(Running)
      <4>1. IsFiniteSet(fetched)
        BY <3>1, PagesFinite, FS_Subset
      <4>2. IsFiniteSet({<<u>> : u \in fetched})
        BY <4>1, WorkersCount
      <4>3. IsFiniteSet({<<u>> : u \in fetched} \cup {<<>>})
        BY <4>2, FS_AddElement
      <4>4. Running \in SUBSET ({<<u>> : u \in fetched} \cup {<<>>})
        BY <3>1 DEF Running, ChannelInv
      <4> QED
        BY <4>3, <4>4, FS_Subset
    <3>3. Running = {}
      <4>1. Cardinality(Running) = 0
        BY <3>1 DEF ChannelInv
      <4> QED
        BY <3>2, <4>1, FS_EmptySet
    <3>4. \A p \in DOMAIN calls : calls[p] = "done"
      BY <3>3 DEF Running
    <3>5. <<>> \in DOMAIN calls /\ \A u \in fetched : <<u>> \in DOMAIN calls
      BY <3>1 DEF ChannelInv
    <3>6. Root \in fetched /\ \A u \in fetched : Urls(u) \subseteq fetched /\ fetches[u] = 1
      BY <3>1, <3>4, <3>5 DEF ChannelInv
    <3>7. Within(NPages) \subseteq fetched
      BY <2>0, <3>6, ClosedHasAll
    <3> QED
      BY <3>4, <3>6, <3>7
  <2> QED
    BY <2>1, <2>2
<1>2. Inv => CompleteOnReturn
  BY <1>1 DEF CompleteOnReturn
<1> QED
  BY CrawlerInvariant, <1>2, PTL

=============================================================================
