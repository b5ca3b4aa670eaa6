------------------------------ MODULE Crawler ------------------------------
(***************************************************************************)
(* The web crawlers of Lectures/lec2: Serial(), ConcurrentMutex() and      *)
(* ConcurrentChannel() of crawler.go, and Crawl() of my_crawler.go, on any *)
(* web of pages.                                                           *)
(*                                                                         *)
(* A call is named by the pages on the way to it from the first one; it is *)
(* a goroutine of its own in ConcurrentMutex() and Crawl().  The goroutine *)
(* of a worker of ConcurrentChannel() is named by its page, and the one    *)
(* that sends the first URL by the empty path.  The URLs of a page are a   *)
(* set: the same one again only makes one more call that returns at once.  *)
(***************************************************************************)
EXTENDS Integers, Sequences, FiniteSets

CONSTANTS
    Page, Root,     \* URLs, and the one where the crawl begins
    Missing         \* stands for the links of a URL without a page

VARIABLES
    crawler,    \* which of the four runs
    links,      \* fetcher: the URLs on a page, or Missing
    depth,      \* what main() gives to Crawl()
    calls,      \* where each call or goroutine is
    fetched,    \* the map of that name, cache.m in Crawl()
    fetches,    \* history: how often Fetch() was called for a page
    n           \* n of master(), 0 once it has returned

vars == <<crawler, links, depth, calls, fetched, fetches, n>>
input == <<crawler, links, depth>>

Crawlers == {"Serial", "ConcurrentMutex", "ConcurrentChannel", "Crawl"}
NPages == Cardinality(Page)
Path == UNION {[1..l -> Page] : l \in 0..NPages + 1}

ASSUME PageAssumption == IsFiniteSet(Page) /\ Root \in Page

url(p) == p[Len(p)]
Urls(u) == IF links[u] = Missing THEN {} ELSE links[u]
Children(p) == {Append(p, u) : u \in Urls(url(p))}

\* New calls or goroutines S begin; those in f go on.
Begin(f, S, at) ==
    [c \in DOMAIN f \cup S |-> IF c \in DOMAIN f THEN f[c] ELSE at]

-----------------------------------------------------------------------------
(* Serial(), ConcurrentMutex(): a call looks its URL up and marks it       *)

\* Mutant: the map is looked at and not marked.
EnterUnmarked(p) ==
    /\ crawler \in {"Serial", "ConcurrentMutex"}
    /\ calls[p] = "enter"
    /\ calls' = [calls EXCEPT ![p] = IF url(p) \in fetched THEN "done" ELSE "fetch"]
    /\ UNCHANGED <<input, fetched, fetches, n>>

Enter(p) ==
    /\ crawler \in {"Serial", "ConcurrentMutex"}
    /\ calls[p] = "enter"
    /\ calls' = [calls EXCEPT ![p] = IF url(p) \in fetched THEN "done" ELSE "fetch"]
    /\ fetched' = fetched \cup {url(p)}
    /\ UNCHANGED <<input, fetches, n>>

\* Crawl() holds the lock from the look at the map to the mark, Fetch()
\* included, but does not look at all when the depth is used up.
CrawlEnter(p) ==
    LET left == depth - (Len(p) - 1) IN
    /\ crawler = "Crawl"
    /\ calls[p] = "enter"
    /\ \/ /\ left <= 0 \/ url(p) \in fetched
          /\ calls' = [calls EXCEPT ![p] = "done"]
          /\ UNCHANGED <<fetched, fetches>>
       \/ /\ left > 0 /\ url(p) \notin fetched
          /\ fetched' = fetched \cup {url(p)}
          /\ fetches' = [fetches EXCEPT ![url(p)] = @ + 1]
          /\ calls' = IF links[url(p)] = Missing THEN [calls EXCEPT ![p] = "done"]
                      ELSE Begin([calls EXCEPT ![p] = "wait"], Children(p), "enter")
    /\ UNCHANGED <<input, n>>

\* Fetch(), and the goroutines for what it found; Serial() makes its calls
\* one after the other instead.
Fetch(p) ==
    /\ crawler \in {"Serial", "ConcurrentMutex"}
    /\ calls[p] = "fetch"
    /\ fetches' = [fetches EXCEPT ![url(p)] = @ + 1]
    /\ calls' = CASE links[url(p)] = Missing -> [calls EXCEPT ![p] = "done"]
                  [] crawler = "Serial" /\ links[url(p)] # Missing ->
                         [calls EXCEPT ![p] = "wait"]
                  [] OTHER -> Begin([calls EXCEPT ![p] = "wait"], Children(p), "enter")
    /\ UNCHANGED <<input, fetched, n>>

SerialCall(p) ==
    /\ crawler = "Serial"
    /\ calls[p] = "wait"
    /\ \A c \in Children(p) \cap DOMAIN calls : calls[c] = "done"
    /\ \E c \in Children(p) \ DOMAIN calls : calls' = Begin(calls, {c}, "enter")
    /\ UNCHANGED <<input, fetched, fetches, n>>

\* Mutant: one of the goroutines is not waited for.
WaitNotAll(p) ==
    /\ crawler # "ConcurrentChannel"
    /\ calls[p] = "wait"
    /\ Children(p) \subseteq DOMAIN calls
    /\ Cardinality({c \in Children(p) : calls[c] # "done"}) <= 1
    /\ calls' = [calls EXCEPT ![p] = "done"]
    /\ UNCHANGED <<input, fetched, fetches, n>>

\* done.Wait(), wg2.Wait(), or the end of the loop of Serial().
Wait(p) ==
    /\ crawler # "ConcurrentChannel"
    /\ calls[p] = "wait"
    /\ Children(p) \subseteq DOMAIN calls
    /\ \A c \in Children(p) : calls[c] = "done"
    /\ calls' = [calls EXCEPT ![p] = "done"]
    /\ UNCHANGED <<input, fetched, fetches, n>>

-----------------------------------------------------------------------------
(* ConcurrentChannel() *)

\* Mutant: nothing is sent for a page that is missing.
workerSilent(p) ==
    /\ crawler = "ConcurrentChannel"
    /\ calls[p] = "fetch"
    /\ fetches' = [fetches EXCEPT ![url(p)] = @ + 1]
    /\ calls' = [calls EXCEPT ![p] = IF links[url(p)] = Missing THEN "done" ELSE "send"]
    /\ UNCHANGED <<input, fetched, n>>

worker(p) ==
    /\ crawler = "ConcurrentChannel"
    /\ calls[p] = "fetch"
    /\ fetches' = [fetches EXCEPT ![url(p)] = @ + 1]
    /\ calls' = [calls EXCEPT ![p] = "send"]
    /\ UNCHANGED <<input, fetched, n>>

\* Mutant: a URL is counted whether it is new or not.
masterCountsAll(p) ==
    LET urls == IF p = <<>> THEN {Root} ELSE Urls(url(p))
        new  == urls \ fetched
    IN  /\ crawler = "ConcurrentChannel"
        /\ n > 0 /\ calls[p] = "send"
        /\ fetched' = fetched \cup new
        /\ n' = n + Cardinality(urls) - 1
        /\ calls' = Begin([calls EXCEPT ![p] = "done"], {<<u>> : u \in new}, "fetch")
        /\ UNCHANGED <<input, fetches>>

\* master() takes what a goroutine sends on the unbuffered channel, and
\* starts a worker for each URL that is new.
master(p) ==
    LET urls == IF p = <<>> THEN {Root} ELSE Urls(url(p))
        new  == urls \ fetched
    IN  /\ crawler = "ConcurrentChannel"
        /\ n > 0 /\ calls[p] = "send"
        /\ fetched' = fetched \cup new
        /\ n' = n + Cardinality(new) - 1
        /\ calls' = Begin([calls EXCEPT ![p] = "done"], {<<u>> : u \in new}, "fetch")
        /\ UNCHANGED <<input, fetches>>

-----------------------------------------------------------------------------
Init ==
    /\ crawler \in Crawlers
    /\ links \in [Page -> (SUBSET Page) \cup {Missing}]
    /\ depth \in 1..NPages
    /\ crawler # "Crawl" => depth = NPages
    /\ fetched = {}
    /\ fetches = [u \in Page |-> 0]
    /\ calls = IF crawler = "ConcurrentChannel" THEN [c \in {<<>>} |-> "send"]
               ELSE [c \in {<<Root>>} |-> "enter"]
    /\ n = IF crawler = "ConcurrentChannel" THEN 1 ELSE 0

Step(p) ==
    \/ Enter(p) \/ CrawlEnter(p) \/ Fetch(p) \/ SerialCall(p) \/ Wait(p)
    \/ worker(p) \/ master(p)

Next == \E p \in DOMAIN calls : Step(p)

Spec == Init /\ [][Next]_vars

\* Some goroutine that can run does.
FairSpec == Spec /\ WF_vars(Next)

-----------------------------------------------------------------------------
(* Properties *)

\* A way along links from the first page.
Way(q) ==
    /\ Len(q) > 0 /\ q[1] = Root
    /\ \A i \in 1..Len(q) - 1 : q[i + 1] \in Urls(q[i])

\* The pages less than d links away from the first one.
Within(d) == {url(q) : q \in {w \in Path : Len(w) <= d /\ Way(w)}}

Returned ==
    IF crawler = "ConcurrentChannel" THEN n = 0 ELSE calls[<<Root>>] = "done"

TypeOK ==
    /\ crawler \in Crawlers
    /\ links \in [Page -> (SUBSET Page) \cup {Missing}]
    /\ depth \in 1..NPages
    /\ DOMAIN calls \subseteq Path
    /\ \A p \in DOMAIN calls : calls[p] \in {"enter", "fetch", "wait", "send", "done"}
    /\ fetched \subseteq Page
    /\ fetches \in [Page -> Nat]
    /\ n \in 0..NPages + 1

\* No page is fetched twice, whichever goroutines meet a link to it at the
\* same time; and none that is farther away than the depth given to Crawl().
FetchedOnce ==
    LET within == Within(depth)
    IN  \A u \in Page : fetches[u] <= IF u \in within THEN 1 ELSE 0

\* When the crawler returns, every page that can be reached has been
\* fetched, although a call returns at once when another one has taken its
\* page; and no goroutine is left behind, not one that sends to a master
\* which has gone.  This is claimed of Crawl() with a depth that no path
\* without a repetition exceeds.
CompleteOnReturn ==
    Returned /\ depth = NPages =>
        /\ \A u \in Within(NPages) : fetches[u] = 1
        /\ \A p \in DOMAIN calls : calls[p] = "done"

\* The crawler returns: master() counts every worker, one for a missing
\* page included, and no call waits for a goroutine that never ends.
Returns == <>Returned

=============================================================================
