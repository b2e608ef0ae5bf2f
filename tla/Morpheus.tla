------------------------------ MODULE Morpheus ------------------------------
(***************************************************************************)
(* The navigation client (packages/morpheus/src/morpheus.js): one browser   *)
(* tab whose same-origin links are fetched and morphed into the page. A     *)
(* stretch of code between two awaits is one action, for the event loop     *)
(* interleaves nothing finer: a navigate() call runs up to the prefetch it  *)
(* takes, resumes when that has settled, resumes again when its own request *)
(* has, morphs, and finishes on the next animation frame. Between any two of*)
(* these the user may follow another link or go back, and any other request *)
(* may settle first. A call that gives up only begins a load: the document  *)
(* goes on, and is used, until the browser has another one.                 *)
(***************************************************************************)
EXTENDS Integers, Sequences, FiniteSets

CONSTANTS
    Urls,            \* same-origin addresses, without their hashes
    Histories,       \* the session histories the tab may begin with
    CacheSize,       \* this.cacheSize
    CacheTTL,        \* this.cacheTTL, in ticks
    MaxEvents,       \* bound: clicks, history steps, prefetches, invalidations, a
                     \* stop and ticks of the clock, in any combination
    MaxDocuments     \* bound: documents in which the user is active; what the
                     \* browser loads after the last of them is left alone

ASSUME MorpheusAssumption ==
    /\ Histories \subseteq Seq(Urls) \ {<<>>}
    /\ CacheSize \in Nat \ {0} /\ CacheTTL \in Nat \ {0}
    /\ MaxEvents \in Nat /\ MaxDocuments \in Nat

VARIABLES
    sequence,     \* this.sequence; counted on across documents, so that it names a call
    controller,   \* the navigate() call whose AbortController this.controller is, 0 for null
    navs,         \* what each navigate() call holds and where it waits
    prefetches,   \* the promises of prefetch(), in the order they were made
    cache,        \* this.cache, a Map: its entries, inserted in the order of their promises
    started,      \* this.started
    loading,      \* data-morpheus-navigating on the root element
    entries, at,  \* the tab's session history and the entry it is on
    shown,        \* the address of the page on the screen
    now,          \* Date.now()
    epoch,        \* morpheus:invalidate events so far
    load,         \* the load the browser has begun and not finished, {} for none
    handed,       \* the page was left to such a load, and none has been shown since
    documents,    \* documents the tab has loaded
    events        \* how much of MaxEvents is used

morpheusVars == <<sequence, controller, navs, prefetches, cache, started, loading,
                  entries, at, shown, now, epoch, load, handed,
                  documents, events>>

(***************************************************************************)
(* A navigate() call: idle before it is made, then waiting in takePrefetch, *)
(* for its request, for the abort of that request to reach it, or for the   *)
(* frame. took is the promise it took from the cache, 0 for null, and begun *)
(* the clock and the epoch when it was made. late: it resumed from          *)
(* takePrefetch after another call had superseded it, and sent a request.   *)
(***************************************************************************)
Waits == {"idle", "taking", "fetching", "aborted", "frame", "done"}

Navigation == [pc : Waits, url : Urls, mode : {"push", "pop"}, took : Nat,
               begunAt : Nat, begunEpoch : Nat, late : BOOLEAN]

AnyUrl == CHOOSE u \in Urls : TRUE

NoNavigation == [pc |-> "idle", url |-> AnyUrl, mode |-> "push", took |-> 0,
                 begunAt |-> 0, begunEpoch |-> 0, late |-> FALSE]

\* A call that has returned: what it took and whether it was late is remembered.
Returned(call) ==
    [NoNavigation EXCEPT !.pc = "done", !.took = call.took, !.late = call.late]

(***************************************************************************)
(* What fetchPage settles to: a page to morph, with a cacheable flag and    *)
(* the address its redirects led to; a request for a reload; a              *)
(* NavigationFallback (status, origin, header, type or missing target) with *)
(* that address; any other error, whose fallback is the address asked for.  *)
(***************************************************************************)
Outcomes == [kind : {"page"}, url : Urls, cacheable : BOOLEAN]
            \cup [kind : {"reload", "fallback", "error"}, url : Urls, cacheable : {FALSE}]

Pending == [kind |-> "pending", url |-> AnyUrl, cacheable |-> FALSE]
Failed == [kind |-> "null", url |-> AnyUrl, cacheable |-> FALSE]

\* A settled prefetch that is not to be kept is as good as a failed one.
Prefetch == [key : Urls, result : Outcomes \cup {Pending, Failed},
             askedAt : Nat, askedEpoch : Nat]

\* A prefetch of a document that is gone
Gone == [key |-> AnyUrl, result |-> Failed, askedAt |-> 0, askedEpoch |-> 0]

Entry == [key : Urls, promise : Nat, expiresAt : Nat]

\* What the browser has begun to load, and whether it takes the place of the entry
Loads == [url : Urls, replace : BOOLEAN]

\* One load at most
PendingLoads == {{}} \cup {{l} : l \in Loads}

MorpheusTypeOK ==
    /\ sequence \in 0..MaxEvents
    /\ controller \in 0..MaxEvents
    /\ navs \in [1..MaxEvents -> Navigation]
    /\ prefetches \in Seq(Prefetch)
    /\ cache \subseteq Entry /\ Cardinality(cache) <= CacheSize
    /\ started \in BOOLEAN /\ loading \in BOOLEAN
    /\ entries \in Seq(Urls)
    /\ at \in 1..Len(entries)
    /\ shown \in Urls
    /\ now \in Nat /\ epoch \in Nat /\ documents \in Nat
    /\ load \in PendingLoads /\ handed \in BOOLEAN
    /\ events \in 0..MaxEvents

MorpheusInit ==
    /\ sequence = 0 /\ controller = 0
    /\ navs = [n \in 1..MaxEvents |-> NoNavigation]
    /\ prefetches = <<>> /\ cache = {}
    /\ started = TRUE /\ loading = FALSE
    /\ entries \in Histories
    /\ at \in DOMAIN entries
    /\ shown = entries[at]
    /\ now = 0 /\ epoch = 0 /\ documents = 1 /\ events = 0
    /\ load = {} /\ handed = FALSE

----------------------------------------------------------------------------
(* Something happens to the page: its listeners are there, somebody uses it *)

Event ==
    /\ started
    /\ documents <= MaxDocuments
    /\ events < MaxEvents
    /\ events' = events + 1

----------------------------------------------------------------------------
(* History                                                                  *)

Location == entries[at]

\* history.pushState and location.assign drop what was ahead.
Pushed(u) == Append(SubSeq(entries, 1, at), u)

\* An updateHistory without the second case
UpdateHistory_PushOnly(u, mode) ==
    IF mode = "push"
    THEN entries' = Pushed(u) /\ at' = at + 1
    ELSE UNCHANGED <<entries, at>>

\* updateHistory: pop replaces an entry whose redirects led elsewhere.
UpdateHistory(u, mode) ==
    IF mode = "push"
    THEN entries' = Pushed(u) /\ at' = at + 1
    ELSE entries' = [entries EXCEPT ![at] = u] /\ at' = at

----------------------------------------------------------------------------
(* The prefetch cache                                                       *)

CacheWithout(key) == {e \in cache : e.key # key}

\* The entry that answers a lookup
Fresh(key) == {e \in cache : e.key = key /\ e.expiresAt > now}

\* A lookup that leaves the entry for the next caller.
TakePrefetch_Kept(u) ==
    /\ cache' = cache

TakePrefetch(u) ==
    /\ cache' = CacheWithout(u)

\* What takePrefetch awaits: the promise of an entry that has not expired
Taken(u) == IF Fresh(u) = {} THEN 0 ELSE (CHOOSE e \in Fresh(u) : TRUE).promise

\* pruneCache: expired entries, then the oldest beyond the size
Pruned(all) ==
    LET fresh == {e \in all : e.expiresAt > now}
        Later(e) == {f \in fresh : f.promise > e.promise}
    IN {e \in fresh : Cardinality(Later(e)) < CacheSize}

----------------------------------------------------------------------------
(* Leaving for a document the browser loads                                 *)

\* location.replace and location.assign begin a load, in place of one begun
\* before; a load of the address it is at takes the place of the entry.
FullLoad(u, replace) == load' = {[url |-> u, replace |-> replace \/ u = Location]}

\* The old document's calls, cache and controller go with it, and the new one
\* starts a Morpheus of its own.
NewDocument(u) ==
    /\ shown' = u
    /\ navs' = [n \in DOMAIN navs |-> IF n <= sequence THEN Returned(NoNavigation) ELSE navs[n]]
    /\ prefetches' = [p \in DOMAIN prefetches |-> Gone]
    /\ controller' = 0
    /\ cache' = {}
    /\ started' = TRUE /\ loading' = FALSE
    /\ load' = {} /\ handed' = FALSE
    /\ documents' = documents + 1

\* The browser has the document it was loading.
LoadArrives ==
    \E l \in load :
        /\ NewDocument(l.url)
        /\ IF l.replace THEN entries' = [entries EXCEPT ![at] = l.url] /\ at' = at
                        ELSE entries' = Pushed(l.url) /\ at' = at + 1
        /\ UNCHANGED <<sequence, now, epoch, events>>

----------------------------------------------------------------------------
(* navigate                                                                 *)

\* this.controller?.abort(): a request in flight rejects
Abort_Nothing(calls) == calls

Abort(calls) ==
    IF controller # 0 /\ calls[controller].pc = "fetching"
    THEN [calls EXCEPT ![controller].pc = "aborted"] ELSE calls

\* navigate, up to the prefetch it awaits
Navigate(u, mode) ==
    /\ sequence' = sequence + 1
    /\ controller' = 0
    /\ loading' = TRUE
    /\ navs' = [Abort(navs) EXCEPT ![sequence + 1] =
                   [pc |-> "taking", url |-> u, mode |-> mode, took |-> Taken(u),
                    begunAt |-> now, begunEpoch |-> epoch, late |-> FALSE]]
    /\ TakePrefetch(u)
    /\ UNCHANGED <<started, prefetches, shown, now, epoch, handed, documents>>

\* handleClick of an eligible link
Click(u) ==
    /\ Event
    /\ Navigate(u, "push")
    /\ UNCHANGED <<entries, at, load>>

\* A listener cancelled morpheus:before-navigate: the browser follows the link.
ClickNative(u) ==
    /\ Event
    /\ FullLoad(u, FALSE)
    /\ UNCHANGED <<sequence, controller, navs, prefetches, cache, started, loading,
                   entries, at, shown, now, epoch, handed, documents>>

\* handlePopState: the browser has moved to entry i already, and may have
\* dropped a load for it.
PopState(i) ==
    /\ Event
    /\ i \in DOMAIN entries \ {at}
    /\ at' = i
    /\ Navigate(entries[i], "pop")
    /\ load' \in {load, {}}
    /\ UNCHANGED entries

\* A listener cancelled morpheus:before-navigate: window.location.reload().
PopStateNative(i) ==
    /\ Event
    /\ i \in DOMAIN entries \ {at}
    /\ at' = i
    /\ load' = {[url |-> entries[i], replace |-> TRUE]}
    /\ handed' = TRUE
    /\ UNCHANGED <<sequence, controller, navs, prefetches, cache, started, loading,
                   entries, shown, now, epoch, documents>>

\* The catch and finally of the call that is still the current one: the loading
\* state is cleared as soon as the load has begun.
Fallback(n, u) ==
    /\ FullLoad(u, navs[n].mode = "pop")
    /\ handed' = TRUE
    /\ navs' = [navs EXCEPT ![n] = Returned(@)]
    /\ loading' = FALSE
    /\ UNCHANGED <<sequence, controller, prefetches, cache, started, entries, at, shown,
                   now, epoch, documents, events>>

\* A call that was superseded returns without touching anything.
Superseded(n) ==
    /\ navs' = [navs EXCEPT ![n] = Returned(@)]
    /\ UNCHANGED <<sequence, controller, prefetches, cache, started, loading,
                   entries, at, shown, now, epoch, load, handed, documents, events>>

\* Morph, history, then the frame is awaited
Morph(n, u) ==
    /\ shown' = u
    /\ UpdateHistory(u, navs[n].mode)
    /\ navs' = [navs EXCEPT ![n].pc = "frame"]
    /\ handed' = FALSE
    /\ UNCHANGED <<sequence, controller, prefetches, cache, started, loading, now, epoch,
                   load, documents, events>>

\* What a call does with a page it has: a listener may cancel the morph, the
\* navigation target may be gone from the current document, Idiomorph may throw.
UsePage_Unchecked(n, u) ==
    Morph(n, u) \/ Fallback(n, u) \/ Fallback(n, navs[n].url)

UsePage(n, u) ==
    \/ n = sequence /\ (Morph(n, u) \/ Fallback(n, u) \/ Fallback(n, navs[n].url))
    \/ n # sequence /\ Superseded(n)

\* takePrefetch resolves with a page that may be kept
ResumeWithPrefetch(n) ==
    /\ navs[n].pc = "taking" /\ navs[n].took # 0
    /\ LET page == prefetches[navs[n].took].result
       IN page.kind = "page" /\ page.cacheable /\ UsePage(n, page.url)

\* takePrefetch resolves with nothing usable: the call requests the page itself,
\* under a new controller, whether or not it is still the current call.
ResumeWithout(n) ==
    /\ navs[n].pc = "taking"
    /\ navs[n].took # 0 => /\ prefetches[navs[n].took].result # Pending
                           /\ ~prefetches[navs[n].took].result.cacheable
    /\ controller' = n
    /\ navs' = [navs EXCEPT ![n].pc = "fetching", ![n].late = n # sequence]
    /\ UNCHANGED <<sequence, prefetches, cache, started, loading, entries, at, shown,
                   now, epoch, load, handed, documents, events>>

\* The request settles.
Respond(n, o) ==
    /\ navs[n].pc = "fetching"
    /\ CASE o.kind = "page" -> UsePage(n, o.url)
         [] o.kind \in {"reload", "fallback"} ->
                IF n = sequence THEN Fallback(n, o.url) ELSE Superseded(n)
         [] o.kind = "error" ->
                IF n = sequence THEN Fallback(n, navs[n].url) ELSE Superseded(n)

\* AbortError: the finally clears the loading state if the call is still current.
AbortReaches_Returns(n) ==
    /\ navs[n].pc = "aborted"
    /\ navs' = [navs EXCEPT ![n] = Returned(@)]
    /\ UNCHANGED <<sequence, controller, prefetches, cache, started, loading, entries, at,
                   shown, now, epoch, load, handed, documents, events>>

AbortReaches(n) ==
    /\ navs[n].pc = "aborted"
    /\ navs' = [navs EXCEPT ![n] = Returned(@)]
    /\ loading' = (loading /\ n # sequence)
    /\ UNCHANGED <<sequence, controller, prefetches, cache, started, entries, at,
                   shown, now, epoch, load, handed, documents, events>>

\* The animation frame after the morph: scroll, focus, active links, morpheus:load
Frame(n) ==
    /\ navs[n].pc = "frame"
    /\ navs' = [navs EXCEPT ![n] = Returned(@)]
    /\ loading' = (loading /\ n # sequence)
    /\ UNCHANGED <<sequence, controller, prefetches, cache, started, entries, at,
                   shown, now, epoch, load, handed, documents, events>>

----------------------------------------------------------------------------
(* Prefetching, invalidation, stop                                          *)

\* handlePrefetchIntent, once its timer has run, and prefetch
PrefetchIntent(u) ==
    /\ Event
    /\ Fresh(u) = {}
    /\ prefetches' = Append(prefetches, [key |-> u, result |-> Pending,
                                         askedAt |-> now, askedEpoch |-> epoch])
    /\ cache' = Pruned(CacheWithout(u) \cup {[key |-> u, promise |-> Len(prefetches) + 1,
                                              expiresAt |-> now + CacheTTL]})
    /\ UNCHANGED <<sequence, controller, navs, started, loading, entries, at, shown,
                   now, epoch, load, handed, documents>>

\* The prefetch settles; one that is not to be kept deletes the entry under its
\* key, whichever promise that entry holds by now.
PrefetchSettles(p, o) ==
    /\ p \in DOMAIN prefetches
    /\ prefetches[p].result = Pending
    /\ prefetches' = [prefetches EXCEPT ![p].result =
                         IF o.cacheable THEN o ELSE Failed]
    /\ cache' = IF o.cacheable THEN cache ELSE CacheWithout(prefetches[p].key)
    /\ UNCHANGED <<sequence, controller, navs, started, loading, entries, at, shown,
                   now, epoch, load, handed, documents, events>>

\* An invalidation that spares what is still being fetched.
ClearCache_Settled ==
    cache' = {e \in cache : prefetches[e.promise].result = Pending}

ClearCache == cache' = {}

\* Without entries the event changes nothing, and is not taken.
Invalidate ==
    /\ Event
    /\ cache # {}
    /\ epoch' = epoch + 1
    /\ ClearCache
    /\ UNCHANGED <<sequence, controller, navs, prefetches, started, loading, entries, at,
                   shown, now, load, handed, documents>>

\* stop: the controller aborts; a call that awaits a prefetch or a frame goes on
Stop ==
    /\ Event
    /\ started' = FALSE
    /\ navs' = Abort(navs)
    /\ UNCHANGED <<sequence, controller, prefetches, cache, loading, entries, at, shown,
                   now, epoch, load, handed, documents>>

\* Time matters to cache entries only.
Tick ==
    /\ Event
    /\ cache # {}
    /\ now' = now + 1
    /\ UNCHANGED <<sequence, controller, navs, prefetches, cache, started, loading,
                   entries, at, shown, epoch, load, handed, documents>>

----------------------------------------------------------------------------

\* What the browser and the network do without the user
Progress(n) ==
    \/ ResumeWithPrefetch(n)
    \/ ResumeWithout(n)
    \/ \E o \in Outcomes : Respond(n, o)
    \/ AbortReaches(n)
    \/ Frame(n)

MorpheusNext ==
    \/ \E u \in Urls : Click(u) \/ ClickNative(u) \/ PrefetchIntent(u)
    \/ \E i \in DOMAIN entries : PopState(i) \/ PopStateNative(i)
    \/ \E n \in 1..MaxEvents : Progress(n)
    \/ \E p \in DOMAIN prefetches, o \in Outcomes : PrefetchSettles(p, o)
    \/ LoadArrives
    \/ Invalidate
    \/ Stop
    \/ Tick

MorpheusSpec == MorpheusInit /\ [][MorpheusNext]_morpheusVars

MorpheusFairness ==
    /\ \A n \in 1..MaxEvents : WF_morpheusVars(Progress(n))
    /\ \A p \in 1..MaxEvents :
          WF_morpheusVars(\E o \in Outcomes : PrefetchSettles(p, o))

----------------------------------------------------------------------------

(***************************************************************************)
(* While the page does not say that it is navigating, the document on the   *)
(* screen is the one in the address bar: back and forward change the        *)
(* address first (popstate), links last (updateHistory), and calls that     *)
(* overlap, are redirected or are aborted must not leave the two apart. Two *)
(* things do: stop(), which aborts a call that went back; and leaving the   *)
(* page to the browser (morpheus.js:87, 160-162), as the loading state is   *)
(* cleared, or was never set, while its load is still under way. That lasts *)
(* until that load or a later navigation shows a page.                      *)
(***************************************************************************)
LocationAgrees == started /\ ~loading /\ ~handed => shown = Location

(***************************************************************************)
(* A prefetched page is used by one navigation only: Idiomorph moves the    *)
(* nodes of the parsed page into the document, so that a second use would   *)
(* morph in an empty target (takePrefetch).                                 *)
(***************************************************************************)
TakenOnce ==
    \A m, n \in 1..MaxEvents :
        m # n /\ navs[m].took # 0 => navs[m].took # navs[n].took

(***************************************************************************)
(* What a navigation takes from the cache was requested after the last      *)
(* morpheus:invalidate before it began, and less than the cache's TTL before*)
(* it began, whatever was in flight at the invalidation.                    *)
(***************************************************************************)
FreshPages ==
    \A n \in 1..MaxEvents : navs[n].pc = "taking" /\ navs[n].took # 0 =>
        LET p == prefetches[navs[n].took]
        IN /\ p.askedEpoch = navs[n].begunEpoch
           /\ navs[n].begunAt - p.askedAt < CacheTTL

(***************************************************************************)
(* A request in flight belongs to the controller that the next navigation   *)
(* or stop() will abort, unless a call that had been waiting for a prefetch *)
(* resumed after it was superseded: that call puts its own controller over  *)
(* the current one's (morpheus.js:124).                                     *)
(***************************************************************************)
StrayRequestsAreExplained ==
    \A n \in 1..MaxEvents :
        navs[n].pc = "fetching" /\ n # controller => \E m \in 1..MaxEvents : navs[m].late

\* The visit asked for last, until it is shown
Wanted ==
    {[url |-> navs[n].url, back |-> navs[n].mode = "pop"] :
        n \in {m \in 1..sequence : m = sequence /\ navs[m].pc \in {"taking", "fetching"}}}

\* What the browser was given to load, until it has
Given == {l.url : l \in load}

Visit == INSTANCE PageVisit WITH
            wanted <- Wanted, address <- Location, document <- shown,
            given <- Given, loads <- documents

(***************************************************************************)
(* The client implements PageVisit: however requests overlap and whichever  *)
(* answers first, only the last visit asked for is shown, and never after   *)
(* something else was asked for (the sequence checks of navigate); what the *)
(* browser loads by itself is what it was given last.                       *)
(***************************************************************************)
ShowsLatest == Visit!VisitSpec

(***************************************************************************)
(* The page does not say that it is navigating for ever: every navigation   *)
(* ends by being shown, abandoned for the browser's own load, or aborted    *)
(* (the finally of navigate).                                               *)
(***************************************************************************)
LoadingEnds == loading ~> ~loading

FairMorpheusSpec == MorpheusSpec /\ MorpheusFairness

=============================================================================
