-------------------------- MODULE Morpheus_proofs --------------------------
(***************************************************************************)
(* Theorems about Morpheus, for any addresses, histories, cache and number  *)
(* of events: its types, its four safety invariants, and that it implements *)
(* PageVisit.                                                               *)
(***************************************************************************)
EXTENDS Morpheus, SequenceTheorems, FiniteSetTheorems, WellFoundedInduction, TLAPS

(***************************************************************************)
(* The inductive invariant. A navigate() call is made for an event of its   *)
(* own; the promises of the cache are there, and each is that of one entry. *)
(***************************************************************************)
Numbered ==
    /\ sequence <= events
    /\ \A n \in 1..MaxEvents : n > sequence => navs[n] = NoNavigation

OneEntryEach ==
    /\ IsFiniteSet(cache)
    /\ \A e \in cache : e.promise \in 1..Len(prefetches)
    /\ \A e, f \in cache : e.promise = f.promise => e = f

KindsInv == MorpheusTypeOK /\ Numbered /\ OneEntryEach

\* A promise that was taken is there, and no longer in the cache
Handed ==
    \A n \in 1..MaxEvents :
        /\ navs[n].took \in 0..Len(prefetches)
        /\ \A e \in cache : e.promise # navs[n].took

\* The cache holds what was asked for since the last invalidation
SinceInvalidation ==
    \A e \in cache :
        /\ prefetches[e.promise].askedEpoch = epoch
        /\ e.expiresAt = prefetches[e.promise].askedAt + CacheTTL

PagesInv == Handed /\ TakenOnce /\ SinceInvalidation /\ FreshPages

\* The controller is the current call's, or that of a call that came too late
ControllerIsKnown ==
    controller # 0 =>
        /\ controller <= sequence
        /\ navs[controller].pc \notin {"idle", "taking"}
        /\ controller = sequence \/ navs[controller].late

\* A call that waits for a prefetch has sent no request yet
LateAfterwards == \A n \in 1..MaxEvents : navs[n].pc = "taking" => ~navs[n].late

RequestsInv == ControllerIsKnown /\ LateAfterwards /\ StrayRequestsAreExplained

\* The current call has brought address and document together when it waits for the
\* frame, unless the page was left to the browser then, and is aborted by stop() only
CurrentCall ==
    sequence # 0 =>
        /\ navs[sequence].pc = "frame" /\ ~handed => shown = Location
        /\ navs[sequence].pc = "aborted" => ~started

PlaceInv == LocationAgrees /\ CurrentCall

MorpheusInv == KindsInv /\ PagesInv /\ RequestsInv /\ PlaceInv

----------------------------------------------------------------------------
(* Rows                                                                     *)

\* Two states of a call that differ at most in where it waits
SameCall(a, b) ==
    /\ a.url = b.url /\ a.mode = b.mode /\ a.took = b.took /\ a.late = b.late
    /\ a.begunAt = b.begunAt /\ a.begunEpoch = b.begunEpoch

\* A call that has returned
IsReturned(a, took, late) ==
    a.pc = "done" /\ a.took = took /\ a.late = late

LEMMA NoCall ==
    ASSUME Urls # {}
    PROVE  /\ AnyUrl \in Urls /\ NoNavigation \in Navigation
           /\ NoNavigation.pc = "idle" /\ NoNavigation.took = 0 /\ ~NoNavigation.late
  BY DEF AnyUrl, NoNavigation, Navigation, Waits

LEMMA ReturnedRow ==
    ASSUME Urls # {}, NEW call \in Navigation
    PROVE  Returned(call) \in Navigation /\ IsReturned(Returned(call), call.took, call.late)
  <1>1. PICK row : row = Returned(call)
    OBVIOUS
  <1>2. row = [pc |-> "done", url |-> AnyUrl, mode |-> "push", took |-> call.took,
               begunAt |-> 0, begunEpoch |-> 0, late |-> call.late]
    BY <1>1 DEF Returned, NoNavigation
  <1>3. call.took \in Nat /\ call.late \in BOOLEAN
    BY DEF Navigation
  <1> QED
    BY <1>1, <1>2, <1>3, NoCall DEF Navigation, Waits, IsReturned

LEMMA Waiting ==
    ASSUME NEW call \in Navigation, NEW pc \in Waits, NEW row, row = [call EXCEPT !.pc = pc]
    PROVE  row \in Navigation /\ row.pc = pc /\ SameCall(row, call)
  BY DEF Navigation, SameCall

LEMMA NoPrefetch ==
    ASSUME Urls # {}
    PROVE  /\ Pending.url \in Urls /\ Failed.url \in Urls /\ Gone \in Prefetch
           /\ ~Pending.cacheable /\ ~Failed.cacheable
           /\ \A r \in Outcomes : r.url \in Urls /\ r.cacheable \in BOOLEAN
  <1>1. AnyUrl \in Urls
    BY NoCall
  <1>2. \A r \in Outcomes : r.url \in Urls /\ r.cacheable \in BOOLEAN
    BY DEF Outcomes
  <1>3. Gone \in Prefetch
    BY <1>1 DEF Gone, Prefetch
  <1> QED
    BY <1>1, <1>2, <1>3 DEF Pending, Failed

LEMMA Kinds ==
    ASSUME MorpheusTypeOK
    PROVE  /\ entries \in Seq(Urls) /\ Len(entries) \in Nat /\ at \in 1..Len(entries)
           /\ Location \in Urls /\ Urls # {}
           /\ sequence \in Nat /\ events \in Nat /\ MaxEvents \in Nat
           /\ CacheSize \in Nat \ {0} /\ CacheTTL \in Nat \ {0}
           /\ now \in Nat /\ epoch \in Nat /\ documents \in Nat
           /\ navs \in [1..MaxEvents -> Navigation]
           /\ prefetches \in Seq(Prefetch) /\ Len(prefetches) \in Nat
  <1>1. entries \in Seq(Urls) /\ Len(entries) \in Nat /\ at \in 1..Len(entries)
    BY DEF MorpheusTypeOK
  <1>2. entries[at] \in Urls
    BY <1>1
  <1> QED
    BY <1>1, <1>2, MorpheusAssumption DEF MorpheusTypeOK, Location

\* An abort moves the call whose request is under way, and nothing else
LEMMA AbortRows ==
    ASSUME MorpheusTypeOK, NEW calls, calls = Abort(navs)
    PROVE  /\ calls \in [1..MaxEvents -> Navigation]
           /\ \A n \in 1..MaxEvents :
                 /\ SameCall(calls[n], navs[n])
                 /\ calls[n].pc = IF n = controller /\ navs[n].pc = "fetching"
                                  THEN "aborted" ELSE navs[n].pc
                 /\ n # controller \/ navs[n].pc # "fetching" => calls[n] = navs[n]
  <1>1. navs \in [1..MaxEvents -> Navigation] /\ controller \in 0..MaxEvents
    BY DEF MorpheusTypeOK
  <1>2. CASE controller # 0 /\ navs[controller].pc = "fetching"
    <2>1. controller \in 1..MaxEvents
      BY <1>1, <1>2, MorpheusAssumption
    <2>2. PICK row : row = [navs[controller] EXCEPT !.pc = "aborted"]
      OBVIOUS
    <2>3. row \in Navigation /\ row.pc = "aborted" /\ SameCall(row, navs[controller])
      BY <1>1, <2>1, <2>2, Waiting DEF Waits
    <2>4. calls = [navs EXCEPT ![controller] = row]
      BY <1>2, <2>2 DEF Abort
    <2> QED
      BY <1>1, <1>2, <2>1, <2>3, <2>4 DEF SameCall
  <1>3. CASE ~(controller # 0 /\ navs[controller].pc = "fetching")
    BY <1>1, <1>3, MorpheusAssumption DEF Abort, SameCall
  <1> QED
    BY <1>2, <1>3

----------------------------------------------------------------------------
(* The history                                                              *)

\* A push or a replacement puts the address where the tab is
LEMMA Addressed ==
    ASSUME MorpheusTypeOK, NEW u \in Urls,
           \/ entries' = Pushed(u) /\ at' = at + 1
           \/ entries' = [entries EXCEPT ![at] = u] /\ at' = at
    PROVE  entries' \in Seq(Urls) /\ at' \in 1..Len(entries') /\ Location' = u
  <1>1. entries \in Seq(Urls) /\ Len(entries) \in Nat /\ at \in 1..Len(entries)
    BY Kinds
  <1>2. CASE entries' = Pushed(u) /\ at' = at + 1
    <2>1. PICK q : q = SubSeq(entries, 1, at)
      OBVIOUS
    <2>2. q \in Seq(Urls) /\ Len(q) = at
      BY <1>1, <2>1, SubSeqProperties
    <2>3. /\ Append(q, u) \in Seq(Urls) /\ Len(Append(q, u)) = at + 1
          /\ Append(q, u)[at + 1] = u
      BY <2>2, AppendProperties
    <2> QED
      BY <1>1, <1>2, <2>1, <2>3 DEF Pushed, Location
  <1>3. CASE entries' = [entries EXCEPT ![at] = u] /\ at' = at
    <2>1. entries' \in Seq(Urls) /\ Len(entries') = Len(entries) /\ entries'[at] = u
      BY <1>1, <1>3, ExceptSeq
    <2> QED
      BY <1>1, <1>3, <2>1 DEF Location
  <1> QED
    BY <1>2, <1>3

----------------------------------------------------------------------------
(* The cache                                                                *)

\* Some element has the least number
LEMMA Least ==
    ASSUME NEW T, T # {}, NEW f, \A e \in T : f[e] \in Nat
    PROVE  \E e \in T : \A d \in T : f[e] <= f[d]
  <1>1. PICK R : IsWellFoundedOn(R, Nat) /\ \A m, n \in Nat : m < n => <<m, n>> \in R
    BY NatLessThanWellFounded DEF OpToRel
  <1>2. PICK N : N = {f[e] : e \in T}
    OBVIOUS
  <1>3. N \subseteq Nat /\ N # {}
    BY <1>2
  <1>4. IsWellFoundedOn(R, Nat)
    BY <1>1
  <1>5. \E n \in N : \A m \in N : ~(<<m, n>> \in R)
    BY <1>3, <1>4, WFMin
  <1>6. \A m, n \in Nat : m < n => <<m, n>> \in R
    BY <1>1
  <1>7. PICK n \in N : \A m \in N : <<m, n>> \notin R
    BY <1>5
  <1>8. ASSUME NEW m \in N PROVE n <= m
    <2>1. m \in Nat /\ n \in Nat
      BY <1>3
    <2>2. ~(m < n)
      BY <1>6, <1>7, <2>1
    <2> QED
      BY <2>1, <2>2
  <1> QED
    BY <1>2, <1>8

\* pruneCache leaves no more than cacheSize entries
LEMMA PrunedFits ==
    ASSUME NEW all \in SUBSET Entry, IsFiniteSet(all),
           \A e, f \in all : e.promise = f.promise => e = f
    PROVE  /\ Pruned(all) \subseteq all /\ IsFiniteSet(Pruned(all))
           /\ Cardinality(Pruned(all)) <= CacheSize
  <1> DEFINE fresh == {e \in all : e.expiresAt > now}
             Later(e) == {f \in fresh : f.promise > e.promise}
  <1>1. PICK kept : kept = Pruned(all)
    OBVIOUS
  <1>2. kept \subseteq fresh /\ \A e \in kept : Cardinality(Later(e)) < CacheSize
    BY <1>1 DEF Pruned
  <1>3. IsFiniteSet(fresh) /\ fresh \subseteq all
    BY FS_Subset
  <1>4. IsFiniteSet(kept) /\ Cardinality(kept) \in Nat /\ kept \subseteq all
    BY <1>2, <1>3, FS_Subset, FS_CardinalityType
  <1>5. \A e \in all : e.promise \in Nat
    BY DEF Entry
  <1>6. CASE kept = {}
    BY <1>1, <1>4, <1>6, FS_EmptySet, MorpheusAssumption
  <1>7. CASE kept # {}
    <2> DEFINE promise == [e \in kept |-> e.promise]
    <2>1. \A e \in kept : promise[e] \in Nat /\ promise[e] = e.promise
      BY <1>4, <1>5
    <2> HIDE DEF promise
    <2>2. PICK e \in kept : \A d \in kept : promise[e] <= promise[d]
      BY <1>7, <2>1, Least
    <2>3. \A d \in kept : d # e => d \in Later(e)
      BY <1>2, <1>4, <1>5, <2>1, <2>2
    <2>4. kept \ {e} \subseteq Later(e) /\ Later(e) \subseteq fresh
      BY <2>3
    <2> HIDE DEF Later, fresh
    <2>5. IsFiniteSet(Later(e)) /\ Cardinality(Later(e)) \in Nat
      BY <1>3, <2>4, FS_Subset, FS_CardinalityType
    <2>6. Cardinality(kept \ {e}) <= Cardinality(Later(e))
      BY <2>4, <2>5, FS_Subset
    <2>7. Cardinality(kept \ {e}) = Cardinality(kept) - 1
      BY <1>4, FS_RemoveElement
    <2>8. Cardinality(Later(e)) < CacheSize
      BY <1>2
    <2> QED
      BY <1>1, <1>4, <2>5, <2>6, <2>7, <2>8, MorpheusAssumption
  <1> QED
    BY <1>6, <1>7

\* What is left when entries go
LEMMA CacheShrinks ==
    ASSUME KindsInv, NEW some \in SUBSET cache
    PROVE  /\ some \subseteq Entry /\ IsFiniteSet(some) /\ Cardinality(some) <= CacheSize
           /\ \A e \in some : e.promise \in 1..Len(prefetches)
           /\ \A e, f \in some : e.promise = f.promise => e = f
  <1>1. cache \subseteq Entry /\ IsFiniteSet(cache) /\ Cardinality(cache) <= CacheSize
    BY DEF KindsInv, MorpheusTypeOK, OneEntryEach
  <1>2. IsFiniteSet(some) /\ Cardinality(some) <= Cardinality(cache)
    BY <1>1, FS_Subset
  <1>3. Cardinality(some) \in Nat /\ Cardinality(cache) \in Nat /\ CacheSize \in Nat
    BY <1>1, <1>2, FS_CardinalityType, MorpheusAssumption
  <1> QED
    BY <1>1, <1>2, <1>3 DEF KindsInv, OneEntryEach

\* The promise a navigation takes is that of an entry for its address
LEMMA TakenFromCache ==
    ASSUME KindsInv, NEW u
    PROVE  /\ Taken(u) \in 0..Len(prefetches)
           /\ Taken(u) # 0 => \E e \in cache : /\ e.key = u /\ e.expiresAt > now
                                               /\ Taken(u) = e.promise
  <1>1. CASE Fresh(u) = {}
    BY <1>1, Kinds DEF Taken, KindsInv
  <1>2. CASE Fresh(u) # {}
    <2>1. PICK e : e = CHOOSE d \in Fresh(u) : TRUE
      OBVIOUS
    <2>2. e \in Fresh(u)
      BY <1>2, <2>1
    <2>3. e \in cache /\ e.key = u /\ e.expiresAt > now /\ e.promise \in 1..Len(prefetches)
      BY <2>2 DEF Fresh, KindsInv, OneEntryEach
    <2>4. Taken(u) = e.promise
      BY <1>2, <2>1 DEF Taken
    <2> QED
      BY <2>3, <2>4, Kinds DEF KindsInv
  <1> QED
    BY <1>1, <1>2

----------------------------------------------------------------------------
(* What the steps do to the calls                                           *)

\* The new call, and the abort of the one before it
LEMMA NavigateCalls ==
    ASSUME KindsInv, Event, NEW u \in Urls, NEW mode \in {"push", "pop"}, Navigate(u, mode)
    PROVE  /\ sequence + 1 \in 1..MaxEvents /\ events' = events + 1
           /\ events' \in 0..MaxEvents
           /\ navs' \in [1..MaxEvents -> Navigation]
           /\ navs'[sequence + 1] = [pc |-> "taking", url |-> u, mode |-> mode,
                 took |-> Taken(u), begunAt |-> now, begunEpoch |-> epoch, late |-> FALSE]
           /\ \A n \in 1..MaxEvents : n # sequence + 1 =>
                 /\ SameCall(navs'[n], navs[n])
                 /\ navs'[n].pc = IF n = controller /\ navs[n].pc = "fetching"
                                  THEN "aborted" ELSE navs[n].pc
                 /\ n # controller \/ navs[n].pc # "fetching" => navs'[n] = navs[n]
  <1>1. MorpheusTypeOK /\ sequence <= events /\ events < MaxEvents /\ events' = events + 1
    BY DEF KindsInv, Numbered, Event
  <1>2. sequence + 1 \in 1..MaxEvents /\ events' \in 0..MaxEvents
    BY <1>1, Kinds
  <1>3. PICK calls : calls = Abort(navs)
    OBVIOUS
  <1>4. PICK row : row = [pc |-> "taking", url |-> u, mode |-> mode, took |-> Taken(u),
                          begunAt |-> now, begunEpoch |-> epoch, late |-> FALSE]
    OBVIOUS
  <1>5. row \in Navigation
    <2>1. Taken(u) \in Nat /\ now \in Nat /\ epoch \in Nat
      BY <1>1, Kinds, TakenFromCache
    <2> QED
      BY <1>4, <2>1 DEF Navigation, Waits
  <1>6. navs' = [calls EXCEPT ![sequence + 1] = row]
    BY <1>3, <1>4 DEF Navigate
  <1>7. /\ calls \in [1..MaxEvents -> Navigation]
        /\ \A n \in 1..MaxEvents :
              /\ SameCall(calls[n], navs[n])
              /\ calls[n].pc = IF n = controller /\ navs[n].pc = "fetching"
                               THEN "aborted" ELSE navs[n].pc
              /\ n # controller \/ navs[n].pc # "fetching" => calls[n] = navs[n]
    BY <1>1, <1>3, AbortRows
  <1> QED
    BY <1>1, <1>2, <1>4, <1>5, <1>6, <1>7

\* A new document: no call of the old one is left
LEMMA DocumentCalls ==
    ASSUME KindsInv, NEW u \in Urls, NewDocument(u)
    PROVE  /\ navs' \in [1..MaxEvents -> Navigation]
           /\ \A n \in 1..MaxEvents :
                 /\ navs'[n].pc \in {"done", "idle"} /\ navs'[n].took = 0 /\ ~navs'[n].late
                 /\ n > sequence => navs'[n] = NoNavigation
           /\ prefetches' \in Seq(Prefetch) /\ Len(prefetches') = Len(prefetches)
  <1>1. MorpheusTypeOK /\ Urls # {}
    BY DEF KindsInv
  <1>2. PICK gone : gone = Returned(NoNavigation)
    OBVIOUS
  <1>3. gone \in Navigation /\ gone.pc = "done" /\ gone.took = 0 /\ ~gone.late
    BY <1>1, <1>2, NoCall, ReturnedRow DEF IsReturned
  <1>4. navs \in [1..MaxEvents -> Navigation]
    BY <1>1, Kinds
  <1>5. navs' = [n \in 1..MaxEvents |-> IF n <= sequence THEN gone ELSE navs[n]]
    BY <1>2, <1>4 DEF NewDocument
  <1>6. ASSUME NEW n \in 1..MaxEvents
        PROVE  /\ navs'[n] \in Navigation
               /\ navs'[n].pc \in {"done", "idle"} /\ navs'[n].took = 0 /\ ~navs'[n].late
               /\ n > sequence => navs'[n] = NoNavigation
    <2>1. CASE n <= sequence
      <3>1. ~(n > sequence)
        BY <1>1, <2>1, Kinds
      <3> QED
        BY <1>3, <1>5, <2>1, <3>1
    <2>2. CASE ~(n <= sequence)
      <3>1. n > sequence
        BY <1>1, <2>2, Kinds
      <3>2. navs'[n] = NoNavigation
        BY <1>5, <2>2, <3>1 DEF KindsInv, Numbered
      <3> QED
        BY <1>1, <3>2, NoCall
    <2> QED
      BY <2>1, <2>2
  <1>7. prefetches' \in Seq(Prefetch) /\ Len(prefetches') = Len(prefetches)
    <2>1. Gone \in Prefetch
      BY <1>1, NoPrefetch
    <2>2. prefetches \in Seq(Prefetch) /\ DOMAIN prefetches = 1..Len(prefetches)
          /\ Len(prefetches) \in Nat
      BY <1>1, Kinds
    <2>3. prefetches' = [p \in 1..Len(prefetches) |-> Gone]
      BY <2>2 DEF NewDocument
    <2> QED
      BY <2>1, <2>2, <2>3
  <1> QED
    BY <1>5, <1>6, <1>7

\* One call goes on
LEMMA OneCall ==
    ASSUME KindsInv, NEW n \in 1..MaxEvents, NEW row \in Navigation,
           navs[n].pc # "idle", navs' = [navs EXCEPT ![n] = row], sequence' = sequence
    PROVE  /\ navs' \in [1..MaxEvents -> Navigation] /\ navs'[n] = row
           /\ \A m \in 1..MaxEvents : m # n => navs'[m] = navs[m]
           /\ n <= sequence
           /\ \A m \in 1..MaxEvents : m > sequence' => navs'[m] = NoNavigation
  <1>1. navs \in [1..MaxEvents -> Navigation] /\ Urls # {} /\ sequence \in Nat
    BY Kinds DEF KindsInv
  <1>2. ~(n > sequence)
    BY <1>1, NoCall DEF KindsInv, Numbered
  <1>3. n <= sequence
    BY <1>1, <1>2
  <1> QED
    BY <1>1, <1>2, <1>3 DEF KindsInv, Numbered

----------------------------------------------------------------------------
(* A navigation begins                                                      *)

LEMMA NavigateKinds ==
    ASSUME KindsInv, Event, NEW u \in Urls, NEW mode \in {"push", "pop"}, Navigate(u, mode),
           entries' = entries, at' \in 1..Len(entries), load' \in PendingLoads
    PROVE  KindsInv'
  <1>1. MorpheusTypeOK /\ Numbered /\ Urls # {}
    BY Kinds DEF KindsInv
  <1>2. cache' \in SUBSET cache
    BY DEF Navigate, TakePrefetch, CacheWithout
  <1>3. /\ cache' \subseteq Entry /\ IsFiniteSet(cache') /\ Cardinality(cache') <= CacheSize
        /\ \A e \in cache' : e.promise \in 1..Len(prefetches)
        /\ \A e, f \in cache' : e.promise = f.promise => e = f
    BY <1>2, CacheShrinks
  <1>4. /\ sequence' = sequence + 1 /\ controller' = 0 /\ loading' = TRUE
        /\ UNCHANGED <<started, prefetches, shown, now, epoch, handed, documents>>
    BY DEF Navigate
  <1>5. /\ sequence + 1 \in 1..MaxEvents /\ events' = events + 1 /\ events' \in 0..MaxEvents
        /\ navs' \in [1..MaxEvents -> Navigation]
        /\ \A n \in 1..MaxEvents : n # sequence + 1 =>
              (n # controller \/ navs[n].pc # "fetching" => navs'[n] = navs[n])
    BY NavigateCalls
  <1>6. MorpheusTypeOK'
    BY <1>1, <1>3, <1>4, <1>5, Kinds DEF MorpheusTypeOK
  <1>7. Numbered'
    <2>1. sequence' <= events'
      BY <1>1, <1>4, <1>5, Kinds DEF Numbered
    <2>2. ASSUME NEW n \in 1..MaxEvents, n > sequence' PROVE navs'[n] = NoNavigation
      <3>1. n > sequence /\ n # sequence + 1
        BY <1>1, <1>4, <2>2, Kinds
      <3>2. navs[n] = NoNavigation /\ navs[n].pc # "fetching"
        BY <1>1, <3>1, NoCall DEF Numbered
      <3> QED
        BY <1>5, <3>1, <3>2
    <2> QED
      BY <2>1, <2>2 DEF Numbered
  <1>8. OneEntryEach'
    BY <1>3, <1>4 DEF OneEntryEach
  <1> QED
    BY <1>6, <1>7, <1>8 DEF KindsInv

LEMMA NavigatePages ==
    ASSUME KindsInv, PagesInv, Event, NEW u \in Urls, NEW mode \in {"push", "pop"},
           Navigate(u, mode)
    PROVE  PagesInv'
  <1>1. /\ sequence + 1 \in 1..MaxEvents
        /\ navs'[sequence + 1] = [pc |-> "taking", url |-> u, mode |-> mode,
              took |-> Taken(u), begunAt |-> now, begunEpoch |-> epoch, late |-> FALSE]
        /\ \A n \in 1..MaxEvents : n # sequence + 1 =>
              /\ SameCall(navs'[n], navs[n])
              /\ navs'[n].pc = IF n = controller /\ navs[n].pc = "fetching"
                               THEN "aborted" ELSE navs[n].pc
    BY NavigateCalls
  <1>2. /\ cache' = {e \in cache : e.key # u}
        /\ UNCHANGED <<prefetches, epoch>>
    BY DEF Navigate, TakePrefetch, CacheWithout
  <1>3. /\ Taken(u) \in 0..Len(prefetches)
        /\ Taken(u) # 0 => \E e \in cache : /\ e.key = u /\ e.expiresAt > now
                                            /\ Taken(u) = e.promise
    BY TakenFromCache
  <1>4. \A e \in cache : e.promise \in 1..Len(prefetches)
    BY DEF KindsInv, OneEntryEach
  <1>5. \A e \in cache' : e.promise # Taken(u)
    <2> SUFFICES ASSUME NEW e \in cache, e.key # u PROVE e.promise # Taken(u)
      BY <1>2
    <2>1. CASE Taken(u) = 0
      <3>1. \A m \in Nat : \A p \in 1..m : p # 0
        OBVIOUS
      <3> QED
        BY <1>4, <2>1, <3>1, Kinds DEF KindsInv
    <2>2. CASE Taken(u) # 0
      <3>1. PICK f \in cache : f.key = u /\ Taken(u) = f.promise
        BY <1>3, <2>2
      <3> QED
        BY <3>1 DEF KindsInv, OneEntryEach
    <2> QED
      BY <2>1, <2>2
  <1>6. \A n \in 1..MaxEvents : navs[n].took # Taken(u) \/ Taken(u) = 0
    BY <1>3 DEF PagesInv, Handed
  <1>7. Handed'
    BY <1>1, <1>2, <1>3, <1>5 DEF PagesInv, Handed, SameCall
  <1>8. TakenOnce'
    <2>1. ASSUME NEW m \in 1..MaxEvents, NEW n \in 1..MaxEvents, m # n, navs'[m].took # 0
          PROVE  navs'[m].took # navs'[n].took
      <3>1. CASE m = sequence + 1
        BY <1>1, <1>6, <2>1, <3>1 DEF SameCall
      <3>2. CASE n = sequence + 1
        BY <1>1, <1>6, <2>1, <3>2 DEF SameCall
      <3>3. CASE m # sequence + 1 /\ n # sequence + 1
        BY <1>1, <2>1, <3>3 DEF PagesInv, TakenOnce, SameCall
      <3> QED
        BY <3>1, <3>2, <3>3
    <2> QED
      BY <2>1 DEF TakenOnce
  <1>9. SinceInvalidation'
    BY <1>2 DEF PagesInv, SinceInvalidation
  <1>10. FreshPages'
    <2>1. ASSUME NEW n \in 1..MaxEvents, navs'[n].pc = "taking", navs'[n].took # 0
          PROVE  /\ prefetches[navs'[n].took].askedEpoch = navs'[n].begunEpoch
                 /\ navs'[n].begunAt - prefetches[navs'[n].took].askedAt < CacheTTL
      <3>1. CASE n = sequence + 1
        <4>1. PICK e \in cache : e.expiresAt > now /\ Taken(u) = e.promise
          BY <1>1, <1>3, <2>1, <3>1
        <4>2. /\ prefetches[e.promise].askedEpoch = epoch
              /\ e.expiresAt = prefetches[e.promise].askedAt + CacheTTL
          BY DEF PagesInv, SinceInvalidation
        <4>3. e.promise \in 1..Len(prefetches) /\ prefetches \in Seq(Prefetch)
          BY <1>4, Kinds DEF KindsInv
        <4>4. prefetches[e.promise] \in Prefetch
          BY <4>3
        <4>5. prefetches[e.promise].askedAt \in Nat
          BY <4>4 DEF Prefetch
        <4>6. now - prefetches[e.promise].askedAt < CacheTTL
          <5>1. CacheTTL \in Nat /\ now \in Nat
            BY Kinds DEF KindsInv
          <5> QED
            BY <4>1, <4>2, <4>5, <5>1
        <4> QED
          BY <1>1, <3>1, <4>1, <4>2, <4>6
      <3>2. CASE n # sequence + 1
        <4>1. navs[n].pc = "taking" /\ SameCall(navs'[n], navs[n])
          BY <1>1, <2>1, <3>2
        <4> QED
          BY <2>1, <4>1 DEF PagesInv, FreshPages, SameCall
      <3> QED
        BY <3>1, <3>2
    <2> QED
      BY <1>2, <2>1 DEF FreshPages
  <1> QED
    BY <1>7, <1>8, <1>9, <1>10 DEF PagesInv

LEMMA NavigateRequests ==
    ASSUME KindsInv, RequestsInv, Event, NEW u \in Urls, NEW mode \in {"push", "pop"},
           Navigate(u, mode)
    PROVE  RequestsInv'
  <1>1. /\ sequence + 1 \in 1..MaxEvents
        /\ navs'[sequence + 1] = [pc |-> "taking", url |-> u, mode |-> mode,
              took |-> Taken(u), begunAt |-> now, begunEpoch |-> epoch, late |-> FALSE]
        /\ \A n \in 1..MaxEvents : n # sequence + 1 =>
              /\ SameCall(navs'[n], navs[n])
              /\ navs'[n].pc = IF n = controller /\ navs[n].pc = "fetching"
                               THEN "aborted" ELSE navs[n].pc
    BY NavigateCalls
  <1>2. controller' = 0
    BY DEF Navigate
  <1>3. LateAfterwards'
    <2>1. ASSUME NEW n \in 1..MaxEvents, navs'[n].pc = "taking" PROVE ~navs'[n].late
      <3>1. CASE n = sequence + 1
        BY <1>1, <3>1
      <3>2. CASE n # sequence + 1
        <4>1. navs[n].pc = "taking" /\ navs'[n].late = navs[n].late
          BY <1>1, <2>1, <3>2 DEF SameCall
        <4> QED
          BY <4>1 DEF RequestsInv, LateAfterwards
      <3> QED
        BY <3>1, <3>2
    <2> QED
      BY <2>1 DEF LateAfterwards
  <1>4. StrayRequestsAreExplained'
    <2>1. ASSUME NEW n \in 1..MaxEvents, navs'[n].pc = "fetching"
          PROVE  \E m \in 1..MaxEvents : navs'[m].late
      <3>1. n # sequence + 1
        BY <1>1, <2>1
      <3>2. navs[n].pc = "fetching" /\ n # controller
        BY <1>1, <2>1, <3>1
      <3>3. PICK m \in 1..MaxEvents : navs[m].late
        BY <3>2 DEF RequestsInv, StrayRequestsAreExplained
      <3>4. m # sequence + 1
        <4>1. sequence + 1 > sequence /\ Urls # {}
          BY Kinds DEF KindsInv
        <4>2. ~navs[sequence + 1].late
          BY <1>1, <4>1, NoCall DEF KindsInv, Numbered
        <4> QED
          BY <3>3, <4>2
      <3>5. navs'[m].late = navs[m].late
        BY <1>1, <3>4 DEF SameCall
      <3> QED
        BY <3>3, <3>5
    <2> QED
      BY <2>1 DEF StrayRequestsAreExplained
  <1> QED
    BY <1>2, <1>3, <1>4 DEF RequestsInv, ControllerIsKnown

LEMMA NavigatePlace ==
    ASSUME KindsInv, Event, NEW u \in Urls, NEW mode \in {"push", "pop"}, Navigate(u, mode)
    PROVE  PlaceInv'
  <1>1. navs'[sequence + 1].pc = "taking"
    <2>1. navs'[sequence + 1] = [pc |-> "taking", url |-> u, mode |-> mode,
              took |-> Taken(u), begunAt |-> now, begunEpoch |-> epoch, late |-> FALSE]
      BY NavigateCalls
    <2> QED
      BY <2>1
  <1>2. sequence' = sequence + 1 /\ loading' = TRUE
    BY DEF Navigate
  <1> QED
    BY <1>1, <1>2 DEF PlaceInv, LocationAgrees, CurrentCall

LEMMA NavigateStep ==
    ASSUME MorpheusInv, Event, NEW u \in Urls, NEW mode \in {"push", "pop"},
           Navigate(u, mode), entries' = entries, at' \in 1..Len(entries),
           load' \in {load, {}}
    PROVE  MorpheusInv'
  <1>1. load' \in PendingLoads
    BY DEF MorpheusInv, KindsInv, MorpheusTypeOK, PendingLoads
  <1> QED
    BY <1>1, NavigateKinds, NavigatePages, NavigateRequests, NavigatePlace DEF MorpheusInv

----------------------------------------------------------------------------
(* The browser loads a document                                             *)

LEMMA DocumentStep ==
    ASSUME MorpheusInv, NEW u \in Urls, NewDocument(u), UNCHANGED <<sequence, now, epoch>>,
           events' \in 0..MaxEvents, events' >= events,
           entries' \in Seq(Urls), at' \in 1..Len(entries'), Location' = u
    PROVE  MorpheusInv'
  <1>1. KindsInv /\ MorpheusTypeOK /\ Numbered
    BY DEF MorpheusInv, KindsInv
  <1>2. /\ navs' \in [1..MaxEvents -> Navigation]
        /\ \A n \in 1..MaxEvents :
              /\ navs'[n].pc \in {"done", "idle"} /\ navs'[n].took = 0 /\ ~navs'[n].late
              /\ n > sequence => navs'[n] = NoNavigation
        /\ prefetches' \in Seq(Prefetch) /\ Len(prefetches') = Len(prefetches)
    BY <1>1, DocumentCalls
  <1>3. /\ shown' = u /\ controller' = 0 /\ cache' = {} /\ started' = TRUE
        /\ loading' = FALSE /\ documents' = documents + 1
        /\ load' \in PendingLoads /\ handed' = FALSE
    BY DEF NewDocument, PendingLoads
  <1>4. IsFiniteSet({}) /\ Cardinality({}) = 0
    BY FS_EmptySet
  <1>5. MorpheusTypeOK'
    <2>1. /\ sequence' \in 0..MaxEvents /\ controller' \in 0..MaxEvents
          /\ now' \in Nat /\ epoch' \in Nat /\ documents' \in Nat
      BY <1>1, <1>3, Kinds DEF MorpheusTypeOK
    <2>2. cache' \subseteq Entry /\ Cardinality(cache') <= CacheSize
      BY <1>1, <1>3, <1>4, Kinds
    <2> QED
      BY <1>2, <1>3, <2>1, <2>2 DEF MorpheusTypeOK
  <1>6. Numbered'
    <2>1. sequence' <= events'
      BY <1>1, Kinds DEF Numbered
    <2> QED
      BY <1>2, <2>1 DEF Numbered
  <1>7. OneEntryEach'
    BY <1>3, <1>4 DEF OneEntryEach
  <1>8. PagesInv'
    <2>1. 0 \in 0..Len(prefetches')
      BY <1>1, <1>2, Kinds
    <2>2. Handed' /\ SinceInvalidation'
      BY <1>2, <1>3, <2>1 DEF Handed, SinceInvalidation
    <2>3. TakenOnce' /\ FreshPages'
      BY <1>2 DEF TakenOnce, FreshPages
    <2> QED
      BY <2>2, <2>3 DEF PagesInv
  <1>9. RequestsInv'
    BY <1>2, <1>3
       DEF RequestsInv, ControllerIsKnown, LateAfterwards, StrayRequestsAreExplained
  <1>10. PlaceInv'
    <2>1. sequence' # 0 => sequence' \in 1..MaxEvents
      BY <1>1, Kinds DEF MorpheusTypeOK
    <2>2. sequence' # 0 => navs'[sequence'].pc \in {"done", "idle"}
      BY <1>2, <2>1
    <2> QED
      BY <1>3, <2>2 DEF PlaceInv, LocationAgrees, CurrentCall
  <1> QED
    BY <1>5, <1>6, <1>7, <1>8, <1>9, <1>10 DEF MorpheusInv, KindsInv

\* What is pending has an address, and one load takes the place of another
LEMMA PendingLoad ==
    ASSUME MorpheusTypeOK
    PROVE  /\ \A l \in load : l.url \in Urls
           /\ \A u \in Urls, replace \in BOOLEAN :
                 FullLoad(u, replace) => load' \in PendingLoads /\ Given' = {u}
  <1>1. \A l \in load : l.url \in Urls
    BY DEF MorpheusTypeOK, PendingLoads, Loads
  <1>2. ASSUME NEW u \in Urls, NEW replace \in BOOLEAN, FullLoad(u, replace)
        PROVE  load' \in PendingLoads /\ Given' = {u}
    <2>1. PICK l \in Loads : l.url = u /\ load' = {l}
      <3>1. (replace \/ u = Location) \in BOOLEAN
        OBVIOUS
      <3> QED
        BY <1>2, <3>1 DEF FullLoad, Loads
    <2> QED
      BY <2>1 DEF PendingLoads, Given
  <1> QED
    BY <1>1, <1>2

LEMMA LoadArrivesStep ==
    ASSUME MorpheusInv, LoadArrives
    PROVE  MorpheusInv'
  <1>1. MorpheusTypeOK
    BY DEF MorpheusInv, KindsInv
  <1>2. PICK l \in load :
           /\ NewDocument(l.url) /\ UNCHANGED <<sequence, now, epoch, events>>
           /\ \/ entries' = Pushed(l.url) /\ at' = at + 1
              \/ entries' = [entries EXCEPT ![at] = l.url] /\ at' = at
    BY DEF LoadArrives
  <1>3. l.url \in Urls
    BY <1>1, PendingLoad
  <1>4. entries' \in Seq(Urls) /\ at' \in 1..Len(entries') /\ Location' = l.url
    BY <1>1, <1>2, <1>3, Addressed
  <1>5. events' \in 0..MaxEvents /\ events' >= events
    BY <1>1, <1>2, Kinds DEF MorpheusTypeOK
  <1> QED
    BY <1>2, <1>3, <1>4, <1>5, DocumentStep

----------------------------------------------------------------------------
(* A call goes on without taking anything new                               *)

CallKeeps(n, row) ==
    /\ navs' = [navs EXCEPT ![n] = row]
    /\ row.took = navs[n].took
    /\ row.pc \notin {"idle", "taking"}
    /\ navs[n].late => row.late
    /\ UNCHANGED <<sequence, prefetches, cache, started, now, epoch, documents, events>>

LEMMA CallKinds ==
    ASSUME KindsInv, NEW n \in 1..MaxEvents, NEW row \in Navigation, navs[n].pc # "idle",
           CallKeeps(n, row), controller' \in {controller, n}, loading' \in BOOLEAN,
           entries' \in Seq(Urls), at' \in 1..Len(entries'), shown' \in Urls,
           load' \in PendingLoads, handed' \in BOOLEAN
    PROVE  KindsInv'
  <1>1. MorpheusTypeOK
    BY DEF KindsInv
  <1>2. /\ navs' \in [1..MaxEvents -> Navigation]
        /\ \A m \in 1..MaxEvents : m > sequence' => navs'[m] = NoNavigation
    BY OneCall DEF CallKeeps
  <1>3. controller' \in 0..MaxEvents
    BY <1>1, Kinds DEF MorpheusTypeOK
  <1>4. MorpheusTypeOK'
    BY <1>1, <1>2, <1>3 DEF MorpheusTypeOK, CallKeeps
  <1>5. Numbered'
    BY <1>2 DEF Numbered, KindsInv, CallKeeps
  <1>6. OneEntryEach'
    BY DEF OneEntryEach, KindsInv, CallKeeps
  <1> QED
    BY <1>4, <1>5, <1>6 DEF KindsInv

LEMMA CallPages ==
    ASSUME KindsInv, PagesInv, NEW n \in 1..MaxEvents, NEW row \in Navigation,
           navs[n].pc # "idle", CallKeeps(n, row)
    PROVE  PagesInv'
  <1>1. /\ navs'[n] = row /\ row.took = navs[n].took /\ row.pc # "taking"
        /\ \A m \in 1..MaxEvents : m # n => navs'[m] = navs[m]
    BY OneCall DEF CallKeeps
  <1>2. \A m \in 1..MaxEvents : navs'[m].took = navs[m].took
    BY <1>1
  <1>3. UNCHANGED <<prefetches, cache, epoch>>
    BY DEF CallKeeps
  <1>4. Handed' /\ TakenOnce' /\ SinceInvalidation'
    BY <1>2, <1>3 DEF PagesInv, Handed, TakenOnce, SinceInvalidation
  <1>5. FreshPages'
    BY <1>1, <1>3 DEF PagesInv, FreshPages
  <1> QED
    BY <1>4, <1>5 DEF PagesInv

\* Either no request is sent, or it is sent under a controller of the call's own
LEMMA CallRequests ==
    ASSUME KindsInv, RequestsInv, NEW n \in 1..MaxEvents, NEW row \in Navigation,
           navs[n].pc # "idle", CallKeeps(n, row),
           \/ controller' = controller /\ row.pc # "fetching"
           \/ /\ controller' = n /\ navs[n].pc = "taking"
              /\ row.late = (n # sequence)
    PROVE  RequestsInv'
  <1>1. /\ navs'[n] = row /\ n <= sequence /\ row.pc \notin {"idle", "taking"}
        /\ \A m \in 1..MaxEvents : m # n => navs'[m] = navs[m]
    BY OneCall DEF CallKeeps
  <1>2. \A m \in 1..MaxEvents : navs[m].late => navs'[m].late
    BY <1>1 DEF CallKeeps
  <1>3. sequence' = sequence
    BY DEF CallKeeps
  <1>4. controller \in 0..MaxEvents /\ MaxEvents \in Nat
    BY Kinds DEF KindsInv, MorpheusTypeOK
  <1>5. LateAfterwards'
    BY <1>1 DEF RequestsInv, LateAfterwards
  <1>6. CASE controller' = controller /\ row.pc # "fetching"
    <2>1. ControllerIsKnown'
      BY <1>1, <1>2, <1>3, <1>4, <1>6 DEF RequestsInv, ControllerIsKnown
    <2>2. StrayRequestsAreExplained'
      BY <1>1, <1>2, <1>6 DEF RequestsInv, StrayRequestsAreExplained
    <2> QED
      BY <1>5, <2>1, <2>2 DEF RequestsInv
  <1>7. CASE controller' = n /\ navs[n].pc = "taking" /\ row.late = (n # sequence)
    <2>1. ControllerIsKnown'
      BY <1>1, <1>3, <1>7 DEF ControllerIsKnown
    <2>2. ASSUME NEW m \in 1..MaxEvents, navs'[m].pc = "fetching", m # controller'
          PROVE  \E k \in 1..MaxEvents : navs'[k].late
      <3>1. navs[m].pc = "fetching"
        BY <1>1, <1>7, <2>2
      <3>2. CASE m # controller
        BY <1>2, <3>1, <3>2 DEF RequestsInv, StrayRequestsAreExplained
      <3>3. CASE m = controller
        <4>1. controller \in 1..MaxEvents /\ controller # 0
          BY <1>4, <3>3
        <4>2. controller = sequence \/ navs[controller].late
          BY <4>1 DEF RequestsInv, ControllerIsKnown
        <4>3. CASE controller = sequence
          BY <1>1, <1>7, <2>2, <3>3, <4>3
        <4>4. CASE navs[controller].late
          BY <1>2, <4>1, <4>4
        <4> QED
          BY <4>2, <4>3, <4>4
      <3> QED
        BY <3>2, <3>3
    <2>3. StrayRequestsAreExplained'
      BY <2>2 DEF StrayRequestsAreExplained
    <2> QED
      BY <1>5, <2>1, <2>3 DEF RequestsInv
  <1> QED
    BY <1>6, <1>7

\* A call ends the loading state, or moves to the frame, only as the current one, or
\* leaves the page to the browser
LEMMA CallPlace ==
    ASSUME KindsInv, PlaceInv, NEW n \in 1..MaxEvents, NEW row \in Navigation,
           navs[n].pc # "idle", CallKeeps(n, row), row.pc # "aborted",
           \/ /\ UNCHANGED <<entries, at, shown, loading, handed>>
              /\ row.pc # "frame"
           \/ handed'
           \/ /\ UNCHANGED <<entries, at, shown, handed>>
              /\ navs[n].pc \in {"frame", "aborted"} /\ row.pc # "frame"
              /\ loading' = (loading /\ n # sequence)
           \/ n = sequence /\ shown' = Location' /\ loading' = loading
    PROVE  PlaceInv'
  <1>1. /\ navs'[n] = row /\ n <= sequence
        /\ \A m \in 1..MaxEvents : m # n => navs'[m] = navs[m]
    BY OneCall DEF CallKeeps
  <1>2. sequence' = sequence /\ started' = started
    BY DEF CallKeeps
  <1>3. sequence # 0 => sequence \in 1..MaxEvents
    BY Kinds DEF KindsInv, MorpheusTypeOK
  <1>4. n # 0 /\ sequence # 0
    BY <1>1, Kinds DEF KindsInv
  <1>5. CASE UNCHANGED <<entries, at, shown, loading, handed>> /\ row.pc # "frame"
    <2>1. Location' = Location
      BY <1>5 DEF Location
    <2> QED
      BY <1>1, <1>2, <1>3, <1>5, <2>1 DEF PlaceInv, LocationAgrees, CurrentCall
  <1>6. CASE /\ UNCHANGED <<entries, at, shown, handed>>
             /\ navs[n].pc \in {"frame", "aborted"} /\ row.pc # "frame"
             /\ loading' = (loading /\ n # sequence)
    <2>1. Location' = Location
      BY <1>6 DEF Location
    <2>2. CurrentCall'
      BY <1>1, <1>2, <1>3, <1>6, <2>1 DEF PlaceInv, CurrentCall
    <2>3. CASE n = sequence
      BY <1>2, <1>4, <1>6, <2>1, <2>2, <2>3 DEF PlaceInv, LocationAgrees, CurrentCall
    <2>4. CASE n # sequence
      BY <1>2, <1>6, <2>1, <2>2, <2>4 DEF PlaceInv, LocationAgrees, KindsInv, MorpheusTypeOK
    <2> QED
      BY <2>3, <2>4
  <1>7. CASE n = sequence /\ shown' = Location' /\ loading' = loading
    BY <1>1, <1>2, <1>7 DEF PlaceInv, LocationAgrees, CurrentCall
  <1>8. CASE handed'
    BY <1>1, <1>2, <1>3, <1>8 DEF PlaceInv, LocationAgrees, CurrentCall
  <1> QED
    BY <1>5, <1>6, <1>7, <1>8

LEMMA SupersededStep ==
    ASSUME MorpheusInv, NEW n \in 1..MaxEvents, navs[n].pc # "idle", Superseded(n)
    PROVE  MorpheusInv'
  <1>1. MorpheusTypeOK /\ KindsInv /\ navs[n] \in Navigation /\ Urls # {}
    BY Kinds DEF MorpheusInv, KindsInv
  <1>2. PICK row \in Navigation :
           row = Returned(navs[n]) /\ IsReturned(row, navs[n].took, navs[n].late)
    BY <1>1, ReturnedRow
  <1>3. CallKeeps(n, row) /\ UNCHANGED <<controller, loading, entries, at, shown, load, handed>>
    BY <1>2 DEF Superseded, CallKeeps, IsReturned
  <1>4. row.pc = "done"
    BY <1>2 DEF IsReturned
  <1>5. KindsInv'
    BY <1>1, <1>3, CallKinds DEF MorpheusTypeOK
  <1> QED
    BY <1>1, <1>3, <1>4, <1>5, CallPages, CallRequests, CallPlace DEF MorpheusInv

LEMMA EndStep ==
    ASSUME MorpheusInv, NEW n \in 1..MaxEvents, AbortReaches(n) \/ Frame(n)
    PROVE  MorpheusInv'
  <1>1. MorpheusTypeOK /\ KindsInv /\ navs[n] \in Navigation /\ Urls # {}
    BY Kinds DEF MorpheusInv, KindsInv
  <1>2. PICK row \in Navigation :
           row = Returned(navs[n]) /\ IsReturned(row, navs[n].took, navs[n].late)
    BY <1>1, ReturnedRow
  <1>3. /\ CallKeeps(n, row) /\ UNCHANGED <<controller, entries, at, shown, load, handed>>
        /\ navs[n].pc \in {"frame", "aborted"} /\ loading' = (loading /\ n # sequence)
    BY <1>2 DEF AbortReaches, Frame, CallKeeps, IsReturned
  <1>4. row.pc = "done"
    BY <1>2 DEF IsReturned
  <1>5. KindsInv'
    BY <1>1, <1>3, CallKinds DEF MorpheusTypeOK
  <1> QED
    BY <1>1, <1>3, <1>4, <1>5, CallPages, CallRequests, CallPlace DEF MorpheusInv

LEMMA MorphStep ==
    ASSUME MorpheusInv, NEW n \in 1..MaxEvents, navs[n].pc # "idle", n = sequence,
           NEW u \in Urls, Morph(n, u)
    PROVE  MorpheusInv'
  <1>1. MorpheusTypeOK /\ KindsInv /\ navs[n] \in Navigation /\ Urls # {}
    BY Kinds DEF MorpheusInv, KindsInv
  <1>2. PICK row : row = [navs[n] EXCEPT !.pc = "frame"]
    OBVIOUS
  <1>3. row \in Navigation /\ row.pc = "frame" /\ SameCall(row, navs[n])
    BY <1>1, <1>2, Waiting DEF Waits
  <1>4. CallKeeps(n, row) /\ UNCHANGED <<controller, loading, load>> /\ shown' = u /\ handed' = FALSE
    <2>1. navs' = [navs EXCEPT ![n] = row]
      BY <1>2 DEF Morph
    <2> QED
      BY <1>3, <2>1 DEF Morph, CallKeeps, SameCall
  <1>5. \/ entries' = Pushed(u) /\ at' = at + 1
        \/ entries' = [entries EXCEPT ![at] = u] /\ at' = at
    BY DEF Morph, UpdateHistory
  <1>6. entries' \in Seq(Urls) /\ at' \in 1..Len(entries') /\ Location' = u
    BY <1>1, <1>5, Addressed
  <1>7. KindsInv'
    BY <1>1, <1>3, <1>4, <1>6, CallKinds DEF MorpheusTypeOK
  <1> QED
    BY <1>1, <1>3, <1>4, <1>6, <1>7, CallPages, CallRequests, CallPlace DEF MorpheusInv

LEMMA RequestStep ==
    ASSUME MorpheusInv, NEW n \in 1..MaxEvents, ResumeWithout(n)
    PROVE  MorpheusInv'
  <1>1. MorpheusTypeOK /\ KindsInv /\ navs[n] \in Navigation /\ Urls # {}
    BY Kinds DEF MorpheusInv, KindsInv
  <1>2. PICK row : row = [navs[n] EXCEPT !.pc = "fetching", !.late = n # sequence]
    OBVIOUS
  <1>3. row \in Navigation /\ row.pc = "fetching" /\ row.took = navs[n].took
        /\ row.late = (n # sequence)
    BY <1>1, <1>2 DEF Navigation, Waits
  <1>4. navs[n].pc = "taking" /\ ~navs[n].late
    BY DEF ResumeWithout, MorpheusInv, RequestsInv, LateAfterwards
  <1>5. /\ CallKeeps(n, row) /\ controller' = n
        /\ UNCHANGED <<loading, entries, at, shown, load, handed>>
    <2>1. navs' = [navs EXCEPT ![n] = row]
      BY <1>2 DEF ResumeWithout
    <2> QED
      BY <1>3, <1>4, <2>1 DEF ResumeWithout, CallKeeps
  <1>6. KindsInv'
    BY <1>1, <1>3, <1>4, <1>5, CallKinds DEF MorpheusTypeOK
  <1> QED
    BY <1>1, <1>3, <1>4, <1>5, <1>6, CallPages, CallRequests, CallPlace DEF MorpheusInv

----------------------------------------------------------------------------
(* Steps that touch the cache only, and stop                                *)

\* What matters to requests and place is as it was
LEMMA CallsRest ==
    ASSUME MorpheusInv,
           UNCHANGED <<sequence, controller, navs, started, loading, entries, at, shown,
                       handed>>
    PROVE  RequestsInv' /\ PlaceInv'
  <1>1. RequestsInv'
    BY DEF MorpheusInv, RequestsInv, ControllerIsKnown, LateAfterwards,
           StrayRequestsAreExplained
  <1>2. Location' = Location
    BY DEF Location
  <1> QED
    BY <1>1, <1>2 DEF MorpheusInv, PlaceInv, LocationAgrees, CurrentCall

LEMMA PrefetchIntentStep ==
    ASSUME MorpheusInv, NEW u \in Urls, PrefetchIntent(u)
    PROVE  MorpheusInv'
  <1> DEFINE size == Len(prefetches)
             new == [key |-> u, promise |-> size + 1, expiresAt |-> now + CacheTTL]
             ask == [key |-> u, result |-> Pending, askedAt |-> now, askedEpoch |-> epoch]
             all == CacheWithout(u) \cup {new}
  <1>1. MorpheusTypeOK /\ KindsInv /\ Numbered /\ PagesInv
    BY DEF MorpheusInv, KindsInv
  <1>2. /\ prefetches \in Seq(Prefetch) /\ size \in Nat /\ now \in Nat /\ epoch \in Nat
        /\ CacheTTL \in Nat
    BY <1>1, Kinds
  <1>3. ask \in Prefetch /\ new \in Entry
    BY <1>2 DEF Prefetch, Entry
  <1>4. /\ prefetches' = Append(prefetches, ask) /\ cache' = Pruned(all)
        /\ UNCHANGED <<sequence, controller, navs, started, loading, entries, at, shown,
                       now, epoch, load, handed, documents>>
        /\ events' \in 0..MaxEvents /\ events' = events + 1
    BY <1>1, Kinds DEF PrefetchIntent, Event, MorpheusTypeOK
  <1>5. /\ prefetches' \in Seq(Prefetch) /\ Len(prefetches') = size + 1
        /\ prefetches'[size + 1] = ask
        /\ \A p \in 1..size : prefetches'[p] = prefetches[p]
    BY <1>2, <1>3, <1>4, AppendProperties
  <1>6. CacheWithout(u) \in SUBSET cache
    BY DEF CacheWithout
  <1>7. /\ CacheWithout(u) \subseteq Entry /\ IsFiniteSet(CacheWithout(u))
        /\ \A e \in CacheWithout(u) : e.promise \in 1..size
        /\ \A e, f \in CacheWithout(u) : e.promise = f.promise => e = f
    BY <1>1, <1>6, CacheShrinks
  <1>8. new.promise = size + 1 /\ new.expiresAt = now + CacheTTL
    OBVIOUS
  <1> HIDE DEF new, ask, size
  <1>9. all \in SUBSET Entry /\ IsFiniteSet(all)
    BY <1>3, <1>7, FS_AddElement
  <1>10. \A e, f \in all : e.promise = f.promise => e = f
    BY <1>2, <1>7, <1>8
  <1>11. cache' \subseteq all /\ IsFiniteSet(cache') /\ Cardinality(cache') <= CacheSize
    BY <1>4, <1>9, <1>10, PrunedFits
  <1>12. \A e \in cache' : (e \in cache /\ e.promise \in 1..size) \/ e = new
    BY <1>6, <1>7, <1>11
  <1>13. KindsInv'
    <2>1. MorpheusTypeOK'
      BY <1>1, <1>4, <1>5, <1>9, <1>11 DEF MorpheusTypeOK
    <2>2. Numbered'
      BY <1>1, <1>4, Kinds DEF Numbered
    <2>3. \A e \in cache' : e.promise \in 1..(size + 1)
      BY <1>2, <1>8, <1>12
    <2>4. OneEntryEach'
      BY <1>5, <1>10, <1>11, <2>3 DEF OneEntryEach
    <2> QED
      BY <2>1, <2>2, <2>4 DEF KindsInv
  <1>14. \A n \in 1..MaxEvents : navs[n].took \in 0..size /\ \A e \in cache : e.promise # navs[n].took
    BY <1>1 DEF PagesInv, Handed, size
  <1>15. Handed'
    <2>1. ASSUME NEW n \in 1..MaxEvents
          PROVE  navs[n].took \in 0..(size + 1) /\ \A e \in cache' : e.promise # navs[n].took
      BY <1>2, <1>8, <1>12, <1>14
    <2> QED
      BY <1>4, <1>5, <2>1 DEF Handed
  <1>16. SinceInvalidation'
    <2>1. ASSUME NEW e \in cache'
          PROVE  /\ prefetches'[e.promise].askedEpoch = epoch
                 /\ e.expiresAt = prefetches'[e.promise].askedAt + CacheTTL
      <3>1. CASE e = new
        BY <1>5, <1>8, <3>1 DEF ask
      <3>2. CASE e \in cache /\ e.promise \in 1..size
        BY <1>1, <1>5, <3>2 DEF PagesInv, SinceInvalidation
      <3> QED
        BY <1>12, <3>1, <3>2
    <2> QED
      BY <1>4, <2>1 DEF SinceInvalidation
  <1>17. FreshPages'
    <2>1. ASSUME NEW n \in 1..MaxEvents, navs[n].pc = "taking", navs[n].took # 0
          PROVE  /\ prefetches'[navs[n].took].askedEpoch = navs[n].begunEpoch
                 /\ navs[n].begunAt - prefetches'[navs[n].took].askedAt < CacheTTL
      <3>1. navs[n].took \in 1..size
        BY <1>2, <1>14, <2>1
      <3> QED
        BY <1>1, <1>5, <2>1, <3>1 DEF PagesInv, FreshPages
    <2> QED
      BY <1>4, <2>1 DEF FreshPages
  <1>18. TakenOnce'
    BY <1>1, <1>4 DEF PagesInv, TakenOnce
  <1> QED
    BY <1>4, <1>13, <1>15, <1>16, <1>17, <1>18, CallsRest DEF MorpheusInv, PagesInv

\* A prefetch settles, the cache is cleared, time passes, or the browser loads
LEMMA CacheStep ==
    ASSUME MorpheusInv,
           UNCHANGED <<sequence, controller, navs, started, loading, entries, at, shown,
                       handed, documents>>,
           load' \in PendingLoads,
           prefetches' \in Seq(Prefetch), Len(prefetches') = Len(prefetches),
           \A p \in 1..Len(prefetches) :
              /\ prefetches'[p].askedAt = prefetches[p].askedAt
              /\ prefetches'[p].askedEpoch = prefetches[p].askedEpoch,
           cache' \subseteq cache, now' \in Nat, epoch' \in Nat,
           epoch' = epoch \/ cache' = {},
           events' \in 0..MaxEvents, events' >= events
    PROVE  MorpheusInv'
  <1>1. MorpheusTypeOK /\ KindsInv /\ Numbered /\ PagesInv
    BY DEF MorpheusInv, KindsInv
  <1>2. /\ cache' \subseteq Entry /\ IsFiniteSet(cache') /\ Cardinality(cache') <= CacheSize
        /\ \A e \in cache' : e.promise \in 1..Len(prefetches)
        /\ \A e, f \in cache' : e.promise = f.promise => e = f
    <2>1. cache' \in SUBSET cache
      OBVIOUS
    <2> QED
      BY <1>1, <2>1, CacheShrinks
  <1>3. KindsInv'
    <2>1. MorpheusTypeOK'
      BY <1>1, <1>2 DEF MorpheusTypeOK
    <2>2. Numbered'
      BY <1>1, Kinds DEF Numbered, MorpheusTypeOK
    <2> QED
      BY <1>2, <2>1, <2>2 DEF KindsInv, OneEntryEach
  <1>4. Handed' /\ TakenOnce'
    BY <1>1 DEF PagesInv, Handed, TakenOnce
  <1>5. SinceInvalidation'
    BY <1>1, <1>2 DEF PagesInv, SinceInvalidation
  <1>6. FreshPages'
    <2>1. ASSUME NEW n \in 1..MaxEvents, navs[n].pc = "taking", navs[n].took # 0
          PROVE  /\ prefetches'[navs[n].took].askedEpoch = navs[n].begunEpoch
                 /\ navs[n].begunAt - prefetches'[navs[n].took].askedAt < CacheTTL
      <3>1. navs[n].took \in 1..Len(prefetches)
        <4>1. navs[n].took \in 0..Len(prefetches)
          BY <1>1, <2>1 DEF PagesInv, Handed
        <4>2. Len(prefetches) \in Nat
          BY <1>1, Kinds
        <4> QED
          BY <2>1, <4>1, <4>2
      <3> QED
        BY <1>1, <2>1, <3>1 DEF PagesInv, FreshPages
    <2> QED
      BY <2>1 DEF FreshPages
  <1> QED
    BY <1>3, <1>4, <1>5, <1>6, CallsRest DEF MorpheusInv, PagesInv

LEMMA PrefetchSettlesStep ==
    ASSUME MorpheusInv, NEW p \in DOMAIN prefetches, NEW o \in Outcomes, PrefetchSettles(p, o)
    PROVE  MorpheusInv'
  <1>1. MorpheusTypeOK /\ Numbered
    BY DEF MorpheusInv, KindsInv
  <1>2. prefetches \in Seq(Prefetch) /\ p \in 1..Len(prefetches) /\ prefetches[p] \in Prefetch
    BY <1>1, Kinds
  <1>3. PICK row : row = [prefetches[p] EXCEPT !.result = IF o.cacheable THEN o ELSE Failed]
    OBVIOUS
  <1>4. /\ row \in Prefetch /\ row.askedAt = prefetches[p].askedAt
        /\ row.askedEpoch = prefetches[p].askedEpoch
    BY <1>2, <1>3 DEF Prefetch
  <1>5. prefetches' = [prefetches EXCEPT ![p] = row]
    BY <1>3 DEF PrefetchSettles
  <1>6. prefetches' \in Seq(Prefetch) /\ Len(prefetches') = Len(prefetches)
    BY <1>2, <1>4, <1>5, ExceptSeq
  <1>7. \A q \in 1..Len(prefetches) :
              /\ prefetches'[q].askedAt = prefetches[q].askedAt
              /\ prefetches'[q].askedEpoch = prefetches[q].askedEpoch
    BY <1>2, <1>4, <1>5
  <1>8. cache' \subseteq cache
    BY DEF PrefetchSettles, CacheWithout
  <1>9. UNCHANGED <<sequence, controller, navs, started, loading, entries, at, shown, now,
                    epoch, load, handed, documents, events>>
    BY DEF PrefetchSettles
  <1>10. load' \in PendingLoads
    BY <1>1, <1>9 DEF MorpheusTypeOK
  <1>11. now' \in Nat /\ epoch' \in Nat /\ events' \in 0..MaxEvents /\ events' >= events
    BY <1>1, <1>9, Kinds DEF MorpheusTypeOK
  <1> QED
    BY <1>6, <1>7, <1>8, <1>9, <1>10, <1>11, CacheStep

LEMMA ClockStep ==
    ASSUME MorpheusInv, Invalidate \/ Tick
    PROVE  MorpheusInv'
  <1>1. MorpheusTypeOK
    BY DEF MorpheusInv, KindsInv
  <1>2. /\ UNCHANGED <<sequence, controller, navs, prefetches, started, loading, entries, at,
                       shown, load, handed, documents>>
        /\ cache' \subseteq cache
        /\ epoch' = epoch \/ cache' = {}
    BY DEF Invalidate, Tick, ClearCache
  <1>3. now' \in Nat /\ epoch' \in Nat /\ events' \in 0..MaxEvents /\ events' >= events
    <2>1. Event /\ now' \in {now, now + 1} /\ epoch' \in {epoch, epoch + 1}
      BY DEF Invalidate, Tick
    <2>2. now \in Nat /\ epoch \in Nat /\ events \in 0..MaxEvents /\ MaxEvents \in Nat
      BY <1>1, Kinds DEF MorpheusTypeOK
    <2> QED
      BY <2>1, <2>2 DEF Event
  <1>4. prefetches \in Seq(Prefetch) /\ load \in PendingLoads
    BY <1>1, Kinds DEF MorpheusTypeOK
  <1> QED
    BY <1>2, <1>3, <1>4, CacheStep

LEMMA StopStep ==
    ASSUME MorpheusInv, Stop
    PROVE  MorpheusInv'
  <1>1. MorpheusTypeOK /\ KindsInv /\ Numbered /\ PagesInv /\ RequestsInv /\ PlaceInv /\ Urls # {}
    BY Kinds DEF MorpheusInv, KindsInv
  <1>2. /\ navs' \in [1..MaxEvents -> Navigation]
        /\ \A n \in 1..MaxEvents :
              /\ SameCall(navs'[n], navs[n])
              /\ navs'[n].pc = IF n = controller /\ navs[n].pc = "fetching"
                               THEN "aborted" ELSE navs[n].pc
              /\ n # controller \/ navs[n].pc # "fetching" => navs'[n] = navs[n]
    <2>1. PICK calls : calls = Abort(navs)
      OBVIOUS
    <2>2. /\ calls \in [1..MaxEvents -> Navigation]
          /\ \A n \in 1..MaxEvents :
                 /\ SameCall(calls[n], navs[n])
                 /\ calls[n].pc = IF n = controller /\ navs[n].pc = "fetching"
                                  THEN "aborted" ELSE navs[n].pc
                 /\ n # controller \/ navs[n].pc # "fetching" => calls[n] = navs[n]
      BY <1>1, <2>1, AbortRows
    <2>3. navs' = calls
      BY <2>1 DEF Stop
    <2> QED
      BY <2>2, <2>3
  <1>3. /\ started' = FALSE /\ events' = events + 1 /\ events' \in 0..MaxEvents
        /\ UNCHANGED <<sequence, controller, prefetches, cache, loading, entries, at, shown,
                       now, epoch, load, handed, documents>>
    BY <1>1, Kinds DEF Stop, Event, MorpheusTypeOK
  <1>4. KindsInv'
    <2>1. MorpheusTypeOK'
      BY <1>1, <1>2, <1>3 DEF MorpheusTypeOK
    <2>2. ASSUME NEW n \in 1..MaxEvents, n > sequence PROVE navs'[n] = NoNavigation
      <3>1. navs[n] = NoNavigation
        BY <1>1, <2>2 DEF Numbered
      <3> QED
        BY <1>1, <1>2, <3>1, NoCall
    <2>3. Numbered'
      BY <1>1, <1>3, <2>2, Kinds DEF Numbered
    <2> QED
      BY <1>1, <1>3, <2>1, <2>3 DEF KindsInv, OneEntryEach
  <1>5. PagesInv'
    <2>1. \A n \in 1..MaxEvents : navs'[n].took = navs[n].took
      BY <1>2 DEF SameCall
    <2>2. Handed' /\ TakenOnce' /\ SinceInvalidation'
      BY <1>1, <1>3, <2>1 DEF PagesInv, Handed, TakenOnce, SinceInvalidation
    <2>3. \A n \in 1..MaxEvents : navs'[n].pc = "taking" => navs[n].pc = "taking"
      BY <1>2
    <2>4. FreshPages'
      BY <1>1, <1>2, <1>3, <2>3 DEF PagesInv, FreshPages, SameCall
    <2> QED
      BY <2>2, <2>4 DEF PagesInv
  <1>6. RequestsInv'
    <2>1. \A n \in 1..MaxEvents : navs'[n].late = navs[n].late
      BY <1>2 DEF SameCall
    <2>2. \A n \in 1..MaxEvents : navs'[n].pc \in {"taking", "idle"} => navs'[n].pc = navs[n].pc
      BY <1>2
    <2>3. \A n \in 1..MaxEvents : navs'[n].pc = "fetching" => navs[n].pc = "fetching"
      BY <1>2
    <2>4. controller # 0 => controller \in 1..MaxEvents
      BY <1>1, Kinds DEF MorpheusTypeOK
    <2>5. ControllerIsKnown'
      BY <1>1, <1>3, <2>1, <2>2, <2>4 DEF RequestsInv, ControllerIsKnown
    <2> QED
      BY <1>1, <1>3, <2>1, <2>2, <2>3, <2>5
         DEF RequestsInv, LateAfterwards, StrayRequestsAreExplained
  <1>7. PlaceInv'
    <2>1. sequence # 0 => sequence \in 1..MaxEvents
      BY <1>1, Kinds DEF MorpheusTypeOK
    <2>2. sequence # 0 /\ navs'[sequence].pc = "frame" => navs[sequence].pc = "frame"
      BY <1>2, <2>1
    <2>3. Location' = Location
      BY <1>3 DEF Location
    <2> QED
      BY <1>1, <1>3, <2>2, <2>3 DEF PlaceInv, LocationAgrees, CurrentCall
  <1> QED
    BY <1>4, <1>5, <1>6, <1>7 DEF MorpheusInv

----------------------------------------------------------------------------
(* The steps of a call that has a page or an answer                         *)

LEMMA FallbackStep ==
    ASSUME MorpheusInv, NEW n \in 1..MaxEvents, navs[n].pc # "idle", NEW u \in Urls,
           Fallback(n, u)
    PROVE  MorpheusInv'
  <1>1. MorpheusTypeOK /\ KindsInv /\ navs[n] \in Navigation /\ Urls # {}
    BY Kinds DEF MorpheusInv, KindsInv
  <1>2. PICK row \in Navigation :
           row = Returned(navs[n]) /\ IsReturned(row, navs[n].took, navs[n].late)
    BY <1>1, ReturnedRow
  <1>3. /\ CallKeeps(n, row) /\ UNCHANGED <<controller, entries, at, shown>>
        /\ loading' = FALSE /\ handed' = TRUE
    BY <1>2 DEF Fallback, CallKeeps, IsReturned
  <1>4. load' \in PendingLoads
    <2>1. PICK replace \in BOOLEAN : replace = (navs[n].mode = "pop")
      OBVIOUS
    <2>2. FullLoad(u, replace)
      BY <2>1 DEF Fallback
    <2> QED
      BY <1>1, <2>2, PendingLoad
  <1>5. row.pc = "done"
    BY <1>2 DEF IsReturned
  <1>6. KindsInv'
    BY <1>1, <1>3, <1>4, CallKinds DEF MorpheusTypeOK
  <1> QED
    BY <1>1, <1>3, <1>5, <1>6, CallPages, CallRequests, CallPlace DEF MorpheusInv

LEMMA UsePageStep ==
    ASSUME MorpheusInv, NEW n \in 1..MaxEvents, navs[n].pc # "idle", NEW u \in Urls,
           UsePage(n, u)
    PROVE  MorpheusInv'
  <1>1. navs[n] \in Navigation
    BY Kinds DEF MorpheusInv, KindsInv
  <1>2. navs[n].url \in Urls
    BY <1>1 DEF Navigation
  <1> QED
    BY <1>2, MorphStep, FallbackStep, SupersededStep DEF UsePage

LEMMA ProgressStep ==
    ASSUME MorpheusInv, NEW n \in 1..MaxEvents, Progress(n)
    PROVE  MorpheusInv'
  <1>1. navs[n] \in Navigation /\ Urls # {} /\ prefetches \in Seq(Prefetch)
    BY Kinds DEF MorpheusInv, KindsInv
  <1>2. navs[n].url \in Urls
    BY <1>1 DEF Navigation
  <1>3. CASE ResumeWithPrefetch(n)
    <2>1. navs[n].pc = "taking" /\ navs[n].took # 0
      BY <1>3 DEF ResumeWithPrefetch
    <2>2. navs[n].took \in 1..Len(prefetches)
      BY <2>1, Kinds DEF MorpheusInv, KindsInv, PagesInv, Handed
    <2>3. prefetches[navs[n].took] \in Prefetch
      BY <1>1, <2>2
    <2>4. PICK page : page = prefetches[navs[n].took].result
      OBVIOUS
    <2>5. page \in Outcomes \cup {Pending, Failed}
      BY <2>3, <2>4 DEF Prefetch
    <2>6. page.url \in Urls
      BY <1>1, <2>5, NoPrefetch
    <2>7. UsePage(n, page.url)
      BY <1>3, <2>4 DEF ResumeWithPrefetch
    <2> QED
      BY <2>1, <2>6, <2>7, UsePageStep
  <1>4. CASE ResumeWithout(n)
    BY <1>4, RequestStep
  <1>5. ASSUME NEW o \in Outcomes, Respond(n, o) PROVE MorpheusInv'
    <2>1. navs[n].pc # "idle" /\ o.url \in Urls
      BY <1>1, <1>5, NoPrefetch DEF Respond
    <2>2. o.kind \in {"page", "reload", "fallback", "error"}
      BY DEF Outcomes
    <2>3. UsePage(n, o.url) \/ Fallback(n, o.url) \/ Fallback(n, navs[n].url) \/ Superseded(n)
      BY <1>5, <2>2 DEF Respond
    <2> QED
      BY <1>2, <2>1, <2>3, UsePageStep, FallbackStep, SupersededStep
  <1>6. CASE AbortReaches(n) \/ Frame(n)
    BY <1>6, EndStep
  <1> QED
    BY <1>3, <1>4, <1>5, <1>6 DEF Progress

----------------------------------------------------------------------------
(* The specification                                                        *)

LEMMA MorpheusInitSound ==
    ASSUME MorpheusInit
    PROVE  MorpheusInv
  <1>1. entries \in Seq(Urls) \ {<<>>} /\ at \in DOMAIN entries
    BY MorpheusAssumption DEF MorpheusInit
  <1>2. entries \in Seq(Urls) /\ Len(entries) \in Nat /\ at \in 1..Len(entries)
    BY <1>1
  <1>3. shown = Location /\ shown \in Urls /\ Urls # {}
    BY <1>2 DEF MorpheusInit, Location
  <1>4. navs = [n \in 1..MaxEvents |-> NoNavigation]
    BY DEF MorpheusInit
  <1>5. /\ NoNavigation \in Navigation /\ NoNavigation.pc = "idle" /\ NoNavigation.took = 0
        /\ ~NoNavigation.late
    BY <1>3, NoCall
  <1>6. \A n \in 1..MaxEvents : /\ navs[n] = NoNavigation /\ navs[n].pc = "idle"
                                /\ navs[n].took = 0 /\ ~navs[n].late
    BY <1>4, <1>5
  <1>7. /\ prefetches = <<>> /\ cache = {} /\ prefetches \in Seq(Prefetch)
        /\ Len(prefetches) = 0
    BY EmptySeq DEF MorpheusInit
  <1>8. IsFiniteSet(cache) /\ Cardinality(cache) = 0
    BY <1>7, FS_EmptySet
  <1>9. MorpheusTypeOK
    <2>1. navs \in [1..MaxEvents -> Navigation]
      BY <1>4, <1>5
    <2>2. cache \subseteq Entry /\ Cardinality(cache) <= CacheSize
      BY <1>7, <1>8, MorpheusAssumption
    <2>3. /\ sequence \in 0..MaxEvents /\ controller \in 0..MaxEvents /\ events \in 0..MaxEvents
          /\ now \in Nat /\ epoch \in Nat /\ documents \in Nat
      <3>1. 0 \in 0..MaxEvents
        BY MorpheusAssumption
      <3> QED
        BY <3>1 DEF MorpheusInit
    <2>4. started \in BOOLEAN /\ loading \in BOOLEAN /\ load \in PendingLoads /\ handed \in BOOLEAN
      BY DEF MorpheusInit, PendingLoads
    <2> QED
      BY <1>2, <1>3, <1>7, <2>1, <2>2, <2>3, <2>4 DEF MorpheusTypeOK
  <1>10. KindsInv
    BY <1>6, <1>7, <1>8, <1>9 DEF MorpheusInit, KindsInv, Numbered, OneEntryEach
  <1>11. PagesInv
    BY <1>6, <1>7 DEF PagesInv, Handed, TakenOnce, SinceInvalidation, FreshPages
  <1>12. RequestsInv
    BY <1>6 DEF MorpheusInit, RequestsInv, ControllerIsKnown, LateAfterwards,
                StrayRequestsAreExplained
  <1>13. PlaceInv
    BY <1>3 DEF MorpheusInit, PlaceInv, LocationAgrees, CurrentCall
  <1> QED
    BY <1>10, <1>11, <1>12, <1>13 DEF MorpheusInv

LEMMA ClickStep ==
    ASSUME MorpheusInv, NEW u \in Urls, Click(u) \/ ClickNative(u)
    PROVE  MorpheusInv'
  <1>1. KindsInv /\ MorpheusTypeOK /\ at \in 1..Len(entries)
    BY DEF MorpheusInv, KindsInv, MorpheusTypeOK
  <1>2. CASE Click(u)
    BY <1>1, <1>2, NavigateStep DEF Click
  <1>3. CASE ClickNative(u)
    <2>1. /\ FullLoad(u, FALSE) /\ Event
          /\ UNCHANGED <<sequence, controller, navs, prefetches, cache, started, loading,
                         entries, at, shown, now, epoch, handed, documents>>
      BY <1>3 DEF ClickNative
    <2>2. events' \in 0..MaxEvents /\ events' >= events
      BY <1>1, <2>1, Kinds DEF Event, MorpheusTypeOK
    <2>3. load' \in PendingLoads /\ prefetches \in Seq(Prefetch) /\ now \in Nat /\ epoch \in Nat
      BY <1>1, <2>1, PendingLoad, Kinds
    <2> QED
      BY <2>1, <2>2, <2>3, CacheStep
  <1> QED
    BY <1>2, <1>3

\* The address moves, and the page is left to the browser
LEMMA PopNativeStep ==
    ASSUME MorpheusInv, NEW i \in DOMAIN entries, PopStateNative(i)
    PROVE  MorpheusInv'
  <1>1. KindsInv /\ MorpheusTypeOK /\ Numbered /\ entries \in Seq(Urls) /\ i \in 1..Len(entries)
    BY Kinds DEF MorpheusInv, KindsInv
  <1>2. /\ UNCHANGED <<sequence, controller, navs, prefetches, cache, started, loading,
                       entries, shown, now, epoch, documents>>
        /\ at' = i /\ handed' = TRUE /\ Event
        /\ load' = {[url |-> entries[i], replace |-> TRUE]}
    BY DEF PopStateNative
  <1>3. events' \in 0..MaxEvents /\ events' >= events
    BY <1>1, <1>2, Kinds DEF Event, MorpheusTypeOK
  <1>4. load' \in PendingLoads
    <2>1. entries[i] \in Urls
      BY <1>1
    <2> QED
      BY <1>2, <2>1 DEF PendingLoads, Loads
  <1>5. KindsInv'
    <2>1. MorpheusTypeOK'
      BY <1>1, <1>2, <1>3, <1>4 DEF MorpheusTypeOK
    <2>2. Numbered'
      BY <1>1, <1>2, <1>3, Kinds DEF Numbered, MorpheusTypeOK
    <2> QED
      BY <1>2, <2>1, <2>2 DEF MorpheusInv, KindsInv, OneEntryEach
  <1>6. PagesInv'
    BY <1>2 DEF MorpheusInv, PagesInv, Handed, TakenOnce, SinceInvalidation, FreshPages
  <1>7. RequestsInv'
    BY <1>2 DEF MorpheusInv, RequestsInv, ControllerIsKnown, LateAfterwards,
                StrayRequestsAreExplained
  <1>8. PlaceInv'
    BY <1>2 DEF MorpheusInv, PlaceInv, LocationAgrees, CurrentCall
  <1> QED
    BY <1>5, <1>6, <1>7, <1>8 DEF MorpheusInv

LEMMA PopStep ==
    ASSUME MorpheusInv, NEW i \in DOMAIN entries, PopState(i) \/ PopStateNative(i)
    PROVE  MorpheusInv'
  <1>1. KindsInv /\ MorpheusTypeOK /\ entries \in Seq(Urls) /\ i \in 1..Len(entries)
    BY Kinds DEF MorpheusInv, KindsInv
  <1>2. entries[i] \in Urls
    BY <1>1
  <1> QED
    BY <1>1, <1>2, NavigateStep, PopNativeStep DEF PopState

LEMMA MorpheusStep ==
    ASSUME MorpheusInv, [MorpheusNext]_morpheusVars
    PROVE  MorpheusInv'
  <1>1. ASSUME NEW u \in Urls, Click(u) \/ ClickNative(u) \/ PrefetchIntent(u)
        PROVE  MorpheusInv'
    BY <1>1, ClickStep, PrefetchIntentStep
  <1>2. ASSUME NEW i \in DOMAIN entries, PopState(i) \/ PopStateNative(i)
        PROVE  MorpheusInv'
    BY <1>2, PopStep
  <1>3. ASSUME NEW n \in 1..MaxEvents, Progress(n) PROVE MorpheusInv'
    BY <1>3, ProgressStep
  <1>4. ASSUME NEW p \in DOMAIN prefetches, NEW o \in Outcomes, PrefetchSettles(p, o)
        PROVE  MorpheusInv'
    BY <1>4, PrefetchSettlesStep
  <1>5. CASE Invalidate \/ Tick
    BY <1>5, ClockStep
  <1>6. CASE Stop \/ LoadArrives
    BY <1>6, StopStep, LoadArrivesStep
  <1>7. CASE UNCHANGED morpheusVars
    <2>1. /\ UNCHANGED <<sequence, controller, navs, prefetches, cache, started, loading,
                          entries, at, shown, documents, now, epoch, load, handed, events>>
      BY <1>7 DEF morpheusVars
    <2>2. /\ prefetches' \in Seq(Prefetch) /\ now' \in Nat /\ epoch' \in Nat
          /\ events' \in 0..MaxEvents /\ events' >= events /\ load' \in PendingLoads
      BY <2>1, Kinds DEF MorpheusInv, KindsInv, MorpheusTypeOK
    <2> QED
      BY <2>1, <2>2, CacheStep
  <1> QED
    BY <1>1, <1>2, <1>3, <1>4, <1>5, <1>6, <1>7 DEF MorpheusNext

(***************************************************************************)
(* The invariant holds however calls, requests, prefetches and documents    *)
(* interleave (packages/morpheus/src/morpheus.js).                          *)
(***************************************************************************)
THEOREM MorpheusInductive == MorpheusSpec => []MorpheusInv
  <1>1. MorpheusInit => MorpheusInv
    BY MorpheusInitSound
  <1>2. MorpheusInv /\ [MorpheusNext]_morpheusVars => MorpheusInv'
    BY MorpheusStep
  <1> QED
    BY <1>1, <1>2, PTL DEF MorpheusSpec

(***************************************************************************)
(* The client's state keeps its shape, and the cache never holds more than  *)
(* cacheSize entries (pruneCache).                                          *)
(***************************************************************************)
THEOREM MorpheusTypes == MorpheusSpec => []MorpheusTypeOK
  <1>1. MorpheusInv => MorpheusTypeOK
    BY DEF MorpheusInv, KindsInv
  <1> QED
    BY <1>1, MorpheusInductive, PTL

(***************************************************************************)
(* A page that does not say it is navigating is the one in the address bar, *)
(* until the client is stopped or leaves the page to a load of the browser's*)
(* that has not come (navigate, updateHistory, handlePopState, fullLoad).   *)
(***************************************************************************)
THEOREM AddressAndPageAgree == MorpheusSpec => []LocationAgrees
  <1>1. MorpheusInv => LocationAgrees
    BY DEF MorpheusInv, PlaceInv
  <1> QED
    BY <1>1, MorpheusInductive, PTL

(***************************************************************************)
(* No prefetched page is used by two navigations (takePrefetch).            *)
(***************************************************************************)
THEOREM PagesAreTakenOnce == MorpheusSpec => []TakenOnce
  <1>1. MorpheusInv => TakenOnce
    BY DEF MorpheusInv, PagesInv
  <1> QED
    BY <1>1, MorpheusInductive, PTL

(***************************************************************************)
(* A prefetched page is from after the last invalidation, and within the    *)
(* cache's TTL, when a navigation takes it (prefetch, clearCache).          *)
(***************************************************************************)
THEOREM TakenPagesAreFresh == MorpheusSpec => []FreshPages
  <1>1. MorpheusInv => FreshPages
    BY DEF MorpheusInv, PagesInv
  <1> QED
    BY <1>1, MorpheusInductive, PTL

(***************************************************************************)
(* A request that nothing will abort is there only after a superseded call  *)
(* has put its controller over the current one's (morpheus.js:124).         *)
(***************************************************************************)
THEOREM StraysAreExplained == MorpheusSpec => []StrayRequestsAreExplained
  <1>1. MorpheusInv => StrayRequestsAreExplained
    BY DEF MorpheusInv, RequestsInv
  <1> QED
    BY <1>1, MorpheusInductive, PTL

----------------------------------------------------------------------------
(* The client implements PageVisit                                          *)

\* The visit that call number s of these asks for, while it does
Asked(calls, s) ==
    {[url |-> calls[n].url, back |-> calls[n].mode = "pop"] :
        n \in {m \in 1..s : m = s /\ calls[m].pc \in {"taking", "fetching"}}}

LEMMA NothingAsked ==
    ASSUME NEW calls, NEW s \in Nat, s # 0 => calls[s].pc \notin {"taking", "fetching"}
    PROVE  Asked(calls, s) = {}
  BY DEF Asked

LEMMA SomethingAsked ==
    ASSUME NEW calls, NEW s \in Nat \ {0}, calls[s].pc \in {"taking", "fetching"}
    PROVE  Asked(calls, s) = {[url |-> calls[s].url, back |-> calls[s].mode = "pop"]}
  BY DEF Asked

\* The same call asks for the same
LEMMA AskedStill ==
    ASSUME NEW before, NEW after, NEW s \in Nat,
           s # 0 => /\ after[s].url = before[s].url /\ after[s].mode = before[s].mode
                    /\ (after[s].pc \in {"taking", "fetching"})
                          = (before[s].pc \in {"taking", "fetching"})
    PROVE  Asked(after, s) = Asked(before, s)
  <1>1. CASE s = 0
    BY <1>1, NothingAsked
  <1>2. CASE s # 0 /\ before[s].pc \in {"taking", "fetching"}
    <2>1. Asked(before, s) = {[url |-> before[s].url, back |-> before[s].mode = "pop"]}
      BY <1>2, SomethingAsked
    <2>2. after[s].pc \in {"taking", "fetching"}
      BY <1>2
    <2>3. Asked(after, s) = {[url |-> after[s].url, back |-> after[s].mode = "pop"]}
      BY <1>2, <2>2, SomethingAsked
    <2>4. after[s].url = before[s].url /\ after[s].mode = before[s].mode
      BY <1>2
    <2> QED
      BY <2>1, <2>3, <2>4
  <1>3. CASE s # 0 /\ before[s].pc \notin {"taking", "fetching"}
    BY <1>3, NothingAsked
  <1> QED
    BY <1>1, <1>2, <1>3

LEMMA WantedIsAsked ==
    Wanted = Asked(navs, sequence) /\ Wanted' = Asked(navs', sequence')
  BY DEF Wanted, Asked

\* Nothing the abstract client knows of changes
LEMMA SameVisit ==
    ASSUME UNCHANGED <<entries, at, shown, load, documents>>, Wanted' = Wanted
    PROVE  UNCHANGED Visit!visitVars
  BY DEF Visit!visitVars, Location, Given

LEMMA NavigateVisits ==
    ASSUME KindsInv, Event, NEW u \in Urls, NEW mode \in {"push", "pop"}, Navigate(u, mode)
    PROVE  Wanted' = {[url |-> u, back |-> mode = "pop"]} /\ UNCHANGED <<shown, documents>>
  <1>1. navs'[sequence + 1] = [pc |-> "taking", url |-> u, mode |-> mode,
              took |-> Taken(u), begunAt |-> now, begunEpoch |-> epoch, late |-> FALSE]
    BY NavigateCalls
  <1>2. sequence' = sequence + 1 /\ sequence + 1 \in Nat \ {0}
    BY Kinds DEF KindsInv, Navigate
  <1>3. Asked(navs', sequence + 1) =
           {[url |-> navs'[sequence + 1].url, back |-> navs'[sequence + 1].mode = "pop"]}
    BY <1>1, <1>2, SomethingAsked
  <1>4. navs'[sequence + 1].url = u /\ navs'[sequence + 1].mode = mode
    BY <1>1
  <1>5. Asked(navs', sequence + 1) = {[url |-> u, back |-> mode = "pop"]}
    BY <1>3, <1>4
  <1>6. Wanted' = Asked(navs', sequence + 1)
    BY <1>2, WantedIsAsked
  <1> QED
    BY <1>5, <1>6 DEF Navigate

LEMMA LoadArrivesVisits ==
    ASSUME KindsInv, LoadArrives
    PROVE  Visit!VisitNext
  <1>1. MorpheusTypeOK
    BY DEF KindsInv
  <1>2. PICK l \in load :
           /\ NewDocument(l.url) /\ sequence' = sequence
           /\ \/ entries' = Pushed(l.url) /\ at' = at + 1
              \/ entries' = [entries EXCEPT ![at] = l.url] /\ at' = at
    BY DEF LoadArrives
  <1>3. l.url \in Urls
    BY <1>1, PendingLoad
  <1>4. Location' = l.url
    BY <1>1, <1>2, <1>3, Addressed
  <1>5. \A n \in 1..MaxEvents : navs'[n].pc \in {"done", "idle"}
    BY <1>2, <1>3, DocumentCalls
  <1>6. sequence \in Nat /\ (sequence # 0 => sequence \in 1..MaxEvents)
    BY Kinds DEF KindsInv, MorpheusTypeOK
  <1>7. Wanted' = {}
    BY <1>2, <1>5, <1>6, NothingAsked, WantedIsAsked
  <1>8. l.url \in Given /\ Given' = {}
    BY <1>2 DEF Given, NewDocument
  <1>9. Visit!Load(l.url)
    BY <1>2, <1>4, <1>7, <1>8 DEF Visit!Load, NewDocument
  <1> QED
    BY <1>3, <1>9 DEF Visit!VisitNext

\* The current call leaves what it asked for to the browser.
LEMMA FallbackVisits ==
    ASSUME KindsInv, NEW n \in 1..MaxEvents, n = sequence,
           navs[n].pc \in {"taking", "fetching"}, NEW u \in Urls, Fallback(n, u)
    PROVE  Visit!Leave(u)
  <1>1. MorpheusTypeOK /\ navs[n] \in Navigation /\ sequence \in Nat \ {0} /\ Urls # {}
    BY Kinds DEF KindsInv, MorpheusTypeOK
  <1>2. PICK row \in Navigation :
           row = Returned(navs[n]) /\ IsReturned(row, navs[n].took, navs[n].late)
    BY <1>1, ReturnedRow
  <1>3. /\ navs' = [navs EXCEPT ![n] = row]
        /\ UNCHANGED <<sequence, entries, at, shown, documents>>
    BY <1>2 DEF Fallback
  <1>4. navs'[n] = row /\ row.pc = "done"
    BY <1>2, <1>3, OneCall DEF IsReturned
  <1>5. Wanted' = {}
    BY <1>1, <1>3, <1>4, NothingAsked, WantedIsAsked
  <1>6. Wanted # {}
    <2>1. Asked(navs, sequence) =
             {[url |-> navs[sequence].url, back |-> navs[sequence].mode = "pop"]}
      BY <1>1, SomethingAsked
    <2> QED
      BY <2>1, WantedIsAsked
  <1>7. Given' = {u}
    <2>1. PICK replace \in BOOLEAN : replace = (navs[n].mode = "pop")
      OBVIOUS
    <2>2. FullLoad(u, replace)
      BY <2>1 DEF Fallback
    <2> QED
      BY <1>1, <2>2, PendingLoad
  <1> QED
    BY <1>3, <1>5, <1>6, <1>7 DEF Visit!Leave, Location

\* The browser loads of its own accord; what was asked for is asked for still.
LEMMA NativeVisits ==
    ASSUME NEW u, Given' = {u}, Location' \in {Location, u},
           UNCHANGED <<sequence, navs, shown, documents>>
    PROVE  Visit!Native(u)
  <1>1. Wanted' = Wanted
    BY WantedIsAsked
  <1> QED
    BY <1>1 DEF Visit!Native

\* A call that returns without having been the current one, or when it is past asking
LEMMA ReturnVisits ==
    ASSUME KindsInv, NEW n \in 1..MaxEvents, navs[n].pc # "idle",
           navs' = [navs EXCEPT ![n] = Returned(@)],
           n # sequence \/ navs[n].pc \notin {"taking", "fetching"},
           UNCHANGED <<sequence, entries, at, shown, load, documents>>
    PROVE  UNCHANGED Visit!visitVars
  <1>1. navs[n] \in Navigation /\ Urls # {} /\ sequence \in Nat
        /\ (sequence # 0 => sequence \in 1..MaxEvents)
    <2>1. navs \in [1..MaxEvents -> Navigation] /\ Urls # {}
      BY Kinds DEF KindsInv
    <2>2. sequence \in 0..MaxEvents /\ MaxEvents \in Nat
      BY Kinds DEF KindsInv, MorpheusTypeOK
    <2> QED
      BY <2>1, <2>2
  <1>2. PICK row \in Navigation :
           row = Returned(navs[n]) /\ IsReturned(row, navs[n].took, navs[n].late)
    BY <1>1, ReturnedRow
  <1>3. /\ navs'[n] = row /\ row.pc = "done"
        /\ \A m \in 1..MaxEvents : m # n => navs'[m] = navs[m]
    BY <1>2, OneCall DEF IsReturned
  <1>4. Asked(navs', sequence) = Asked(navs, sequence)
    <2>1. CASE n # sequence
      BY <1>1, <1>3, <2>1, AskedStill
    <2>2. CASE n = sequence
      BY <1>1, <1>3, <2>2, NothingAsked
    <2> QED
      BY <2>1, <2>2
  <1> QED
    BY <1>4, WantedIsAsked, SameVisit

LEMMA MorphVisits ==
    ASSUME KindsInv, NEW n \in 1..MaxEvents, n = sequence,
           navs[n].pc \in {"taking", "fetching"}, NEW u \in Urls, Morph(n, u)
    PROVE  Visit!Show(u)
  <1>1. MorpheusTypeOK /\ navs[n] \in Navigation /\ sequence \in Nat \ {0}
    BY Kinds DEF KindsInv, MorpheusTypeOK
  <1>2. PICK row : row = [navs[n] EXCEPT !.pc = "frame"]
    OBVIOUS
  <1>3. row \in Navigation /\ row.pc = "frame"
    BY <1>1, <1>2, Waiting DEF Waits
  <1>4. navs' = [navs EXCEPT ![n] = row] /\ UNCHANGED <<sequence, load, documents>> /\ shown' = u
    BY <1>2 DEF Morph
  <1>5. navs'[n] = row
    BY <1>1, <1>3, <1>4, OneCall
  <1>6. Wanted' = {}
    BY <1>1, <1>3, <1>4, <1>5, NothingAsked, WantedIsAsked
  <1>7. Wanted # {}
    <2>1. Asked(navs, sequence) =
             {[url |-> navs[sequence].url, back |-> navs[sequence].mode = "pop"]}
      BY <1>1, SomethingAsked
    <2> QED
      BY <2>1, WantedIsAsked
  <1>8. \/ entries' = Pushed(u) /\ at' = at + 1
        \/ entries' = [entries EXCEPT ![at] = u] /\ at' = at
    BY DEF Morph, UpdateHistory
  <1>9. Location' = u
    BY <1>1, <1>8, Addressed
  <1> QED
    BY <1>4, <1>6, <1>7, <1>9 DEF Visit!Show, Given

\* A call that requests its page asks for what it asked for before.
LEMMA RequestVisits ==
    ASSUME KindsInv, NEW n \in 1..MaxEvents, ResumeWithout(n)
    PROVE  UNCHANGED Visit!visitVars
  <1>1. navs[n] \in Navigation /\ sequence \in Nat /\ navs \in [1..MaxEvents -> Navigation]
        /\ (sequence # 0 => sequence \in 1..MaxEvents)
    BY Kinds DEF KindsInv, MorpheusTypeOK
  <1>2. PICK row : row = [navs[n] EXCEPT !.pc = "fetching", !.late = n # sequence]
    OBVIOUS
  <1>3. row.pc = "fetching" /\ row.url = navs[n].url /\ row.mode = navs[n].mode
    BY <1>1, <1>2 DEF Navigation
  <1>4. navs' = [navs EXCEPT ![n] = row] /\ navs[n].pc = "taking"
        /\ UNCHANGED <<sequence, entries, at, shown, load, documents>>
    BY <1>2 DEF ResumeWithout
  <1>5. navs'[n] = row /\ \A m \in 1..MaxEvents : m # n => navs'[m] = navs[m]
    BY <1>1, <1>4
  <1>6. Asked(navs', sequence) = Asked(navs, sequence)
    <2>1. CASE n = sequence
      <3>1. /\ navs'[sequence].url = navs[sequence].url /\ navs'[sequence].mode = navs[sequence].mode
            /\ (navs'[sequence].pc \in {"taking", "fetching"})
                  = (navs[sequence].pc \in {"taking", "fetching"})
        BY <1>3, <1>4, <1>5, <2>1
      <3> QED
        BY <1>1, <3>1, AskedStill
    <2>2. CASE n # sequence
      BY <1>1, <1>5, <2>2, AskedStill
    <2> QED
      BY <2>1, <2>2
  <1> QED
    BY <1>4, <1>6, WantedIsAsked, SameVisit

\* stop() forgets the visit asked for, or leaves it
LEMMA StopVisits ==
    ASSUME KindsInv, Stop
    PROVE  Visit!Forget \/ UNCHANGED Visit!visitVars
  <1>1. /\ MorpheusTypeOK /\ sequence \in Nat
        /\ (sequence # 0 => sequence \in 1..MaxEvents)
    BY Kinds DEF KindsInv, MorpheusTypeOK
  <1>2. PICK calls : calls = Abort(navs)
    OBVIOUS
  <1>3. \A n \in 1..MaxEvents :
                 /\ SameCall(calls[n], navs[n])
                 /\ calls[n].pc = IF n = controller /\ navs[n].pc = "fetching"
                                  THEN "aborted" ELSE navs[n].pc
    BY <1>1, <1>2, AbortRows
  <1>4. navs' = calls /\ UNCHANGED <<sequence, entries, at, shown, load, documents>>
    BY <1>2 DEF Stop
  <1>5. CASE sequence # 0 /\ sequence = controller /\ navs[sequence].pc = "fetching"
    <2>1. Wanted' = {}
      BY <1>1, <1>3, <1>4, <1>5, NothingAsked, WantedIsAsked
    <2> QED
      BY <1>4, <2>1 DEF Visit!Forget, Location, Given
  <1>6. CASE ~(sequence # 0 /\ sequence = controller /\ navs[sequence].pc = "fetching")
    <2>1. sequence # 0 => /\ SameCall(calls[sequence], navs[sequence])
                          /\ calls[sequence].pc = navs[sequence].pc
      BY <1>1, <1>3, <1>6
    <2>2. Asked(calls, sequence) = Asked(navs, sequence)
      BY <1>1, <2>1, AskedStill DEF SameCall
    <2> QED
      BY <1>4, <2>2, WantedIsAsked, SameVisit
  <1> QED
    BY <1>5, <1>6

LEMMA UsePageVisits ==
    ASSUME KindsInv, NEW n \in 1..MaxEvents, navs[n].pc \in {"taking", "fetching"},
           NEW u \in Urls, UsePage(n, u)
    PROVE  [Visit!VisitNext]_Visit!visitVars
  <1>1. navs[n] \in Navigation
    BY Kinds DEF KindsInv
  <1>2. navs[n].url \in Urls
    BY <1>1 DEF Navigation
  <1>3. CASE n = sequence /\ Morph(n, u)
    <2>1. Visit!Show(u)
      BY <1>3, MorphVisits
    <2> QED
      BY <2>1 DEF Visit!VisitNext
  <1>4. CASE n = sequence /\ (Fallback(n, u) \/ Fallback(n, navs[n].url))
    <2>1. Visit!Leave(u) \/ Visit!Leave(navs[n].url)
      BY <1>2, <1>4, FallbackVisits
    <2> QED
      BY <1>2, <2>1 DEF Visit!VisitNext
  <1>5. CASE n # sequence /\ Superseded(n)
    <2>1. UNCHANGED Visit!visitVars
      BY <1>5, ReturnVisits DEF Superseded
    <2> QED
      BY <2>1
  <1> QED
    BY <1>3, <1>4, <1>5 DEF UsePage

LEMMA ProgressVisits ==
    ASSUME MorpheusInv, NEW n \in 1..MaxEvents, Progress(n)
    PROVE  [Visit!VisitNext]_Visit!visitVars
  <1>1. KindsInv /\ navs[n] \in Navigation /\ Urls # {} /\ prefetches \in Seq(Prefetch)
    BY Kinds DEF MorpheusInv, KindsInv
  <1>2. navs[n].url \in Urls
    BY <1>1 DEF Navigation
  <1>3. CASE ResumeWithPrefetch(n)
    <2>1. navs[n].pc = "taking" /\ navs[n].took # 0
      BY <1>3 DEF ResumeWithPrefetch
    <2>2. navs[n].took \in 1..Len(prefetches)
      BY <2>1, Kinds DEF MorpheusInv, KindsInv, PagesInv, Handed
    <2>3. prefetches[navs[n].took] \in Prefetch
      BY <1>1, <2>2
    <2>4. PICK page : page = prefetches[navs[n].took].result
      OBVIOUS
    <2>5. page \in Outcomes \cup {Pending, Failed}
      BY <2>3, <2>4 DEF Prefetch
    <2>6. page.url \in Urls
      BY <1>1, <2>5, NoPrefetch
    <2>7. UsePage(n, page.url)
      BY <1>3, <2>4 DEF ResumeWithPrefetch
    <2> QED
      BY <1>1, <2>1, <2>6, <2>7, UsePageVisits
  <1>4. CASE ResumeWithout(n)
    BY <1>1, <1>4, RequestVisits
  <1>5. ASSUME NEW o \in Outcomes, Respond(n, o) PROVE [Visit!VisitNext]_Visit!visitVars
    <2>1. navs[n].pc = "fetching" /\ o.url \in Urls
      BY <1>1, <1>5, NoPrefetch DEF Respond
    <2>2. o.kind \in {"page", "reload", "fallback", "error"}
      BY DEF Outcomes
    <2>3. \/ UsePage(n, o.url)
          \/ n = sequence /\ (Fallback(n, o.url) \/ Fallback(n, navs[n].url))
          \/ n # sequence /\ Superseded(n)
      BY <1>5, <2>2 DEF Respond
    <2>4. CASE UsePage(n, o.url)
      BY <1>1, <2>1, <2>4, UsePageVisits
    <2>5. CASE n = sequence /\ (Fallback(n, o.url) \/ Fallback(n, navs[n].url))
      <3>1. Visit!Leave(o.url) \/ Visit!Leave(navs[n].url)
        BY <1>1, <1>2, <2>1, <2>5, FallbackVisits
      <3> QED
        BY <1>2, <2>1, <3>1 DEF Visit!VisitNext
    <2>6. CASE n # sequence /\ Superseded(n)
      <3>1. UNCHANGED Visit!visitVars
        BY <1>1, <2>1, <2>6, ReturnVisits DEF Superseded
      <3> QED
        BY <3>1
    <2> QED
      BY <2>3, <2>4, <2>5, <2>6
  <1>6. CASE AbortReaches(n) \/ Frame(n)
    <2>1. UNCHANGED Visit!visitVars
      BY <1>1, <1>6, ReturnVisits DEF AbortReaches, Frame
    <2> QED
      BY <2>1
  <1> QED
    BY <1>3, <1>4, <1>5, <1>6 DEF Progress

LEMMA UserVisits ==
    ASSUME MorpheusInv,
           \/ \E u \in Urls : Click(u) \/ ClickNative(u)
           \/ \E i \in DOMAIN entries : PopState(i) \/ PopStateNative(i)
    PROVE  Visit!VisitNext
  <1>1. KindsInv /\ entries \in Seq(Urls)
    BY Kinds DEF MorpheusInv, KindsInv
  <1>2. ASSUME NEW u \in Urls, Click(u) PROVE Visit!VisitNext
    <2>1. /\ Wanted' = {[url |-> u, back |-> FALSE]}
          /\ UNCHANGED <<shown, documents, entries, at, load>>
      BY <1>1, <1>2, NavigateVisits DEF Click
    <2>2. Visit!Follow(u)
      BY <2>1 DEF Visit!Follow, Location, Given
    <2> QED
      BY <2>2 DEF Visit!VisitNext
  <1>3. ASSUME NEW u \in Urls, ClickNative(u) PROVE Visit!VisitNext
    <2>1. Given' = {u}
      BY <1>1, <1>3, PendingLoad DEF ClickNative, KindsInv
    <2>2. Location' = Location /\ UNCHANGED <<sequence, navs, shown, documents>>
      BY <1>3 DEF ClickNative, Location
    <2>3. Visit!Native(u)
      BY <2>1, <2>2, NativeVisits
    <2> QED
      BY <2>3 DEF Visit!VisitNext
  <1>4. ASSUME NEW i \in DOMAIN entries, PopState(i) PROVE Visit!VisitNext
    <2>1. entries[i] \in Urls
      BY <1>1
    <2>2. /\ Wanted' = {[url |-> entries[i], back |-> TRUE]}
          /\ UNCHANGED <<shown, documents, entries>> /\ at' = i /\ load' \in {load, {}}
      BY <1>1, <1>4, <2>1, NavigateVisits DEF PopState
    <2>3. Given' \in {Given, {}}
      BY <2>2 DEF Given
    <2>4. Visit!Return(entries[i])
      BY <2>2, <2>3 DEF Visit!Return, Location
    <2> QED
      BY <2>1, <2>4 DEF Visit!VisitNext
  <1>5. ASSUME NEW i \in DOMAIN entries, PopStateNative(i) PROVE Visit!VisitNext
    <2>1. entries[i] \in Urls
      BY <1>1
    <2>2. Given' = {entries[i]}
      BY <1>5 DEF PopStateNative, Given
    <2>3. Location' = entries[i] /\ UNCHANGED <<sequence, navs, shown, documents>>
      BY <1>5 DEF PopStateNative, Location
    <2>4. Visit!Native(entries[i])
      BY <2>2, <2>3, NativeVisits
    <2> QED
      BY <2>1, <2>4 DEF Visit!VisitNext
  <1> QED
    BY <1>2, <1>3, <1>4, <1>5

LEMMA VisitStep ==
    ASSUME MorpheusInv, [MorpheusNext]_morpheusVars
    PROVE  [Visit!VisitNext]_Visit!visitVars
  <1>1. CASE \/ \E u \in Urls : Click(u) \/ ClickNative(u)
             \/ \E i \in DOMAIN entries : PopState(i) \/ PopStateNative(i)
    BY <1>1, UserVisits
  <1>2. ASSUME NEW n \in 1..MaxEvents, Progress(n) PROVE [Visit!VisitNext]_Visit!visitVars
    BY <1>2, ProgressVisits
  <1>3. CASE \/ \E u \in Urls : PrefetchIntent(u)
             \/ \E p \in DOMAIN prefetches, o \in Outcomes : PrefetchSettles(p, o)
             \/ Invalidate \/ Tick \/ UNCHANGED morpheusVars
    <2>1. UNCHANGED <<sequence, navs, entries, at, shown, load, documents>>
      BY <1>3 DEF PrefetchIntent, PrefetchSettles, Invalidate, Tick, morpheusVars
    <2>2. Wanted' = Wanted
      BY <2>1, WantedIsAsked
    <2> QED
      BY <2>1, <2>2, SameVisit
  <1>4. CASE Stop
    <2>1. Visit!Forget \/ UNCHANGED Visit!visitVars
      BY <1>4, StopVisits DEF MorpheusInv
    <2> QED
      BY <2>1 DEF Visit!VisitNext
  <1>5. CASE LoadArrives
    BY <1>5, LoadArrivesVisits DEF MorpheusInv
  <1> QED
    BY <1>1, <1>2, <1>3, <1>4, <1>5 DEF MorpheusNext

(***************************************************************************)
(* Whichever answer comes first, only the visit asked for last is shown,    *)
(* and under its own address (the sequence checks of navigate).             *)
(***************************************************************************)
THEOREM ClientShowsLatest == MorpheusSpec => ShowsLatest
  <1>1. MorpheusInit => Visit!VisitInit
    <2>1. HAVE MorpheusInit
    <2>2. MorpheusInv
      BY <2>1, MorpheusInitSound
    <2>3. Location \in Urls /\ shown = Location /\ sequence = 0 /\ documents = 1 /\ load = {}
      BY <2>1, <2>2, Kinds DEF MorpheusInv, KindsInv, MorpheusInit, Location
    <2>4. Wanted = {}
      BY <2>3, NothingAsked, WantedIsAsked
    <2> QED
      BY <2>3, <2>4 DEF Visit!VisitInit, Given
  <1>2. MorpheusInv /\ [MorpheusNext]_morpheusVars => [Visit!VisitNext]_Visit!visitVars
    BY VisitStep
  <1> QED
    BY <1>1, <1>2, MorpheusInductive, PTL DEF MorpheusSpec, ShowsLatest, Visit!VisitSpec

=============================================================================
