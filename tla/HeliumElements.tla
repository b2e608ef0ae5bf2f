---------------------------- MODULE HeliumElements ----------------------------
(***************************************************************************)
(* How Helium (lib/lunula/assets/helium.js) binds the elements of a page    *)
(* that keeps changing: helium() mounts the root and observes it; each      *)
(* change is recorded and handed to an asynchronous callback; elements with *)
(* @import wait for their modules in the middle of being processed; removed *)
(* elements are cleaned up; a remount or a teardown ends a generation while *)
(* work of the last one may still be waiting. Jobs run one after another:   *)
(* a step is one stretch of such a job, and while one runs no other does.   *)
(* Elements are children of the root, each with a handler, a binding and an *)
(* @init that returns a disposer.                                           *)
(***************************************************************************)
EXTENDS Integers, Sequences, FiniteSets

CONSTANTS
    Elements,     \* what the page's code inserts and removes
    Importing,    \* those with an @import
    MaxChanges,   \* bound: insertions and removals
    MaxMounts     \* bound: calls of helium() and of heliumTeardown()

ASSUME ElementsAssumption ==
    /\ Importing \subseteq Elements
    /\ MaxChanges \in Nat /\ MaxMounts \in Nat

VARIABLES
    inRoot,       \* children of the root
    generation,   \* generation; the instance HELIUM holds has its number
    mounted,      \* HELIUM is not null
    processed,    \* HELIUM.processed
    handlers,     \* the listeners on each element, by generation and call
    disposers,    \* disposers of the @inits that have run and are not disposed of
    records,      \* the observer's queue
    jobs,         \* the microtask queue: "observe", or the number of a call to resume
    calls,        \* processElements, with what its caller has left to do
    running,      \* the call whose synchronous stretch is in progress, 0 for none
    changes, mounts,   \* how much of the bounds is used
    raced,        \* elements that moved, were listed again or saw their generation end
                  \* while a call held them across an await
    stranded      \* elements already removed, not yet cleaned up, when the observer
                  \* was disconnected

elementsVars == <<inRoot, generation, mounted, processed, handlers, disposers, records,
                  jobs, calls, running, changes, mounts, raced, stranded>>

Change == [what : {"added", "removed"}, el : Elements]

Call == [by : {"mount", "observer"}, gen : Nat, list : SUBSET Elements,
         pc : {"next", "importing", "ready", "returned", "done"},
         rest : Seq(Change)]

\* The mark a call leaves on what it binds
Mark(c) == [gen |-> calls[c].gen, call |-> c]

ElementsTypeOK ==
    /\ inRoot \subseteq Elements /\ processed \subseteq Elements
    /\ generation \in Nat /\ mounted \in BOOLEAN
    /\ handlers \in [Elements -> SUBSET [gen : 1..generation, call : DOMAIN calls]]
    /\ disposers \in [Elements -> SUBSET [gen : 1..generation, call : DOMAIN calls]]
    /\ records \in Seq(Change)
    /\ jobs \in Seq({0} \cup DOMAIN calls)
    /\ calls \in Seq(Call)
    /\ running \in {0} \cup DOMAIN calls
    /\ changes \in 0..MaxChanges /\ mounts \in 0..MaxMounts
    /\ raced \subseteq Elements /\ stranded \subseteq Elements

Observe == 0     \* the observer's own microtask, in jobs

ElementsInit ==
    /\ inRoot \in SUBSET Elements
    /\ generation = 0 /\ mounted = FALSE
    /\ processed = {}
    /\ handlers = [n \in Elements |-> {}] /\ disposers = [n \in Elements |-> {}]
    /\ records = <<>> /\ jobs = <<>> /\ calls = <<>> /\ running = 0
    /\ changes = 0 /\ mounts = 0
    /\ raced = {} /\ stranded = {}

Queued(job) == job \in {jobs[i] : i \in DOMAIN jobs}

----------------------------------------------------------------------------
(* The page changes                                                         *)

\* A call that took the element into its list before an await will use it after,
\* as it is: processElements across the imports, its callers across processElements.
Held(n) ==
    \E c \in DOMAIN calls : /\ calls[c].gen = generation /\ n \in calls[c].list
                            /\ calls[c].pc \in {"importing", "ready", "returned"}

Changes(what, n) ==
    /\ running = 0
    /\ changes < MaxChanges
    /\ changes' = changes + 1
    /\ IF mounted
       THEN /\ records' = Append(records, [what |-> what, el |-> n])
            /\ jobs' = IF Queued(Observe) THEN jobs ELSE Append(jobs, Observe)
       ELSE UNCHANGED <<records, jobs>>
    /\ raced' = IF Held(n) THEN raced \cup {n} ELSE raced
    /\ UNCHANGED <<generation, mounted, processed, handlers, disposers, calls, running,
                   mounts, stranded>>

Insert(n) == n \notin inRoot /\ inRoot' = inRoot \cup {n} /\ Changes("added", n)
Remove(n) == n \in inRoot /\ inRoot' = inRoot \ {n} /\ Changes("removed", n)

----------------------------------------------------------------------------
(* cleanup                                                                  *)

\* What is left of marks once HELIUM's own are gone
OlderThan(marks) == {m \in marks : m.gen # generation}

CleanUp_ListenersOnly(removed) ==
    /\ handlers' = [n \in Elements |-> IF n \in removed THEN OlderThan(handlers[n])
                                                        ELSE handlers[n]]
    /\ UNCHANGED <<processed, disposers>>

CleanUp_KeepsListeners(removed) ==
    /\ disposers' = [n \in Elements |-> IF n \in removed THEN OlderThan(disposers[n])
                                                         ELSE disposers[n]]
    /\ processed' = processed \ removed
    /\ UNCHANGED handlers

CleanUp(removed) ==
    /\ handlers' = [n \in Elements |-> IF n \in removed THEN OlderThan(handlers[n])
                                                        ELSE handlers[n]]
    /\ disposers' = [n \in Elements |-> IF n \in removed THEN OlderThan(disposers[n])
                                                         ELSE disposers[n]]
    /\ processed' = processed \ removed

----------------------------------------------------------------------------
(* processElements                                                          *)

\* The elements it sets out to process
Unprocessed(tree) == tree \ processed

\* Up to the await: without imports it goes on at once.
ProcessElements(c, call, tree) ==
    LET list == Unprocessed(tree)
        waits == list \cap Importing # {}
    IN /\ calls' = [calls EXCEPT ![c] = [call EXCEPT !.list = list,
                                      !.pc = IF waits THEN "importing" ELSE "ready"]]
       /\ running' = IF waits THEN 0 ELSE c
       /\ raced' = raced \cup {n \in list : Held(n)}

\* The modules have loaded, or failed to.
ImportsSettle(c) ==
    /\ running = 0
    /\ calls[c].pc = "importing"
    /\ calls' = [calls EXCEPT ![c].pc = "ready"]
    /\ jobs' = Append(jobs, c)
    /\ UNCHANGED <<inRoot, generation, mounted, processed, handlers, disposers, records,
                   running, changes, mounts, raced, stranded>>

\* The rest of processElements: listeners, bindings; then its caller's await.
Bind(c) ==
    IF calls[c].gen = generation
    THEN /\ processed' = processed \cup calls[c].list
         /\ handlers' = [n \in Elements |->
                            IF n \in calls[c].list THEN handlers[n] \cup {Mark(c)}
                                                   ELSE handlers[n]]
         /\ calls' = [calls EXCEPT ![c].pc = "returned"]
    ELSE /\ calls' = [calls EXCEPT ![c].pc = "returned", ![c].list = {}]
         /\ UNCHANGED <<processed, handlers>>

ProcessReturns(c) ==
    /\ running = c /\ calls[c].pc = "ready"
    /\ Bind(c)
    /\ running' = 0
    /\ jobs' = Append(jobs, c)
    /\ UNCHANGED <<inRoot, generation, mounted, disposers, records, changes, mounts,
                   raced, stranded>>

\* A call's turn in the microtask queue
Resume(c) ==
    /\ running = 0
    /\ jobs # <<>> /\ Head(jobs) = c /\ c # Observe
    /\ running' = c /\ jobs' = Tail(jobs)
    /\ UNCHANGED <<inRoot, generation, mounted, processed, handlers, disposers, records,
                   calls, changes, mounts, raced, stranded>>

\* A disposer is kept by the HELIUM of the moment, and without one no init can run.
RunInits(c, list) ==
    disposers' = [n \in Elements |->
                     IF n \in list /\ mounted
                     THEN disposers[n] \cup {[gen |-> generation, call |-> c]}
                     ELSE disposers[n]]

----------------------------------------------------------------------------
(* helium() and heliumTeardown()                                            *)

\* Disconnecting discards what the observer has not delivered.
EndGeneration ==
    /\ generation' = generation + 1
    /\ mounts < MaxMounts /\ mounts' = mounts + 1
    /\ records' = <<>>
    /\ raced' = raced \cup {n \in Elements : \E c \in DOMAIN calls :
                   /\ calls[c].by = "observer" /\ calls[c].pc = "returned"
                   /\ n \in calls[c].list}
    /\ IF mounted
       THEN /\ handlers' = [n \in Elements |-> IF n \in inRoot THEN OlderThan(handlers[n])
                                                               ELSE handlers[n]]
            /\ disposers' = [n \in Elements |-> IF n \in inRoot THEN OlderThan(disposers[n])
                                                                ELSE disposers[n]]
            /\ stranded' = stranded \cup {n \in Elements \ inRoot : disposers[n] # {}}
       ELSE UNCHANGED <<handlers, disposers, stranded>>
    /\ processed' = {}

Mount ==
    /\ running = 0
    /\ EndGeneration
    /\ mounted' = TRUE
    /\ LET c == Len(calls) + 1
           waits == inRoot \cap Importing # {}
       IN /\ calls' = Append(calls, [by |-> "mount", gen |-> generation + 1, list |-> inRoot,
                                     pc |-> IF waits THEN "importing" ELSE "ready",
                                     rest |-> <<>>])
          /\ running' = IF waits THEN 0 ELSE c
    /\ UNCHANGED <<inRoot, jobs, changes>>

Teardown ==
    /\ running = 0
    /\ mounted
    /\ EndGeneration
    /\ mounted' = FALSE
    /\ UNCHANGED <<inRoot, jobs, calls, running, changes>>

\* helium(), once the root is processed
MountReturns(c) ==
    /\ running = c /\ calls[c].by = "mount" /\ calls[c].pc = "returned"
    /\ IF calls[c].gen = generation THEN RunInits(c, calls[c].list) ELSE UNCHANGED disposers
    /\ calls' = [calls EXCEPT ![c].pc = "done", ![c].list = {}]
    /\ running' = 0
    /\ UNCHANGED <<inRoot, generation, mounted, processed, handlers, records, jobs, changes,
                   mounts, raced, stranded>>

----------------------------------------------------------------------------
(* The observer's callback                                                  *)

\* It is called with all records so far; one of an older generation returns at once.
ObserverCalled ==
    /\ running = 0
    /\ jobs # <<>> /\ Head(jobs) = Observe
    /\ jobs' = Tail(jobs)
    /\ records' = <<>>
    /\ IF records # <<>>
       THEN /\ calls' = Append(calls, [by |-> "observer", gen |-> generation, list |-> {},
                                       pc |-> "next", rest |-> records])
            /\ running' = Len(calls) + 1
       ELSE UNCHANGED <<calls, running>>
    /\ UNCHANGED <<inRoot, generation, mounted, processed, handlers, disposers, changes,
                   mounts, raced, stranded>>

AtNextRecord(c) == running = c /\ calls[c].pc = "next"

\* The loop is over; after a teardown HELIUM is null and it throws.
RecordsEnd(c) ==
    /\ AtNextRecord(c)
    /\ calls[c].rest = <<>> \/ ~mounted
    /\ calls' = [calls EXCEPT ![c].pc = "done"]
    /\ running' = 0
    /\ UNCHANGED <<inRoot, generation, mounted, processed, handlers, disposers, records,
                   jobs, changes, mounts, raced, stranded>>

\* An element that has left the root is cleaned up.
RemovedRecord(c) ==
    /\ AtNextRecord(c) /\ mounted /\ calls[c].rest # <<>>
    /\ Head(calls[c].rest).what = "removed"
    /\ LET n == Head(calls[c].rest).el
       IN IF n \in inRoot THEN UNCHANGED <<handlers, disposers, processed>> ELSE CleanUp({n})
    /\ calls' = [calls EXCEPT ![c].rest = Tail(@)]
    /\ UNCHANGED <<inRoot, generation, mounted, records, jobs, running, changes, mounts,
                   raced, stranded>>

\* One that has entered it, is still there and is not processed yet, is processed.
ToProcess(n) == n \in inRoot /\ n \notin processed

AddedRecord(c) ==
    /\ AtNextRecord(c) /\ mounted /\ calls[c].rest # <<>>
    /\ Head(calls[c].rest).what = "added"
    /\ LET n == Head(calls[c].rest).el
           next == [calls[c] EXCEPT !.rest = Tail(@)]
       IN IF ToProcess(n)
          THEN ProcessElements(c, next, {n})
          ELSE calls' = [calls EXCEPT ![c] = next] /\ UNCHANGED <<running, raced>>
    /\ UNCHANGED <<inRoot, generation, mounted, processed, handlers, disposers, records,
                   jobs, changes, mounts, stranded>>

\* After the await: unless it has left again, its bindings are applied, its inits run.
AddedProcessed(c) ==
    /\ running = c /\ calls[c].by = "observer" /\ calls[c].pc = "returned"
    /\ RunInits(c, calls[c].list \cap inRoot)
    /\ calls' = [calls EXCEPT ![c].pc = "next", ![c].list = {}]
    /\ UNCHANGED <<inRoot, generation, mounted, processed, handlers, records, jobs, running,
                   changes, mounts, raced, stranded>>

----------------------------------------------------------------------------

ElementsJob(c) ==
    \/ ImportsSettle(c) \/ Resume(c) \/ ProcessReturns(c) \/ MountReturns(c)
    \/ RecordsEnd(c) \/ RemovedRecord(c) \/ AddedRecord(c) \/ AddedProcessed(c)

ElementsNext ==
    \/ \E n \in Elements : Insert(n) \/ Remove(n)
    \/ Mount \/ Teardown \/ ObserverCalled
    \/ \E c \in DOMAIN calls : ElementsJob(c)

ElementsSpec == ElementsInit /\ [][ElementsNext]_elementsVars

----------------------------------------------------------------------------

Current(marks) == {m \in marks : m.gen = generation}

(***************************************************************************)
(* An element's handlers are attached once, so that a click is one request, *)
(* and its @init is running once, however often it is moved, reinserted or  *)
(* remounted: unless it moved, or was recorded again, while a call that had *)
(* taken it into its list waited across an await. The list is used as it is *)
(* after the await, and by then the element may have been processed by      *)
(* another call, or be gone (processElements and its callers). Or the page  *)
(* was mounted anew between its binding and its @init, which the callback of*)
(* the old generation runs all the same.                                    *)
(***************************************************************************)
BoundOnce ==
    \A n \in Elements \ (raced \cup stranded) :
        Cardinality(Current(handlers[n])) <= 1 /\ Cardinality(disposers[n]) <= 1

AtRest == /\ jobs = <<>> /\ running = 0
          /\ \A c \in DOMAIN calls : calls[c].pc = "done"

(***************************************************************************)
(* README: "newly inserted nodes are bound, removed nodes are cleaned up".  *)
(* Once nothing is waiting, the elements in the root of a mounted page are  *)
(* bound and their inits run, and nothing of any other element is left, nor *)
(* of any element after a teardown. The exceptions are those of BoundOnce,  *)
(* and elements removed in the task that ends the generation: disconnecting *)
(* the observer discards their records, and cleaning up the root does not   *)
(* reach them (helium, heliumTeardown).                                     *)
(***************************************************************************)
BoundIffThere ==
    AtRest => \A n \in Elements \ (raced \cup stranded) :
        /\ (Current(handlers[n]) # {}) = (mounted /\ n \in inRoot)
        /\ (disposers[n] # {}) = (mounted /\ n \in inRoot)
        /\ (n \in processed) = (mounted /\ n \in inRoot)

=============================================================================
