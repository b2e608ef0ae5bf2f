---------------------------- MODULE AsyncAdapter ----------------------------
(***************************************************************************)
(* The in-process job adapter (lib/lunula/jobs/adapters/async.rb): enqueue  *)
(* puts an item on a list under a mutex and starts a worker thread unless   *)
(* one is alive; the thread takes the best item that is due, and waits for  *)
(* the next on a condition variable; shutdown tells it to stop, joins it for*)
(* a second at most, and empties the list if it has ended by then.          *)
(***************************************************************************)
EXTENDS Integers

CONSTANTS
    Priorities, Delays,   \* of the items that are enqueued
    Stoppers,             \* callers of shutdown
    MaxItems,             \* bound: calls of enqueue, so also threads
    MaxShutdowns          \* bound: calls of shutdown

ASSUME AsyncAssumption ==
    /\ Priorities \subseteq Int /\ Delays \subseteq Nat
    /\ MaxItems \in Nat /\ MaxShutdowns \in Nat

VARIABLES
    time,        \* the adapter's clock
    items,       \* @items
    sequence,    \* @sequence
    thread,      \* @thread, 0 for nil
    stopping,    \* @stopping
    threads,     \* every thread started: where it is, and what it waits for or performs
    stops,       \* by caller, the thread shutdown is joining, 0 for none
    performed,   \* items begun, by sequence number
    shutdowns    \* how much of MaxShutdowns is used

asyncVars == <<time, items, sequence, thread, stopping, threads, stops, performed, shutdowns>>

Threads == 1..MaxItems
Never == -1
Item == [priority : Priorities, scheduled_at : Nat, sequence : 1..MaxItems]

AsyncTypeOK ==
    /\ time \in Nat
    /\ items \subseteq Item
    /\ sequence \in 0..MaxItems
    /\ thread \in 0..MaxItems
    /\ stopping \in BOOLEAN
    /\ threads \in [Threads -> [pc : {"none", "running", "waiting", "performing", "leaving", "dead"},
                                until : Nat \cup {Never}]]
    /\ stops \in [Stoppers -> 0..MaxItems]
    /\ performed \subseteq 1..MaxItems
    /\ shutdowns \in 0..MaxShutdowns

AsyncInit ==
    /\ time = 0
    /\ items = {} /\ sequence = 0
    /\ thread = 0 /\ stopping = FALSE
    /\ threads = [w \in Threads |-> [pc |-> "none", until |-> Never]]
    /\ stops = [x \in Stoppers |-> 0]
    /\ performed = {} /\ shutdowns = 0

----------------------------------------------------------------------------

Waiting(w) == threads[w].pc = "waiting"
Alive(w) == threads[w].pc \in {"running", "waiting", "performing", "leaving"}
Started == {w \in Threads : threads[w].pc # "none"}

\* signal left out
Signalled_Nobody(all) == {all}

\* One of the waiting threads is woken, if there is one
Signalled(all) ==
    IF \E w \in Threads : Waiting(w)
    THEN {[all EXCEPT ![w].pc = "running"] : w \in {v \in Threads : Waiting(v)}}
    ELSE {all}

\* start_locked
StartLocked(w) ==
    IF thread # 0 /\ Alive(thread)
    THEN /\ w = thread
         /\ threads' \in Signalled(threads)
         /\ UNCHANGED <<thread, stopping>>
    ELSE /\ threads[w].pc = "none" /\ \A v \in 1..w - 1 : v \in Started
         /\ thread' = w
         /\ stopping' = FALSE
         /\ threads' \in Signalled([threads EXCEPT ![w].pc = "running"])

Enqueue(priority, delay) ==
    /\ sequence < MaxItems
    /\ \E w \in Threads : StartLocked(w)
    /\ sequence' = sequence + 1
    /\ items' = items \cup {[priority |-> priority, scheduled_at |-> time + delay,
                             sequence |-> sequence + 1]}
    /\ UNCHANGED <<time, stops, performed, shutdowns>>

\* The order of [priority, scheduled_at, sequence]
Before(i, j) ==
    \/ i.priority < j.priority
    \/ /\ i.priority = j.priority
       /\ \/ i.scheduled_at < j.scheduled_at
          \/ i.scheduled_at = j.scheduled_at /\ i.sequence < j.sequence

Ready == {i \in items : i.scheduled_at <= time}
Earliest == CHOOSE t \in {i.scheduled_at : i \in items} : \A i \in items : t <= i.scheduled_at

\* next_item, up to the end of the method or to the wait
NextItemStops(w) ==
    /\ threads[w].pc = "running" /\ stopping
    /\ threads' = [threads EXCEPT ![w].pc = "leaving"]
    /\ UNCHANGED <<time, items, sequence, thread, stopping, stops, performed, shutdowns>>

NextItem(w) ==
    /\ threads[w].pc = "running" /\ ~stopping
    /\ \E item \in Ready :
          /\ \A other \in Ready \ {item} : Before(item, other)
          /\ items' = items \ {item}
          /\ performed' = performed \cup {item.sequence}
    /\ threads' = [threads EXCEPT ![w].pc = "performing"]
    /\ UNCHANGED <<time, sequence, thread, stopping, stops, shutdowns>>

NextItemWaits(w) ==
    /\ threads[w].pc = "running" /\ ~stopping
    /\ Ready = {}
    /\ threads' = [threads EXCEPT
          ![w] = [pc |-> "waiting", until |-> IF items = {} THEN Never ELSE Earliest]]
    /\ UNCHANGED <<time, items, sequence, thread, stopping, stops, performed, shutdowns>>

WaitEnds(w) ==
    /\ Waiting(w) /\ threads[w].until # Never /\ threads[w].until <= time
    /\ threads' = [threads EXCEPT ![w].pc = "running"]
    /\ UNCHANGED <<time, items, sequence, thread, stopping, stops, performed, shutdowns>>

\* Jobs.perform returns, or raises and is logged
PerformEnds(w) ==
    /\ threads[w].pc = "performing"
    /\ threads' = [threads EXCEPT ![w].pc = "running"]
    /\ UNCHANGED <<time, items, sequence, thread, stopping, stops, performed, shutdowns>>

\* Between next_item's last answer and its end a thread is alive
ThreadEnds(w) ==
    /\ threads[w].pc = "leaving"
    /\ threads' = [threads EXCEPT ![w].pc = "dead"]
    /\ UNCHANGED <<time, items, sequence, thread, stopping, stops, performed, shutdowns>>

\* shutdown, its first critical section
Shutdown(x) ==
    /\ stops[x] = 0 /\ shutdowns < MaxShutdowns
    /\ stopping' = TRUE
    /\ threads' = [w \in Threads |->
          IF Waiting(w) THEN [threads[w] EXCEPT !.pc = "running"] ELSE threads[w]]
    /\ stops' = [stops EXCEPT ![x] = thread]
    /\ shutdowns' = shutdowns + 1
    /\ UNCHANGED <<time, items, sequence, thread, performed>>

\* shutdown, its second: the thread it read in the first has ended, or a second is over
ShutdownEnds(x) ==
    /\ stops[x] # 0
    /\ stops' = [stops EXCEPT ![x] = 0]
    /\ IF Alive(stops[x])
       THEN UNCHANGED <<items, thread, stopping>>
       ELSE thread' = 0 /\ items' = {} /\ stopping' = FALSE
    /\ UNCHANGED <<time, sequence, threads, performed, shutdowns>>

\* Time passes while something is not due yet
TimePasses ==
    /\ \E item \in items : item.scheduled_at > time
    /\ time' = time + 1
    /\ UNCHANGED <<items, sequence, thread, stopping, threads, stops, performed, shutdowns>>

Runs(w) ==
    \/ NextItemStops(w) \/ NextItem(w) \/ NextItemWaits(w)
    \/ WaitEnds(w) \/ PerformEnds(w) \/ ThreadEnds(w)

AsyncNext ==
    \/ \E priority \in Priorities, delay \in Delays : Enqueue(priority, delay)
    \/ \E w \in Threads : Runs(w)
    \/ \E x \in Stoppers : Shutdown(x) \/ ShutdownEnds(x)
    \/ TimePasses

\* Threads are scheduled, and jobs end. Nobody has to call shutdown, or to return from it
AsyncFairness ==
    /\ \A w \in Threads : WF_asyncVars(Runs(w))
    /\ WF_asyncVars(TimePasses)

AsyncSpec == AsyncInit /\ [][AsyncNext]_asyncVars /\ AsyncFairness

----------------------------------------------------------------------------

Accepted(n) == \E item \in items : item.sequence = n
Quiet == ~stopping /\ \A x \in Stoppers : stops[x] = 0

(***************************************************************************)
(* What enqueue has accepted is performed, unless shutdown is called or was *)
(* still under way (async.rb:46): no signal is lost between two waits, and  *)
(* no thread that is ending, or that shutdown has forgotten, is counted on. *)
(***************************************************************************)
AcceptedIsPerformed ==
    \A n \in 1..MaxItems : Accepted(n) /\ Quiet ~> n \in performed \/ ~Quiet

=============================================================================
