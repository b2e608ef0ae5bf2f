------------------------- MODULE RecurringScheduler -------------------------
(***************************************************************************)
(* RecurringScheduler of lib/lunula/jobs/recurring.rb: each tick reads the  *)
(* clock once and goes through the enabled tasks in order; for each it      *)
(* claims the slot the clock is in, in a transaction that inserts the slot's*)
(* row, enqueues the job and commits. Schedulers run beside one another, and*)
(* beside jobs:recurring run, which claims the present moment as a slot.    *)
(***************************************************************************)
EXTENDS Integers, Sequences

CONSTANTS
    Tasks,           \* the enabled entries of the schedule
    Order,           \* the order in which the file has them
    Interval,        \* by task, in seconds
    BrokenTasks,     \* those whose job class does not exist
    Schedulers,
    LastSecond,      \* bound: the clock
    MaxFailures      \* bound: processes killed, jobs refused

ASSUME RecurringAssumption ==
    /\ Order \in Seq(Tasks) /\ Tasks = {Order[i] : i \in DOMAIN Order}
    /\ Interval \in [Tasks -> Nat \ {0}]
    /\ BrokenTasks \subseteq Tasks
    /\ LastSecond \in Nat /\ MaxFailures \in Nat

VARIABLES
    transactional,   \* is the job adapter on the scheduler's database
    second,      \* the clock
    runs,        \* the table's committed rows: task and slot
    jobCount,        \* by task and slot, how often its job was enqueued for good
    scheduler,   \* where each is, the clock it read, and the tasks it has left
    failures     \* how much of MaxFailures is used

recurringVars == <<transactional, second, runs, jobCount, scheduler, failures>>

Slots == Tasks \X (0..LastSecond)

Scheduler ==
    [stage : {"idle", "next", "inserted", "enqueued"}, now : 0..LastSecond,
     manual : BOOLEAN, left : Seq(Tasks)]

RecurringTypeOK ==
    /\ transactional \in BOOLEAN
    /\ second \in 0..LastSecond
    /\ runs \subseteq Slots
    /\ jobCount \in [Slots -> Nat]
    /\ scheduler \in [Schedulers -> Scheduler]
    /\ failures \in 0..MaxFailures

Asleep == [stage |-> "idle", now |-> 0, manual |-> FALSE, left |-> <<>>]

RecurringInit ==
    /\ transactional \in BOOLEAN
    /\ second = 0
    /\ runs = {} /\ jobCount = [slot \in Slots |-> 0]
    /\ scheduler = [s \in Schedulers |-> Asleep]
    /\ failures = 0

----------------------------------------------------------------------------

\* due_at
Due(task, now) == now - (now % Interval[task])

Task(s) == Head(scheduler[s].left)

\* The slot of the entry a scheduler is at; its row is there but for others to see
Slot(s) ==
    <<Task(s), IF scheduler[s].manual THEN scheduler[s].now ELSE Due(Task(s), scheduler[s].now)>>
InTransaction(s) == scheduler[s].stage \in {"inserted", "enqueued"}

\* The last entry ends the tick
Passed(s) ==
    IF Len(scheduler[s].left) = 1 THEN Asleep
    ELSE [scheduler[s] EXCEPT !.stage = "next", !.left = Tail(@)]

\* A tick of an empty schedule is over at once
TickBegins(s) ==
    /\ scheduler[s].stage = "idle" /\ Order # <<>>
    /\ scheduler' = [scheduler EXCEPT
          ![s] = [stage |-> "next", now |-> second, manual |-> FALSE, left |-> Order]]
    /\ UNCHANGED <<transactional, second, runs, jobCount, failures>>

Trigger(s, task) ==
    /\ scheduler[s].stage = "idle"
    /\ scheduler' = [scheduler EXCEPT
          ![s] = [stage |-> "next", now |-> second, manual |-> TRUE, left |-> <<task>>]]
    /\ UNCHANGED <<transactional, second, runs, jobCount, failures>>

\* Without the index
SlotIsHeld_Never(s) == FALSE

\* The unique index: an insert waits for one of the same slot that is not committed
SlotIsHeld(s) == \E t \in Schedulers : InTransaction(t) /\ Slot(t) = Slot(s)

InsertRun(s) ==
    /\ scheduler[s].stage = "next" /\ Slot(s) \notin runs /\ ~SlotIsHeld(s)
    /\ scheduler' = [scheduler EXCEPT ![s].stage = "inserted"]
    /\ UNCHANGED <<transactional, second, runs, jobCount, failures>>

\* UniqueConstraintViolation: someone has seen to this slot
InsertTaken(s) ==
    /\ scheduler[s].stage = "next" /\ Slot(s) \in runs
    /\ scheduler' = [scheduler EXCEPT ![s] = Passed(s)]
    /\ UNCHANGED <<transactional, second, runs, jobCount, failures>>

\* adapter.enqueue: out at once, unless it is part of the transaction
EnqueueJob(s) ==
    /\ scheduler[s].stage = "inserted" /\ Task(s) \notin BrokenTasks
    /\ scheduler' = [scheduler EXCEPT ![s].stage = "enqueued"]
    /\ jobCount' = IF transactional THEN jobCount ELSE [jobCount EXCEPT ![Slot(s)] = @ + 1]
    /\ UNCHANGED <<transactional, second, runs, failures>>

CommitRun(s) ==
    /\ scheduler[s].stage = "enqueued"
    /\ runs' = runs \cup {Slot(s)}
    /\ jobCount' = IF transactional THEN [jobCount EXCEPT ![Slot(s)] = @ + 1] ELSE jobCount
    /\ scheduler' = [scheduler EXCEPT ![s] = Passed(s)]
    /\ UNCHANGED <<transactional, second, failures>>

\* NameError: the tick ends where it is
ClassMissing(s) ==
    /\ scheduler[s].stage = "inserted" /\ Task(s) \in BrokenTasks
    /\ scheduler' = [scheduler EXCEPT ![s] = Asleep]
    /\ UNCHANGED <<transactional, second, runs, jobCount, failures>>

\* A statement or the adapter raises, or the process is killed
Fails(s) ==
    /\ InTransaction(s) /\ failures < MaxFailures
    /\ failures' = failures + 1
    /\ scheduler' = [scheduler EXCEPT ![s] = Asleep]
    /\ UNCHANGED <<transactional, second, runs, jobCount>>

SecondPasses ==
    /\ second < LastSecond
    /\ second' = second + 1
    /\ UNCHANGED <<transactional, runs, jobCount, scheduler, failures>>

RecurringNext ==
    \/ \E s \in Schedulers :
          \/ TickBegins(s) \/ \E task \in Tasks : Trigger(s, task)
          \/ InsertRun(s) \/ InsertTaken(s) \/ EnqueueJob(s) \/ CommitRun(s)
          \/ ClassMissing(s) \/ Fails(s)
    \/ SecondPasses

RecurringSpec == RecurringInit /\ [][RecurringNext]_recurringVars

----------------------------------------------------------------------------

\* A job that is out though its transaction is not committed yet
Early(slot) ==
    ~transactional /\ \E s \in Schedulers :
        scheduler[s].stage = "enqueued" /\ Slot(s) = slot

\* A slot that has a row has had its job, once; a job that is out has its row, but for
\* one for each transaction that failed after an adapter elsewhere had taken the job
JobPerSlot(slot) ==
    /\ slot \in runs => jobCount[slot] >= 1
    /\ jobCount[slot] <= 1 + (IF transactional THEN 0 ELSE failures)
    /\ jobCount[slot] > 0 => slot \in runs \/ Early(slot) \/ (~transactional /\ failures > 0)

\* Whatever a tick has gone past is done: a slot is left to another only once it is taken
PassedIsDone(s) ==
    scheduler[s].stage # "idle" /\ ~scheduler[s].manual =>
        \A i \in 1..Len(Order) - Len(scheduler[s].left) :
            <<Order[i], Due(Order[i], scheduler[s].now)>> \in runs

(***************************************************************************)
(* Schedulers that race, die or fall behind enqueue each slot's job once    *)
(* (recurring.rb:187), and none of them goes past a slot that is not done.  *)
(***************************************************************************)
SlotsServedOnce ==
    /\ \A slot \in Slots : JobPerSlot(slot)
    /\ \A s \in Schedulers : PassedIsDone(s)

=============================================================================
