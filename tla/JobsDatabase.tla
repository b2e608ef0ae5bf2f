--------------------------- MODULE JobsDatabase ---------------------------
(***************************************************************************)
(* The durable job system: Jobs::Adapters::Database and the Jobs::Worker    *)
(* processes that share its three tables. On top of Durable::Queue          *)
(* (QueueRows) it has a registry of workers with heartbeats, recovery of    *)
(* jobs whose worker stopped beating, paused queues, concurrency limits, a  *)
(* monitor thread that renews the lease of the job it watches, cooperative  *)
(* cancellation, and operator commands. Each SQL statement or transaction   *)
(* is one atomic step; what a process learned in one step may be out of     *)
(* date in the next. Statements are merged where nothing another actor does *)
(* between them changes what either of them does.                           *)
(***************************************************************************)
EXTENDS QueueRows, FiniteSets

CONSTANTS
    Ids,              \* row ids of the jobs table
    Priority,         \* priority column
    Queue,            \* queue column
    ConcurrencyKey,   \* concurrency_key column, NoKey for NULL
    NoKey,
    ConcurrencyLimit, \* concurrency_limit column
    Workers,          \* worker ids: each process has a fresh one
    WorkerTimeout,    \* heartbeats older than this declare a worker stale
    Limit,            \* batch_size
    Threads,          \* thread_count
    Window,           \* candidate_limit
    Commands,         \* the operator commands in use
    SlowWorkers,      \* bound: TRUE lets time pass for no reason of the tables'
    MaxClock,         \* bound: last reading of the clock
    MaxRenewals,      \* bound: last reading at which a monitor renews
    MaxCommands,      \* bound: operator commands
    MaxExits,         \* bound: worker processes that die or are stopped
    MaxBusy           \* bound: Sequel::DatabaseErrors

AllCommands == {"pause", "resume", "discard", "reschedule", "cancel", "retry",
                "prune"}

ASSUME JobsAssumption ==
    /\ Lifecycle
    /\ Ids \subseteq Nat /\ IsFiniteSet(Ids) /\ IsFiniteSet(Workers)
    /\ Priority \in [Ids -> Int]
    /\ DOMAIN Queue = Ids /\ DOMAIN ConcurrencyKey = Ids
    /\ ConcurrencyLimit \in [Ids -> Nat \ {0}]
    /\ {WorkerTimeout, Limit, Threads} \subseteq Nat \ {0}
    /\ Window \in Nat /\ Window >= Limit
    /\ Nil \notin Workers
    /\ Commands \subseteq AllCommands
    /\ SlowWorkers \in BOOLEAN
    /\ {MaxClock, MaxRenewals, MaxCommands, MaxExits, MaxBusy} \subseteq Nat

VARIABLES
    jobs,      \* the jobs table
    registry,  \* lunula_job_workers: last_heartbeat_at, Nil where there is no row
    paused,    \* lunula_job_queues: the queues that have a row
    proc,      \* what each worker process has in memory
    command,   \* an operator command that has read its row and is yet to write
    clock,
    issued,    \* claim tokens so far
    used       \* how much of the bounds is used

vars == <<jobs, registry, paused, proc, command, clock, issued, used>>

\* blocked_at and blocked_reason together: why a job was found blocked
Reasons == {"no", "paused", "full"}

Job == [stage        : Stages,
        attempts     : 0..MaxAttempts,
        available_at : Nat,
        locked_at    : Nat,
        locked_by    : Nat,
        failed       : BOOLEAN,
        completed    : BOOLEAN,
        discarded    : BOOLEAN,
        worker       : Workers \cup {Nil},
        cancel_requested : BOOLEAN,
        cancelled    : BOOLEAN,
        blocked      : Reasons]

NewJob == [stage |-> "new", attempts |-> 0, available_at |-> Nil,
           locked_at |-> Nil, locked_by |-> Nil,
           failed |-> FALSE, completed |-> FALSE, discarded |-> FALSE,
           worker |-> Nil, cancel_requested |-> FALSE, cancelled |-> FALSE,
           blocked |-> "no"]

(***************************************************************************)
(* A claim as perform_claim sees it: waiting for a thread, running the job's*)
(* body, past the last cancellation check and about to complete, past a     *)
(* complete that met a database error, about to terminate as cancelled, or  *)
(* between fail_claim's read and write. The state of the ExecutionContext is*)
(* left out: it makes a body end, which it may at any time, and what then   *)
(* happens to the row is decided by the row.                                *)
(***************************************************************************)
Claim == [id    : Ids,
          token : Nat \ {Nil},
          phase : {"waiting", "running", "checked", "errored", "cancelling", "failing"},
          seen  : 0..MaxAttempts]

Process == [pc    : {"boot", "beat", "stale", "recover", "claim", "scan",
                     "mark", "allowed", "work", "off"},
            at    : Nat,
            stale : SUBSET Workers,
            cands : Seq(Ids),
            why   : Reasons,
            held  : SUBSET Claim]

Booting == [pc |-> "boot", at |-> Nil, stale |-> {}, cands |-> <<>>, why |-> "no",
            held |-> {}]

NoCommand == [name |-> "none", id |-> 0, token |-> Nil, blocked |-> "no"]

TypeOK ==
    /\ jobs \in [Ids -> Job]
    /\ registry \in [Workers -> Nat]
    /\ paused \subseteq {Queue[i] : i \in Ids}
    /\ proc \in [Workers -> Process]
    /\ command \in [name : {"none", "reschedule", "cancel_running", "cancel_pending"},
                    id : Ids \cup {0}, token : Nat, blocked : Reasons]
    /\ clock \in Nat \ {0}
    /\ issued \in Nat
    /\ used \in [commands : 0..MaxCommands, exits : 0..MaxExits, busy : 0..MaxBusy]

Init ==
    /\ jobs = [i \in Ids |-> NewJob]
    /\ registry = [w \in Workers |-> Nil]
    /\ paused = {}
    /\ proc = [w \in Workers |-> Booting]
    /\ command = NoCommand
    /\ clock = 1
    /\ issued = 0
    /\ used = [commands |-> 0, exits |-> 0, busy |-> 0]

----------------------------------------------------------------------------
(* enqueue                                                                  *)

\* queue_block_attributes
BlockedIn(queue) == IF queue \in paused THEN "paused" ELSE "no"

\* For now: a job that is to run later is one that reschedule has moved.
Enqueue(i) ==
    /\ jobs[i].stage = "new"
    /\ jobs' = [jobs EXCEPT ![i] = [NewJob EXCEPT !.stage = "live",
                                                  !.available_at = clock,
                                                  !.blocked = BlockedIn(Queue[i])]]
    /\ UNCHANGED <<registry, paused, proc, command, clock, issued, used>>

----------------------------------------------------------------------------
(* Worker#run: register, then heartbeat, claim and perform, over and over   *)

\* heartbeat_worker: no row, no heartbeat
Beaten(w) == IF registry[w] = Nil THEN registry
                                  ELSE [registry EXCEPT ![w] = clock]

Register(w) ==
    /\ proc[w].pc = "boot"
    /\ registry' = [registry EXCEPT ![w] = clock]
    /\ proc' = [proc EXCEPT ![w].pc = "beat"]
    /\ UNCHANGED <<jobs, paused, command, clock, issued, used>>

Beat(w) ==
    /\ proc[w].pc = "beat"
    /\ registry' = Beaten(w)
    /\ proc' = [proc EXCEPT ![w].pc = "stale"]
    /\ UNCHANGED <<jobs, paused, command, clock, issued, used>>

\* last_heartbeat_at <= cutoff
Stale(w) == registry[w] # Nil /\ registry[w] + WorkerTimeout <= clock

\* recover_abandoned_workers, outside its transaction: the stale ids
ReadStale(w) ==
    /\ proc[w].pc = "stale"
    /\ LET stale == {v \in Workers : Stale(v)}
       IN  proc' = IF stale = {}
                   THEN [proc EXCEPT ![w].pc = "claim"]
                   ELSE [proc EXCEPT ![w].pc = "recover", ![w].at = clock,
                                     ![w].stale = stale]
    /\ UNCHANGED <<jobs, registry, paused, command, clock, issued, used>>

\* A job of a worker that stopped beating, taken away from it at time at
Abandoned(r, at) ==
    IF AttemptsLeft(r)
    THEN [Unlock(r) EXCEPT !.available_at = at, !.worker = Nil]
    ELSE [Terminal(r) EXCEPT !.worker = Nil]

OwnedBy(r, S) == r.worker \in S /\ r.locked_at # Nil /\ ~r.failed

\* A recovery that does not ask whose the locked jobs are.
Recover_Anyone(w) ==
    /\ proc[w].pc = "recover"
    /\ jobs' = [i \in Ids |-> IF OwnedBy(jobs[i], Workers)
                              THEN Abandoned(jobs[i], proc[w].at) ELSE jobs[i]]
    /\ registry' = [v \in Workers |-> IF v \in proc[w].stale THEN Nil ELSE registry[v]]
    /\ proc' = [proc EXCEPT ![w].pc = "claim", ![w].at = Nil, ![w].stale = {}]
    /\ UNCHANGED <<paused, command, clock, issued, used>>

\* recover_abandoned_workers, its transaction
Recover(w) ==
    /\ proc[w].pc = "recover"
    /\ jobs' = [i \in Ids |-> IF OwnedBy(jobs[i], proc[w].stale)
                              THEN Abandoned(jobs[i], proc[w].at) ELSE jobs[i]]
    /\ registry' = [v \in Workers |-> IF v \in proc[w].stale THEN Nil ELSE registry[v]]
    /\ proc' = [proc EXCEPT ![w].pc = "claim", ![w].at = Nil, ![w].stale = {}]
    /\ UNCHANGED <<paused, command, clock, issued, used>>

\* No expiry pass.
Expiry_None(at) == jobs

\* expire_exhausted_leases
Expiry(at) == [i \in Ids |-> IF Exhausted(jobs[i], at) THEN Terminal(jobs[i]) ELSE jobs[i]]

\* Durable::Queue#claim_many: current_time = now, the expiry pass and the candidates.
\* The two statements are one step: a row that the pass fails is no candidate, nor
\* would it have been one without the pass.
StartClaim(w) ==
    /\ proc[w].pc = "claim"
    /\ jobs' = Expiry(clock)
    /\ \E s \in SeqOf(Ids, Window) :
          /\ IsPage(s, jobs', Priority, Window, clock)
          /\ proc' = [proc EXCEPT ![w].pc = "scan", ![w].at = clock, ![w].cands = s]
    /\ UNCHANGED <<registry, paused, command, clock, issued, used>>

\* A worker's next candidate, and its claim when it is done with this one
Candidate(w) == Head(proc[w].cands)

Passed(w) == [proc EXCEPT ![w].pc = "scan", ![w].cands = Tail(@), ![w].why = "no"]

\* active_scope: failed_at, completed_at and discarded_at all NULL
Active(r) == r.stage = "live" /\ ~r.failed /\ ~r.completed /\ ~r.discarded

\* The locked jobs of i's concurrency key, whoever locked them and however long ago
Running(i) == {j \in Ids : /\ Active(jobs[j]) /\ jobs[j].locked_at # Nil
                           /\ ConcurrencyKey[j] = ConcurrencyKey[i]}

\* A limit that lets one more in.
Full_OffByOne(i) == /\ ConcurrencyKey[i] # NoKey
                    /\ Cardinality(Running(i)) > ConcurrencyLimit[i]

Full(i) == /\ ConcurrencyKey[i] # NoKey
           /\ Cardinality(Running(i)) >= ConcurrencyLimit[i]

\* The re-read of the candidate and claim_allowed?'s two queries
CheckCandidate(w) ==
    /\ proc[w].pc = "scan"
    /\ proc[w].cands # <<>>
    /\ Cardinality(proc[w].held) < Limit
    /\ LET i == Candidate(w)
       IN  proc' = IF ~Eligible(jobs[i], proc[w].at) THEN Passed(w)
                   ELSE IF Queue[i] \in paused
                   THEN [proc EXCEPT ![w].pc = "mark", ![w].why = "paused"]
                   ELSE IF Full(i)
                   THEN [proc EXCEPT ![w].pc = "mark", ![w].why = "full"]
                   ELSE [proc EXCEPT ![w].pc = "allowed"]
    /\ UNCHANGED <<jobs, registry, paused, command, clock, issued, used>>

\* A mark put on whatever has become of the row.
MarkBlocked_Anyhow(w) ==
    /\ proc[w].pc = "mark"
    /\ jobs' = [jobs EXCEPT ![Candidate(w)].blocked = proc[w].why]
    /\ proc' = Passed(w)
    /\ UNCHANGED <<registry, paused, command, clock, issued, used>>

\* claim_allowed?'s mark on a row that is unlocked still
MarkBlocked(w) ==
    /\ proc[w].pc = "mark"
    /\ LET i == Candidate(w)
       IN  jobs' = IF jobs[i].stage = "live" /\ jobs[i].locked_at = Nil
                   THEN [jobs EXCEPT ![i].blocked = proc[w].why] ELSE jobs
    /\ proc' = Passed(w)
    /\ UNCHANGED <<registry, paused, command, clock, issued, used>>

\* The token of the claim before, where there was one.
Token_Kept(i) == IF jobs[i].locked_by = Nil THEN issued + 1 ELSE jobs[i].locked_by

\* SecureRandom.uuid
Token(i) == issued + 1

\* The adapter's claim_attributes
ClaimedFor(r, at, token, w) ==
    [Claimed(r, at, token) EXCEPT !.worker = w, !.blocked = "no"]

\* The claiming UPDATE
ClaimCandidate(w) ==
    /\ proc[w].pc = "allowed"
    /\ LET i == Candidate(w)
           k == [id |-> i, token |-> Token(i), phase |-> "waiting", seen |-> 0]
       IN  IF Eligible(jobs[i], proc[w].at)
           THEN /\ jobs' = [jobs EXCEPT ![i] = ClaimedFor(jobs[i], proc[w].at, Token(i), w)]
                /\ proc' = [Passed(w) EXCEPT ![w].held = @ \cup {k}]
                /\ issued' = issued + 1
           ELSE /\ proc' = Passed(w)
                /\ UNCHANGED <<jobs, issued>>
    /\ UNCHANGED <<registry, paused, command, clock, used>>

\* claim_many returns: update_workload beats, or there is nothing to do
ReturnClaims(w) ==
    /\ proc[w].pc = "scan"
    /\ proc[w].cands = <<>> \/ Cardinality(proc[w].held) = Limit
    /\ proc' = [proc EXCEPT ![w].pc = IF proc[w].held = {} THEN "beat" ELSE "work",
                            ![w].at = Nil, ![w].cands = <<>>]
    /\ registry' = IF proc[w].held = {} THEN registry ELSE Beaten(w)
    /\ UNCHANGED <<jobs, paused, command, clock, issued, used>>

\* perform_claims has joined its threads: update_workload(0) beats
FinishBatch(w) ==
    /\ proc[w].pc = "work"
    /\ proc[w].held = {}
    /\ registry' = Beaten(w)
    /\ proc' = [proc EXCEPT ![w].pc = "beat"]
    /\ UNCHANGED <<jobs, paused, command, clock, issued, used>>

\* SIGTERM: the loop ends after its batch and unregisters
Stop(w) ==
    /\ proc[w].pc = "beat"
    /\ used.exits < MaxExits
    /\ registry' = [registry EXCEPT ![w] = Nil]
    /\ proc' = [proc EXCEPT ![w].pc = "off"]
    /\ used' = [used EXCEPT !.exits = @ + 1]
    /\ UNCHANGED <<jobs, paused, command, clock, issued>>

\* kill -9: what it locked and its registry row stay behind
Crash(w) ==
    /\ proc[w].pc \notin {"boot", "off"}
    /\ used.exits < MaxExits
    /\ proc' = [proc EXCEPT ![w] = [Booting EXCEPT !.pc = "off"]]
    /\ used' = [used EXCEPT !.exits = @ + 1]
    /\ UNCHANGED <<jobs, registry, paused, command, clock, issued>>

\* claim_many raises at a candidate: the claims it has made are dropped
ScanFails(w) ==
    /\ proc[w].pc \in {"scan", "mark", "allowed"}
    /\ used.busy < MaxBusy
    /\ proc' = [proc EXCEPT ![w] = [Booting EXCEPT !.pc = "beat"]]
    /\ used' = [used EXCEPT !.busy = @ + 1]
    /\ UNCHANGED <<jobs, registry, paused, command, clock, issued>>

----------------------------------------------------------------------------
(* perform_claim                                                            *)

Drop(w, k) == proc' = [proc EXCEPT ![w].held = @ \ {k}]

Becomes(w, k, l) == proc' = [proc EXCEPT ![w].held = (@ \ {k}) \cup {l}]

Holds(k) == LockedBy(jobs[k.id], k.token)

\* A thread takes the claim from the batch; nothing checks its lease
StartJob(w, k) ==
    /\ proc[w].pc = "work"
    /\ k.phase = "waiting"
    /\ Cardinality({l \in proc[w].held : l.phase # "waiting"}) < Threads
    /\ Becomes(w, k, [k EXCEPT !.phase = "running"])
    /\ UNCHANGED <<jobs, registry, paused, command, clock, issued, used>>

\* The monitor's renew and heartbeat
Renew(w, k) ==
    /\ k.phase # "waiting"
    /\ clock <= MaxRenewals
    /\ Holds(k) /\ ~jobs[k.id].failed
    /\ jobs' = [jobs EXCEPT ![k.id] = Renewed(@, clock)]
    /\ registry' = Beaten(w)
    /\ UNCHANGED <<paused, proc, command, clock, issued, used>>

\* A renew that found no lease, or a job cancelled as pending, makes the body stop at
\* its next checkpoint; perform_claim then leaves the row alone.
LoseLease(w, k) ==
    /\ k.phase = "running"
    /\ clock <= MaxRenewals
    /\ ~Holds(k) \/ jobs[k.id].failed
    /\ Drop(w, k)
    /\ UNCHANGED <<jobs, registry, paused, command, clock, issued, used>>

\* The body returns, or stops at a checkpoint: cancellation_requested? and checkpoint!
EndBody(w, k) ==
    /\ k.phase = "running"
    /\ Becomes(w, k, [k EXCEPT !.phase = IF Holds(k) /\ jobs[k.id].cancel_requested
                                         THEN "cancelling" ELSE "checked"])
    /\ UNCHANGED <<jobs, registry, paused, command, clock, issued, used>>

\* complete, with the jobs table's complete_attributes; LeaseLost without the lease
Complete(w, k) ==
    /\ k.phase = "checked"
    /\ jobs' = IF Holds(k)
               THEN [jobs EXCEPT ![k.id] = [Completed(@) EXCEPT !.worker = Nil,
                                                   !.cancel_requested = FALSE]]
               ELSE jobs
    /\ Drop(w, k)
    /\ UNCHANGED <<registry, paused, command, clock, issued, used>>

\* terminate_claim of a cancelled job; its LeaseLost escapes to the Worker
Terminate(w, k) ==
    /\ k.phase = "cancelling"
    /\ jobs' = IF Holds(k)
               THEN [jobs EXCEPT ![k.id] = [Terminal(@) EXCEPT !.worker = Nil,
                                   !.cancelled = TRUE, !.cancel_requested = FALSE]]
               ELSE jobs
    /\ Drop(w, k)
    /\ UNCHANGED <<registry, paused, command, clock, issued, used>>

\* complete raises a Durable::Error, which perform_claim treats as the job's own
CompleteErrs(w, k) ==
    /\ k.phase = "checked"
    /\ used.busy < MaxBusy
    /\ Becomes(w, k, [k EXCEPT !.phase = "errored"])
    /\ used' = [used EXCEPT !.busy = @ + 1]
    /\ UNCHANGED <<jobs, registry, paused, command, clock, issued>>

\* The body raises, or its timeout has passed: fail_claim's read
FailRead(w, k) ==
    /\ k.phase \in {"running", "errored"}
    /\ IF Holds(k)
       THEN Becomes(w, k, [k EXCEPT !.phase = "failing", !.seen = jobs[k.id].attempts])
       ELSE Drop(w, k)
    /\ UNCHANGED <<jobs, registry, paused, command, clock, issued, used>>

\* fail_claim's guarded write, with release_attributes
FailWrite(w, k) ==
    /\ k.phase = "failing"
    /\ jobs' = IF Holds(k)
               THEN [jobs EXCEPT ![k.id] = [FailedAttempt(@, k.seen, clock)
                                            EXCEPT !.worker = Nil]]
               ELSE jobs
    /\ Drop(w, k)
    /\ UNCHANGED <<registry, paused, command, clock, issued, used>>

\* A Durable::Error out of fail_claim or terminate_claim: the Worker reports :failed
\* and the row stays as it is
GiveUp(w, k) ==
    /\ k.phase \in {"running", "errored", "cancelling", "failing"}
    /\ used.busy < MaxBusy
    /\ Drop(w, k)
    /\ used' = [used EXCEPT !.busy = @ + 1]
    /\ UNCHANGED <<jobs, registry, paused, command, clock, issued>>

----------------------------------------------------------------------------
(* Operators: jobs:pause, resume, discard, reschedule, cancel and retry     *)

Commanded(name) ==
    /\ name \in Commands
    /\ command = NoCommand
    /\ used.commands < MaxCommands
    /\ used' = [used EXCEPT !.commands = @ + 1]

Pending(r) == Active(r) /\ r.locked_at = Nil

Pause(queue) ==
    /\ Commanded("pause")
    /\ paused' = paused \cup {queue}
    /\ jobs' = [i \in Ids |-> IF Queue[i] = queue /\ Pending(jobs[i])
                              THEN [jobs[i] EXCEPT !.blocked = "paused"] ELSE jobs[i]]
    /\ UNCHANGED <<registry, proc, command, clock, issued>>

Resume(queue) ==
    /\ Commanded("resume")
    /\ paused' = paused \ {queue}
    /\ jobs' = [i \in Ids |-> IF /\ Queue[i] = queue /\ Pending(jobs[i])
                                 /\ jobs[i].blocked = "paused"
                              THEN [jobs[i] EXCEPT !.blocked = "no"] ELSE jobs[i]]
    /\ UNCHANGED <<registry, proc, command, clock, issued>>

\* A discard that looks at the outcome columns only.
Discard_Locked(i) ==
    /\ Commanded("discard")
    /\ Active(jobs[i])
    /\ jobs' = [jobs EXCEPT ![i].failed = TRUE, ![i].discarded = TRUE,
                            ![i].blocked = "no"]
    /\ UNCHANGED <<registry, paused, proc, command, clock, issued>>

Discard(i) ==
    /\ Commanded("discard")
    /\ Pending(jobs[i])
    /\ jobs' = [jobs EXCEPT ![i].failed = TRUE, ![i].discarded = TRUE,
                            ![i].blocked = "no"]
    /\ UNCHANGED <<registry, paused, proc, command, clock, issued>>

\* reschedule, the read; with it the look at the queue, which it uses in the write
RescheduleRead(i) ==
    /\ Commanded("reschedule")
    /\ Pending(jobs[i])
    /\ command' = [NoCommand EXCEPT !.name = "reschedule", !.id = i,
                                    !.blocked = BlockedIn(Queue[i])]
    /\ UNCHANGED <<jobs, registry, paused, proc, clock, issued>>

RescheduleWrite ==
    /\ command.name = "reschedule"
    /\ LET i == command.id
       IN  jobs' = IF Pending(jobs[i])
                   THEN [jobs EXCEPT ![i].available_at = clock + 1,
                                     ![i].blocked = command.blocked]
                   ELSE jobs
    /\ command' = NoCommand
    /\ UNCHANGED <<registry, paused, proc, clock, issued, used>>

\* cancel, the read: locked or not is decided here
CancelRead(i) ==
    /\ Commanded("cancel")
    /\ jobs[i].stage = "live"
    /\ command' = [NoCommand EXCEPT
                      !.name  = IF jobs[i].locked_at = Nil THEN "cancel_pending"
                                                           ELSE "cancel_running",
                      !.id    = i,
                      !.token = jobs[i].locked_by]
    /\ UNCHANGED <<jobs, registry, paused, proc, clock, issued>>

CancelRunning ==
    /\ command.name = "cancel_running"
    /\ jobs' = IF LockedBy(jobs[command.id], command.token)
               THEN [jobs EXCEPT ![command.id].cancel_requested = TRUE] ELSE jobs
    /\ command' = NoCommand
    /\ UNCHANGED <<registry, paused, proc, clock, issued, used>>

\* active_scope.where(id:), with no word of locked_at
CancelPending ==
    /\ command.name = "cancel_pending"
    /\ jobs' = IF Active(jobs[command.id])
               THEN [jobs EXCEPT ![command.id].failed = TRUE,
                                 ![command.id].discarded = TRUE,
                                 ![command.id].cancelled = TRUE,
                                 ![command.id].cancel_requested = FALSE]
               ELSE jobs
    /\ command' = NoCommand
    /\ UNCHANGED <<registry, paused, proc, clock, issued, used>>

\* retry_failed, with the adapter's reset_attributes
Retry(i) ==
    /\ Commanded("retry")
    /\ jobs[i].stage = "live" /\ jobs[i].failed
    /\ jobs' = [jobs EXCEPT ![i] = [Revived(@, clock) EXCEPT !.worker = Nil,
                   !.cancel_requested = FALSE, !.cancelled = FALSE, !.blocked = "no"]]
    /\ UNCHANGED <<registry, paused, proc, command, clock, issued>>

\* prune: rows in some outcome, those older than the dates it is given
Prune ==
    /\ Commanded("prune")
    /\ \E S \in SUBSET {i \in Ids : jobs[i].completed \/ jobs[i].failed} :
          /\ S # {}
          /\ jobs' = [i \in Ids |-> IF i \in S THEN [NewJob EXCEPT !.stage = "gone"]
                                              ELSE jobs[i]]
    /\ UNCHANGED <<registry, paused, proc, command, clock, issued>>

Operator ==
    \/ \E q \in {Queue[i] : i \in Ids} : Pause(q) \/ Resume(q)
    \/ \E i \in Ids : Discard(i) \/ RescheduleRead(i) \/ CancelRead(i) \/ Retry(i)
    \/ RescheduleWrite
    \/ CancelRunning
    \/ CancelPending
    \/ Prune

----------------------------------------------------------------------------
(* Time                                                                     *)

\* Time passes while a row, a lease or a dead worker's heartbeat waits for it
TimeMatters ==
    \/ \E i \in Ids : /\ Active(jobs[i])
                      /\ \/ jobs[i].available_at > clock
                         \/ jobs[i].locked_at # Nil /\ ~LeaseOver(jobs[i], clock)
    \/ \E w \in Workers : proc[w].pc = "off" /\ registry[w] # Nil /\ ~Stale(w)
    \/ SlowWorkers

Tick ==
    /\ clock < MaxClock
    /\ TimeMatters
    /\ clock' = clock + 1
    /\ UNCHANGED <<jobs, registry, paused, proc, command, issued, used>>

\* The worker's main thread, when it has not been told to stop
Loop(w) ==
    \/ Register(w)
    \/ Beat(w)
    \/ ReadStale(w)
    \/ Recover(w)
    \/ StartClaim(w)
    \/ CheckCandidate(w)
    \/ MarkBlocked(w)
    \/ ClaimCandidate(w)
    \/ ReturnClaims(w)
    \/ FinishBatch(w)

\* A job's thread, which gets somewhere however the job ends
Perform(w, k) ==
    \/ StartJob(w, k)
    \/ EndBody(w, k)
    \/ Complete(w, k)
    \/ Terminate(w, k)
    \/ FailRead(w, k)
    \/ FailWrite(w, k)

Next ==
    \/ \E i \in Ids : Enqueue(i)
    \/ \E w \in Workers :
          \/ Loop(w)
          \/ Stop(w)
          \/ Crash(w)
          \/ ScanFails(w)
          \/ \E k \in proc[w].held :
                \/ Perform(w, k)
                \/ Renew(w, k)
                \/ LoseLease(w, k)
                \/ CompleteErrs(w, k)
                \/ GiveUp(w, k)
    \/ Operator
    \/ Tick

Spec == Init /\ [][Next]_vars

\* Worker threads and job threads are scheduled, job bodies end, a command that
\* was begun is finished and time goes on; nobody has to enqueue, renew, crash,
\* run into an error or give a command.
Fairness ==
    /\ \A w \in Workers :
          /\ WF_vars(Loop(w))
          /\ WF_vars(\E k \in proc[w].held : Perform(w, k))
    /\ WF_vars(RescheduleWrite \/ CancelRunning \/ CancelPending)
    /\ WF_vars(Tick)

FairSpec == Spec /\ Fairness

----------------------------------------------------------------------------
(* Properties                                                               *)

\* worker_id names the process that holds the lease: recovery, which goes by that
\* column alone, takes no job from a process it did not find stale.
OwnerIsHolder ==
    \A w \in Workers : \A k \in proc[w].held : Holds(k) => jobs[k.id].worker = w

\* A job that is being worked on is never listed as blocked, though a scan that
\* found it blocked, a pause and a reschedule write their mark later.
RunningIsNotBlocked ==
    \A i \in Ids : jobs[i].locked_at # Nil => jobs[i].blocked = "no"

\* However failures, timeouts, cancellations, discards, recoveries, expiries and
\* retries follow one another, a failed job is a discarded one (what prune and
\* jobs:status count), a cancelled one is failed, and only the cancellation of a job
\* that looked pending can have failed a job that was then completed.
OutcomesAgree ==
    \A i \in Ids : /\ jobs[i].failed <=> jobs[i].discarded
                   /\ jobs[i].cancelled => jobs[i].failed
                   /\ (jobs[i].completed /\ jobs[i].failed) => jobs[i].cancelled

\* A lease ends by the process that holds it, after it lapsed, together with its
\* worker's registry row, or because its job was cancelled as pending while it ran:
\* nothing but the lock then tells retry_failed and prune that somebody works on it,
\* and neither of them looks at that.
LeaseEndsRightly ==
    [][\A i \in Ids :
          (jobs[i].locked_by # Nil /\ jobs'[i].locked_by # jobs[i].locked_by)
              => \/ LeaseOver(jobs[i], clock)
                 \/ \E w \in Workers : \E k \in proc[w].held :
                       /\ k.id = i /\ k.token = jobs[i].locked_by
                       /\ k \notin proc'[w].held
                 \/ /\ jobs[i].worker \in Workers
                    /\ registry'[jobs[i].worker] = Nil
                 \/ jobs[i].cancelled]_vars

\* Each worker counts before it claims, so however the counts and the claims of
\* several interleave, a key's limit is exceeded by at most one job for each other
\* worker. Job classes may share a key and differ in the limit: then the largest counts.
OvershootBounded ==
    \A i \in Ids : ConcurrencyKey[i] # NoKey =>
        \E j \in Ids : /\ ConcurrencyKey[j] = ConcurrencyKey[i]
                      /\ Cardinality(Running(i)) <=
                             ConcurrencyLimit[j] + Cardinality(Workers) - 1

\* The limit itself (README: "Concurrency limits are enforced when workers claim
\* jobs").
ConcurrencyLimited ==
    \A i \in Ids : Cardinality(Running(i)) <= ConcurrencyLimit[i]

\* A job does not end twice (TODO.md: "Make lifecycle operations safe when a job is
\* concurrently claimed or running").
EndsOnce == \A i \in Ids : ~(jobs[i].completed /\ jobs[i].failed)

\* A job that no process works on, whose lease has lapsed and whose worker has no
\* heartbeat that is not out of date, is in the end released or claimed again
\* (README: "A worker crash releases concurrency naturally when abandoned leases are
\* recovered").
Orphaned(i) ==
    /\ Active(jobs[i])
    /\ LeaseOver(jobs[i], clock)
    /\ \A w \in Workers : \A k \in proc[w].held : k.token # jobs[i].locked_by
    /\ \A w \in Workers : jobs[i].worker = w => registry[w] = Nil \/ Stale(w)

OrphansAreFreed == \A i \in Ids : Orphaned(i) ~> ~Orphaned(i)

\* Every job ends, whichever worker dies with it, and whatever claim is lost to a
\* database error: the lease lapses, and then the job is claimed again or expired.
JobsSettle ==
    \A i \in Ids : jobs[i].stage = "live" ~> jobs[i].completed \/ jobs[i].failed

=============================================================================
