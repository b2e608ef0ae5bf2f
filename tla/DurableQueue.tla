--------------------------- MODULE DurableQueue ---------------------------
(***************************************************************************)
(* Durable::Queue (lib/lunula/durable_queue.rb): the leased work queue under*)
(* the jobs table, the job outbox and the event outbox. Consumers (threads  *)
(* of worker processes) share one table and a clock; each SQL statement is  *)
(* one atomic step and nothing else is. claim_many reads the clock once and *)
(* uses that reading, however old, for its expiry UPDATE, its candidate     *)
(* SELECT and every conditional UPDATE; fail_claim reads the row in one     *)
(* statement and writes it in another. A consumer may die at any point, and *)
(* its leases outlive it.                                                   *)
(***************************************************************************)
EXTENDS QueueRows, FiniteSets

CONSTANTS
    Ids,          \* row ids
    Priority,     \* the order columns that precede available_at and id
    Consumers,    \* threads that claim from the queue
    Limit,        \* claim_many's limit
    Window,       \* candidate_limit, [limit * 10, 100].max in the code
    Schedules,    \* how far ahead of the clock work may be made available
    MaxClock,     \* bound: last reading of the clock
    LastRenewal,  \* bound: last reading at which a lease is renewed
    MaxCrashes,   \* bound: consumers that die
    MaxRevivals,  \* bound: retry_failed calls that find a failed row
    SlowScan      \* bound: FALSE lets the clock move only for a row's sake, not
                  \* to age the reading of a claim_many call that is under way

ASSUME ConsumerAssumption ==
    /\ Ids \subseteq Nat
    /\ Priority \in [Ids -> Int]
    /\ Limit \in Nat \ {0}
    /\ Window \in Nat /\ Window >= Limit
    /\ Schedules \subseteq Nat
    /\ {MaxClock, LastRenewal, MaxCrashes, MaxRevivals} \subseteq Nat
    /\ SlowScan \in BOOLEAN

VARIABLES
    rows,      \* the table
    con,       \* what each consumer has in memory
    clock,     \* the wall clock all consumers read
    issued,    \* claim tokens generated so far: a fresh one is the next number
    crashes, revivals   \* how much of the bounds is used

vars == <<rows, con, clock, issued, crashes, revivals>>

(***************************************************************************)
(* A claim held by a consumer. seen is what fail_claim read of the row's    *)
(* attempts, 0 before it has. at is claim_many's current_time and cands its *)
(* remaining candidates.                                                    *)
(***************************************************************************)
Claim == [id : Ids, token : Nat, seen : Nat]

Idle == [pc |-> "idle", at |-> Nil, cands |-> <<>>, held |-> {}]

Consumer == [pc    : {"idle", "select", "scan"},
             at    : Nat,
             cands : Seq(Ids),
             held  : SUBSET Claim]

TypeOK ==
    /\ rows \in [Ids -> Row]
    /\ con \in [Consumers -> Consumer]
    /\ clock \in Nat \ {0}
    /\ issued \in Nat
    /\ crashes \in Nat
    /\ revivals \in Nat

Init ==
    /\ rows = [i \in Ids |-> NewRow]
    /\ con = [c \in Consumers |-> Idle]
    /\ clock = 1
    /\ issued = 0
    /\ crashes = 0
    /\ revivals = 0

----------------------------------------------------------------------------
(* The producer's INSERT: now, or at a scheduled time                       *)

Insert(i) ==
    /\ rows[i].stage = "new"
    /\ \E d \in Schedules : rows' = [rows EXCEPT ![i] = Inserted(clock + d)]
    /\ UNCHANGED <<con, clock, issued, crashes, revivals>>

----------------------------------------------------------------------------
(* claim_many                                                               *)

\* A claim_many without its expiry pass.
StartClaim_NoExpiry(c) ==
    /\ con[c].pc = "idle"
    /\ con[c].held = {}
    /\ con' = [con EXCEPT ![c].pc = "select", ![c].at = clock]
    /\ UNCHANGED <<rows, clock, issued, crashes, revivals>>

\* current_time = now, then expire_exhausted_leases. A consumer is one thread:
\* it claims again when it has settled what it claimed.
StartClaim(c) ==
    /\ con[c].pc = "idle"
    /\ con[c].held = {}
    /\ rows' = [i \in Ids |-> IF Exhausted(rows[i], clock)
                              THEN Terminal(rows[i]) ELSE rows[i]]
    /\ con' = [con EXCEPT ![c].pc = "select", ![c].at = clock]
    /\ UNCHANGED <<clock, issued, crashes, revivals>>

SelectCandidates(c) ==
    /\ con[c].pc = "select"
    /\ \E s \in SeqOf(Ids, Window) :
          /\ IsPage(s, rows, Priority, Window, con[c].at)
          /\ con' = [con EXCEPT ![c].pc = "scan", ![c].cands = s]
    /\ UNCHANGED <<rows, clock, issued, crashes, revivals>>

\* A lock without a token of its own: the previous claim's is used again.
ClaimCandidate_SameToken(c) ==
    /\ con[c].pc = "scan"
    /\ con[c].cands # <<>>
    /\ Cardinality(con[c].held) < Limit
    /\ LET i == Head(con[c].cands)
           token == IF rows[i].locked_by = Nil THEN issued + 1 ELSE rows[i].locked_by
       IN  IF Eligible(rows[i], con[c].at)
           THEN /\ rows' = [rows EXCEPT ![i] = Claimed(rows[i], con[c].at, token)]
                /\ con' = [con EXCEPT ![c].cands = Tail(con[c].cands),
                       ![c].held = @ \cup {[id |-> i, token |-> token, seen |-> 0]}]
                /\ issued' = issued + 1
           ELSE /\ con' = [con EXCEPT ![c].cands = Tail(con[c].cands)]
                /\ UNCHANGED <<rows, issued>>
    /\ UNCHANGED <<clock, crashes, revivals>>

\* One candidate: a fresh token and the conditional UPDATE. The re-read of the
\* row before it only skips the UPDATE where it would match nothing.
ClaimCandidate(c) ==
    /\ con[c].pc = "scan"
    /\ con[c].cands # <<>>
    /\ Cardinality(con[c].held) < Limit
    /\ LET i == Head(con[c].cands)
       IN  IF Eligible(rows[i], con[c].at)
           THEN /\ rows' = [rows EXCEPT ![i] = Claimed(rows[i], con[c].at, issued + 1)]
                /\ con' = [con EXCEPT ![c].cands = Tail(con[c].cands),
                       ![c].held = @ \cup {[id |-> i, token |-> issued + 1, seen |-> 0]}]
                /\ issued' = issued + 1
           ELSE /\ con' = [con EXCEPT ![c].cands = Tail(con[c].cands)]
                /\ UNCHANGED <<rows, issued>>
    /\ UNCHANGED <<clock, crashes, revivals>>

\* The end of the loop: claims is returned
ReturnClaims(c) ==
    /\ con[c].pc = "scan"
    /\ con[c].cands = <<>> \/ Cardinality(con[c].held) >= Limit
    /\ con' = [con EXCEPT ![c].pc = "idle", ![c].at = Nil, ![c].cands = <<>>]
    /\ UNCHANGED <<rows, clock, issued, crashes, revivals>>

----------------------------------------------------------------------------
(* What the holder of a claim does with it                                  *)

Working(c, k) == con[c].pc = "idle" /\ k \in con[c].held /\ k.seen = 0

Drop(c, k) == con' = [con EXCEPT ![c].held = @ \ {k}]

\* renew; where it raises LeaseLost the consumer gives the work up
Renew(c, k) ==
    /\ Working(c, k)
    /\ clock <= LastRenewal
    /\ IF LockedBy(rows[k.id], k.token) /\ ~rows[k.id].failed
       THEN /\ rows' = [rows EXCEPT ![k.id] = Renewed(@, clock)]
            /\ UNCHANGED con
       ELSE /\ Drop(c, k)
            /\ UNCHANGED rows
    /\ UNCHANGED <<clock, issued, crashes, revivals>>

\* A complete that finds its row by id alone.
Complete_ById(c, k) ==
    /\ Working(c, k)
    /\ rows' = IF rows[k.id].stage = "live"
               THEN [rows EXCEPT ![k.id] = Completed(@)] ELSE rows
    /\ Drop(c, k)
    /\ UNCHANGED <<clock, issued, crashes, revivals>>

\* complete: LeaseLost, with the row untouched, for any other token
Complete(c, k) ==
    /\ Working(c, k)
    /\ rows' = IF LockedBy(rows[k.id], k.token)
               THEN [rows EXCEPT ![k.id] = Completed(@)] ELSE rows
    /\ Drop(c, k)
    /\ UNCHANGED <<clock, issued, crashes, revivals>>

\* terminate_claim
Terminate(c, k) ==
    /\ Working(c, k)
    /\ rows' = IF LockedBy(rows[k.id], k.token)
               THEN [rows EXCEPT ![k.id] = Terminal(@)] ELSE rows
    /\ Drop(c, k)
    /\ UNCHANGED <<clock, issued, crashes, revivals>>

\* fail_claim, the read: false, and no more, when the lease is another's
FailRead(c, k) ==
    /\ Working(c, k)
    /\ IF LockedBy(rows[k.id], k.token)
       THEN con' = [con EXCEPT ![c].held =
                       (@ \ {k}) \cup {[k EXCEPT !.seen = rows[k.id].attempts]}]
       ELSE Drop(c, k)
    /\ UNCHANGED <<rows, clock, issued, crashes, revivals>>

\* A fail_claim whose second statement trusts its first.
FailWrite_ById(c, k) ==
    /\ k \in con[c].held /\ k.seen # 0
    /\ rows' = IF rows[k.id].stage = "live"
               THEN [rows EXCEPT ![k.id] = FailedAttempt(@, k.seen, clock)] ELSE rows
    /\ Drop(c, k)
    /\ UNCHANGED <<clock, issued, crashes, revivals>>

\* fail_claim, the guarded write of what the read decided
FailWrite(c, k) ==
    /\ k \in con[c].held /\ k.seen # 0
    /\ rows' = IF LockedBy(rows[k.id], k.token)
               THEN [rows EXCEPT ![k.id] = FailedAttempt(@, k.seen, clock)] ELSE rows
    /\ Drop(c, k)
    /\ UNCHANGED <<clock, issued, crashes, revivals>>

----------------------------------------------------------------------------
(* Operators, time and failure                                              *)

RetryFailed(i) ==
    /\ rows[i].stage = "live" /\ rows[i].failed
    /\ revivals < MaxRevivals
    /\ rows' = [rows EXCEPT ![i] = Revived(@, clock)]
    /\ revivals' = revivals + 1
    /\ UNCHANGED <<con, clock, issued, crashes>>

\* A consumer dies while it scans or works: what it had in memory is gone.
Crash(c) ==
    /\ con[c] # Idle
    /\ crashes < MaxCrashes
    /\ con' = [con EXCEPT ![c] = Idle]
    /\ crashes' = crashes + 1
    /\ UNCHANGED <<rows, clock, issued, revivals>>

\* Time passes only while a comparison with it is yet to change: otherwise a
\* later clock gives the same behaviours again.
TimeMatters ==
    \/ \E i \in Ids : /\ rows[i].stage = "live"
                      /\ \/ rows[i].available_at > clock
                         \/ rows[i].locked_at # Nil /\ ~LeaseOver(rows[i], clock)
    \/ SlowScan /\ \E c \in Consumers : con[c].pc # "idle"

Tick ==
    /\ clock < MaxClock
    /\ TimeMatters
    /\ clock' = clock + 1
    /\ UNCHANGED <<rows, con, issued, crashes, revivals>>

Settle(c, k) ==
    \/ Complete(c, k)
    \/ Terminate(c, k)
    \/ FailRead(c, k)
    \/ FailWrite(c, k)

Scan(c) ==
    \/ StartClaim(c)
    \/ SelectCandidates(c)
    \/ ClaimCandidate(c)
    \/ ReturnClaims(c)

Next ==
    \/ \E i \in Ids : Insert(i) \/ RetryFailed(i)
    \/ \E c \in Consumers :
          \/ Scan(c)
          \/ Crash(c)
          \/ \E k \in con[c].held : Renew(c, k) \/ Settle(c, k)
    \/ Tick

Spec == Init /\ [][Next]_vars

\* A worker polls for ever and a job body ends one way or another
\* (Worker#run, perform_claim); nobody has to enqueue, revive, renew or crash.
Fairness ==
    /\ \A c \in Consumers :
          /\ WF_vars(Scan(c))
          /\ WF_vars(\E k \in con[c].held : Settle(c, k))
    /\ WF_vars(Tick)

FairSpec == Spec /\ Fairness

----------------------------------------------------------------------------
(* Properties                                                               *)

\* However claims, crashes and lapses interleave, the lease a row carries is
\* held by at most one consumer: the token UPDATEd into locked_by is in one
\* place only, so the locked_by guards of complete, renew, fail_claim and
\* terminate_claim let one of several executions of a row through.
OneLeaseHolder ==
    \A c, d \in Consumers : \A k \in con[c].held, l \in con[d].held :
        (k.id = l.id /\ LockedBy(rows[k.id], k.token) /\ LockedBy(rows[l.id], l.token))
            => c = d /\ k = l

\* A row never is both completed and failed, and a row in either outcome (or
\* deleted) carries no lease: no late consumer of it can pass a token guard.
OutcomesExclusive ==
    \A i \in Ids :
        /\ ~(rows[i].completed /\ rows[i].failed)
        /\ (rows[i].completed \/ rows[i].failed \/ rows[i].stage # "live")
               => rows[i].locked_by = Nil /\ rows[i].locked_at = Nil

\* fail_claim decides between retrying and failing for good from a row it read
\* one statement earlier: if its guarded UPDATE still matches, what it read of
\* the attempts still is so.
FailReadStillTrue ==
    \A c \in Consumers : \A k \in con[c].held :
        (k.seen # 0 /\ LockedBy(rows[k.id], k.token)) => k.seen = rows[k.id].attempts

\* A lease ends by the step of the consumer that holds it, or after it lapsed:
\* no other consumer's claim, expiry pass or stale answer, and no operator,
\* takes it before. (A claim_many call uses a clock reading that may be old;
\* an old reading only makes it more patient.)
NoStolenLease ==
    [][\A i \in Ids :
          (rows[i].locked_by # Nil /\ rows'[i].locked_by # rows[i].locked_by)
              => \/ LeaseOver(rows[i], clock)
                 \/ \E c \in Consumers : \E k \in con[c].held :
                       /\ k.id = i /\ k.token = rows[i].locked_by
                       /\ k \notin con'[c].held]_vars

\* The queue does what LeasedWork promises.
Status(r) ==
    CASE r.stage = "new"               -> "absent"
      [] r.stage = "gone" \/ r.completed -> "done"
      [] r.stage = "live" /\ ~r.completed /\ r.failed -> "dead"
      [] OTHER -> IF r.locked_by = Nil THEN "ready" ELSE "held"

Promise == INSTANCE LeasedWork WITH
    Work      <- Ids,
    MaxStarts <- MaxAttempts,
    item      <- [i \in Ids |-> [status |-> Status(rows[i]),
                                 holder |-> rows[i].locked_by,
                                 starts |-> rows[i].attempts]],
    granted   <- issued

KeepsPromise == Promise!WorkSpec

\* Work that was enqueued is completed or failed in the end, whoever crashes
\* with it: a lapsed lease is claimed again while attempts are left and
\* failed by the expiry pass when none is.
Settled(i) == rows[i].stage = "gone" \/ rows[i].completed \/ rows[i].failed

EverythingSettles == \A i \in Ids : rows[i].stage = "live" ~> Settled(i)

=============================================================================
