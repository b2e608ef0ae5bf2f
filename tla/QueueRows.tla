----------------------------- MODULE QueueRows -----------------------------
(***************************************************************************)
(* The row algebra of Lunula's Durable::Queue (lib/lunula/durable_queue.rb):*)
(* the WHERE clauses and the UPDATEs it issues, as predicates and functions *)
(* on one row. A row of the jobs table and a row of either outbox are used  *)
(* the same way; the three tables differ only in the attributes the queue   *)
(* was built with, which is what Lifecycle says.                            *)
(*                                                                          *)
(* Timestamps are natural numbers and Nil, the SQL NULL, is 0: the clock    *)
(* starts at 1. failed_at, completed_at and discarded_at are only ever      *)
(* compared with NULL by the queue, so they are Booleans.                   *)
(***************************************************************************)
EXTENDS Integers, SequencesExt

CONSTANTS
    LeaseSeconds, \* how long a claim is exclusive
    MaxAttempts,  \* the row's max_attempts
    RetryDelay,   \* retry_delay: seconds to wait after the n-th attempt failed
    Lifecycle     \* TRUE: the jobs table, whose queue is built with
                  \* complete_attributes, terminal_attributes and
                  \* terminal_filters; FALSE: an outbox, built with none

ASSUME QueueAssumption ==
    /\ LeaseSeconds \in Nat \ {0}
    /\ MaxAttempts \in Nat \ {0}
    /\ RetryDelay \in [1..MaxAttempts -> Nat]
    /\ Lifecycle \in BOOLEAN

Nil == 0

\* "new" before the INSERT, "gone" after a DELETE: ids are never used twice.
Stages == {"new", "live", "gone"}

\* What the queue reads and writes of a row. A table may have more columns.
Row == [stage        : Stages,
        attempts     : Nat,
        available_at : Nat,
        locked_at    : Nat,
        locked_by    : Nat,
        failed       : BOOLEAN,
        completed    : BOOLEAN,
        discarded    : BOOLEAN]

NewRow == [stage |-> "new", attempts |-> 0, available_at |-> Nil,
           locked_at |-> Nil, locked_by |-> Nil,
           failed |-> FALSE, completed |-> FALSE, discarded |-> FALSE]

Inserted(at) == [NewRow EXCEPT !.stage = "live", !.available_at = at]

----------------------------------------------------------------------------
(* WHERE clauses                                                            *)

\* locked_at <= at - lease_seconds, false of a NULL locked_at
LeaseOver(r, at) == r.locked_at # Nil /\ r.locked_at + LeaseSeconds <= at

Unlocked(r, at) == r.locked_at = Nil \/ LeaseOver(r, at)

\* A count of attempts that allows one execution too many.
AttemptsLeft_OffByOne(r) == r.attempts <= MaxAttempts

AttemptsLeft(r) == r.attempts < MaxAttempts

\* eligible: may be claimed at time at
Eligible(r, at) ==
    /\ r.stage = "live"
    /\ ~r.failed
    /\ AttemptsLeft(r)
    /\ Lifecycle => ~r.completed /\ ~r.discarded
    /\ r.available_at <= at
    /\ Unlocked(r, at)

\* expire_exhausted_leases: its holder is gone and was the last one allowed
Exhausted(r, at) ==
    /\ r.stage = "live"
    /\ ~r.failed
    /\ LeaseOver(r, at)
    /\ ~AttemptsLeft(r)

\* order(*order): priority, then available_at and id (the outboxes: the latter two)
Before(table, priority, i, j) ==
    \/ priority[i] < priority[j]
    \/ /\ priority[i] = priority[j]
       /\ \/ table[i].available_at < table[j].available_at
          \/ table[i].available_at = table[j].available_at /\ i < j

\* eligible(at).limit(window), the first rows of that order
IsPage(s, table, priority, window, at) ==
    /\ \A n \in 1..Len(s) : Eligible(table[s[n]], at)
    /\ \A m, n \in 1..Len(s) : m < n => Before(table, priority, s[m], s[n])
    /\ \A i \in DOMAIN table : Eligible(table[i], at) =>
          \/ \E n \in 1..Len(s) : s[n] = i
          \/ /\ Len(s) = window
             /\ \A n \in 1..Len(s) : Before(table, priority, s[n], i)

\* where(id:, locked_by: token)
LockedBy(r, token) == r.stage = "live" /\ r.locked_by = token

----------------------------------------------------------------------------
(* UPDATEs                                                                  *)

Unlock(r) == [r EXCEPT !.locked_at = Nil, !.locked_by = Nil]

\* failed_at and whatever terminal_attributes adds
Terminal(r) == [Unlock(r) EXCEPT !.failed = TRUE,
                                 !.discarded = IF Lifecycle THEN TRUE ELSE @]

\* A claim that leaves the counting of attempts to fail_claim.
Claimed_Uncounted(r, at, token) == [r EXCEPT !.locked_at = at, !.locked_by = token]

Claimed(r, at, token) ==
    [r EXCEPT !.locked_at = at, !.locked_by = token, !.attempts = @ + 1]

\* A renewal that moves the lock back instead of forward.
Renewed_Backdated(r, at) == [r EXCEPT !.locked_at = at - LeaseSeconds - 1]

Renewed(r, at) == [r EXCEPT !.locked_at = at]

\* complete: UPDATE complete_attributes where there are any, DELETE elsewhere
Completed(r) ==
    IF Lifecycle THEN [Unlock(r) EXCEPT !.completed = TRUE]
                 ELSE [Unlock(r) EXCEPT !.stage = "gone"]

\* fail_claim, having read `attempts` from the row
FailedAttempt(r, attempts, at) ==
    IF attempts >= MaxAttempts
    THEN Terminal(r)
    ELSE [Unlock(r) EXCEPT !.available_at = at + RetryDelay[attempts]]

\* retry_failed: completed_at is not among the attributes it resets
Revived(r, at) ==
    [Unlock(r) EXCEPT !.attempts = 0, !.available_at = at, !.failed = FALSE,
                      !.discarded = IF Lifecycle THEN FALSE ELSE @]

=============================================================================
