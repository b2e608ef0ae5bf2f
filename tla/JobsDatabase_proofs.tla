------------------------ MODULE JobsDatabase_proofs ------------------------
(***************************************************************************)
(* What TLC checks of the job system on small instances, proved for any     *)
(* number of jobs, workers, operator commands, deaths and database errors.  *)
(***************************************************************************)
EXTENDS JobsDatabase, FiniteSetTheorems, TLAPS

(***************************************************************************)
(* A row's columns agree: locked_at and locked_by are set and cleared       *)
(* together; a locked row is live, has used an attempt, is not completed    *)
(* and not listed as blocked, and has failed only if it was cancelled; and  *)
(* the outcomes are those of OutcomesAgree.                                 *)
(***************************************************************************)
Coherent(r) ==
    /\ r.locked_at = Nil <=> r.locked_by = Nil
    /\ r.locked_by # Nil =>
          /\ r.stage = "live" /\ r.attempts >= 1 /\ r.blocked = "no"
          /\ ~r.completed /\ (r.failed => r.cancelled)
    /\ r.failed <=> r.discarded
    /\ r.cancelled => r.failed
    /\ (r.completed /\ r.failed) => r.cancelled

SoundRow(r) == r \in Job /\ Coherent(r)

\* A scan's clock reading is a past one, and it has a candidate while it is at one
ScanSound(w) ==
    /\ proc[w].at <= clock
    /\ proc[w].pc \in {"scan", "mark", "allowed"} => proc[w].at # Nil
    /\ proc[w].pc \in {"mark", "allowed"} => proc[w].cands # <<>>

\* A claim's token was issued, and a row it locks says whose it is
ClaimSound(w, k) ==
    /\ k.token <= issued
    /\ Holds(k) => jobs[k.id].worker = w
    /\ k.phase = "failing" => k.seen >= 1

\* The workers that are about to claim a job of i's concurrency key
Deciding(i) == {w \in Workers : /\ proc[w].pc = "allowed"
                                /\ ConcurrencyKey[Candidate(w)] = ConcurrencyKey[i]}

\* A key's running jobs and those about to run: each worker but one may have
\* decided before it could see the others' claims
WithinLimit(i) ==
    \E j \in Ids : /\ ConcurrencyKey[j] = ConcurrencyKey[i]
                  /\ Cardinality(Running(i)) + Cardinality(Deciding(i)) <=
                         ConcurrencyLimit[j] + Cardinality(Workers) - 1

KeysWithinLimit == \A i \in Ids : ConcurrencyKey[i] # NoKey => WithinLimit(i)

JobsInv ==
    /\ TypeOK
    /\ KeysWithinLimit
    /\ \A i \in Ids : Coherent(jobs[i]) /\ jobs[i].locked_by <= issued
    /\ \A w \in Workers : ScanSound(w) /\ \A k \in proc[w].held : ClaimSound(w, k)
    /\ command.name # "none" => command.id \in Ids

----------------------------------------------------------------------------
(* The UPDATEs keep the columns in agreement                                *)

LEMMA UnlockRow ==
    ASSUME NEW r \in Job
    PROVE  /\ Unlock(r) \in Job
           /\ Unlock(r).locked_at = Nil /\ Unlock(r).locked_by = Nil
           /\ Unlock(r).failed = r.failed /\ Unlock(r).discarded = r.discarded
           /\ Unlock(r).completed = r.completed /\ Unlock(r).cancelled = r.cancelled
  BY DEF Unlock, Job, Nil

LEMMA TerminalRow ==
    ASSUME NEW r, SoundRow(r), r.locked_by # Nil
    PROVE  /\ SoundRow(Terminal(r)) /\ Terminal(r).locked_by = Nil
           /\ Terminal(r).locked_at = Nil /\ Terminal(r).failed /\ Terminal(r).discarded
           /\ ~Terminal(r).completed
  <1>1. r \in Job /\ ~r.completed
    BY DEF SoundRow, Coherent
  <1>2. Lifecycle
    BY JobsAssumption
  <1>3. /\ Terminal(r) \in Job /\ Terminal(r).failed /\ Terminal(r).discarded
        /\ Terminal(r).locked_at = Nil /\ Terminal(r).locked_by = Nil
        /\ Terminal(r).completed = r.completed
    BY <1>1, <1>2 DEF Terminal, Unlock, Job, Nil
  <1> QED
    BY <1>1, <1>3 DEF SoundRow, Coherent

LEMMA AbandonedRow ==
    ASSUME NEW r, SoundRow(r), r.locked_by # Nil, NEW at \in Nat
    PROVE  SoundRow(Abandoned(r, at)) /\ Abandoned(r, at).locked_by = Nil
  <1>1. r \in Job /\ ~r.completed /\ Nil \in Workers \cup {Nil}
    BY DEF SoundRow, Coherent
  <1>2. CASE AttemptsLeft(r)
    <2>1. /\ Abandoned(r, at) \in Job
          /\ Abandoned(r, at).locked_at = Nil /\ Abandoned(r, at).locked_by = Nil
          /\ Abandoned(r, at).failed = r.failed /\ Abandoned(r, at).discarded = r.discarded
          /\ Abandoned(r, at).completed = r.completed
          /\ Abandoned(r, at).cancelled = r.cancelled
      BY <1>1, <1>2, UnlockRow DEF Abandoned, Job
    <2> QED
      BY <2>1 DEF SoundRow, Coherent
  <1>3. CASE ~AttemptsLeft(r)
    <2>1. /\ Abandoned(r, at) \in Job
          /\ Abandoned(r, at).locked_at = Nil /\ Abandoned(r, at).locked_by = Nil
          /\ Abandoned(r, at).failed /\ Abandoned(r, at).discarded
          /\ ~Abandoned(r, at).completed
      BY <1>1, <1>3, TerminalRow DEF Abandoned, Job, SoundRow
    <2> QED
      BY <2>1 DEF SoundRow, Coherent
  <1> QED
    BY <1>2, <1>3

LEMMA ClaimedRow ==
    ASSUME NEW r, SoundRow(r), NEW at \in Nat \ {Nil}, NEW token \in Nat \ {Nil},
           NEW w \in Workers, Eligible(r, at)
    PROVE  /\ SoundRow(ClaimedFor(r, at, token, w))
           /\ ClaimedFor(r, at, token, w).locked_by = token
           /\ ClaimedFor(r, at, token, w).worker = w
  <1> DEFINE s == ClaimedFor(r, at, token, w)
  <1>1. /\ r \in Job /\ r.stage = "live" /\ ~r.failed /\ ~r.completed
        /\ r.attempts < MaxAttempts
    BY JobsAssumption DEF SoundRow, Eligible, AttemptsLeft
  <1>2. r.attempts + 1 \in 0..MaxAttempts /\ r.attempts + 1 >= 1
    BY <1>1, QueueAssumption DEF Job
  <1>3. /\ s \in Job /\ s.locked_at = at /\ s.locked_by = token /\ s.worker = w
        /\ s.stage = r.stage /\ s.attempts = r.attempts + 1 /\ s.blocked = "no"
        /\ s.failed = r.failed /\ s.completed = r.completed
        /\ s.discarded = r.discarded /\ s.cancelled = r.cancelled
    BY <1>1, <1>2 DEF ClaimedFor, Claimed, Job, Reasons
  <1> QED
    BY <1>1, <1>2, <1>3 DEF SoundRow, Coherent

\* Changes of the columns that the agreement does not speak of, or of an unlocked row
LEMMA MarkedRow ==
    ASSUME NEW r, SoundRow(r), r.locked_at = Nil, NEW why \in Reasons
    PROVE  SoundRow([r EXCEPT !.blocked = why]) /\ [r EXCEPT !.blocked = why].locked_by = Nil
  BY DEF SoundRow, Coherent, Job

LEMMA RenewedRow ==
    ASSUME NEW r, SoundRow(r), r.locked_by # Nil, NEW at \in Nat \ {Nil}
    PROVE  /\ SoundRow(Renewed(r, at)) /\ Renewed(r, at).locked_by = r.locked_by
           /\ Renewed(r, at).worker = r.worker /\ Renewed(r, at).failed = r.failed
  BY DEF Renewed, SoundRow, Coherent, Job

LEMMA CompletedRow ==
    ASSUME NEW r, SoundRow(r), r.locked_by # Nil
    PROVE  LET s == [Completed(r) EXCEPT !.worker = Nil, !.cancel_requested = FALSE]
           IN  SoundRow(s) /\ s.locked_by = Nil
  <1> DEFINE s == [Completed(r) EXCEPT !.worker = Nil, !.cancel_requested = FALSE]
  <1>1. r \in Job /\ (r.failed => r.cancelled) /\ (r.failed <=> r.discarded)
        /\ (r.cancelled => r.failed)
    BY DEF SoundRow, Coherent
  <1>2. Lifecycle
    BY JobsAssumption
  <1>3. /\ s \in Job /\ s.locked_at = Nil /\ s.locked_by = Nil
        /\ s.failed = r.failed /\ s.discarded = r.discarded /\ s.cancelled = r.cancelled
    BY <1>1, <1>2, Nil \in Workers \cup {Nil} DEF Completed, Unlock, Job, Nil
  <1> QED
    BY <1>1, <1>3 DEF SoundRow, Coherent

LEMMA TerminatedRow ==
    ASSUME NEW r, SoundRow(r), r.locked_by # Nil
    PROVE  LET s == [Terminal(r) EXCEPT !.worker = Nil, !.cancelled = TRUE,
                                        !.cancel_requested = FALSE]
           IN  SoundRow(s) /\ s.locked_by = Nil
  <1> DEFINE s == [Terminal(r) EXCEPT !.worker = Nil, !.cancelled = TRUE,
                                      !.cancel_requested = FALSE]
  <1>1. /\ s \in Job /\ s.locked_at = Nil /\ s.locked_by = Nil
        /\ s.failed /\ s.discarded /\ s.cancelled
    BY TerminalRow DEF SoundRow, Job
  <1> QED
    BY <1>1 DEF SoundRow, Coherent

LEMMA FailedAttemptRow ==
    ASSUME NEW r, SoundRow(r), r.locked_by # Nil, NEW n \in 1..MaxAttempts, NEW at \in Nat
    PROVE  LET s == [FailedAttempt(r, n, at) EXCEPT !.worker = Nil]
           IN  SoundRow(s) /\ s.locked_by = Nil
  <1> DEFINE s == [FailedAttempt(r, n, at) EXCEPT !.worker = Nil]
  <1>1. CASE n >= MaxAttempts
    <2>1. s = [Terminal(r) EXCEPT !.worker = Nil]
      BY <1>1 DEF FailedAttempt
    <2>2. /\ s \in Job /\ s.locked_at = Nil /\ s.locked_by = Nil
          /\ s.failed /\ s.discarded /\ ~s.completed
      BY <2>1, TerminalRow DEF SoundRow, Job
    <2> QED
      BY <2>2 DEF SoundRow, Coherent
  <1>2. CASE ~(n >= MaxAttempts)
    <2>1. at + RetryDelay[n] \in Nat
      BY QueueAssumption
    <2>2. s = [[Unlock(r) EXCEPT !.available_at = at + RetryDelay[n]] EXCEPT !.worker = Nil]
      BY <1>2 DEF FailedAttempt
    <2>3. /\ s \in Job /\ s.locked_at = Nil /\ s.locked_by = Nil
          /\ s.failed = r.failed /\ s.discarded = r.discarded
          /\ s.completed = r.completed /\ s.cancelled = r.cancelled
      BY <2>1, <2>2, UnlockRow DEF SoundRow, Job
    <2> QED
      BY <2>3 DEF SoundRow, Coherent
  <1> QED
    BY <1>1, <1>2

LEMMA EmptyRow ==
    /\ SoundRow(NewJob)
    /\ SoundRow([NewJob EXCEPT !.stage = "gone"])
    /\ NewJob.locked_by = Nil /\ [NewJob EXCEPT !.stage = "gone"].locked_by = Nil
  <1>1. 0 \in 0..MaxAttempts /\ Nil \in Workers \cup {Nil} /\ Nil \in Nat
    BY QueueAssumption DEF Nil
  <1> QED
    BY <1>1 DEF SoundRow, Coherent, NewJob, Job, Stages, Reasons

LEMMA EnqueuedRow ==
    ASSUME NEW at \in Nat, NEW why \in Reasons
    PROVE  LET s == [NewJob EXCEPT !.stage = "live", !.available_at = at, !.blocked = why]
           IN  SoundRow(s) /\ s.locked_by = Nil
  <1>1. 0 \in 0..MaxAttempts /\ Nil \in Workers \cup {Nil} /\ Nil \in Nat
    BY QueueAssumption DEF Nil
  <1> QED
    BY <1>1 DEF SoundRow, Coherent, NewJob, Job, Stages

LEMMA DiscardedRow ==
    ASSUME NEW r, SoundRow(r), Pending(r)
    PROVE  LET s == [r EXCEPT !.failed = TRUE, !.discarded = TRUE, !.blocked = "no"]
           IN  SoundRow(s) /\ s.locked_by = Nil
  BY DEF SoundRow, Coherent, Pending, Active, Job, Reasons

LEMMA RescheduledRow ==
    ASSUME NEW r, SoundRow(r), Pending(r), NEW at \in Nat, NEW why \in Reasons
    PROVE  LET s == [r EXCEPT !.available_at = at, !.blocked = why]
           IN  SoundRow(s) /\ s.locked_by = Nil
  BY DEF SoundRow, Coherent, Pending, Active, Job

LEMMA CancelRequestedRow ==
    ASSUME NEW r, SoundRow(r)
    PROVE  LET s == [r EXCEPT !.cancel_requested = TRUE]
           IN  /\ SoundRow(s) /\ s.locked_by = r.locked_by
               /\ s.worker = r.worker /\ s.failed = r.failed
  BY DEF SoundRow, Coherent, Job

LEMMA CancelledRow ==
    ASSUME NEW r, SoundRow(r), Active(r)
    PROVE  LET s == [r EXCEPT !.failed = TRUE, !.discarded = TRUE, !.cancelled = TRUE,
                              !.cancel_requested = FALSE]
           IN  /\ SoundRow(s) /\ s.locked_by = r.locked_by
               /\ s.worker = r.worker /\ s.failed
  BY DEF SoundRow, Coherent, Active, Job

LEMMA RevivedRow ==
    ASSUME NEW r, SoundRow(r), NEW at \in Nat
    PROVE  LET s == [Revived(r, at) EXCEPT !.worker = Nil, !.cancel_requested = FALSE,
                                           !.cancelled = FALSE, !.blocked = "no"]
           IN  SoundRow(s) /\ s.locked_by = Nil
  <1> DEFINE s == [Revived(r, at) EXCEPT !.worker = Nil, !.cancel_requested = FALSE,
                                         !.cancelled = FALSE, !.blocked = "no"]
  <1>1. Lifecycle
    BY JobsAssumption
  <1>2. 0 \in 0..MaxAttempts
    BY QueueAssumption
  <1>3. /\ s \in Job /\ s.locked_at = Nil /\ s.locked_by = Nil
        /\ ~s.failed /\ ~s.discarded /\ ~s.cancelled
    BY <1>1, <1>2, Nil \in Workers \cup {Nil} DEF SoundRow, Revived, Unlock, Job, Reasons, Nil
  <1> QED
    BY <1>3 DEF SoundRow, Coherent

----------------------------------------------------------------------------
(* Steps that claim nothing                                                 *)

\* A row keeps its lease or loses it, and stays coherent
Kept(i) ==
    /\ SoundRow(jobs'[i])
    /\ \/ jobs'[i].locked_by = Nil
       \/ /\ jobs'[i].locked_by = jobs[i].locked_by /\ jobs'[i].worker = jobs[i].worker
          /\ jobs[i].failed => jobs'[i].failed

RowsKept == jobs' \in [Ids -> Job] /\ \A i \in Ids : Kept(i)

LEMMA RowFacts ==
    ASSUME JobsInv, NEW i \in Ids
    PROVE  /\ SoundRow(jobs[i]) /\ jobs[i] \in Job /\ Coherent(jobs[i])
           /\ jobs[i].locked_by \in Nat /\ jobs[i].locked_by <= issued
  BY DEF JobsInv, TypeOK, SoundRow, Job

LEMMA UntouchedRow ==
    ASSUME JobsInv, NEW i \in Ids, jobs'[i] = jobs[i]
    PROVE  Kept(i)
  BY RowFacts DEF Kept

LEMMA RowsUntouched ==
    ASSUME JobsInv, UNCHANGED jobs
    PROVE  RowsKept
  BY UntouchedRow DEF RowsKept, JobsInv, TypeOK

\* One row is changed
LEMMA OneRowKept ==
    ASSUME JobsInv, NEW i \in Ids, jobs' = [jobs EXCEPT ![i] = jobs'[i]], Kept(i)
    PROVE  RowsKept
  <1>1. jobs \in [Ids -> Job] /\ jobs'[i] \in Job
    BY DEF JobsInv, TypeOK, SoundRow, Kept
  <1>2. jobs' \in [Ids -> Job] /\ \A j \in Ids \ {i} : jobs'[j] = jobs[j]
    BY <1>1
  <1> QED
    BY <1>2, UntouchedRow DEF RowsKept

LEMMA ProcFacts ==
    ASSUME JobsInv, NEW w \in Workers
    PROVE  /\ proc \in [Workers -> Process] /\ proc[w] \in Process
           /\ proc[w].at \in Nat /\ proc[w].at <= clock /\ clock \in Nat \ {0}
           /\ proc[w].cands \in Seq(Ids) /\ proc[w].stale \subseteq Workers
           /\ proc[w].why \in Reasons
           /\ proc[w].held \subseteq Claim
           /\ \A k \in proc[w].held : ClaimSound(w, k)
           /\ proc[w].pc \in {"scan", "mark", "allowed"} => proc[w].at # Nil
           /\ proc[w].pc \in {"mark", "allowed"} => proc[w].cands # <<>>
  <1>1. proc \in [Workers -> Process] /\ proc[w] \in Process /\ clock \in Nat \ {0}
    BY DEF JobsInv, TypeOK
  <1>2. ScanSound(w) /\ \A k \in proc[w].held : ClaimSound(w, k)
    BY DEF JobsInv
  <1> QED
    BY <1>1, <1>2 DEF Process, ScanSound

\* A claim of a worker's is one it had, of the same row and token
HeldBefore(w, k) ==
    /\ k.phase = "failing" => k.seen >= 1
    /\ \E l \in proc[w].held : l.id = k.id /\ l.token = k.token

LEMMA OldClaim ==
    ASSUME JobsInv, NEW w \in Workers, NEW k \in proc[w].held
    PROVE  HeldBefore(w, k)
  BY DEF JobsInv, ClaimSound, HeldBefore

LEMMA ClaimStaysSound ==
    ASSUME JobsInv, RowsKept, issued' = issued, NEW w \in Workers, NEW k \in Claim,
           HeldBefore(w, k)
    PROVE  ClaimSound(w, k)'
  <1>1. PICK l \in proc[w].held : l.id = k.id /\ l.token = k.token
    BY DEF HeldBefore
  <1>2. /\ k.id \in Ids /\ k.token \in Nat /\ k.token # Nil /\ l.token <= issued
        /\ Holds(l) => jobs[l.id].worker = w
    BY <1>1 DEF JobsInv, Claim, ClaimSound
  <1>3. k.token <= issued'
    BY <1>1, <1>2
  <1>4. ASSUME Holds(k)' PROVE jobs'[k.id].worker = w
    <2>1. jobs'[k.id].locked_by = k.token /\ k.token # Nil
      BY <1>2, <1>4 DEF Holds, LockedBy
    <2>2. jobs[k.id].locked_by = k.token /\ jobs'[k.id].worker = jobs[k.id].worker
      BY <1>2, <2>1 DEF RowsKept, Kept
    <2>3. jobs[k.id].stage = "live"
      BY <1>2, <2>2, RowFacts DEF Coherent
    <2> QED
      BY <1>1, <1>2, <2>2, <2>3 DEF Holds, LockedBy
  <1> QED
    BY <1>3, <1>4 DEF ClaimSound, HeldBefore

LEMMA RunningShrinks ==
    ASSUME JobsInv, RowsKept, NEW i \in Ids
    PROVE  Running(i)' \subseteq Running(i)
  <1> SUFFICES ASSUME NEW j \in Ids, Active(jobs'[j]), jobs'[j].locked_at # Nil
               PROVE  Active(jobs[j]) /\ jobs[j].locked_at # Nil
    BY DEF Running
  <1>1. Kept(j) /\ Coherent(jobs[j])
    BY RowFacts DEF RowsKept
  <1>2. jobs'[j].locked_by # Nil /\ ~jobs'[j].failed
    BY <1>1 DEF Kept, SoundRow, Coherent, Active
  <1>3. jobs[j].locked_by # Nil /\ ~jobs[j].failed
    BY <1>1, <1>2 DEF Kept
  <1> QED
    BY <1>1, <1>3 DEF Coherent, Active

LEMMA CountsAreNumbers ==
    ASSUME JobsInv, NEW i \in Ids
    PROVE  /\ IsFiniteSet(Running(i)) /\ IsFiniteSet(Deciding(i))
           /\ Cardinality(Running(i)) \in Nat /\ Cardinality(Deciding(i)) \in Nat
           /\ Cardinality(Workers) \in Nat /\ ConcurrencyLimit[i] \in Nat \ {0}
  <1>1. Running(i) \in SUBSET Ids /\ Deciding(i) \in SUBSET Workers
    BY DEF Running, Deciding
  <1>2. IsFiniteSet(Running(i)) /\ IsFiniteSet(Deciding(i))
    BY <1>1, FS_Subset, JobsAssumption
  <1> QED
    BY <1>2, FS_CardinalityType, JobsAssumption

LEMMA StillWithin ==
    ASSUME JobsInv, NEW i \in Ids, ConcurrencyKey[i] # NoKey,
           Running(i)' \subseteq Running(i), Deciding(i)' \subseteq Deciding(i)
    PROVE  WithinLimit(i)'
  <1>1. /\ Cardinality(Running(i)') \in Nat /\ Cardinality(Deciding(i)') \in Nat
        /\ Cardinality(Running(i)') <= Cardinality(Running(i))
        /\ Cardinality(Deciding(i)') <= Cardinality(Deciding(i))
    BY CountsAreNumbers, FS_Subset, FS_CardinalityType
  <1>2. PICK j \in Ids : /\ ConcurrencyKey[j] = ConcurrencyKey[i]
                        /\ Cardinality(Running(i)) + Cardinality(Deciding(i)) <=
                               ConcurrencyLimit[j] + Cardinality(Workers) - 1
    BY DEF JobsInv, KeysWithinLimit, WithinLimit
  <1>3. Cardinality(Running(i)') + Cardinality(Deciding(i)') <=
            ConcurrencyLimit[j] + Cardinality(Workers) - 1
    BY <1>1, <1>2, CountsAreNumbers
  <1> QED
    BY <1>2, <1>3 DEF WithinLimit

\* A step of worker w, which becomes p
LEMMA ProcStep ==
    ASSUME JobsInv, RowsKept, NEW w \in Workers, NEW p \in Process,
           proc' = [proc EXCEPT ![w] = p],
           p.at <= clock,
           p.pc \in {"scan", "mark", "allowed"} => p.at # Nil,
           p.pc \in {"mark", "allowed"} => p.cands # <<>>,
           p.pc = "allowed" =>
               \/ proc[w].pc = "allowed" /\ p.cands = proc[w].cands
               \/ ~Full(Head(p.cands)),
           \A k \in p.held : HeldBefore(w, k),
           registry' \in [Workers -> Nat],
           used' \in [commands : 0..MaxCommands, exits : 0..MaxExits, busy : 0..MaxBusy],
           UNCHANGED <<paused, command, clock, issued>>
    PROVE  JobsInv'
  <1>1. proc \in [Workers -> Process]
    BY DEF JobsInv, TypeOK
  <1>2. proc' \in [Workers -> Process] /\ proc'[w] = p
        /\ \A v \in Workers \ {w} : proc'[v] = proc[v]
    BY <1>1
  <1>3. TypeOK'
    BY <1>2 DEF JobsInv, TypeOK, RowsKept
  <1>4. ASSUME NEW i \in Ids PROVE Coherent(jobs'[i]) /\ jobs'[i].locked_by <= issued'
    <2>1. Kept(i) /\ jobs[i].locked_by <= issued /\ issued \in Nat
      BY RowFacts DEF RowsKept, JobsInv, TypeOK
    <2> QED
      BY <2>1 DEF Kept, SoundRow, Nil
  <1>5. ASSUME NEW v \in Workers
        PROVE  ScanSound(v)' /\ \A k \in proc'[v].held : ClaimSound(v, k)'
    <2>1. CASE v = w
      <3>1. ScanSound(w)'
        BY <1>2 DEF ScanSound
      <3>2. p.held \subseteq Claim
        BY DEF Process
      <3> QED
        BY <1>2, <2>1, <3>1, <3>2, ClaimStaysSound
    <2>2. CASE v # w
      <3>1. ScanSound(v)'
        BY <1>2, <2>2 DEF JobsInv, ScanSound
      <3>2. ASSUME NEW k \in proc[v].held PROVE ClaimSound(v, k)'
        BY <3>2, OldClaim, ProcFacts, ClaimStaysSound
      <3> QED
        BY <1>2, <2>2, <3>1, <3>2
    <2> QED
      BY <2>1, <2>2
  <1>6. command'.name # "none" => command'.id \in Ids
    BY DEF JobsInv
  <1>7. ASSUME NEW i \in Ids, ConcurrencyKey[i] # NoKey PROVE WithinLimit(i)'
    <2>1. Running(i)' \subseteq Running(i)
      BY RunningShrinks
    <2>2. CASE p.pc = "allowed" => proc[w].pc = "allowed" /\ p.cands = proc[w].cands
      <3>1. Deciding(i)' \subseteq Deciding(i)
        BY <1>2, <2>2 DEF Deciding, Candidate
      <3> QED
        BY <1>7, <2>1, <3>1, StillWithin
    <2>3. CASE p.pc = "allowed" /\ ~Full(Head(p.cands))
      <3>1. PICK c \in Ids : c = Head(p.cands)
        BY <2>3 DEF Process
      <3>2. CASE ConcurrencyKey[c] = ConcurrencyKey[i]
        <4>1. /\ Running(c) = Running(i)
              /\ Cardinality(Running(c)) < ConcurrencyLimit[c]
          <5>1. Running(c) = Running(i)
            BY <3>2 DEF Running
          <5>2. ~(Cardinality(Running(c)) >= ConcurrencyLimit[c])
            BY <1>7, <2>3, <3>1, <3>2 DEF Full
          <5>3. Cardinality(Running(c)) \in Nat /\ ConcurrencyLimit[c] \in Nat
            BY CountsAreNumbers
          <5> QED
            BY <5>1, <5>2, <5>3
        <4>2. /\ Cardinality(Running(i)') \in Nat
              /\ Cardinality(Running(i)') <= Cardinality(Running(i))
          BY <2>1, CountsAreNumbers, FS_Subset, FS_CardinalityType
        <4>3. Deciding(i)' \in SUBSET Workers
          BY DEF Deciding
        <4>4. /\ Cardinality(Deciding(i)') \in Nat
              /\ Cardinality(Deciding(i)') <= Cardinality(Workers)
          BY <4>3, FS_Subset, FS_CardinalityType, JobsAssumption
        <4>5. Cardinality(Running(i)') + Cardinality(Deciding(i)') <=
                  ConcurrencyLimit[c] + Cardinality(Workers) - 1
          BY <4>1, <4>2, <4>4, CountsAreNumbers
        <4> QED
          BY <3>2, <4>5 DEF WithinLimit
      <3>3. CASE ConcurrencyKey[c] # ConcurrencyKey[i]
        <4>1. Deciding(i)' \subseteq Deciding(i)
          BY <1>2, <3>1, <3>3 DEF Deciding, Candidate
        <4> QED
          BY <1>7, <2>1, <4>1, StillWithin
      <3> QED
        BY <3>2, <3>3
    <2> QED
      BY <2>2, <2>3
  <1> QED
    BY <1>3, <1>4, <1>5, <1>6, <1>7 DEF JobsInv, KeysWithinLimit

\* A step of an operator's
LEMMA OperatorStep ==
    ASSUME JobsInv, RowsKept,
           paused' \subseteq {Queue[i] : i \in Ids},
           command' \in [name : {"none", "reschedule", "cancel_running", "cancel_pending"},
                         id : Ids \cup {0}, token : Nat, blocked : Reasons],
           command'.name # "none" => command'.id \in Ids,
           used' \in [commands : 0..MaxCommands, exits : 0..MaxExits, busy : 0..MaxBusy],
           UNCHANGED <<registry, proc, clock, issued>>
    PROVE  JobsInv'
  <1>1. TypeOK'
    BY DEF JobsInv, TypeOK, RowsKept
  <1>2. ASSUME NEW i \in Ids PROVE Coherent(jobs'[i]) /\ jobs'[i].locked_by <= issued'
    <2>1. Kept(i) /\ jobs[i].locked_by <= issued /\ issued \in Nat
      BY RowFacts DEF RowsKept, JobsInv, TypeOK
    <2> QED
      BY <2>1 DEF Kept, SoundRow, Nil
  <1>3. ASSUME NEW v \in Workers
        PROVE  ScanSound(v)' /\ \A k \in proc'[v].held : ClaimSound(v, k)'
    <2>1. ScanSound(v)'
      BY DEF JobsInv, ScanSound
    <2>2. ASSUME NEW k \in proc[v].held PROVE ClaimSound(v, k)'
      BY <2>2, OldClaim, ProcFacts, ClaimStaysSound
    <2> QED
      BY <2>1, <2>2
  <1>4. ASSUME NEW i \in Ids, ConcurrencyKey[i] # NoKey PROVE WithinLimit(i)'
    <2>1. Deciding(i)' = Deciding(i)
      BY DEF Deciding, Candidate
    <2> QED
      BY <1>4, <2>1, RunningShrinks, StillWithin
  <1> QED
    BY <1>1, <1>2, <1>3, <1>4 DEF JobsInv, KeysWithinLimit

----------------------------------------------------------------------------
(* The worker's main thread                                                 *)

LEMMA BeatenTyped ==
    ASSUME JobsInv, NEW w \in Workers
    PROVE  Beaten(w) \in [Workers -> Nat]
  BY DEF Beaten, JobsInv, TypeOK

LEMMA UsedTyped ==
    ASSUME JobsInv
    PROVE  /\ registry \in [Workers -> Nat]
           /\ used \in [commands : 0..MaxCommands, exits : 0..MaxExits, busy : 0..MaxBusy]
           /\ used.exits < MaxExits =>
                [used EXCEPT !.exits = @ + 1]
                    \in [commands : 0..MaxCommands, exits : 0..MaxExits, busy : 0..MaxBusy]
           /\ used.busy < MaxBusy =>
                [used EXCEPT !.busy = @ + 1]
                    \in [commands : 0..MaxCommands, exits : 0..MaxExits, busy : 0..MaxBusy]
           /\ used.commands < MaxCommands =>
                [used EXCEPT !.commands = @ + 1]
                    \in [commands : 0..MaxCommands, exits : 0..MaxExits, busy : 0..MaxBusy]
  BY JobsAssumption DEF JobsInv, TypeOK

\* The worker moves on in its loop: its claims and its candidates stay what they were
LEMMA LoopStep ==
    ASSUME JobsInv, NEW w \in Workers, RowsKept,
           NEW pc \in {"beat", "stale", "claim", "off"},
           proc' = [proc EXCEPT ![w].pc = pc],
           registry' \in [Workers -> Nat],
           used' \in [commands : 0..MaxCommands, exits : 0..MaxExits, busy : 0..MaxBusy],
           UNCHANGED <<paused, command, clock, issued>>
    PROVE  JobsInv'
  <1> DEFINE p == [proc[w] EXCEPT !.pc = pc]
  <1>1. proc[w] \in Process /\ proc[w].at <= clock /\ proc \in [Workers -> Process]
    BY ProcFacts
  <1>2. p \in Process /\ p.pc = pc /\ p.at = proc[w].at /\ p.held = proc[w].held
    BY <1>1 DEF Process
  <1>3. proc' = [proc EXCEPT ![w] = p]
    BY <1>1
  <1>4. \A k \in p.held : HeldBefore(w, k)
    BY <1>2, OldClaim
  <1> HIDE DEF p
  <1> QED
    BY <1>1, <1>2, <1>3, <1>4, ProcStep

LEMMA RegisterStep == ASSUME JobsInv, NEW w \in Workers, Register(w) PROVE JobsInv'
  <1>1. registry' \in [Workers -> Nat]
    BY DEF Register, JobsInv, TypeOK
  <1> QED
    BY <1>1, LoopStep, RowsUntouched, UsedTyped DEF Register

LEMMA BeatStep == ASSUME JobsInv, NEW w \in Workers, Beat(w) PROVE JobsInv'
  BY LoopStep, RowsUntouched, UsedTyped, BeatenTyped DEF Beat

LEMMA FinishBatchStep == ASSUME JobsInv, NEW w \in Workers, FinishBatch(w) PROVE JobsInv'
  BY LoopStep, RowsUntouched, UsedTyped, BeatenTyped DEF FinishBatch

LEMMA StopStep == ASSUME JobsInv, NEW w \in Workers, Stop(w) PROVE JobsInv'
  <1>1. registry' \in [Workers -> Nat]
    BY DEF Stop, JobsInv, TypeOK, Nil
  <1> QED
    BY <1>1, LoopStep, RowsUntouched, UsedTyped DEF Stop

LEMMA ReadStaleStep == ASSUME JobsInv, NEW w \in Workers, ReadStale(w) PROVE JobsInv'
  <1> DEFINE stale == {v \in Workers : Stale(v)}
             p == [proc[w] EXCEPT !.pc = "recover", !.at = clock, !.stale = stale]
  <1>1. UNCHANGED <<jobs, registry, paused, command, clock, issued, used>>
    BY DEF ReadStale
  <1>2. CASE stale = {}
    <2>1. proc' = [proc EXCEPT ![w].pc = "claim"]
      BY <1>2 DEF ReadStale
    <2> QED
      BY <1>1, <2>1, LoopStep, RowsUntouched, UsedTyped
  <1>3. CASE stale # {}
    <2>1. proc[w] \in Process /\ proc \in [Workers -> Process] /\ clock \in Nat
      BY ProcFacts
    <2>2. /\ p \in Process /\ p.pc = "recover" /\ p.at = clock
          /\ p.held = proc[w].held
      BY <2>1 DEF Process
    <2>3. proc' = [proc EXCEPT ![w] = p]
      BY <1>3, <2>1 DEF ReadStale
    <2>4. (\A k \in p.held : HeldBefore(w, k)) /\ p.at <= clock
      BY <2>1, <2>2, OldClaim
    <2> HIDE DEF p
    <2> QED
      BY <1>1, <2>2, <2>3, <2>4, ProcStep, RowsUntouched, UsedTyped
  <1> QED
    BY <1>2, <1>3

LEMMA RecoverStep == ASSUME JobsInv, NEW w \in Workers, Recover(w) PROVE JobsInv'
  <1> DEFINE p == [proc[w] EXCEPT !.pc = "claim", !.at = Nil, !.stale = {}]
  <1>1. proc[w] \in Process /\ proc[w].at \in Nat /\ proc \in [Workers -> Process]
        /\ clock \in Nat
    BY ProcFacts
  <1>2. /\ p \in Process /\ p.pc = "claim" /\ p.at = Nil /\ p.held = proc[w].held
    BY <1>1 DEF Process, Nil
  <1>3. proc' = [proc EXCEPT ![w] = p]
    BY <1>1 DEF Recover
  <1>4. (\A k \in p.held : HeldBefore(w, k)) /\ p.at <= clock
    BY <1>1, <1>2, OldClaim DEF Nil
  <1>5. \A i \in Ids : jobs'[i] = IF OwnedBy(jobs[i], proc[w].stale)
                                  THEN Abandoned(jobs[i], proc[w].at) ELSE jobs[i]
    BY DEF Recover
  <1>6. ASSUME NEW i \in Ids PROVE Kept(i)
    <2>1. CASE OwnedBy(jobs[i], proc[w].stale)
      <3>1. jobs[i].locked_by # Nil
        BY <2>1, RowFacts DEF OwnedBy, Coherent
      <3> QED
        BY <1>1, <1>5, <2>1, <3>1, RowFacts, AbandonedRow DEF Kept
    <2>2. CASE ~OwnedBy(jobs[i], proc[w].stale)
      BY <1>5, <2>2, UntouchedRow
    <2> QED
      BY <2>1, <2>2
  <1>7. RowsKept
    <2>1. \A i \in Ids : jobs'[i] \in Job
      BY <1>6 DEF Kept, SoundRow
    <2>2. jobs' = [i \in Ids |-> jobs'[i]]
      BY DEF Recover
    <2> QED
      BY <1>6, <2>1, <2>2 DEF RowsKept
  <1>8. registry' \in [Workers -> Nat]
    BY DEF Recover, JobsInv, TypeOK, Nil
  <1>9. UNCHANGED <<paused, command, clock, issued, used>>
    BY DEF Recover
  <1> HIDE DEF p
  <1> QED
    BY <1>2, <1>3, <1>4, <1>7, <1>8, <1>9, ProcStep, UsedTyped DEF Nil

LEMMA StartClaimStep == ASSUME JobsInv, NEW w \in Workers, StartClaim(w) PROVE JobsInv'
  <1>1. PICK s \in SeqOf(Ids, Window) :
            proc' = [proc EXCEPT ![w].pc = "scan", ![w].at = clock, ![w].cands = s]
    BY DEF StartClaim
  <1>2. s \in Seq(Ids)
    BY JobsAssumption DEF SeqOf
  <1> DEFINE p == [proc[w] EXCEPT !.pc = "scan", !.at = clock, !.cands = s]
  <1>3. proc[w] \in Process /\ proc \in [Workers -> Process] /\ clock \in Nat \ {0}
    BY ProcFacts
  <1>4. /\ p \in Process /\ p.pc = "scan" /\ p.at = clock /\ p.held = proc[w].held
    BY <1>2, <1>3 DEF Process
  <1>5. proc' = [proc EXCEPT ![w] = p]
    BY <1>1, <1>3
  <1>6. /\ \A k \in p.held : HeldBefore(w, k)
        /\ p.at <= clock /\ p.at # Nil
    BY <1>3, <1>4, OldClaim DEF Nil
  <1>7. \A i \in Ids : jobs'[i] = IF Exhausted(jobs[i], clock)
                                  THEN Terminal(jobs[i]) ELSE jobs[i]
    BY DEF StartClaim, Expiry
  <1>8. ASSUME NEW i \in Ids PROVE Kept(i)
    <2>1. CASE Exhausted(jobs[i], clock)
      <3>1. jobs[i].locked_by # Nil
        BY <2>1, RowFacts DEF Exhausted, LeaseOver, Coherent
      <3> QED
        BY <1>7, <2>1, <3>1, RowFacts, TerminalRow DEF Kept
    <2>2. CASE ~Exhausted(jobs[i], clock)
      BY <1>7, <2>2, UntouchedRow
    <2> QED
      BY <2>1, <2>2
  <1>9. RowsKept
    <2>1. \A i \in Ids : jobs'[i] \in Job
      BY <1>8 DEF Kept, SoundRow
    <2>2. jobs' = [i \in Ids |-> jobs'[i]]
      BY DEF StartClaim, Expiry
    <2> QED
      BY <1>8, <2>1, <2>2 DEF RowsKept
  <1>10. UNCHANGED <<registry, paused, command, clock, issued, used>>
    BY DEF StartClaim
  <1> HIDE DEF p
  <1> QED
    BY <1>4, <1>5, <1>6, <1>9, <1>10, ProcStep, UsedTyped

LEMMA CandidateFacts ==
    ASSUME JobsInv, NEW w \in Workers, proc[w].cands # <<>>
    PROVE  LET p == [proc[w] EXCEPT !.pc = "scan", !.cands = Tail(proc[w].cands),
                                    !.why = "no"]
           IN  /\ Candidate(w) \in Ids
               /\ p \in Process /\ p.pc = "scan" /\ p.at = proc[w].at
               /\ p.held = proc[w].held
               /\ Passed(w) = [proc EXCEPT ![w] = p]
  <1>1. proc[w] \in Process /\ proc \in [Workers -> Process] /\ proc[w].cands \in Seq(Ids)
    BY ProcFacts
  <1>2. Head(proc[w].cands) \in Ids /\ Tail(proc[w].cands) \in Seq(Ids)
    BY <1>1
  <1> QED
    BY <1>1, <1>2 DEF Candidate, Passed, Process, Reasons

\* Its candidate is done with
LEMMA PassedStep ==
    ASSUME JobsInv, NEW w \in Workers, RowsKept, proc[w].cands # <<>>,
           proc[w].at # Nil, proc' = Passed(w),
           UNCHANGED <<registry, paused, command, clock, issued, used>>
    PROVE  JobsInv'
  <1> DEFINE p == [proc[w] EXCEPT !.pc = "scan", !.cands = Tail(proc[w].cands),
                                  !.why = "no"]
  <1>1. /\ p \in Process /\ p.pc = "scan" /\ p.at = proc[w].at
        /\ p.held = proc[w].held /\ proc' = [proc EXCEPT ![w] = p]
    BY CandidateFacts
  <1>2. (\A k \in p.held : HeldBefore(w, k)) /\ p.at <= clock
    BY <1>1, OldClaim, ProcFacts
  <1> HIDE DEF p
  <1> QED
    BY <1>1, <1>2, ProcStep, UsedTyped

LEMMA CheckCandidateStep ==
    ASSUME JobsInv, NEW w \in Workers, CheckCandidate(w) PROVE JobsInv'
  <1> DEFINE marked(why) == [proc[w] EXCEPT !.pc = "mark", !.why = why]
             allowed == [proc[w] EXCEPT !.pc = "allowed"]
  <1>1. /\ proc[w] \in Process /\ proc \in [Workers -> Process]
        /\ proc[w].at <= clock /\ proc[w].at # Nil /\ proc[w].cands # <<>>
    BY ProcFacts DEF CheckCandidate
  <1>2. RowsKept /\ UNCHANGED <<registry, paused, command, clock, issued, used>>
    BY RowsUntouched DEF CheckCandidate
  <1>3. \/ proc' = Passed(w)
        \/ proc' = [proc EXCEPT ![w].pc = "mark", ![w].why = "paused"]
        \/ proc' = [proc EXCEPT ![w].pc = "mark", ![w].why = "full"]
        \/ proc' = [proc EXCEPT ![w].pc = "allowed"]
    BY DEF CheckCandidate
  <1>4. CASE proc' = Passed(w)
    BY <1>1, <1>2, <1>4, PassedStep
  <1>5. ASSUME NEW why \in {"paused", "full"},
               proc' = [proc EXCEPT ![w].pc = "mark", ![w].why = why]
        PROVE  JobsInv'
    <2> DEFINE p == marked(why)
    <2>1. /\ p \in Process /\ p.pc = "mark"
          /\ p.at = proc[w].at /\ p.cands = proc[w].cands
          /\ p.held = proc[w].held
      BY <1>1 DEF Process, Reasons
    <2>2. proc' = [proc EXCEPT ![w] = p]
      BY <1>1, <1>5
    <2>3. \A k \in p.held : HeldBefore(w, k)
      BY <2>1, OldClaim
    <2> HIDE DEF p
    <2> QED
      BY <1>1, <1>2, <2>1, <2>2, <2>3, ProcStep, UsedTyped
  <1>6. CASE proc' = [proc EXCEPT ![w].pc = "allowed"]
    <2>1. /\ allowed \in Process /\ allowed.at = proc[w].at
          /\ allowed.cands = proc[w].cands /\ allowed.held = proc[w].held
      BY <1>1 DEF Process
    <2>2. proc' = [proc EXCEPT ![w] = allowed]
      BY <1>1, <1>6
    <2>3. \A k \in allowed.held : HeldBefore(w, k)
      BY <2>1, OldClaim
    <2>4. ~Full(Head(allowed.cands))
      <3>1. proc'[w].pc = "allowed"
        BY <1>1, <1>6 DEF Process
      <3>2. /\ Passed(w)[w].pc = "scan"
            /\ [proc EXCEPT ![w].pc = "mark", ![w].why = "paused"][w].pc = "mark"
            /\ [proc EXCEPT ![w].pc = "mark", ![w].why = "full"][w].pc = "mark"
        BY <1>1 DEF Passed, Process
      <3> QED
        BY <2>1, <3>1, <3>2 DEF CheckCandidate, Candidate
    <2> HIDE DEF allowed
    <2> QED
      BY <1>1, <1>2, <2>1, <2>2, <2>3, <2>4, ProcStep, UsedTyped
  <1> QED
    BY <1>3, <1>4, <1>5, <1>6

LEMMA MarkBlockedStep ==
    ASSUME JobsInv, NEW w \in Workers, MarkBlocked(w) PROVE JobsInv'
  <1> DEFINE i == Candidate(w)
             r == [jobs[i] EXCEPT !.blocked = proc[w].why]
  <1>1. /\ proc[w].cands # <<>> /\ proc[w].at # Nil /\ proc[w].why \in Reasons
        /\ i \in Ids
    BY ProcFacts, CandidateFacts DEF MarkBlocked
  <1>2. CASE jobs[i].stage = "live" /\ jobs[i].locked_at = Nil
    <2>1. jobs' = [jobs EXCEPT ![i] = r] /\ jobs'[i] = r
      BY <1>1, <1>2 DEF MarkBlocked, JobsInv, TypeOK
    <2>2. SoundRow(r) /\ r.locked_by = Nil
      BY <1>1, <1>2, RowFacts, MarkedRow
    <2> HIDE DEF i, r
    <2>3. RowsKept
      BY <1>1, <2>1, <2>2, OneRowKept DEF Kept
    <2> QED
      BY <1>1, <2>3, PassedStep DEF MarkBlocked
  <1>3. CASE ~(jobs[i].stage = "live" /\ jobs[i].locked_at = Nil)
    <2>1. jobs' = jobs
      BY <1>3 DEF MarkBlocked
    <2> QED
      BY <1>1, <2>1, RowsUntouched, PassedStep DEF MarkBlocked
  <1> QED
    BY <1>2, <1>3

LEMMA ReturnClaimsStep ==
    ASSUME JobsInv, NEW w \in Workers, ReturnClaims(w) PROVE JobsInv'
  <1> DEFINE pc == IF proc[w].held = {} THEN "beat" ELSE "work"
             p == [proc[w] EXCEPT !.pc = pc, !.at = Nil, !.cands = <<>>]
  <1>1. proc[w] \in Process /\ proc \in [Workers -> Process] /\ clock \in Nat \ {0}
        /\ <<>> \in Seq(Ids)
    BY ProcFacts
  <1>2. pc \in {"beat", "work"}
    OBVIOUS
  <1>3. proc' = [proc EXCEPT ![w] = p]
    BY <1>1 DEF ReturnClaims
  <1> HIDE DEF pc
  <1>4. p \in Process /\ p.pc = pc /\ p.at = Nil /\ p.held = proc[w].held
    BY <1>1, <1>2 DEF Process, Nil
  <1>5. (\A k \in p.held : HeldBefore(w, k)) /\ p.at <= clock
    BY <1>1, <1>4, OldClaim DEF Nil
  <1>6. registry' \in [Workers -> Nat]
    BY BeatenTyped, UsedTyped DEF ReturnClaims
  <1>7. RowsKept /\ UNCHANGED <<paused, command, clock, issued, used>>
    BY RowsUntouched DEF ReturnClaims
  <1> HIDE DEF p
  <1> QED
    BY <1>2, <1>3, <1>4, <1>5, <1>6, <1>7, ProcStep, UsedTyped

\* A process that has nothing in memory
LEMMA EmptyStep ==
    ASSUME JobsInv, NEW w \in Workers, NEW pc \in {"off", "beat"},
           proc' = [proc EXCEPT ![w] = [Booting EXCEPT !.pc = pc]],
           used' \in [commands : 0..MaxCommands, exits : 0..MaxExits, busy : 0..MaxBusy],
           UNCHANGED <<jobs, registry, paused, command, clock, issued>>
    PROVE  JobsInv'
  <1> DEFINE p == [Booting EXCEPT !.pc = pc]
  <1>1. Nil \in Nat /\ <<>> \in Seq(Ids) /\ clock \in Nat \ {0}
    BY DEF Nil, JobsInv, TypeOK
  <1>2. p \in Process /\ p.pc = pc /\ p.at = Nil /\ p.held = {}
    BY <1>1 DEF Booting, Process, Reasons
  <1>3. p.at <= clock /\ RowsKept
    BY <1>1, <1>2, RowsUntouched DEF Nil
  <1> HIDE DEF p
  <1> QED
    BY <1>2, <1>3, ProcStep, UsedTyped DEF p

LEMMA CrashStep == ASSUME JobsInv, NEW w \in Workers, Crash(w) PROVE JobsInv'
  BY EmptyStep, UsedTyped DEF Crash

LEMMA ScanFailsStep == ASSUME JobsInv, NEW w \in Workers, ScanFails(w) PROVE JobsInv'
  BY EmptyStep, UsedTyped DEF ScanFails

\* The one step that issues a token
LEMMA ClaimCandidateStep ==
    ASSUME JobsInv, NEW w \in Workers, ClaimCandidate(w) PROVE JobsInv'
  <1> DEFINE i == Candidate(w)
             t == issued + 1
             k == [id |-> i, token |-> t, phase |-> "waiting", seen |-> 0]
             r == ClaimedFor(jobs[i], proc[w].at, t, w)
             q == [proc[w] EXCEPT !.pc = "scan", !.cands = Tail(proc[w].cands),
                                  !.why = "no"]
             p == [q EXCEPT !.held = @ \cup {k}]
  <1>1. /\ proc[w].cands # <<>> /\ proc[w].at \in Nat \ {Nil} /\ proc[w].at <= clock
        /\ i \in Ids /\ proc[w].held \subseteq Claim
    BY ProcFacts, CandidateFacts DEF ClaimCandidate
  <1>2. /\ q \in Process /\ q.pc = "scan" /\ q.at = proc[w].at
        /\ q.held = proc[w].held /\ Passed(w) = [proc EXCEPT ![w] = q]
    BY <1>1, CandidateFacts
  <1>3. CASE ~Eligible(jobs[i], proc[w].at)
    <2>1. proc' = Passed(w) /\ UNCHANGED <<jobs, issued, registry, paused, command, clock, used>>
      BY <1>3 DEF ClaimCandidate
    <2> QED
      BY <1>1, <2>1, PassedStep, RowsUntouched
  <1>4. CASE Eligible(jobs[i], proc[w].at)
    <2>1. issued \in Nat /\ t \in Nat \ {Nil} /\ 0 \in 0..MaxAttempts
      BY QueueAssumption DEF JobsInv, TypeOK, Nil
    <2>2. SoundRow(r) /\ r.locked_by = t /\ r.worker = w
      BY <1>1, <1>4, <2>1, RowFacts, ClaimedRow
    <2>3. k \in Claim /\ k.token = t /\ k.id = i /\ k.phase # "failing"
      BY <1>1, <2>1 DEF Claim
    <2>4. /\ jobs' = [jobs EXCEPT ![i] = r]
          /\ proc' = [Passed(w) EXCEPT ![w].held = @ \cup {k}]
          /\ issued' = t /\ UNCHANGED <<registry, paused, command, clock, used>>
      BY <1>4 DEF ClaimCandidate, Token
    <2>5. jobs \in [Ids -> Job] /\ proc \in [Workers -> Process]
      BY DEF JobsInv, TypeOK
    <2> HIDE DEF k, r, q, i
    <2>6. /\ p \in Process /\ p.pc = "scan" /\ p.at = proc[w].at
          /\ p.held = proc[w].held \cup {k}
      BY <1>2, <2>3 DEF Process
    <2>7. proc' = [proc EXCEPT ![w] = p]
      BY <1>2, <2>4, <2>5
    <2> HIDE DEF p, t
    <2>8. /\ jobs' \in [Ids -> Job] /\ proc' \in [Workers -> Process]
          /\ jobs'[i] = r /\ proc'[w] = p
          /\ \A j \in Ids \ {i} : jobs'[j] = jobs[j]
          /\ \A v \in Workers \ {w} : proc'[v] = proc[v]
      <3>1. r \in Job
        BY <2>2 DEF SoundRow
      <3>2. jobs' \in [Ids -> Job] /\ jobs'[i] = r
        BY <1>1, <2>4, <2>5, <3>1
      <3>3. \A j \in Ids \ {i} : jobs'[j] = jobs[j]
        BY <1>1, <2>4, <2>5
      <3>4. proc' \in [Workers -> Process] /\ proc'[w] = p
        BY <2>5, <2>6, <2>7
      <3>5. \A v \in Workers \ {w} : proc'[v] = proc[v]
        BY <2>5, <2>7
      <3> QED
        BY <3>2, <3>3, <3>4, <3>5
    <2>9. issued' \in Nat /\ issued <= issued' /\ ~(issued' <= issued)
      BY <2>1, <2>4 DEF t
    <2>10. TypeOK'
      BY <2>4, <2>8, <2>9 DEF JobsInv, TypeOK
    <2>11. ASSUME NEW j \in Ids PROVE Coherent(jobs'[j]) /\ jobs'[j].locked_by <= issued'
      <3>1. CASE j = i
        BY <2>2, <2>4, <2>8, <2>9, <3>1 DEF SoundRow
      <3>2. CASE j # i
        <4>1. jobs'[j] = jobs[j] /\ issued \in Nat
          BY <2>1, <2>8, <3>2
        <4> QED
          BY <2>9, <4>1, RowFacts
      <3> QED
        BY <3>1, <3>2
    <2>12. ASSUME NEW v \in Workers PROVE ScanSound(v)'
      <3>1. CASE v = w
        BY <1>1, <2>4, <2>6, <2>8, <3>1 DEF ScanSound
      <3>2. CASE v # w
        BY <2>4, <2>8, <3>2 DEF JobsInv, ScanSound
      <3> QED
        BY <3>1, <3>2
    <2>13. ASSUME NEW v \in Workers, NEW l \in proc[v].held PROVE ClaimSound(v, l)'
      <3>1. ClaimSound(v, l) /\ l \in Claim
        BY <2>13, ProcFacts
      <3>2. /\ l.token \in Nat /\ l.token <= issued /\ l.id \in Ids /\ issued \in Nat
        BY <2>1, <3>1 DEF Claim, ClaimSound
      <3>3. l.token <= issued' /\ l.token # t
        BY <2>1, <2>4, <2>9, <3>2
      <3>4. Holds(l)' => jobs'[l.id].worker = v
        <4>1. CASE l.id = i
          BY <2>2, <2>8, <3>3, <4>1 DEF Holds, LockedBy
        <4>2. CASE l.id # i
          BY <2>8, <3>1, <3>2, <4>2 DEF Holds, ClaimSound
        <4> QED
          BY <4>1, <4>2
      <3> QED
        BY <3>1, <3>3, <3>4 DEF ClaimSound
    <2>14. ASSUME NEW l \in Claim, l = k PROVE ClaimSound(w, l)'
      <3>1. l.token <= issued' /\ l.phase # "failing"
        BY <2>1, <2>3, <2>4, <2>14
      <3>2. jobs'[l.id].worker = w
        BY <2>2, <2>3, <2>8, <2>14
      <3> QED
        BY <3>1, <3>2 DEF ClaimSound
    <2>15. ASSUME NEW v \in Workers, NEW l \in proc'[v].held PROVE ClaimSound(v, l)'
      <3>1. CASE v # w
        BY <2>8, <2>13, <2>15, <3>1
      <3>2. CASE v = w /\ l = k
        BY <2>3, <2>14, <3>2
      <3>3. CASE v = w /\ l \in proc[w].held
        BY <2>13, <3>3
      <3> QED
        BY <2>6, <2>8, <2>15, <3>1, <3>2, <3>3
    <2>16. command'.name # "none" => command'.id \in Ids
      BY <2>4 DEF JobsInv
    <2>17. ASSUME NEW x \in Ids, ConcurrencyKey[x] # NoKey PROVE WithinLimit(x)'
      <3>1. /\ Deciding(x)' \subseteq Deciding(x) \ {w}
        BY <2>6, <2>8 DEF Deciding, Candidate
      <3>2. CASE ConcurrencyKey[i] # ConcurrencyKey[x]
        <4>1. Running(x)' \subseteq Running(x)
          BY <2>8, <3>2 DEF Running
        <4>2. Deciding(x)' \subseteq Deciding(x)
          BY <3>1
        <4> QED
          BY <2>17, <4>1, <4>2, StillWithin
      <3>3. CASE ConcurrencyKey[i] = ConcurrencyKey[x]
        <4>1. Running(x)' \in SUBSET (Running(x) \cup {i})
          BY <2>8 DEF Running
        <4>2. w \in Deciding(x)
          BY <3>3 DEF Deciding, ClaimCandidate, i
        <4>3. /\ Cardinality(Running(x)') \in Nat
              /\ Cardinality(Running(x)') <= Cardinality(Running(x)) + 1
          <5>1. /\ IsFiniteSet(Running(x) \cup {i})
                /\ Cardinality(Running(x) \cup {i}) \in Nat
                /\ Cardinality(Running(x) \cup {i}) <= Cardinality(Running(x)) + 1
            <6>1. /\ IsFiniteSet(Running(x) \cup {i})
                  /\ Cardinality(Running(x) \cup {i}) =
                         IF i \in Running(x) THEN Cardinality(Running(x))
                                            ELSE Cardinality(Running(x)) + 1
              BY CountsAreNumbers, FS_AddElement
            <6> QED
              BY <6>1, CountsAreNumbers
          <5>2. /\ IsFiniteSet(Running(x)')
                /\ Cardinality(Running(x)') <= Cardinality(Running(x) \cup {i})
            BY <4>1, <5>1, FS_Subset
          <5>3. Cardinality(Running(x)') \in Nat
            BY <5>2, FS_CardinalityType
          <5> QED
            BY <5>1, <5>2, <5>3, CountsAreNumbers
        <4>4. /\ Cardinality(Deciding(x)') \in Nat
              /\ Cardinality(Deciding(x)') <= Cardinality(Deciding(x)) - 1
          <5>1. /\ IsFiniteSet(Deciding(x) \ {w})
                /\ Cardinality(Deciding(x) \ {w}) = Cardinality(Deciding(x)) - 1
            BY <4>2, CountsAreNumbers, FS_RemoveElement
          <5>2. /\ IsFiniteSet(Deciding(x)')
                /\ Cardinality(Deciding(x)') <= Cardinality(Deciding(x) \ {w})
            BY <3>1, <5>1, FS_Subset
          <5>3. Cardinality(Deciding(x)') \in Nat
            BY <5>2, FS_CardinalityType
          <5> QED
            BY <5>1, <5>2, <5>3
        <4>5. PICK j \in Ids : /\ ConcurrencyKey[j] = ConcurrencyKey[x]
                              /\ Cardinality(Running(x)) + Cardinality(Deciding(x)) <=
                                     ConcurrencyLimit[j] + Cardinality(Workers) - 1
          BY <2>17 DEF JobsInv, KeysWithinLimit, WithinLimit
        <4>6. Cardinality(Running(x)') + Cardinality(Deciding(x)') <=
                  ConcurrencyLimit[j] + Cardinality(Workers) - 1
          BY <4>3, <4>4, <4>5, CountsAreNumbers
        <4> QED
          BY <4>5, <4>6 DEF WithinLimit
      <3> QED
        BY <3>2, <3>3
    <2> QED
      BY <2>10, <2>11, <2>12, <2>15, <2>16, <2>17 DEF JobsInv, KeysWithinLimit
  <1> QED
    BY <1>3, <1>4

LEMMA LoopKeeps == ASSUME JobsInv, NEW w \in Workers, Loop(w) PROVE JobsInv'
  BY RegisterStep, BeatStep, ReadStaleStep, RecoverStep, StartClaimStep,
     CheckCandidateStep, MarkBlockedStep, ClaimCandidateStep, ReturnClaimsStep,
     FinishBatchStep DEF Loop

----------------------------------------------------------------------------
(* The job threads                                                          *)

LEMMA ClaimFacts ==
    ASSUME JobsInv, NEW w \in Workers, NEW k \in proc[w].held
    PROVE  /\ k \in Claim /\ k.id \in Ids /\ k.token \in Nat \ {Nil}
           /\ ClaimSound(w, k)
           /\ Holds(k) => jobs[k.id].locked_by = k.token /\ jobs[k.id].locked_by # Nil
  BY ProcFacts DEF Claim, Holds, LockedBy

\* The claim is dropped, or its phase changes
LEMMA HeldStep ==
    ASSUME JobsInv, NEW w \in Workers, RowsKept, NEW H \in SUBSET Claim,
           proc' = [proc EXCEPT ![w].held = H],
           \A k \in H : HeldBefore(w, k),
           registry' \in [Workers -> Nat],
           used' \in [commands : 0..MaxCommands, exits : 0..MaxExits, busy : 0..MaxBusy],
           UNCHANGED <<paused, command, clock, issued>>
    PROVE  JobsInv'
  <1> DEFINE p == [proc[w] EXCEPT !.held = H]
  <1>1. proc[w] \in Process /\ proc \in [Workers -> Process] /\ proc[w].at <= clock
    BY ProcFacts
  <1>2. /\ p \in Process /\ p.pc = proc[w].pc /\ p.at = proc[w].at
        /\ p.cands = proc[w].cands /\ p.held = H
    BY <1>1 DEF Process
  <1>3. proc' = [proc EXCEPT ![w] = p]
    BY <1>1
  <1> HIDE DEF p
  <1> QED
    BY <1>1, <1>2, <1>3, ProcStep, ProcFacts

LEMMA DropStep ==
    ASSUME JobsInv, NEW w \in Workers, NEW k \in proc[w].held, RowsKept, Drop(w, k),
           used' \in [commands : 0..MaxCommands, exits : 0..MaxExits, busy : 0..MaxBusy],
           UNCHANGED <<registry, paused, command, clock, issued>>
    PROVE  JobsInv'
  <1> DEFINE H == proc[w].held \ {k}
  <1>1. H \in SUBSET Claim /\ \A l \in H : HeldBefore(w, l)
    BY ProcFacts, OldClaim
  <1>2. proc' = [proc EXCEPT ![w].held = H]
    BY ProcFacts DEF Drop
  <1> HIDE DEF H
  <1> QED
    BY <1>1, <1>2, HeldStep, UsedTyped

LEMMA BecomesStep ==
    ASSUME JobsInv, NEW w \in Workers, NEW k \in proc[w].held, NEW l \in Claim,
           Becomes(w, k, l), l.id = k.id, l.token = k.token,
           l.phase = "failing" => l.seen >= 1,
           used' \in [commands : 0..MaxCommands, exits : 0..MaxExits, busy : 0..MaxBusy],
           UNCHANGED <<jobs, registry, paused, command, clock, issued>>
    PROVE  JobsInv'
  <1> DEFINE H == (proc[w].held \ {k}) \cup {l}
  <1>1. H \in SUBSET Claim /\ HeldBefore(w, l) /\ \A m \in H : HeldBefore(w, m)
    BY ProcFacts, OldClaim DEF HeldBefore
  <1>2. proc' = [proc EXCEPT ![w].held = H]
    BY ProcFacts DEF Becomes
  <1> HIDE DEF H
  <1> QED
    BY <1>1, <1>2, HeldStep, UsedTyped, RowsUntouched

\* The row of a claim that holds it is written
LEMMA HeldRowKept ==
    ASSUME JobsInv, NEW w \in Workers, NEW k \in proc[w].held,
           jobs' = IF Holds(k) THEN [jobs EXCEPT ![k.id] = jobs'[k.id]] ELSE jobs,
           Holds(k) => Kept(k.id)
    PROVE  RowsKept
  BY ClaimFacts, OneRowKept, RowsUntouched

LEMMA CompleteStep ==
    ASSUME JobsInv, NEW w \in Workers, NEW k \in proc[w].held, Complete(w, k) PROVE JobsInv'
  <1> DEFINE r == [Completed(jobs[k.id]) EXCEPT !.worker = Nil, !.cancel_requested = FALSE]
  <1>1. k.id \in Ids /\ (Holds(k) => jobs[k.id].locked_by # Nil) /\ SoundRow(jobs[k.id])
        /\ jobs \in [Ids -> Job]
    BY ClaimFacts, RowFacts DEF JobsInv, TypeOK
  <1>2. Holds(k) => SoundRow(r) /\ r.locked_by = Nil
    BY <1>1, CompletedRow
  <1>3. jobs' = IF Holds(k) THEN [jobs EXCEPT ![k.id] = r] ELSE jobs
    BY <1>1 DEF Complete
  <1> HIDE DEF r
  <1>4. RowsKept
    BY <1>1, <1>2, <1>3, HeldRowKept DEF Kept
  <1> QED
    BY <1>4, DropStep, UsedTyped DEF Complete

LEMMA TerminateStep ==
    ASSUME JobsInv, NEW w \in Workers, NEW k \in proc[w].held, Terminate(w, k) PROVE JobsInv'
  <1> DEFINE r == [Terminal(jobs[k.id]) EXCEPT !.worker = Nil, !.cancelled = TRUE,
                                               !.cancel_requested = FALSE]
  <1>1. k.id \in Ids /\ (Holds(k) => jobs[k.id].locked_by # Nil) /\ SoundRow(jobs[k.id])
        /\ jobs \in [Ids -> Job]
    BY ClaimFacts, RowFacts DEF JobsInv, TypeOK
  <1>2. Holds(k) => SoundRow(r) /\ r.locked_by = Nil
    BY <1>1, TerminatedRow
  <1>3. jobs' = IF Holds(k) THEN [jobs EXCEPT ![k.id] = r] ELSE jobs
    BY <1>1 DEF Terminate
  <1> HIDE DEF r
  <1>4. RowsKept
    BY <1>1, <1>2, <1>3, HeldRowKept DEF Kept
  <1> QED
    BY <1>4, DropStep, UsedTyped DEF Terminate

LEMMA FailWriteStep ==
    ASSUME JobsInv, NEW w \in Workers, NEW k \in proc[w].held, FailWrite(w, k) PROVE JobsInv'
  <1> DEFINE r == [FailedAttempt(jobs[k.id], k.seen, clock) EXCEPT !.worker = Nil]
  <1>1. k.id \in Ids /\ (Holds(k) => jobs[k.id].locked_by # Nil) /\ SoundRow(jobs[k.id])
        /\ jobs \in [Ids -> Job] /\ clock \in Nat
    BY ClaimFacts, RowFacts DEF JobsInv, TypeOK
  <1>2. k.seen \in 1..MaxAttempts
    <2>1. k.seen \in 0..MaxAttempts /\ k.seen >= 1
      BY ClaimFacts DEF FailWrite, Claim, ClaimSound
    <2> QED
      BY <2>1, QueueAssumption
  <1>3. Holds(k) => SoundRow(r) /\ r.locked_by = Nil
    BY <1>1, <1>2, FailedAttemptRow
  <1>4. jobs' = IF Holds(k) THEN [jobs EXCEPT ![k.id] = r] ELSE jobs
    BY <1>1 DEF FailWrite
  <1> HIDE DEF r
  <1>5. RowsKept
    BY <1>1, <1>3, <1>4, HeldRowKept DEF Kept
  <1> QED
    BY <1>5, DropStep, UsedTyped DEF FailWrite

LEMMA RenewStep ==
    ASSUME JobsInv, NEW w \in Workers, NEW k \in proc[w].held, Renew(w, k) PROVE JobsInv'
  <1> DEFINE r == Renewed(jobs[k.id], clock)
  <1>1. k.id \in Ids /\ jobs[k.id].locked_by # Nil /\ SoundRow(jobs[k.id])
        /\ jobs \in [Ids -> Job] /\ clock \in Nat \ {Nil}
    BY ClaimFacts, RowFacts DEF Renew, JobsInv, TypeOK, Nil
  <1>2. /\ SoundRow(r) /\ r.locked_by = jobs[k.id].locked_by
        /\ r.worker = jobs[k.id].worker /\ r.failed = jobs[k.id].failed
    BY <1>1, RenewedRow
  <1>3. jobs' = [jobs EXCEPT ![k.id] = r]
    BY <1>1 DEF Renew
  <1> HIDE DEF r
  <1>4. RowsKept
    BY <1>1, <1>2, <1>3, OneRowKept DEF Kept
  <1>5. proc[w].held \in SUBSET Claim /\ \A l \in proc[w].held : HeldBefore(w, l)
    BY ProcFacts, OldClaim
  <1>6. proc' = [proc EXCEPT ![w].held = proc[w].held]
    BY ProcFacts DEF Renew, Process
  <1> QED
    BY <1>4, <1>5, <1>6, HeldStep, BeatenTyped, UsedTyped DEF Renew

\* A thread's step that writes no row
LEMMA RephasedStep ==
    ASSUME JobsInv, NEW w \in Workers, NEW k \in proc[w].held,
           NEW phase \in {"running", "checked", "errored", "cancelling"},
           Becomes(w, k, [k EXCEPT !.phase = phase]),
           used' \in [commands : 0..MaxCommands, exits : 0..MaxExits, busy : 0..MaxBusy],
           UNCHANGED <<jobs, registry, paused, command, clock, issued>>
    PROVE  JobsInv'
  <1> DEFINE l == [k EXCEPT !.phase = phase]
  <1>1. l \in Claim /\ l.id = k.id /\ l.token = k.token /\ l.phase # "failing"
    BY ClaimFacts DEF Claim
  <1> HIDE DEF l
  <1> QED
    BY <1>1, BecomesStep DEF l

LEMMA FailReadStep ==
    ASSUME JobsInv, NEW w \in Workers, NEW k \in proc[w].held, FailRead(w, k) PROVE JobsInv'
  <1> DEFINE l == [k EXCEPT !.phase = "failing", !.seen = jobs[k.id].attempts]
  <1>1. UNCHANGED <<jobs, registry, paused, command, clock, issued, used>>
    BY DEF FailRead
  <1>2. CASE Holds(k)
    <2>1. k \in Claim /\ jobs[k.id] \in Job /\ jobs[k.id].attempts >= 1
      BY <1>2, ClaimFacts, RowFacts DEF Coherent
    <2>2. l \in Claim /\ l.id = k.id /\ l.token = k.token /\ l.seen >= 1
      BY <2>1 DEF Claim, Job
    <2>3. Becomes(w, k, l)
      BY <1>2 DEF FailRead
    <2> HIDE DEF l
    <2> QED
      BY <1>1, <2>2, <2>3, BecomesStep, UsedTyped
  <1>3. CASE ~Holds(k)
    BY <1>1, <1>3, DropStep, RowsUntouched, UsedTyped DEF FailRead
  <1> QED
    BY <1>2, <1>3

LEMMA PerformKeeps ==
    ASSUME JobsInv, NEW w \in Workers, NEW k \in proc[w].held, Perform(w, k) PROVE JobsInv'
  <1>1. CASE StartJob(w, k)
    BY <1>1, RephasedStep, UsedTyped DEF StartJob
  <1>2. CASE EndBody(w, k)
    <2>1. PICK phase \in {"cancelling", "checked"} : Becomes(w, k, [k EXCEPT !.phase = phase])
      BY <1>2 DEF EndBody
    <2> QED
      BY <1>2, <2>1, RephasedStep, UsedTyped DEF EndBody
  <1> QED
    BY <1>1, <1>2, CompleteStep, TerminateStep, FailReadStep, FailWriteStep DEF Perform

LEMMA ThreadKeeps ==
    ASSUME JobsInv, NEW w \in Workers, NEW k \in proc[w].held,
           LoseLease(w, k) \/ CompleteErrs(w, k) \/ GiveUp(w, k)
    PROVE  JobsInv'
  <1>1. CASE LoseLease(w, k)
    BY <1>1, DropStep, RowsUntouched, UsedTyped DEF LoseLease
  <1>2. CASE CompleteErrs(w, k)
    BY <1>2, RephasedStep, UsedTyped DEF CompleteErrs
  <1>3. CASE GiveUp(w, k)
    BY <1>3, DropStep, RowsUntouched, UsedTyped DEF GiveUp
  <1> QED
    BY <1>1, <1>2, <1>3

----------------------------------------------------------------------------
(* Operators, time                                                          *)

CommandType == [name : {"none", "reschedule", "cancel_running", "cancel_pending"},
                id : Ids \cup {0}, token : Nat, blocked : Reasons]

LEMMA OperatorFacts ==
    ASSUME JobsInv
    PROVE  /\ jobs \in [Ids -> Job] /\ clock \in Nat
           /\ command \in CommandType /\ command.blocked \in Reasons
           /\ command.name # "none" => command.id \in Ids
           /\ NoCommand \in CommandType /\ NoCommand.name = "none"
           /\ paused \subseteq {Queue[i] : i \in Ids}
  BY DEF JobsInv, TypeOK, CommandType, NoCommand, Reasons, Nil

LEMMA CommandedUsed ==
    ASSUME JobsInv, NEW name, Commanded(name)
    PROVE  used' \in [commands : 0..MaxCommands, exits : 0..MaxExits, busy : 0..MaxBusy]
  BY UsedTyped DEF Commanded

\* A command of one statement, or one that has read its row
LEMMA CommandStep ==
    ASSUME JobsInv, NEW name, Commanded(name), RowsKept,
           command' = command, paused' \subseteq {Queue[i] : i \in Ids},
           UNCHANGED <<registry, proc, clock, issued>>
    PROVE  JobsInv'
  BY CommandedUsed, OperatorFacts, OperatorStep DEF CommandType

LEMMA ReadStep ==
    ASSUME JobsInv, NEW name, Commanded(name), NEW c \in CommandType, command' = c,
           c.id \in Ids,
           UNCHANGED <<jobs, paused, registry, proc, clock, issued>>
    PROVE  JobsInv'
  BY CommandedUsed, OperatorFacts, OperatorStep, RowsUntouched DEF CommandType

\* The write of a command that had read its row
LEMMA WriteStep ==
    ASSUME JobsInv, RowsKept, command' = NoCommand,
           UNCHANGED <<registry, paused, proc, clock, issued, used>>
    PROVE  JobsInv'
  BY OperatorFacts, OperatorStep, UsedTyped DEF CommandType

LEMMA EnqueueStep == ASSUME JobsInv, NEW i \in Ids, Enqueue(i) PROVE JobsInv'
  <1> DEFINE r == [NewJob EXCEPT !.stage = "live", !.available_at = clock,
                                 !.blocked = BlockedIn(Queue[i])]
  <1>1. SoundRow(r) /\ r.locked_by = Nil
    BY EnqueuedRow, OperatorFacts DEF BlockedIn, Reasons
  <1>2. jobs' = [jobs EXCEPT ![i] = r]
    BY DEF Enqueue
  <1> HIDE DEF r
  <1>3. RowsKept
    BY <1>1, <1>2, OneRowKept, OperatorFacts DEF Kept
  <1> QED
    BY <1>3, OperatorStep, OperatorFacts, UsedTyped DEF Enqueue, CommandType

LEMMA PauseStep == ASSUME JobsInv, NEW q \in {Queue[i] : i \in Ids}, Pause(q) PROVE JobsInv'
  <1>1. \A i \in Ids : jobs'[i] = IF Queue[i] = q /\ Pending(jobs[i])
                                  THEN [jobs[i] EXCEPT !.blocked = "paused"] ELSE jobs[i]
    BY DEF Pause
  <1>2. ASSUME NEW i \in Ids PROVE Kept(i)
    <2>1. CASE Queue[i] = q /\ Pending(jobs[i])
      <3>1. SoundRow(jobs[i]) /\ jobs[i].locked_at = Nil /\ "paused" \in Reasons
        BY <2>1, RowFacts DEF Pending, Reasons
      <3>2. jobs'[i] = [jobs[i] EXCEPT !.blocked = "paused"]
        BY <1>1, <2>1
      <3> QED
        BY <3>1, <3>2, MarkedRow DEF Kept
    <2>2. CASE ~(Queue[i] = q /\ Pending(jobs[i]))
      BY <1>1, <2>2, UntouchedRow
    <2> QED
      BY <2>1, <2>2
  <1>3. jobs' = [i \in Ids |-> jobs'[i]]
    BY DEF Pause
  <1>4. RowsKept
    BY <1>2, <1>3 DEF RowsKept, Kept, SoundRow
  <1> QED
    BY <1>4, CommandStep, OperatorFacts DEF Pause

LEMMA ResumeStep == ASSUME JobsInv, NEW q, Resume(q) PROVE JobsInv'
  <1> DEFINE lifted(i) == Queue[i] = q /\ Pending(jobs[i]) /\ jobs[i].blocked = "paused"
  <1>1. \A i \in Ids : jobs'[i] = IF lifted(i)
                                  THEN [jobs[i] EXCEPT !.blocked = "no"] ELSE jobs[i]
    BY DEF Resume
  <1>2. ASSUME NEW i \in Ids PROVE Kept(i)
    <2>1. CASE lifted(i)
      <3>1. SoundRow(jobs[i]) /\ jobs[i].locked_at = Nil /\ "no" \in Reasons
        BY <2>1, RowFacts DEF Pending, Reasons
      <3>2. jobs'[i] = [jobs[i] EXCEPT !.blocked = "no"]
        BY <1>1, <2>1
      <3> QED
        BY <3>1, <3>2, MarkedRow DEF Kept
    <2>2. CASE ~lifted(i)
      BY <1>1, <2>2, UntouchedRow
    <2> QED
      BY <2>1, <2>2
  <1>3. jobs' = [i \in Ids |-> jobs'[i]]
    BY DEF Resume
  <1>4. RowsKept
    BY <1>2, <1>3 DEF RowsKept, Kept, SoundRow
  <1>5. command' = command /\ paused' \subseteq {Queue[i] : i \in Ids}
    BY OperatorFacts DEF Resume
  <1> QED
    BY <1>4, <1>5, CommandStep DEF Resume

LEMMA DiscardStep == ASSUME JobsInv, NEW i \in Ids, Discard(i) PROVE JobsInv'
  <1> DEFINE r == [jobs[i] EXCEPT !.failed = TRUE, !.discarded = TRUE, !.blocked = "no"]
  <1>1. SoundRow(r) /\ r.locked_by = Nil
    BY DiscardedRow, RowFacts DEF Discard
  <1>2. jobs' = [jobs EXCEPT ![i] = r]
    BY OperatorFacts DEF Discard
  <1> HIDE DEF r
  <1>3. RowsKept
    BY <1>1, <1>2, OneRowKept, OperatorFacts DEF Kept
  <1> QED
    BY <1>3, CommandStep, OperatorFacts DEF Discard

LEMMA RetryStep == ASSUME JobsInv, NEW i \in Ids, Retry(i) PROVE JobsInv'
  <1> DEFINE r == [Revived(jobs[i], clock) EXCEPT !.worker = Nil,
                      !.cancel_requested = FALSE, !.cancelled = FALSE, !.blocked = "no"]
  <1>1. SoundRow(r) /\ r.locked_by = Nil
    BY RevivedRow, RowFacts, OperatorFacts
  <1>2. jobs' = [jobs EXCEPT ![i] = r]
    BY OperatorFacts DEF Retry
  <1> HIDE DEF r
  <1>3. RowsKept
    BY <1>1, <1>2, OneRowKept, OperatorFacts DEF Kept
  <1> QED
    BY <1>3, CommandStep, OperatorFacts DEF Retry

LEMMA PruneStep == ASSUME JobsInv, Prune PROVE JobsInv'
  <1>1. PICK S \in SUBSET {i \in Ids : jobs[i].completed \/ jobs[i].failed} :
            jobs' = [i \in Ids |-> IF i \in S THEN [NewJob EXCEPT !.stage = "gone"]
                                              ELSE jobs[i]]
    BY DEF Prune
  <1>2. ASSUME NEW i \in Ids PROVE Kept(i)
    BY <1>1, EmptyRow, UntouchedRow DEF Kept
  <1>3. RowsKept
    BY <1>1, <1>2 DEF RowsKept, Kept, SoundRow
  <1> QED
    BY <1>3, CommandStep, OperatorFacts DEF Prune

LEMMA RescheduleReadStep == ASSUME JobsInv, NEW i \in Ids, RescheduleRead(i) PROVE JobsInv'
  <1> DEFINE c == [NoCommand EXCEPT !.name = "reschedule", !.id = i,
                                    !.blocked = BlockedIn(Queue[i])]
  <1>1. c \in CommandType /\ c.id = i
    BY DEF NoCommand, CommandType, BlockedIn, Reasons, Nil
  <1>2. command' = c
    BY DEF RescheduleRead
  <1> HIDE DEF c
  <1> QED
    BY <1>1, <1>2, ReadStep DEF RescheduleRead

LEMMA CancelReadStep == ASSUME JobsInv, NEW i \in Ids, CancelRead(i) PROVE JobsInv'
  <1> DEFINE name == IF jobs[i].locked_at = Nil THEN "cancel_pending" ELSE "cancel_running"
             c == [NoCommand EXCEPT !.name = name, !.id = i, !.token = jobs[i].locked_by]
  <1>1. name \in {"cancel_pending", "cancel_running"} /\ jobs[i].locked_by \in Nat
    BY RowFacts
  <1>2. command' = c
    BY DEF CancelRead
  <1> HIDE DEF name
  <1>3. c \in CommandType /\ c.id = i
    BY <1>1 DEF NoCommand, CommandType, Reasons
  <1> HIDE DEF c
  <1> QED
    BY <1>2, <1>3, ReadStep DEF CancelRead

LEMMA RescheduleWriteStep == ASSUME JobsInv, RescheduleWrite PROVE JobsInv'
  <1>1. PICK i \in Ids : i = command.id
    BY OperatorFacts DEF RescheduleWrite
  <1> DEFINE r == [jobs[i] EXCEPT !.available_at = clock + 1, !.blocked = command.blocked]
  <1>2. jobs' = IF Pending(jobs[i]) THEN [jobs EXCEPT ![i] = r] ELSE jobs
    BY <1>1, OperatorFacts DEF RescheduleWrite
  <1>3. Pending(jobs[i]) => SoundRow(r) /\ r.locked_by = Nil
    <2>1. clock + 1 \in Nat
      BY OperatorFacts
    <2> QED
      BY <2>1, RescheduledRow, RowFacts, OperatorFacts
  <1> HIDE DEF r
  <1>4. RowsKept
    BY <1>2, <1>3, OneRowKept, OperatorFacts, RowsUntouched DEF Kept
  <1> QED
    BY <1>4, WriteStep DEF RescheduleWrite

LEMMA CancelRunningStep == ASSUME JobsInv, CancelRunning PROVE JobsInv'
  <1>1. PICK i \in Ids : i = command.id
    BY OperatorFacts DEF CancelRunning
  <1> DEFINE r == [jobs[i] EXCEPT !.cancel_requested = TRUE]
  <1>2. jobs' = IF LockedBy(jobs[i], command.token) THEN [jobs EXCEPT ![i] = r] ELSE jobs
    BY <1>1, OperatorFacts DEF CancelRunning
  <1>3. /\ SoundRow(r) /\ r.locked_by = jobs[i].locked_by
        /\ r.worker = jobs[i].worker /\ r.failed = jobs[i].failed
    BY CancelRequestedRow, RowFacts
  <1> HIDE DEF r
  <1>4. RowsKept
    BY <1>2, <1>3, OneRowKept, OperatorFacts, RowsUntouched DEF Kept
  <1> QED
    BY <1>4, WriteStep DEF CancelRunning

LEMMA CancelPendingStep == ASSUME JobsInv, CancelPending PROVE JobsInv'
  <1>1. PICK i \in Ids : i = command.id
    BY OperatorFacts DEF CancelPending
  <1> DEFINE r == [jobs[i] EXCEPT !.failed = TRUE, !.discarded = TRUE,
                                  !.cancelled = TRUE, !.cancel_requested = FALSE]
  <1>2. jobs' = IF Active(jobs[i]) THEN [jobs EXCEPT ![i] = r] ELSE jobs
    BY <1>1, OperatorFacts DEF CancelPending
  <1>3. Active(jobs[i]) =>
          /\ SoundRow(r) /\ r.locked_by = jobs[i].locked_by
          /\ r.worker = jobs[i].worker /\ r.failed
    BY CancelledRow, RowFacts
  <1> HIDE DEF r
  <1>4. RowsKept
    BY <1>2, <1>3, OneRowKept, OperatorFacts, RowsUntouched DEF Kept
  <1> QED
    BY <1>4, WriteStep DEF CancelPending

LEMMA OperatorKeeps == ASSUME JobsInv, Operator PROVE JobsInv'
  BY PauseStep, ResumeStep, DiscardStep, RescheduleReadStep, CancelReadStep, RetryStep,
     RescheduleWriteStep, CancelRunningStep, CancelPendingStep, PruneStep DEF Operator

LEMMA TickStep == ASSUME JobsInv, Tick PROVE JobsInv'
  <1>1. UNCHANGED <<jobs, registry, paused, proc, command, issued, used>>
        /\ clock' = clock + 1 /\ clock \in Nat \ {0}
    BY DEF Tick, JobsInv, TypeOK
  <1>2. TypeOK'
    BY <1>1 DEF JobsInv, TypeOK
  <1>3. \A w \in Workers : ScanSound(w)'
    BY <1>1, ProcFacts DEF ScanSound
  <1>4. \A w \in Workers : \A k \in proc[w].held : ClaimSound(w, k)'
    BY <1>1 DEF JobsInv, ClaimSound, Holds
  <1>5. KeysWithinLimit'
    BY <1>1 DEF JobsInv, KeysWithinLimit, WithinLimit, Running, Deciding, Candidate
  <1> QED
    BY <1>1, <1>2, <1>3, <1>4, <1>5 DEF JobsInv

LEMMA NextKeeps == ASSUME JobsInv, Next PROVE JobsInv'
  <1>1. ASSUME NEW w \in Workers,
               \/ Loop(w) \/ Stop(w) \/ Crash(w) \/ ScanFails(w)
               \/ \E k \in proc[w].held :
                     \/ Perform(w, k) \/ Renew(w, k) \/ LoseLease(w, k)
                     \/ CompleteErrs(w, k) \/ GiveUp(w, k)
        PROVE  JobsInv'
    BY <1>1, LoopKeeps, StopStep, CrashStep, ScanFailsStep, PerformKeeps, RenewStep,
       ThreadKeeps
  <1> QED
    BY <1>1, EnqueueStep, OperatorKeeps, TickStep DEF Next

LEMMA InitSound == ASSUME Init PROVE JobsInv
  <1>1. 0 \in 0..MaxCommands /\ 0 \in 0..MaxExits /\ 0 \in 0..MaxBusy
        /\ Nil \in Nat /\ <<>> \in Seq(Ids)
    BY JobsAssumption DEF Nil
  <1>2. Booting \in Process /\ NoCommand \in CommandType /\ NewJob \in Job
    BY <1>1, EmptyRow DEF Booting, Process, Reasons, NoCommand, CommandType, SoundRow
  <1>3. TypeOK
    BY <1>1, <1>2 DEF Init, TypeOK, CommandType
  <1>4. \A i \in Ids : Coherent(jobs[i]) /\ jobs[i].locked_by <= issued
    BY EmptyRow DEF Init, SoundRow, Nil
  <1>5. \A w \in Workers : ScanSound(w) /\ proc[w].held = {}
    BY DEF Init, ScanSound, Booting, Nil
  <1>6. ASSUME NEW i \in Ids PROVE WithinLimit(i)
    <2>1. Running(i) = {} /\ Deciding(i) = {}
      BY DEF Init, Running, Deciding, Active, NewJob, Booting
    <2>2. Cardinality(Workers) \in Nat /\ ConcurrencyLimit[i] \in Nat \ {0}
      BY JobsAssumption, FS_CardinalityType
    <2> QED
      BY <2>1, <2>2, FS_EmptySet DEF WithinLimit
  <1> QED
    BY <1>3, <1>4, <1>5, <1>6 DEF JobsInv, KeysWithinLimit, Init, NoCommand

LEMMA StutterSound == ASSUME JobsInv, UNCHANGED vars PROVE JobsInv'
  <1>1. TypeOK'
    BY DEF JobsInv, TypeOK, vars
  <1>2. \A w \in Workers : ScanSound(w)' /\ \A k \in proc[w].held : ClaimSound(w, k)'
    BY DEF JobsInv, ScanSound, ClaimSound, Holds, vars
  <1>3. KeysWithinLimit'
    BY DEF JobsInv, KeysWithinLimit, WithinLimit, Running, Deciding, Candidate, vars
  <1> QED
    BY <1>1, <1>2, <1>3 DEF JobsInv, vars

THEOREM JobsInductive == Spec => []JobsInv
  <1>1. JobsInv /\ [Next]_vars => JobsInv'
    BY NextKeeps, StutterSound
  <1> QED
    BY <1>1, InitSound, PTL DEF Spec

----------------------------------------------------------------------------
(* What the invariant says of the properties that runs check                *)

\* The tables and what the processes have in memory are what the schema and the
\* code let them be.
THEOREM JobsTypes == Spec => []TypeOK
  BY JobsInductive, PTL DEF JobsInv

\* The worker_id column names the holder of the lease, for as many workers, jobs and
\* commands as there are: recovery goes by that column alone.
THEOREM RecoveryFindsOwner == Spec => []OwnerIsHolder
  <1>1. JobsInv => OwnerIsHolder
    BY DEF JobsInv, ClaimSound, OwnerIsHolder
  <1> QED
    BY <1>1, JobsInductive, PTL

\* No mark of a scan, a pause or a reschedule is left on a job that is worked on.
THEOREM RunningNeverListedBlocked == Spec => []RunningIsNotBlocked
  <1>1. JobsInv => RunningIsNotBlocked
    BY DEF JobsInv, Coherent, RunningIsNotBlocked
  <1> QED
    BY <1>1, JobsInductive, PTL

\* failed_at, discarded_at, cancelled_at and completed_at agree on how a job ended.
THEOREM OutcomesStayInAgreement == Spec => []OutcomesAgree
  <1>1. JobsInv => OutcomesAgree
    BY DEF JobsInv, Coherent, OutcomesAgree
  <1> QED
    BY <1>1, JobsInductive, PTL

\* However many workers count a key's running jobs and claim one in between, the key's
\* limit is exceeded by no more than one job for each other worker.
THEOREM LimitExceededByFew == Spec => []OvershootBounded
  <1>1. ASSUME JobsInv, NEW i \in Ids, ConcurrencyKey[i] # NoKey
        PROVE  \E j \in Ids : /\ ConcurrencyKey[j] = ConcurrencyKey[i]
                             /\ Cardinality(Running(i)) <=
                                    ConcurrencyLimit[j] + Cardinality(Workers) - 1
    <2>1. PICK j \in Ids : /\ ConcurrencyKey[j] = ConcurrencyKey[i]
                          /\ Cardinality(Running(i)) + Cardinality(Deciding(i)) <=
                                 ConcurrencyLimit[j] + Cardinality(Workers) - 1
      BY <1>1 DEF JobsInv, KeysWithinLimit, WithinLimit
    <2>2. Cardinality(Running(i)) <= ConcurrencyLimit[j] + Cardinality(Workers) - 1
      BY <1>1, <2>1, CountsAreNumbers
    <2> QED
      BY <2>1, <2>2
  <1>2. JobsInv => OvershootBounded
    BY <1>1 DEF OvershootBounded
  <1> QED
    BY <1>2, JobsInductive, PTL

----------------------------------------------------------------------------
(* How leases end                                                           *)

EndsRightly(i) ==
    \/ LeaseOver(jobs[i], clock)
    \/ \E w \in Workers : \E k \in proc[w].held :
          /\ k.id = i /\ k.token = jobs[i].locked_by
          /\ k \notin proc'[w].held
    \/ /\ jobs[i].worker \in Workers
       /\ registry'[jobs[i].worker] = Nil
    \/ jobs[i].cancelled

LeaseEnded(i) == jobs[i].locked_by # Nil /\ jobs'[i].locked_by # jobs[i].locked_by

LEMMA LockedRow ==
    ASSUME JobsInv, NEW i \in Ids, jobs[i].locked_by # Nil
    PROVE  /\ jobs[i].locked_at # Nil /\ jobs[i].stage = "live" /\ ~jobs[i].completed
           /\ jobs[i].failed => jobs[i].cancelled
           /\ ~Pending(jobs[i])
  BY RowFacts DEF Coherent, Pending

\* The writes of a job thread
LEMMA HolderEnds ==
    ASSUME JobsInv, NEW w \in Workers, NEW k \in proc[w].held, NEW i \in Ids,
           LeaseEnded(i), Drop(w, k),
           \A j \in Ids : jobs'[j] # jobs[j] => Holds(k) /\ j = k.id
    PROVE  EndsRightly(i)
  <1>1. Holds(k) /\ i = k.id
    BY DEF LeaseEnded
  <1>2. k.token = jobs[i].locked_by
    BY <1>1 DEF Holds, LockedBy
  <1>3. k \notin proc'[w].held
    BY ProcFacts DEF Drop, Process
  <1> QED
    BY <1>1, <1>2, <1>3 DEF EndsRightly

LEMMA LoopEnds ==
    ASSUME JobsInv, NEW w \in Workers, Loop(w), NEW i \in Ids, LeaseEnded(i)
    PROVE  EndsRightly(i)
  <1>1. CASE UNCHANGED jobs
    BY <1>1 DEF LeaseEnded
  <1>2. CASE Recover(w)
    <2>1. OwnedBy(jobs[i], proc[w].stale)
      BY <1>2 DEF Recover, LeaseEnded
    <2>2. jobs[i].worker \in proc[w].stale /\ proc[w].stale \subseteq Workers
      BY <2>1, ProcFacts DEF OwnedBy
    <2>3. registry'[jobs[i].worker] = Nil
      BY <1>2, <2>2 DEF Recover
    <2> QED
      BY <2>2, <2>3 DEF EndsRightly
  <1>3. CASE StartClaim(w)
    <2>1. Exhausted(jobs[i], clock)
      BY <1>3 DEF StartClaim, Expiry, LeaseEnded
    <2> QED
      BY <2>1 DEF Exhausted, EndsRightly
  <1>4. CASE MarkBlocked(w)
    <2>1. jobs[i].locked_at # Nil /\ jobs \in [Ids -> Job]
      BY LockedRow DEF LeaseEnded, JobsInv, TypeOK
    <2>2. jobs'[i] = jobs[i]
      BY <1>4, <2>1 DEF MarkBlocked
    <2> QED
      BY <2>2 DEF LeaseEnded
  <1>5. CASE ClaimCandidate(w)
    <2>1. jobs \in [Ids -> Job]
      BY DEF JobsInv, TypeOK
    <2>2. i = Candidate(w) /\ Eligible(jobs[i], proc[w].at)
      BY <1>5, <2>1 DEF ClaimCandidate, LeaseEnded
    <2>3. LeaseOver(jobs[i], proc[w].at)
      BY <2>2, LockedRow DEF Eligible, Unlocked, LeaseEnded
    <2>4. jobs[i].locked_at \in Nat /\ proc[w].at \in Nat /\ proc[w].at <= clock
          /\ clock \in Nat
      BY <2>1, ProcFacts DEF Job
    <2>5. LeaseOver(jobs[i], clock)
      BY <2>3, <2>4, QueueAssumption DEF LeaseOver
    <2> QED
      BY <2>5 DEF EndsRightly
  <1> QED
    BY <1>1, <1>2, <1>3, <1>4, <1>5
    DEF Loop, Register, Beat, ReadStale, CheckCandidate, ReturnClaims, FinishBatch

LEMMA ThreadEnds ==
    ASSUME JobsInv, NEW w \in Workers, NEW k \in proc[w].held, NEW i \in Ids, LeaseEnded(i),
           \/ Perform(w, k) \/ Renew(w, k) \/ LoseLease(w, k)
           \/ CompleteErrs(w, k) \/ GiveUp(w, k)
    PROVE  EndsRightly(i)
  <1>1. jobs \in [Ids -> Job]
    BY DEF JobsInv, TypeOK
  <1>2. CASE UNCHANGED jobs
    BY <1>2 DEF LeaseEnded
  <1>3. CASE Complete(w, k)
    <2>1. Drop(w, k) /\ \A j \in Ids : jobs'[j] # jobs[j] => Holds(k) /\ j = k.id
      BY <1>1, <1>3 DEF Complete
    <2> QED
      BY <2>1, HolderEnds
  <1>4. CASE Terminate(w, k)
    <2>1. Drop(w, k) /\ \A j \in Ids : jobs'[j] # jobs[j] => Holds(k) /\ j = k.id
      BY <1>1, <1>4 DEF Terminate
    <2> QED
      BY <2>1, HolderEnds
  <1>5. CASE FailWrite(w, k)
    <2>1. Drop(w, k) /\ \A j \in Ids : jobs'[j] # jobs[j] => Holds(k) /\ j = k.id
      BY <1>1, <1>5 DEF FailWrite
    <2> QED
      BY <2>1, HolderEnds
  <1>6. CASE Renew(w, k)
    <2>1. jobs'[i].locked_by = jobs[i].locked_by
      BY <1>1, <1>6 DEF Renew, Renewed, Job
    <2> QED
      BY <2>1 DEF LeaseEnded
  <1> QED
    BY <1>2, <1>3, <1>4, <1>5, <1>6
    DEF Perform, StartJob, EndBody, FailRead, LoseLease, CompleteErrs, GiveUp

LEMMA OperatorEnds ==
    ASSUME JobsInv, Operator, NEW i \in Ids, LeaseEnded(i)
    PROVE  EndsRightly(i)
  <1>1. /\ jobs \in [Ids -> Job] /\ ~Pending(jobs[i])
        /\ jobs[i].failed \/ jobs[i].completed => jobs[i].cancelled
    BY LockedRow DEF LeaseEnded, JobsInv, TypeOK
  <1>2. CASE UNCHANGED jobs
    BY <1>2 DEF LeaseEnded
  <1>3. ASSUME NEW q, Pause(q) \/ Resume(q) PROVE FALSE
    BY <1>1, <1>3 DEF Pause, Resume, LeaseEnded
  <1>4. ASSUME NEW j \in Ids, Discard(j) PROVE FALSE
    BY <1>1, <1>4 DEF Discard, LeaseEnded
  <1>5. ASSUME NEW j \in Ids, Retry(j) PROVE EndsRightly(i)
    <2>1. i = j
      BY <1>1, <1>5 DEF Retry, LeaseEnded
    <2> QED
      BY <1>1, <1>5, <2>1 DEF Retry, EndsRightly
  <1>6. CASE Prune
    <2>1. jobs[i].completed \/ jobs[i].failed
      BY <1>6 DEF Prune, LeaseEnded
    <2> QED
      BY <1>1, <2>1 DEF EndsRightly
  <1>7. CASE RescheduleWrite
    BY <1>1, <1>7 DEF RescheduleWrite, LeaseEnded
  <1>8. CASE CancelRunning \/ CancelPending
    <2>1. jobs'[i].locked_by = jobs[i].locked_by
      BY <1>1, <1>8 DEF CancelRunning, CancelPending, Job
    <2> QED
      BY <2>1 DEF LeaseEnded
  <1> QED
    BY <1>2, <1>3, <1>4, <1>5, <1>6, <1>7, <1>8
    DEF Operator, RescheduleRead, CancelRead

LEMMA StepEnds ==
    ASSUME JobsInv, Next, NEW i \in Ids, LeaseEnded(i)
    PROVE  EndsRightly(i)
  <1>1. ASSUME NEW j \in Ids, Enqueue(j) PROVE FALSE
    <2>1. i # j
      BY <1>1, LockedRow DEF Enqueue, LeaseEnded
    <2> QED
      BY <1>1, <2>1 DEF Enqueue, LeaseEnded, JobsInv, TypeOK
  <1>2. ASSUME UNCHANGED jobs PROVE FALSE
    BY <1>2 DEF LeaseEnded
  <1> QED
    BY <1>1, <1>2, LoopEnds, ThreadEnds, OperatorEnds DEF Next, Stop, Crash, ScanFails, Tick

\* Nobody takes a lease from a worker that holds it and beats, but the two commands
\* that look at a job's outcome only.
THEOREM LeasesEndRightly == Spec => LeaseEndsRightly
  <1>1. JobsInv /\ [Next]_vars =>
          [\A i \in Ids : LeaseEnded(i) => EndsRightly(i)]_vars
    BY StepEnds
  <1>2. [\A i \in Ids : LeaseEnded(i) => EndsRightly(i)]_vars <=>
        [\A i \in Ids :
          (jobs[i].locked_by # Nil /\ jobs'[i].locked_by # jobs[i].locked_by)
              => \/ LeaseOver(jobs[i], clock)
                 \/ \E w \in Workers : \E k \in proc[w].held :
                       /\ k.id = i /\ k.token = jobs[i].locked_by
                       /\ k \notin proc'[w].held
                 \/ /\ jobs[i].worker \in Workers
                    /\ registry'[jobs[i].worker] = Nil
                 \/ jobs[i].cancelled]_vars
    BY DEF LeaseEnded, EndsRightly
  <1> QED
    BY <1>1, <1>2, JobsInductive, PTL DEF Spec, LeaseEndsRightly

=============================================================================
