--------------------------- MODULE Process_proofs ---------------------------
(***************************************************************************)
(* Theorems about the parts of one application process: SessionStore, whose *)
(* sessions do not come back; RecurringScheduler, whose slots are served    *)
(* once; MemoryCache, whose stale values are explained; AsyncAdapter's      *)
(* types; and what MCProcess, where they stand side by side, has of each.   *)
(***************************************************************************)
EXTENDS MCProcess, Transaction_proofs,
        SequenceTheorems, FiniteSetTheorems, WellFoundedInduction, TLAPS

----------------------------------------------------------------------------
(* SessionStore                                                             *)

LEMMA SessionTypeInit == SessionInit => SessionTypeOK
  BY SessionAssumption DEF SessionInit, SessionTypeOK, Sids, NoSession, Stages, Idle

\* An expiry a request may write, and an id it may be given
LEMMA Bounds ==
    ASSUME SessionTypeOK
    PROVE  /\ hour + ExpireAfter \in {NoSession} \cup 0..MaxTime + ExpireAfter
           /\ issued < MaxSids => NewSid \in Sids /\ NewSid \in 0..MaxSids
           /\ Idle \in [stage : Stages, sid : Sids]
  BY SessionAssumption DEF SessionTypeOK, NewSid, Sids, Idle, Stages, NoSession

(***************************************************************************)
(* The operations of a request.                                             *)
(***************************************************************************)
LEMMA RequestTypes ==
    ASSUME SessionTypeOK, NEW r \in Requests,
           \/ \E sid \in 0..issued : Find(r, sid) \/ FindNone(r, sid)
           \/ Leave(r) \/ UpdateRow(r) \/ InsertRow(r) \/ Busy(r) \/ Drop(r) \/ Renew(r)
    PROVE  SessionTypeOK'
  <1> DEFINE Expiry == {NoSession} \cup 0..MaxTime + ExpireAfter
             Place == [stage : Stages, sid : Sids]
  <1>1. /\ hour \in 0..MaxTime /\ issued \in 0..MaxSids
        /\ expires \in [Sids -> Expiry] /\ request \in [Requests -> Place]
    BY DEF SessionTypeOK
  <1>2. NoSession \in Expiry
    OBVIOUS
  <1>3. /\ hour + ExpireAfter \in Expiry /\ Idle \in Place
        /\ issued < MaxSids => NewSid \in Sids /\ NewSid \in 0..MaxSids
    BY Bounds
  <1>4. SUFFICES /\ hour' = hour
                 /\ issued' \in 0..MaxSids
                 /\ expires' \in [Sids -> Expiry]
                 /\ request' \in [Requests -> Place]
    BY <1>1 DEF SessionTypeOK
  <1>5. request[r] \in Place
    BY <1>1
  <1> HIDE DEF Expiry
  <1>6. ASSUME NEW sid \in 0..issued, Find(r, sid) \/ FindNone(r, sid)
        PROVE  /\ hour' = hour /\ issued' \in 0..MaxSids
               /\ expires' \in [Sids -> Expiry] /\ request' \in [Requests -> Place]
    <2>1. sid \in Sids
      BY <1>1, SessionAssumption DEF Sids
    <2>2. [stage |-> "handling", sid |-> sid] \in Place
      BY <2>1 DEF Stages
    <2>3. CASE Find(r, sid)
      BY <1>1, <2>2, <2>3 DEF Find
    <2>4. CASE FindNone(r, sid)
      <3>1. [stage |-> "handling", sid |-> NewSid] \in Place
        BY <1>3, <2>4 DEF Stages, FindNone
      <3> QED
        BY <1>1, <1>3, <2>4, <3>1 DEF FindNone
    <2> QED
      BY <1>6, <2>3, <2>4
  <1>7. CASE Leave(r) \/ Busy(r)
    BY <1>1, <1>3, <1>7 DEF Leave, Busy
  <1>8. CASE UpdateRow(r)
    <2>1. [request[r] EXCEPT !.stage = "inserting"] \in Place
      BY <1>5 DEF Stages
    <2> QED
      BY <1>1, <1>3, <1>8, <2>1 DEF UpdateRow
  <1>9. CASE InsertRow(r)
    BY <1>1, <1>3, <1>9 DEF InsertRow
  <1>10. CASE Drop(r)
    BY <1>1, <1>2, <1>3, <1>10 DEF Drop
  <1>11. CASE Renew(r)
    <2>1. [stage |-> "writing", sid |-> NewSid] \in Place
      BY <1>3, <1>11 DEF Stages, Renew
    <2> QED
      BY <1>1, <1>2, <1>3, <1>11, <2>1 DEF Renew
  <1> QED
    BY <1>6, <1>7, <1>8, <1>9, <1>10, <1>11

LEMMA SessionTypeStep == SessionTypeOK /\ [SessionNext]_sessionVars => SessionTypeOK'
  <1> SUFFICES ASSUME SessionTypeOK, [SessionNext]_sessionVars PROVE SessionTypeOK'
    OBVIOUS
  <1>1. CASE UNCHANGED sessionVars
    BY <1>1 DEF sessionVars, SessionTypeOK
  <1>2. ASSUME NEW r \in Requests,
               \/ \E sid \in 0..issued : Find(r, sid) \/ FindNone(r, sid)
               \/ Leave(r) \/ UpdateRow(r) \/ InsertRow(r) \/ Busy(r) \/ Drop(r) \/ Renew(r)
        PROVE  SessionTypeOK'
    BY <1>2, RequestTypes
  <1>3. CASE \E sid \in 0..issued : Revoke(sid)
    BY <1>3 DEF Revoke, SessionTypeOK
  <1>4. CASE PruneExpired
    BY <1>4 DEF PruneExpired, SessionTypeOK
  <1>5. CASE HourPasses
    BY <1>5, SessionAssumption DEF HourPasses, SessionTypeOK
  <1> QED
    BY <1>1, <1>2, <1>3, <1>4, <1>5 DEF SessionNext

(***************************************************************************)
(* The table, the ids given out and the requests keep their types.          *)
(***************************************************************************)
THEOREM SessionTypes == SessionSpec => []SessionTypeOK
  BY SessionTypeInit, SessionTypeStep, PTL DEF SessionSpec

----------------------------------------------------------------------------

\* The row of a session that is gone is touched by nobody but to delete it, and no
\* request is given its id
LEMMA StaysGone ==
    ASSUME SessionTypeOK, [SessionNext]_sessionVars, NEW sid \in 0..issued, Gone(sid)
    PROVE  Gone(sid)'
  <1>1. /\ hour \in Nat /\ issued \in Nat /\ sid \in Nat /\ sid \in Sids /\ sid # NewSid
        /\ expires[sid] \in Int /\ expires \in [Sids -> Int]
        /\ request \in [Requests -> [stage : Stages, sid : Sids]]
        /\ NoSession \in Int
    BY SessionAssumption DEF SessionTypeOK, Sids, NewSid, NoSession
  <1>2. expires[sid] = NoSession \/ expires[sid] <= hour
    BY <1>1 DEF Gone, Live, Stored
  <1>3. \A r \in Requests : request[r].stage = "idle" \/ request[r].sid # sid
    BY DEF Gone, UnderWay
  <1>4. SUFFICES /\ hour' \in Nat /\ hour' >= hour
                 /\ expires'[sid] = expires[sid] \/ expires'[sid] = NoSession
                 /\ \A r \in Requests : request'[r].stage = "idle" \/ request'[r].sid # sid
    BY <1>1, <1>2 DEF Gone, Live, Stored, UnderWay
  <1>5. CASE UNCHANGED sessionVars
    BY <1>1, <1>3, <1>5 DEF sessionVars
  <1>6. ASSUME NEW r \in Requests,
               \/ \E other \in 0..issued : Find(r, other) \/ FindNone(r, other)
               \/ Leave(r) \/ UpdateRow(r) \/ InsertRow(r) \/ Busy(r) \/ Drop(r) \/ Renew(r)
        PROVE  /\ hour' = hour
               /\ expires'[sid] = expires[sid] \/ expires'[sid] = NoSession
               /\ \A q \in Requests : request'[q].stage = "idle" \/ request'[q].sid # sid
    <2>1. CASE \E other \in 0..issued : Find(r, other)
      <3>1. PICK other \in 0..issued : Find(r, other)
        BY <2>1
      <3>2. other # sid
        BY <3>1 DEF Find, Keeps, Gone
      <3> QED
        BY <1>1, <1>3, <3>1, <3>2 DEF Find
    <2>2. CASE \E other \in 0..issued : FindNone(r, other)
      BY <1>1, <1>3, <2>2 DEF FindNone
    <2>3. CASE Leave(r) \/ Busy(r)
      BY <1>1, <1>3, <2>3 DEF Leave, Busy, Idle
    <2>4. CASE UpdateRow(r)
      <3>1. request[r].sid # sid
        BY <1>3, <2>4 DEF UpdateRow
      <3>2. expires'[sid] = expires[sid]
        BY <1>1, <2>4, <3>1 DEF UpdateRow
      <3> QED
        BY <1>1, <1>3, <2>4, <3>1, <3>2 DEF UpdateRow, Idle
    <2>5. CASE InsertRow(r)
      <3>1. request[r].sid # sid
        BY <1>3, <2>5 DEF InsertRow
      <3>2. expires'[sid] = expires[sid]
        BY <1>1, <2>5, <3>1 DEF InsertRow
      <3> QED
        BY <1>1, <1>3, <2>5, <3>2 DEF InsertRow, Idle
    <2>6. CASE Drop(r)
      BY <1>1, <1>3, <2>6 DEF Drop, Idle
    <2>7. CASE Renew(r)
      BY <1>1, <1>3, <2>7 DEF Renew
    <2> QED
      BY <1>6, <2>1, <2>2, <2>3, <2>4, <2>5, <2>6, <2>7
  <1>7. CASE \E other \in 0..issued : Revoke(other)
    BY <1>1, <1>3, <1>7 DEF Revoke
  <1>8. CASE PruneExpired
    BY <1>1, <1>3, <1>8 DEF PruneExpired
  <1>9. CASE HourPasses
    BY <1>1, <1>3, <1>9 DEF HourPasses
  <1>10. CASE \E r \in Requests :
                 \/ \E other \in 0..issued : Find(r, other) \/ FindNone(r, other)
                 \/ Leave(r) \/ UpdateRow(r) \/ InsertRow(r) \/ Busy(r) \/ Drop(r) \/ Renew(r)
    BY <1>1, <1>6, <1>10
  <1> QED
    BY <1>5, <1>7, <1>8, <1>9, <1>10 DEF SessionNext

(***************************************************************************)
(* A revoked, dropped or expired session never comes back once the requests *)
(* that were under way have ended.                                          *)
(***************************************************************************)
THEOREM NoReturn == SessionSpec => GoneForGood
  <1>1. SessionTypeOK /\ [SessionNext]_sessionVars =>
            [\A sid \in 0..issued : Gone(sid) => Gone(sid)']_sessionVars
    BY StaysGone
  <1> QED
    BY <1>1, SessionTypes, PTL DEF SessionSpec, GoneForGood

----------------------------------------------------------------------------
(* RecurringScheduler                                                       *)

(***************************************************************************)
(* What makes each slot's job go out once.                                  *)
(***************************************************************************)

\* A scheduler that is not asleep is at an entry, in a slot the table has a place for
AtASlot(s) ==
    scheduler[s].stage # "idle" => scheduler[s].left # <<>> /\ Slot(s) \in Slots

\* The unique index: the row of an open transaction is nobody else's
Exclusive(s) ==
    InTransaction(s) =>
        /\ Slot(s) \notin runs
        /\ \A t \in Schedulers : InTransaction(t) /\ t # s => Slot(t) # Slot(s)

\* The job is in the adapter's hands before its row is committed
JobIsOut(s) ==
    scheduler[s].stage = "enqueued" /\ ~transactional => jobCount[Slot(s)] >= 1

\* What a tick has left is the end of the schedule
RestOfOrder(s) ==
    scheduler[s].stage # "idle" /\ ~scheduler[s].manual =>
        /\ Len(scheduler[s].left) <= Len(Order)
        /\ \A j \in 1..Len(scheduler[s].left) :
              scheduler[s].left[j] = Order[Len(Order) - Len(scheduler[s].left) + j]

\* On the scheduler's database the job and the row are one; elsewhere, each job more than
\* the slot's own is one of a transaction that failed
JobsOfSlot(slot) ==
    /\ transactional => jobCount[slot] = IF slot \in runs THEN 1 ELSE 0
    /\ slot \in runs => jobCount[slot] >= 1
    /\ jobCount[slot] <= failures + (IF slot \in runs \/ Early(slot) THEN 1 ELSE 0)

SchedulerInv(s) ==
    /\ AtASlot(s) /\ Exclusive(s) /\ JobIsOut(s) /\ RestOfOrder(s) /\ PassedIsDone(s)

RecurringInv ==
    /\ RecurringTypeOK
    /\ \A s \in Schedulers : SchedulerInv(s)
    /\ \A slot \in Slots : JobsOfSlot(slot)

----------------------------------------------------------------------------

LEMMA DueBounds ==
    ASSUME NEW task \in Tasks, NEW now \in 0..LastSecond
    PROVE  Due(task, now) \in 0..LastSecond
  <1>1. Interval[task] \in Nat \ {0} /\ now \in Nat /\ LastSecond \in Nat
    BY RecurringAssumption
  <1>2. now % Interval[task] \in 0..now
    <2> DEFINE d == Interval[task]
    <2>1. d \in Nat /\ d > 0
      BY <1>1
    <2> HIDE DEF d
    <2>2. now % d \in 0..d - 1
      BY <1>1, <2>1
    <2>3. CASE now < d
      <3>1. now % d = now
        BY <1>1, <2>1, <2>3
      <3> QED
        BY <1>1, <3>1
    <2>4. CASE now >= d
      BY <1>1, <2>1, <2>2, <2>4
    <2> QED
      BY <1>1, <2>1, <2>3, <2>4 DEF d
  <1> QED
    BY <1>1, <1>2 DEF Due

\* The slot of a scheduler that is at an entry
LEMMA SlotKind ==
    ASSUME NEW row \in Scheduler, row.left # <<>>
    PROVE  /\ Head(row.left) \in Tasks
           /\ <<Head(row.left),
                IF row.manual THEN row.now ELSE Due(Head(row.left), row.now)>> \in Slots
  <1>1. row.left \in Seq(Tasks) /\ row.now \in 0..LastSecond
    BY DEF Scheduler
  <1>2. Head(row.left) \in Tasks
    BY <1>1
  <1> QED
    BY <1>1, <1>2, DueBounds DEF Slots

\* A step of one scheduler leaves the others where they are
LEMMA OthersStay ==
    ASSUME RecurringTypeOK, NEW s \in Schedulers, NEW row,
           scheduler' = [scheduler EXCEPT ![s] = row],
           NEW t \in Schedulers, t # s
    PROVE  /\ scheduler'[t] = scheduler[t]
           /\ Slot(t)' = Slot(t) /\ (InTransaction(t)' <=> InTransaction(t))
  <1>1. scheduler'[t] = scheduler[t]
    BY DEF RecurringTypeOK
  <1> QED
    BY <1>1 DEF Slot, InTransaction, Task

\* A job that is out for another scheduler's transaction stays so
LEMMA EarlyOfOthers ==
    ASSUME RecurringTypeOK, NEW s \in Schedulers, NEW row,
           scheduler' = [scheduler EXCEPT ![s] = row], transactional' = transactional,
           NEW slot, Early(slot),
           ~(scheduler[s].stage = "enqueued" /\ Slot(s) = slot)
    PROVE  Early(slot)'
  <1>1. PICK t \in Schedulers : scheduler[t].stage = "enqueued" /\ Slot(t) = slot
    BY DEF Early
  <1>2. t # s
    BY <1>1
  <1>3. scheduler'[t] = scheduler[t] /\ Slot(t)' = Slot(t)
    BY <1>2, OthersStay
  <1> QED
    BY <1>1, <1>3 DEF Early

(***************************************************************************)
(* A step of scheduler s keeps the invariant when it keeps it for s and for *)
(* the slots, and its transaction stays out of the others' slots.           *)
(***************************************************************************)
LEMMA SchedulerStep ==
    ASSUME RecurringInv, NEW s \in Schedulers, NEW row \in Scheduler,
           scheduler' = [scheduler EXCEPT ![s] = row],
           transactional' = transactional, second' = second,
           runs \subseteq runs', runs' \subseteq Slots,
           jobCount' \in [Slots -> Nat], failures' \in 0..MaxFailures,
           \A slot \in Slots : jobCount'[slot] >= jobCount[slot],
           \A t \in Schedulers : InTransaction(t) /\ t # s =>
               Slot(t) \notin runs' /\ (InTransaction(s)' => Slot(s)' # Slot(t)),
           SchedulerInv(s)', \A slot \in Slots : JobsOfSlot(slot)'
    PROVE  RecurringInv'
  <1>1. RecurringTypeOK /\ \A t \in Schedulers : SchedulerInv(t)
    BY DEF RecurringInv
  <1>2. RecurringTypeOK'
    BY <1>1 DEF RecurringTypeOK
  <1>3. ASSUME NEW t \in Schedulers, t # s
        PROVE  SchedulerInv(t)'
    <2>1. /\ scheduler'[t] = scheduler[t]
          /\ Slot(t)' = Slot(t) /\ (InTransaction(t)' <=> InTransaction(t))
      BY <1>1, <1>3, OthersStay
    <2>2. AtASlot(t) /\ Exclusive(t) /\ JobIsOut(t) /\ RestOfOrder(t) /\ PassedIsDone(t)
      BY <1>1 DEF SchedulerInv
    <2>3. AtASlot(t)' /\ RestOfOrder(t)'
      BY <2>1, <2>2 DEF AtASlot, RestOfOrder
    <2>4. Exclusive(t)'
      <3>1. \A u \in Schedulers : u # s =>
                Slot(u)' = Slot(u) /\ (InTransaction(u)' <=> InTransaction(u))
        BY <1>1, OthersStay
      <3> QED
        BY <1>3, <2>1, <2>2, <3>1 DEF Exclusive
    <2>5. JobIsOut(t)'
      <3> SUFFICES ASSUME scheduler'[t].stage = "enqueued", ~transactional'
                   PROVE  jobCount'[Slot(t)'] >= 1
        BY DEF JobIsOut
      <3>1. Slot(t) \in Slots /\ jobCount[Slot(t)] >= 1
        BY <2>1, <2>2 DEF AtASlot, JobIsOut
      <3>2. jobCount'[Slot(t)] >= jobCount[Slot(t)] /\ jobCount[Slot(t)] \in Nat
            /\ jobCount'[Slot(t)] \in Nat
        BY <1>1, <3>1 DEF RecurringTypeOK
      <3> QED
        BY <2>1, <3>1, <3>2
    <2>6. PassedIsDone(t)'
      BY <2>1, <2>2 DEF PassedIsDone, Due
    <2> QED
      BY <2>3, <2>4, <2>5, <2>6 DEF SchedulerInv
  <1>4. \A t \in Schedulers : SchedulerInv(t)'
    BY <1>3
  <1> QED
    BY <1>2, <1>4 DEF RecurringInv

\* A scheduler that goes to sleep keeps to nothing
LEMMA AsleepInv ==
    ASSUME RecurringTypeOK, NEW s \in Schedulers,
           scheduler' = [scheduler EXCEPT ![s] = Asleep]
    PROVE  SchedulerInv(s)' /\ ~InTransaction(s)' /\ Asleep \in Scheduler
  <1>1. scheduler'[s] = Asleep
    BY DEF RecurringTypeOK
  <1>2. Asleep.stage = "idle"
    BY DEF Asleep
  <1>3. Asleep \in Scheduler
    BY RecurringAssumption DEF Asleep, Scheduler
  <1>4. AtASlot(s)' /\ Exclusive(s)' /\ JobIsOut(s)' /\ RestOfOrder(s)' /\ PassedIsDone(s)'
    BY <1>1, <1>2
       DEF AtASlot, Exclusive, JobIsOut, RestOfOrder, PassedIsDone, InTransaction
  <1> QED
    BY <1>1, <1>2, <1>3, <1>4 DEF SchedulerInv, InTransaction

LEMMA TailOfMany ==
    ASSUME NEW S, NEW q \in Seq(S), q # <<>>, Len(q) # 1
    PROVE  /\ Tail(q) \in Seq(S) /\ Len(q) \in Nat \ {0, 1}
           /\ Len(Tail(q)) = Len(q) - 1 /\ Tail(q) # <<>>
           /\ \A j \in 1..Len(Tail(q)) : Tail(q)[j] = q[j + 1]
  <1>1. Len(q) \in Nat \ {0, 1}
    <2>1. Len(Tail(q)) = Len(q) - 1 /\ Tail(q) \in Seq(S)
      BY HeadTailProperties
    <2>2. Len(Tail(q)) \in Nat /\ Len(q) \in Nat
      BY <2>1
    <2> QED
      BY <2>1, <2>2
  <1>2. Tail(q) \in Seq(S) /\ Len(Tail(q)) = Len(q) - 1
    BY <1>1
  <1>3. Tail(q) # <<>>
    <2>1. Len(Tail(q)) # 0
      BY <1>1, <1>2
    <2> QED
      BY <2>1, EmptySeq
  <1>4. \A j \in 1..Len(Tail(q)) : Tail(q)[j] = q[j + 1]
    BY <1>1, <1>2
  <1> QED
    BY <1>1, <1>2, <1>3, <1>4

\* A scheduler's place at the next entry of its tick
LEMMA PassedRow ==
    ASSUME NEW s \in Schedulers, scheduler[s] \in Scheduler, Len(scheduler[s].left) # 1
    PROVE  Passed(s) = [stage |-> "next", now |-> scheduler[s].now,
                        manual |-> scheduler[s].manual, left |-> Tail(scheduler[s].left)]
  BY DEF Passed, Scheduler

\* Going past an entry whose row is there
LEMMA PassedInv ==
    ASSUME RecurringInv, NEW s \in Schedulers, scheduler[s].stage # "idle",
           scheduler' = [scheduler EXCEPT ![s] = Passed(s)],
           runs \subseteq runs', Slot(s) \in runs'
    PROVE  SchedulerInv(s)' /\ ~InTransaction(s)' /\ Passed(s) \in Scheduler
  <1>0. RecurringTypeOK /\ SchedulerInv(s)
    BY DEF RecurringInv
  <1>1. CASE Len(scheduler[s].left) = 1
    BY <1>0, <1>1, AsleepInv DEF Passed
  <1>2. CASE Len(scheduler[s].left) # 1
    <2> DEFINE left == scheduler[s].left
    <2>1. /\ scheduler[s] \in Scheduler /\ left \in Seq(Tasks) /\ left # <<>>
          /\ scheduler[s].manual \in BOOLEAN /\ scheduler[s].now \in 0..LastSecond
      BY <1>0 DEF RecurringTypeOK, SchedulerInv, AtASlot, Scheduler
    <2>2. /\ Tail(left) \in Seq(Tasks) /\ Len(left) \in Nat \ {0, 1}
          /\ Len(Tail(left)) = Len(left) - 1
          /\ \A j \in 1..Len(Tail(left)) : Tail(left)[j] = left[j + 1]
          /\ Tail(left) # <<>>
      BY <1>2, <2>1, TailOfMany
    <2>3. /\ scheduler'[s] = Passed(s)
          /\ Passed(s) = [stage |-> "next", now |-> scheduler[s].now,
                          manual |-> scheduler[s].manual, left |-> Tail(left)]
      BY <1>0, <1>2, <2>1, PassedRow DEF RecurringTypeOK
    <2> HIDE DEF left
    <2>4. /\ scheduler'[s] \in Scheduler /\ scheduler'[s].stage = "next"
          /\ scheduler'[s].left = Tail(left)
          /\ scheduler'[s].now = scheduler[s].now
          /\ scheduler'[s].manual = scheduler[s].manual
      BY <2>1, <2>2, <2>3 DEF Scheduler
    <2>5. Passed(s) \in Scheduler
      BY <2>3, <2>4
    <2>6. ~InTransaction(s)' /\ Exclusive(s)' /\ JobIsOut(s)'
      BY <2>4 DEF InTransaction, Exclusive, JobIsOut
    <2>7. AtASlot(s)'
      <3> DEFINE row == scheduler'[s]
      <3>1. row \in Scheduler /\ row.left # <<>>
        BY <2>2, <2>4
      <3> HIDE DEF row
      <3>2. <<Head(row.left),
              IF row.manual THEN row.now ELSE Due(Head(row.left), row.now)>> \in Slots
        BY <3>1, SlotKind
      <3> QED
        BY <3>1, <3>2 DEF AtASlot, Slot, Task, row, Due, Slots
    <2>8. RestOfOrder(s)'
      <3> SUFFICES ASSUME ~scheduler[s].manual
                   PROVE  /\ Len(Tail(left)) <= Len(Order)
                          /\ \A j \in 1..Len(Tail(left)) :
                               Tail(left)[j] = Order[Len(Order) - Len(Tail(left)) + j]
        BY <2>4 DEF RestOfOrder
      <3>1. /\ Len(left) <= Len(Order)
            /\ \A j \in 1..Len(left) : left[j] = Order[Len(Order) - Len(left) + j]
        BY <1>0 DEF SchedulerInv, RestOfOrder, left
      <3>2. Len(Order) \in Nat
        BY RecurringAssumption
      <3> QED
        BY <2>2, <3>1, <3>2
    <2>9. PassedIsDone(s)'
      <3> SUFFICES ASSUME ~scheduler[s].manual,
                          NEW i \in 1..Len(Order) - Len(Tail(left))
                   PROVE  <<Order[i], Due(Order[i], scheduler[s].now)>> \in runs'
        BY <2>4 DEF PassedIsDone, Due
      <3>1. /\ Len(left) <= Len(Order)
            /\ \A j \in 1..Len(left) : left[j] = Order[Len(Order) - Len(left) + j]
        BY <1>0 DEF SchedulerInv, RestOfOrder, left
      <3>2. Len(Order) \in Nat
        BY RecurringAssumption
      <3>3. CASE i <= Len(Order) - Len(left)
        <4>1. i \in 1..Len(Order) - Len(left)
          BY <2>2, <3>2, <3>3
        <4> QED
          BY <1>0, <4>1 DEF SchedulerInv, PassedIsDone, left
      <3>4. CASE ~(i <= Len(Order) - Len(left))
        <4>1. i = Len(Order) - Len(left) + 1
          BY <2>2, <3>2, <3>4
        <4>2. 1 \in 1..Len(left)
          BY <2>2
        <4>3. Order[i] = left[1]
          BY <3>1, <4>1, <4>2
        <4>4. Order[i] = Head(left)
          BY <2>1, <4>3
        <4> QED
          BY <4>4 DEF Slot, Task, left
      <3> QED
        BY <3>3, <3>4
    <2> QED
      BY <2>5, <2>6, <2>7, <2>8, <2>9 DEF SchedulerInv
  <1> QED
    BY <1>1, <1>2

----------------------------------------------------------------------------

LEMMA RecurringInitSound == RecurringInit => RecurringInv
  <1> SUFFICES ASSUME RecurringInit PROVE RecurringInv
    OBVIOUS
  <1>1. RecurringTypeOK
    BY RecurringAssumption DEF RecurringInit, RecurringTypeOK, Asleep, Scheduler
  <1>2. \A s \in Schedulers : scheduler[s].stage = "idle"
    BY DEF RecurringInit, Asleep
  <1>3. \A s \in Schedulers : SchedulerInv(s)
    BY <1>2 DEF SchedulerInv, AtASlot, Exclusive, JobIsOut, RestOfOrder, PassedIsDone,
                InTransaction
  <1>4. \A slot \in Slots : JobsOfSlot(slot)
    BY <1>2 DEF RecurringInit, JobsOfSlot, Early
  <1> QED
    BY <1>1, <1>3, <1>4 DEF RecurringInv

\* A scheduler that starts, with at least one entry to go through
LEMMA StartSound ==
    ASSUME RecurringInv, NEW s \in Schedulers,
           TickBegins(s) \/ \E task \in Tasks : Trigger(s, task)
    PROVE  RecurringInv'
  <1>1. RecurringTypeOK /\ scheduler[s].stage = "idle"
    BY DEF RecurringInv, TickBegins, Trigger
  <1>2. PICK manual \in BOOLEAN, left \in Seq(Tasks) :
            /\ left # <<>> /\ (~manual => left = Order)
            /\ scheduler' = [scheduler EXCEPT
                  ![s] = [stage |-> "next", now |-> second, manual |-> manual, left |-> left]]
    <2>1. CASE TickBegins(s)
      BY <2>1, RecurringAssumption DEF TickBegins
    <2>2. ASSUME NEW task \in Tasks, Trigger(s, task)
          PROVE  /\ <<task>> \in Seq(Tasks) /\ <<task>> # <<>>
                 /\ scheduler' = [scheduler EXCEPT
                  ![s] = [stage |-> "next", now |-> second, manual |-> TRUE, left |-> <<task>>]]
      BY <2>2 DEF Trigger
    <2> QED
      BY <2>1, <2>2
  <1> DEFINE row == [stage |-> "next", now |-> second, manual |-> manual, left |-> left]
  <1>3. /\ row \in Scheduler /\ row.stage = "next" /\ row.left = left
        /\ row.manual = manual /\ row.now = second
    BY <1>1 DEF RecurringTypeOK, Scheduler
  <1> HIDE DEF row
  <1>4. scheduler' = [scheduler EXCEPT ![s] = row] /\ scheduler'[s] = row
    BY <1>1, <1>2 DEF row, RecurringTypeOK
  <1>5. UNCHANGED <<transactional, second, runs, jobCount, failures>>
    BY DEF TickBegins, Trigger
  <1>6. SchedulerInv(s)'
    <2>1. AtASlot(s)'
      <3>1. <<Head(row.left),
              IF row.manual THEN row.now ELSE Due(Head(row.left), row.now)>> \in Slots
        BY <1>2, <1>3, SlotKind
      <3> QED
        BY <1>2, <1>3, <1>4, <3>1 DEF AtASlot, Slot, Task, Due, Slots
    <2>2. Exclusive(s)' /\ JobIsOut(s)'
      BY <1>3, <1>4 DEF Exclusive, JobIsOut, InTransaction
    <2>3. RestOfOrder(s)' /\ PassedIsDone(s)'
      <3> SUFFICES ASSUME ~manual
                   PROVE  RestOfOrder(s)' /\ PassedIsDone(s)'
        BY <1>3, <1>4 DEF RestOfOrder, PassedIsDone
      <3>1. scheduler'[s].left = Order /\ Len(Order) \in Nat
        BY <1>2, <1>3, <1>4, RecurringAssumption
      <3> QED
        BY <3>1 DEF RestOfOrder, PassedIsDone
    <2> QED
      BY <2>1, <2>2, <2>3 DEF SchedulerInv
  <1>7. ASSUME NEW slot \in Slots PROVE JobsOfSlot(slot)'
    <2>1. Early(slot) => Early(slot)'
      BY <1>1, <1>4, <1>5, EarlyOfOthers
    <2>2. JobsOfSlot(slot) /\ jobCount[slot] \in Nat /\ failures \in Nat
      BY <1>1 DEF RecurringInv, RecurringTypeOK
    <2> QED
      BY <1>5, <2>1, <2>2 DEF JobsOfSlot
  <1>8. ~InTransaction(s)'
    BY <1>3, <1>4 DEF InTransaction
  <1>9. \A t \in Schedulers : InTransaction(t) => Slot(t) \notin runs
    BY DEF RecurringInv, SchedulerInv, Exclusive
  <1>10. /\ jobCount' \in [Slots -> Nat] /\ failures' \in 0..MaxFailures
         /\ runs \subseteq runs' /\ runs' \subseteq Slots
         /\ \A slot \in Slots : jobCount'[slot] >= jobCount[slot]
    BY <1>1, <1>5 DEF RecurringTypeOK
  <1>11. \A t \in Schedulers : InTransaction(t) /\ t # s =>
               Slot(t) \notin runs' /\ (InTransaction(s)' => Slot(s)' # Slot(t))
    BY <1>5, <1>8, <1>9
  <1> QED
    BY <1>3, <1>4, <1>5, <1>6, <1>7, <1>10, <1>11, SchedulerStep

\* A scheduler that stays at its entry
LEMMA StageChange ==
    ASSUME RecurringInv, NEW s \in Schedulers, scheduler[s].stage # "idle",
           NEW stage \in {"inserted", "enqueued"},
           scheduler' = [scheduler EXCEPT ![s].stage = stage], runs' = runs
    PROVE  /\ scheduler'[s] \in Scheduler /\ scheduler'[s].stage = stage
           /\ scheduler' = [scheduler EXCEPT ![s] = scheduler'[s]]
           /\ Slot(s)' = Slot(s) /\ Slot(s) \in Slots
           /\ AtASlot(s)' /\ RestOfOrder(s)' /\ PassedIsDone(s)'
  <1>1. RecurringTypeOK /\ scheduler[s] \in Scheduler
    BY DEF RecurringInv, RecurringTypeOK
  <1>2. scheduler'[s] = [stage |-> stage, now |-> scheduler[s].now,
                         manual |-> scheduler[s].manual, left |-> scheduler[s].left]
    BY <1>1 DEF RecurringTypeOK, Scheduler
  <1>3. /\ scheduler'[s] \in Scheduler /\ scheduler'[s].stage = stage
        /\ scheduler'[s].now = scheduler[s].now /\ scheduler'[s].left = scheduler[s].left
        /\ scheduler'[s].manual = scheduler[s].manual
    BY <1>1, <1>2 DEF Scheduler
  <1>4. scheduler' = [scheduler EXCEPT ![s] = scheduler'[s]]
    BY <1>1 DEF RecurringTypeOK
  <1>5. Slot(s)' = Slot(s)
    BY <1>3 DEF Slot, Task, Due
  <1>6. AtASlot(s) /\ RestOfOrder(s) /\ PassedIsDone(s)
    BY DEF RecurringInv, SchedulerInv
  <1>7. AtASlot(s)' /\ RestOfOrder(s)' /\ PassedIsDone(s)'
    BY <1>3, <1>5, <1>6 DEF AtASlot, RestOfOrder, PassedIsDone, Due
  <1> QED
    BY <1>3, <1>4, <1>5, <1>6, <1>7 DEF AtASlot

\* What the invariant gives about a scheduler's own slot
LEMMA OwnSlot ==
    ASSUME RecurringInv, NEW s \in Schedulers, scheduler[s].stage # "idle"
    PROVE  /\ Slot(s) \in Slots /\ JobsOfSlot(Slot(s))
           /\ InTransaction(s) =>
                 /\ Slot(s) \notin runs
                 /\ \A t \in Schedulers : InTransaction(t) /\ t # s => Slot(t) # Slot(s)
           /\ scheduler[s].stage = "enqueued" /\ ~transactional => jobCount[Slot(s)] >= 1
           /\ \A t \in Schedulers : InTransaction(t) => Slot(t) \notin runs
  BY DEF RecurringInv, SchedulerInv, AtASlot, Exclusive, JobIsOut

LEMMA RecurringTypes ==
    ASSUME RecurringInv
    PROVE  /\ RecurringTypeOK /\ runs \subseteq Slots /\ jobCount \in [Slots -> Nat]
           /\ failures \in 0..MaxFailures /\ failures \in Nat /\ MaxFailures \in Nat
           /\ \A slot \in Slots : jobCount[slot] \in Nat /\ JobsOfSlot(slot)
  BY RecurringAssumption DEF RecurringInv, RecurringTypeOK

LEMMA InsertRunSound ==
    ASSUME RecurringInv, NEW s \in Schedulers, InsertRun(s)
    PROVE  RecurringInv'
  <1>1. /\ scheduler[s].stage = "next" /\ Slot(s) \notin runs /\ ~SlotIsHeld(s)
        /\ UNCHANGED <<transactional, second, runs, jobCount, failures>>
        /\ scheduler' = [scheduler EXCEPT ![s].stage = "inserted"]
    BY DEF InsertRun
  <1>2. /\ scheduler'[s] \in Scheduler /\ scheduler'[s].stage = "inserted"
        /\ scheduler' = [scheduler EXCEPT ![s] = scheduler'[s]]
        /\ Slot(s)' = Slot(s) /\ Slot(s) \in Slots
        /\ AtASlot(s)' /\ RestOfOrder(s)' /\ PassedIsDone(s)'
    BY <1>1, StageChange
  <1>3. \A t \in Schedulers : InTransaction(t) => Slot(t) # Slot(s) /\ Slot(t) \notin runs
    BY <1>1, OwnSlot DEF SlotIsHeld
  <1>4. Exclusive(s)'
    <2>1. ASSUME NEW t \in Schedulers, InTransaction(t)', t # s
          PROVE  Slot(t)' # Slot(s)
      BY <1>2, <1>3, <2>1, OthersStay, RecurringTypes
    <2> QED
      BY <1>1, <1>2, <2>1 DEF Exclusive
  <1>5. SchedulerInv(s)'
    BY <1>2, <1>4 DEF SchedulerInv, JobIsOut
  <1>6. ASSUME NEW slot \in Slots PROVE JobsOfSlot(slot)'
    <2>1. Early(slot) => Early(slot)'
      BY <1>1, <1>2, EarlyOfOthers, RecurringTypes
    <2> QED
      BY <1>1, <2>1, RecurringTypes DEF JobsOfSlot
  <1>7. /\ jobCount' \in [Slots -> Nat] /\ failures' \in 0..MaxFailures
        /\ runs \subseteq runs' /\ runs' \subseteq Slots
        /\ \A slot \in Slots : jobCount'[slot] >= jobCount[slot]
    BY <1>1, RecurringTypes
  <1>8. \A t \in Schedulers : InTransaction(t) /\ t # s =>
               Slot(t) \notin runs' /\ (InTransaction(s)' => Slot(s)' # Slot(t))
    BY <1>1, <1>2, <1>3
  <1> QED
    BY <1>1, <1>2, <1>5, <1>6, <1>7, <1>8, SchedulerStep

LEMMA EnqueueJobSound ==
    ASSUME RecurringInv, NEW s \in Schedulers, EnqueueJob(s)
    PROVE  RecurringInv'
  <1>1. /\ scheduler[s].stage = "inserted" /\ InTransaction(s)
        /\ UNCHANGED <<transactional, second, runs, failures>>
        /\ scheduler' = [scheduler EXCEPT ![s].stage = "enqueued"]
        /\ jobCount' = IF transactional THEN jobCount
                       ELSE [jobCount EXCEPT ![Slot(s)] = @ + 1]
    BY DEF EnqueueJob, InTransaction
  <1>2. /\ scheduler'[s] \in Scheduler /\ scheduler'[s].stage = "enqueued"
        /\ scheduler' = [scheduler EXCEPT ![s] = scheduler'[s]]
        /\ Slot(s)' = Slot(s) /\ Slot(s) \in Slots
        /\ AtASlot(s)' /\ RestOfOrder(s)' /\ PassedIsDone(s)'
    BY <1>1, StageChange
  <1>3. /\ Slot(s) \notin runs
        /\ \A t \in Schedulers : InTransaction(t) /\ t # s =>
              Slot(t) # Slot(s) /\ Slot(t) \notin runs
    BY <1>1, OwnSlot
  <1>4. Exclusive(s)'
    <2>1. ASSUME NEW t \in Schedulers, InTransaction(t)', t # s
          PROVE  Slot(t)' # Slot(s)
      BY <1>2, <1>3, <2>1, OthersStay, RecurringTypes
    <2> QED
      BY <1>1, <1>2, <1>3, <2>1 DEF Exclusive
  <1>5. /\ jobCount' \in [Slots -> Nat]
        /\ \A slot \in Slots : jobCount'[slot] >= jobCount[slot]
        /\ \A slot \in Slots : slot # Slot(s) => jobCount'[slot] = jobCount[slot]
        /\ transactional => jobCount' = jobCount
        /\ ~transactional => jobCount'[Slot(s)] = jobCount[Slot(s)] + 1
    BY <1>1, <1>2, RecurringTypes
  <1>6. SchedulerInv(s)'
    <2>1. JobIsOut(s)'
      BY <1>1, <1>2, <1>5, RecurringTypes DEF JobIsOut
    <2> QED
      BY <1>2, <1>4, <2>1 DEF SchedulerInv
  <1>7. ASSUME NEW slot \in Slots PROVE JobsOfSlot(slot)'
    <2>1. Early(slot) => Early(slot)'
      BY <1>1, <1>2, EarlyOfOthers, RecurringTypes
    <2>2. CASE slot = Slot(s) /\ ~transactional
      <3>1. ~Early(slot)
        BY <1>1, <1>3, <2>2 DEF Early, InTransaction
      <3>2. Early(slot)'
        BY <1>1, <1>2, <2>2 DEF Early
      <3> QED
        BY <1>1, <1>3, <1>5, <2>2, <3>1, <3>2, RecurringTypes DEF JobsOfSlot
    <2>3. CASE ~(slot = Slot(s) /\ ~transactional)
      <3>1. jobCount'[slot] = jobCount[slot]
        BY <1>5, <2>3
      <3> QED
        BY <1>1, <2>1, <3>1, RecurringTypes DEF JobsOfSlot
    <2> QED
      BY <2>2, <2>3
  <1>8. /\ failures' \in 0..MaxFailures /\ runs \subseteq runs' /\ runs' \subseteq Slots
        /\ \A t \in Schedulers : InTransaction(t) /\ t # s =>
               Slot(t) \notin runs' /\ (InTransaction(s)' => Slot(s)' # Slot(t))
    BY <1>1, <1>2, <1>3, RecurringTypes
  <1> QED
    BY <1>1, <1>2, <1>5, <1>6, <1>7, <1>8, SchedulerStep

LEMMA InsertTakenSound ==
    ASSUME RecurringInv, NEW s \in Schedulers, InsertTaken(s)
    PROVE  RecurringInv'
  <1>1. /\ scheduler[s].stage = "next" /\ Slot(s) \in runs
        /\ UNCHANGED <<transactional, second, runs, jobCount, failures>>
        /\ scheduler' = [scheduler EXCEPT ![s] = Passed(s)]
    BY DEF InsertTaken
  <1>2. SchedulerInv(s)' /\ ~InTransaction(s)' /\ Passed(s) \in Scheduler
    BY <1>1, PassedInv
  <1>3. ASSUME NEW slot \in Slots PROVE JobsOfSlot(slot)'
    <2>1. Early(slot) => Early(slot)'
      BY <1>1, EarlyOfOthers, RecurringTypes
    <2> QED
      BY <1>1, <2>1, RecurringTypes DEF JobsOfSlot
  <1>4. /\ jobCount' \in [Slots -> Nat] /\ failures' \in 0..MaxFailures
        /\ runs \subseteq runs' /\ runs' \subseteq Slots
        /\ \A slot \in Slots : jobCount'[slot] >= jobCount[slot]
    BY <1>1, RecurringTypes
  <1>5. \A t \in Schedulers : InTransaction(t) /\ t # s =>
               Slot(t) \notin runs' /\ (InTransaction(s)' => Slot(s)' # Slot(t))
    BY <1>1, <1>2, OwnSlot
  <1> QED
    BY <1>1, <1>2, <1>3, <1>4, <1>5, SchedulerStep

LEMMA CommitRunSound ==
    ASSUME RecurringInv, NEW s \in Schedulers, CommitRun(s)
    PROVE  RecurringInv'
  <1>1. /\ scheduler[s].stage = "enqueued" /\ InTransaction(s)
        /\ UNCHANGED <<transactional, second, failures>>
        /\ runs' = runs \cup {Slot(s)}
        /\ scheduler' = [scheduler EXCEPT ![s] = Passed(s)]
        /\ jobCount' = IF transactional THEN [jobCount EXCEPT ![Slot(s)] = @ + 1]
                       ELSE jobCount
    BY DEF CommitRun, InTransaction
  <1>2. SchedulerInv(s)' /\ ~InTransaction(s)' /\ Passed(s) \in Scheduler
    BY <1>1, PassedInv
  <1>3. /\ Slot(s) \in Slots /\ Slot(s) \notin runs
        /\ ~transactional => jobCount[Slot(s)] >= 1
        /\ \A t \in Schedulers : InTransaction(t) /\ t # s =>
              Slot(t) # Slot(s) /\ Slot(t) \notin runs
    BY <1>1, OwnSlot
  <1>4. /\ jobCount' \in [Slots -> Nat]
        /\ \A slot \in Slots : jobCount'[slot] >= jobCount[slot]
        /\ \A slot \in Slots : slot # Slot(s) => jobCount'[slot] = jobCount[slot]
        /\ ~transactional => jobCount' = jobCount
        /\ transactional => jobCount'[Slot(s)] = jobCount[Slot(s)] + 1
    BY <1>1, <1>3, RecurringTypes
  <1>5. ASSUME NEW slot \in Slots PROVE JobsOfSlot(slot)'
    <2>1. CASE slot = Slot(s)
      <3>1. slot \in runs' /\ slot \notin runs
        BY <1>1, <1>3, <2>1
      <3> QED
        BY <1>1, <1>3, <1>4, <2>1, <3>1, RecurringTypes DEF JobsOfSlot
    <2>2. CASE slot # Slot(s)
      <3>1. Early(slot) => Early(slot)'
        BY <1>1, <2>2, EarlyOfOthers, RecurringTypes
      <3>2. (slot \in runs' <=> slot \in runs) /\ jobCount'[slot] = jobCount[slot]
        BY <1>1, <1>4, <2>2
      <3> QED
        BY <1>1, <3>1, <3>2, RecurringTypes DEF JobsOfSlot
    <2> QED
      BY <2>1, <2>2
  <1>6. /\ failures' \in 0..MaxFailures /\ runs \subseteq runs' /\ runs' \subseteq Slots
        /\ \A t \in Schedulers : InTransaction(t) /\ t # s =>
               Slot(t) \notin runs' /\ (InTransaction(s)' => Slot(s)' # Slot(t))
    BY <1>1, <1>2, <1>3, RecurringTypes
  <1> QED
    BY <1>1, <1>2, <1>4, <1>5, <1>6, SchedulerStep

\* A transaction that is rolled back
LEMMA RollbackSound ==
    ASSUME RecurringInv, NEW s \in Schedulers, ClassMissing(s) \/ Fails(s)
    PROVE  RecurringInv'
  <1>1. /\ scheduler' = [scheduler EXCEPT ![s] = Asleep]
        /\ UNCHANGED <<transactional, second, runs, jobCount>>
        /\ failures' \in 0..MaxFailures /\ failures' >= failures
        /\ scheduler[s].stage = "enqueued" => failures' = failures + 1
    BY RecurringTypes DEF ClassMissing, Fails
  <1>2. SchedulerInv(s)' /\ ~InTransaction(s)' /\ Asleep \in Scheduler
    BY <1>1, AsleepInv, RecurringTypes
  <1>3. ASSUME NEW slot \in Slots PROVE JobsOfSlot(slot)'
    <2>1. Early(slot) => Early(slot)' \/ failures' = failures + 1
      BY <1>1, EarlyOfOthers, RecurringTypes
    <2>2. failures' \in Nat
      BY <1>1, RecurringTypes
    <2> QED
      BY <1>1, <2>1, <2>2, RecurringTypes DEF JobsOfSlot
  <1>4. /\ jobCount' \in [Slots -> Nat] /\ runs \subseteq runs' /\ runs' \subseteq Slots
        /\ \A slot \in Slots : jobCount'[slot] >= jobCount[slot]
    BY <1>1, RecurringTypes
  <1>5. \A t \in Schedulers : InTransaction(t) /\ t # s =>
               Slot(t) \notin runs' /\ (InTransaction(s)' => Slot(s)' # Slot(t))
    <2>1. \A t \in Schedulers : InTransaction(t) => Slot(t) \notin runs
      BY DEF RecurringInv, SchedulerInv, Exclusive
    <2> QED
      BY <1>1, <1>2, <2>1
  <1> QED
    BY <1>1, <1>2, <1>3, <1>4, <1>5, SchedulerStep

\* The clock, and a step that changes nothing
LEMMA RecurringStands ==
    ASSUME RecurringInv, SecondPasses \/ UNCHANGED recurringVars
    PROVE  RecurringInv'
  <1>1. UNCHANGED <<transactional, runs, jobCount, scheduler, failures>>
    BY DEF SecondPasses, recurringVars
  <1>2. RecurringTypeOK'
    BY <1>1, RecurringAssumption, RecurringTypes
       DEF RecurringTypeOK, SecondPasses, recurringVars
  <1>3. ASSUME NEW s \in Schedulers PROVE SchedulerInv(s)'
    <2>1. \A t : Slot(t)' = Slot(t) /\ (InTransaction(t)' <=> InTransaction(t))
      BY <1>1 DEF InTransaction, Slot, Task, Due
    <2>2. AtASlot(s) /\ Exclusive(s) /\ JobIsOut(s) /\ RestOfOrder(s) /\ PassedIsDone(s)
      BY DEF RecurringInv, SchedulerInv
    <2>3. AtASlot(s)' /\ Exclusive(s)' /\ JobIsOut(s)'
      BY <1>1, <2>1, <2>2 DEF AtASlot, Exclusive, JobIsOut
    <2>4. RestOfOrder(s)' /\ PassedIsDone(s)'
      BY <1>1, <2>2 DEF RestOfOrder, PassedIsDone, Due
    <2> QED
      BY <2>2, <2>3, <2>4 DEF SchedulerInv
  <1>4. \A slot \in Slots : JobsOfSlot(slot)'
    BY <1>1 DEF RecurringInv, JobsOfSlot, Early, Slot, Task, Due
  <1> QED
    BY <1>2, <1>3, <1>4 DEF RecurringInv

LEMMA RecurringNextSound == RecurringInv /\ [RecurringNext]_recurringVars => RecurringInv'
  BY StartSound, InsertRunSound, InsertTakenSound, EnqueueJobSound, CommitRunSound,
     RollbackSound, RecurringStands DEF RecurringNext

(***************************************************************************)
(* Every variable of the schedulers keeps its kind, and a transaction has a *)
(* slot of its own.                                                         *)
(***************************************************************************)
THEOREM RecurringInductive == RecurringSpec => []RecurringInv
  BY RecurringInitSound, RecurringNextSound, PTL DEF RecurringSpec

(***************************************************************************)
(* However many schedulers race, die or fall behind, over whatever schedule *)
(* and intervals: each slot's job goes out once, but for the jobs of failed *)
(* transactions on another database, and no tick goes past a slot undone.   *)
(***************************************************************************)
THEOREM SlotsAreServedOnce == RecurringSpec => []SlotsServedOnce
  <1>1. ASSUME RecurringInv PROVE SlotsServedOnce
    <2>1. \A s \in Schedulers : PassedIsDone(s)
      BY <1>1 DEF RecurringInv, SchedulerInv
    <2>2. ASSUME NEW slot \in Slots PROVE JobPerSlot(slot)
      BY <1>1, RecurringTypes DEF JobPerSlot, JobsOfSlot
    <2> QED
      BY <2>1, <2>2 DEF SlotsServedOnce
  <1> QED
    BY <1>1, RecurringInductive, PTL

----------------------------------------------------------------------------
(* MemoryCache                                                              *)

(***************************************************************************)
(* What keeps the store within its size and its old values explained.       *)
(***************************************************************************)

\* An entry is older than any use to come, and no two were used last at once
Ordered ==
    /\ IsFiniteSet(entries)
    /\ \A e \in entries : e.accessed_at <= accesses
    /\ \A e, f \in entries : e.accessed_at = f.accessed_at => e = f

\* A hash has one entry for a key
Keyed == \A e, f \in entries : e.key = f.key => e = f

\* Somebody has changed the source of key, and is about to delete key
Changed(key) == \E c \in Clients : client[c].stage = "changed" /\ client[c].key = key

\* A value about to be written is old only when that is known, or soon will be
OldIsKnown(c) ==
    client[c].stage = "writing" /\ client[c].version < source[client[c].key] =>
        client[c].overtaken \/ Changed(client[c].key)

CacheInv ==
    /\ CacheTypeOK /\ Ordered /\ Keyed /\ StaleIsExplained
    /\ \A c \in Clients : OldIsKnown(c)

----------------------------------------------------------------------------

\* Some element has the least number
LEMMA LeastNumber ==
    ASSUME NEW T, T # {}, NEW f, \A e \in T : f[e] \in Nat
    PROVE  \E e \in T : \A d \in T : f[e] <= f[d]
  <1>1. PICK R : IsWellFoundedOn(R, Nat) /\ \A m, n \in Nat : m < n => <<m, n>> \in R
    BY NatLessThanWellFounded DEF OpToRel
  <1>2. PICK N : N = {f[e] : e \in T}
    OBVIOUS
  <1>3. N \subseteq Nat /\ N # {}
    BY <1>2
  <1>4. IsWellFoundedOn(R, Nat)
    BY <1>1
  <1>5. \E n \in N : \A m \in N : ~(<<m, n>> \in R)
    BY <1>3, <1>4, WFMin
  <1>6. \A m, n \in Nat : m < n => <<m, n>> \in R
    BY <1>1
  <1>7. PICK n \in N : \A m \in N : <<m, n>> \notin R
    BY <1>5
  <1>8. ASSUME NEW m \in N PROVE n <= m
    <2>1. m \in Nat /\ n \in Nat
      BY <1>3
    <2>2. ~(m < n)
      BY <1>6, <1>7, <2>1
    <2> QED
      BY <2>1, <2>2
  <1> QED
    BY <1>2, <1>8

\* The store after a trim: of distinct uses, no more than MaxSize are left
LEMMA TrimmedFits ==
    ASSUME NEW all \in SUBSET CacheEntry, IsFiniteSet(all),
           \A e, f \in all : e.accessed_at = f.accessed_at => e = f
    PROVE  /\ Trimmed(all) \subseteq all /\ IsFiniteSet(Trimmed(all))
           /\ Cardinality(Trimmed(all)) <= MaxSize
  <1> DEFINE Later(e) == {later \in all : later.accessed_at > e.accessed_at}
  <1>1. PICK kept : kept = Trimmed(all)
    OBVIOUS
  <1>2. kept \subseteq all /\ \A e \in kept : Cardinality(Later(e)) < MaxSize
    BY <1>1 DEF Trimmed
  <1>3. IsFiniteSet(kept) /\ Cardinality(kept) \in Nat
    BY <1>2, FS_Subset, FS_CardinalityType
  <1>4. \A e \in all : e.accessed_at \in Nat
    BY DEF CacheEntry
  <1>5. CASE kept = {}
    BY <1>1, <1>2, <1>3, <1>5, FS_EmptySet, CacheAssumption
  <1>6. CASE kept # {}
    <2> DEFINE used == [e \in kept |-> e.accessed_at]
    <2>1. \A e \in kept : used[e] \in Nat /\ used[e] = e.accessed_at
      BY <1>2, <1>4
    <2> HIDE DEF used
    <2>2. PICK e \in kept : \A d \in kept : used[e] <= used[d]
      BY <1>6, <2>1, LeastNumber
    <2>3. \A d \in kept : d # e => d \in Later(e)
      BY <1>2, <1>4, <2>1, <2>2
    <2>4. kept \ {e} \subseteq Later(e) /\ Later(e) \subseteq all
      BY <2>3
    <2> HIDE DEF Later
    <2>5. IsFiniteSet(Later(e)) /\ Cardinality(Later(e)) \in Nat
      BY <2>4, FS_Subset, FS_CardinalityType
    <2>6. Cardinality(kept \ {e}) <= Cardinality(Later(e))
      BY <2>4, <2>5, FS_Subset
    <2>7. Cardinality(kept \ {e}) = Cardinality(kept) - 1
      BY <1>3, FS_RemoveElement
    <2>8. Cardinality(Later(e)) < MaxSize
      BY <1>2
    <2> QED
      BY <1>1, <1>2, <1>3, <2>5, <2>6, <2>7, <2>8, CacheAssumption
  <1> QED
    BY <1>5, <1>6

\* What may be taken out of the store at any time
LEMMA FewerEntries ==
    ASSUME CacheInv, NEW some \in SUBSET entries
    PROVE  /\ some \subseteq CacheEntry /\ IsFiniteSet(some) /\ Cardinality(some) <= MaxSize
           /\ \A e \in some : e.accessed_at <= accesses
           /\ \A e, f \in some : e.accessed_at = f.accessed_at => e = f
           /\ \A e, f \in some : e.key = f.key => e = f
  <1>1. entries \subseteq CacheEntry /\ IsFiniteSet(entries) /\ Cardinality(entries) <= MaxSize
    BY DEF CacheInv, CacheTypeOK, Ordered
  <1>2. IsFiniteSet(some) /\ Cardinality(some) <= Cardinality(entries)
    BY <1>1, FS_Subset
  <1>3. Cardinality(some) \in Nat /\ Cardinality(entries) \in Nat /\ MaxSize \in Nat
    BY <1>1, <1>2, FS_CardinalityType, CacheAssumption
  <1> QED
    BY <1>1, <1>2, <1>3 DEF CacheInv, Ordered, Keyed

LEMMA NoVersion == 0 \in 0..MaxVersion
  BY CacheAssumption

LEMMA CacheInitSound == CacheInit => CacheInv
  <1> SUFFICES ASSUME CacheInit PROVE CacheInv
    OBVIOUS
  <1>1. IsFiniteSet({}) /\ Cardinality({}) = 0
    BY FS_EmptySet
  <1>2. CacheTypeOK
    <2>1. entries = {} /\ Cardinality(entries) <= MaxSize
      BY <1>1, CacheAssumption DEF CacheInit
    <2>2. client \in [Clients -> Client]
      <3>1. {[stage |-> "idle", key |-> key, version |-> 0, overtaken |-> FALSE] :
                key \in CacheKeys} \subseteq Client
        <4>1. ASSUME NEW key \in CacheKeys
              PROVE  [stage |-> "idle", key |-> key, version |-> 0,
                      overtaken |-> FALSE] \in Client
          BY NoVersion DEF Client
        <4> QED
          BY <4>1
      <3> QED
        BY <3>1 DEF CacheInit
    <2> QED
      BY <2>1, <2>2, CacheAssumption DEF CacheInit, CacheTypeOK
  <1>3. Ordered /\ Keyed /\ StaleIsExplained
    BY <1>1 DEF CacheInit, Ordered, Keyed, StaleIsExplained
  <1>4. \A c \in Clients : OldIsKnown(c)
    BY DEF CacheInit, OldIsKnown
  <1> QED
    BY <1>2, <1>3, <1>4 DEF CacheInv

(***************************************************************************)
(* A client takes a step: the rows it may write.                            *)
(***************************************************************************)
LEMMA DoneRow ==
    ASSUME CacheTypeOK, NEW c \in Clients, client' = Done(c)
    PROVE  /\ client' \in [Clients -> Client] /\ client'[c].stage = "idle"
           /\ client'[c].key = client[c].key /\ ~client'[c].overtaken
           /\ \A d \in Clients : d # c => client'[d] = client[d]
  <1>1. client \in [Clients -> Client] /\ client[c] \in Client
    BY DEF CacheTypeOK
  <1>2. PICK row : row = [client[c] EXCEPT !.stage = "idle", !.version = 0,
                                           !.overtaken = FALSE]
    OBVIOUS
  <1>3. row = [stage |-> "idle", key |-> client[c].key, version |-> 0, overtaken |-> FALSE]
    BY <1>1, <1>2 DEF Client
  <1>5. /\ row \in Client /\ row.stage = "idle" /\ row.key = client[c].key
        /\ ~row.overtaken
    BY <1>1, <1>3, NoVersion DEF Client
  <1>4. client' = [client EXCEPT ![c] = row]
    BY <1>2 DEF Done, Goes
  <1> QED
    BY <1>1, <1>4, <1>5

\* A change that is announced is not withdrawn by somebody else
LEMMA StillChanged ==
    ASSUME NEW c \in Clients, client[c].stage # "changed",
           \A d \in Clients : d # c => client'[d] = client[d], NEW key
    PROVE  Changed(key) => Changed(key)'
  BY DEF Changed

(***************************************************************************)
(* Reading.                                                                 *)
(***************************************************************************)
LEMMA FetchHitSound ==
    ASSUME CacheInv, NEW c \in Clients, NEW key \in CacheKeys, FetchHit(c, key)
    PROVE  CacheInv'
  <1>0. /\ CacheTypeOK /\ accesses \in Nat /\ accesses < MaxAccesses
        /\ accesses' = accesses + 1 /\ MaxAccesses \in Nat
        /\ UNCHANGED <<moment, source, client, raced>>
    BY CacheAssumption DEF CacheInv, CacheTypeOK, FetchHit
  <1>1. PICK hit \in entries : hit.key = key
    BY DEF FetchHit, Has
  <1>2. PICK used : used = [hit EXCEPT !.accessed_at = accesses + 1]
    OBVIOUS
  <1>3. /\ entries \subseteq CacheEntry /\ IsFiniteSet(entries)
        /\ Cardinality(entries) <= MaxSize
        /\ \A e \in entries : e.accessed_at \in Nat /\ e.accessed_at <= accesses
        /\ \A e, f \in entries : e.key = f.key => e = f
        /\ \A e, f \in entries : e.accessed_at = f.accessed_at => e = f
    BY DEF CacheInv, CacheTypeOK, Ordered, Keyed, CacheEntry
  <1>4. /\ used \in CacheEntry /\ used.key = key /\ used.accessed_at = accesses + 1
        /\ used.version = hit.version
    BY <1>0, <1>1, <1>2, <1>3 DEF CacheEntry
  <1>5. PICK rest : rest = entries \ {hit}
    OBVIOUS
  <1>6. entries' = rest \cup {used}
    <2>1. entries' = {IF entry.key = key THEN [entry EXCEPT !.accessed_at = accesses + 1]
                     ELSE entry : entry \in entries}
      BY DEF FetchHit
    <2>2. \A entry \in entries : entry.key = key <=> entry = hit
      BY <1>1, <1>3
    <2> QED
      BY <1>1, <1>2, <1>5, <2>1, <2>2
  <1>7. used \notin rest /\ \A e \in rest : e \in entries /\ e.key # key
    BY <1>1, <1>3, <1>4, <1>5
  <1>8. IsFiniteSet(rest) /\ Cardinality(rest) = Cardinality(entries) - 1
    BY <1>1, <1>3, <1>5, FS_RemoveElement
  <1>9. IsFiniteSet(entries') /\ Cardinality(entries') = Cardinality(rest) + 1
    BY <1>6, <1>7, <1>8, FS_AddElement
  <1>10. Cardinality(entries) \in Nat
    BY <1>3, FS_CardinalityType
  <1>11. CacheTypeOK'
    <2>1. accesses + 1 \in 0..MaxAccesses
      BY <1>0
    <2>2. entries' \subseteq CacheEntry /\ Cardinality(entries') <= MaxSize
      BY <1>3, <1>4, <1>6, <1>7, <1>8, <1>9, <1>10
    <2> QED
      BY <1>0, <2>1, <2>2 DEF CacheTypeOK
  <1>12. Ordered'
    <2>1. \A e \in rest : e.accessed_at \in Nat /\ e.accessed_at <= accesses
      BY <1>3, <1>7
    <2>2. \A e \in entries' : e.accessed_at <= accesses + 1
      BY <1>0, <1>4, <1>6, <2>1
    <2>3. \A e \in rest : e.accessed_at # used.accessed_at
      BY <1>0, <1>4, <2>1
    <2>4. \A e, f \in entries' : e.accessed_at = f.accessed_at => e = f
      BY <1>3, <1>6, <1>7, <2>3
    <2> QED
      BY <1>0, <1>9, <2>2, <2>4 DEF Ordered
  <1>13. Keyed'
    BY <1>3, <1>4, <1>6, <1>7 DEF Keyed
  <1>14. StaleIsExplained'
    <2>1. ASSUME NEW e \in entries, e.version < source[e.key]
          PROVE  e.key \in raced \/ Changed(e.key)
      BY <2>1 DEF CacheInv, StaleIsExplained, Changed
    <2>2. ASSUME NEW e \in entries', e.version < source[e.key]
          PROVE  e.key \in raced \/ Changed(e.key)
      <3>1. CASE e = used
        BY <1>1, <1>4, <2>1, <2>2, <3>1
      <3>2. CASE e # used
        BY <1>6, <1>7, <2>1, <2>2, <3>2
      <3> QED
        BY <3>1, <3>2
    <2> QED
      BY <1>0, <2>2 DEF StaleIsExplained, Changed
  <1>15. \A d \in Clients : OldIsKnown(d)'
    BY <1>0 DEF CacheInv, OldIsKnown, Changed
  <1> QED
    BY <1>11, <1>12, <1>13, <1>14, <1>15 DEF CacheInv

\* A step that only takes entries out, of a client that has changed nothing
LEMMA RemovalSound ==
    ASSUME CacheInv, entries' \subseteq entries, UNCHANGED <<source, accesses, raced>>,
           moment' \in 0..MaxMoment, client' \in [Clients -> Client],
           \A key : Changed(key) => Changed(key)',
           \A c \in Clients : OldIsKnown(c)'
    PROVE  CacheInv'
  <1>1. /\ entries' \subseteq CacheEntry /\ IsFiniteSet(entries')
        /\ Cardinality(entries') <= MaxSize
        /\ \A e \in entries' : e.accessed_at <= accesses
        /\ \A e, f \in entries' : e.accessed_at = f.accessed_at => e = f
        /\ \A e, f \in entries' : e.key = f.key => e = f
    BY FewerEntries
  <1>2. CacheTypeOK'
    BY <1>1 DEF CacheInv, CacheTypeOK
  <1>3. Ordered' /\ Keyed'
    BY <1>1 DEF Ordered, Keyed
  <1>4. StaleIsExplained'
    BY DEF CacheInv, StaleIsExplained, Changed
  <1> QED
    BY <1>2, <1>3, <1>4 DEF CacheInv

\* Rows a client comes to, and what they leave of its key
LEMMA GoesRow ==
    ASSUME CacheTypeOK, NEW c \in Clients, NEW row \in Client, client' = Goes(c, row)
    PROVE  /\ client' \in [Clients -> Client] /\ client'[c] = row
           /\ \A d \in Clients : d # c => client'[d] = client[d]
  BY DEF CacheTypeOK, Goes

LEMMA FetchMissSound ==
    ASSUME CacheInv, NEW c \in Clients, NEW key \in CacheKeys, FetchMiss(c, key)
    PROVE  CacheInv'
  <1>1. CacheTypeOK /\ client[c] \in Client /\ client[c].stage = "idle"
    BY DEF CacheInv, CacheTypeOK, FetchMiss, IsIdle
  <1>2. PICK row : row = [client[c] EXCEPT !.stage = "computing", !.key = key]
    OBVIOUS
  <1>3. row \in Client /\ row.stage = "computing"
    BY <1>1, <1>2 DEF Client
  <1>4. client' = Goes(c, row)
    BY <1>2 DEF FetchMiss
  <1>5. /\ client' \in [Clients -> Client] /\ client'[c] = row
        /\ \A d \in Clients : d # c => client'[d] = client[d]
    BY <1>1, <1>3, <1>4, GoesRow
  <1>6. \A k : Changed(k) => Changed(k)'
    BY <1>1, <1>5, StillChanged
  <1>7. ASSUME NEW d \in Clients PROVE OldIsKnown(d)'
    <2>1. source' = source /\ OldIsKnown(d)
      BY DEF CacheInv, FetchMiss
    <2> QED
      BY <1>3, <1>5, <1>6, <2>1 DEF OldIsKnown
  <1>8. /\ entries' \subseteq entries /\ UNCHANGED <<source, accesses, raced>>
        /\ moment' \in 0..MaxMoment
    BY <1>1 DEF FetchMiss, Without, CacheTypeOK
  <1> QED
    BY <1>5, <1>6, <1>7, <1>8, RemovalSound

(***************************************************************************)
(* Computing and writing.                                                   *)
(***************************************************************************)
LEMMA ComputeSound ==
    ASSUME CacheInv, NEW c \in Clients, Compute(c)
    PROVE  CacheInv'
  <1>1. CacheTypeOK /\ client[c] \in Client /\ client[c].stage = "computing"
    BY DEF CacheInv, CacheTypeOK, Compute
  <1>2. PICK row : row = [client[c] EXCEPT !.stage = "writing",
                                           !.version = source[client[c].key]]
    OBVIOUS
  <1>3. source[client[c].key] \in 0..MaxVersion
    BY <1>1 DEF CacheTypeOK, Client
  <1>4. /\ row \in Client /\ row.stage = "writing" /\ row.key = client[c].key
        /\ row.version = source[row.key]
    BY <1>1, <1>2, <1>3 DEF Client
  <1>5. client' = Goes(c, row)
    BY <1>2 DEF Compute
  <1>6. /\ client' \in [Clients -> Client] /\ client'[c] = row
        /\ \A d \in Clients : d # c => client'[d] = client[d]
    BY <1>1, <1>4, <1>5, GoesRow
  <1>7. \A k : Changed(k) => Changed(k)'
    BY <1>1, <1>6, StillChanged
  <1>8. ASSUME NEW d \in Clients PROVE OldIsKnown(d)'
    <2>1. source' = source /\ OldIsKnown(d)
      BY DEF CacheInv, Compute
    <2>2. ~(row.version < source[row.key])
      BY <1>3, <1>4
    <2> QED
      BY <1>6, <1>7, <2>1, <2>2 DEF OldIsKnown
  <1>9. /\ entries' \subseteq entries /\ UNCHANGED <<source, accesses, raced>>
        /\ moment' \in 0..MaxMoment
    BY <1>1 DEF Compute, CacheTypeOK
  <1> QED
    BY <1>6, <1>7, <1>8, <1>9, RemovalSound

LEMMA WritesNothingSound ==
    ASSUME CacheInv, NEW c \in Clients, WritesNothing(c)
    PROVE  CacheInv'
  <1>1. CacheTypeOK /\ client[c].stage = "computing" /\ client' = Done(c)
    BY DEF CacheInv, WritesNothing
  <1>2. /\ client' \in [Clients -> Client] /\ client'[c].stage = "idle"
        /\ \A d \in Clients : d # c => client'[d] = client[d]
    BY <1>1, DoneRow
  <1>3. \A k : Changed(k) => Changed(k)'
    BY <1>1, <1>2, StillChanged
  <1>4. ASSUME NEW d \in Clients PROVE OldIsKnown(d)'
    <2>1. source' = source /\ OldIsKnown(d)
      BY DEF CacheInv, WritesNothing
    <2> QED
      BY <1>2, <1>3, <2>1 DEF OldIsKnown
  <1>5. /\ entries' \subseteq entries /\ UNCHANGED <<source, accesses, raced>>
        /\ moment' \in 0..MaxMoment
    BY <1>1 DEF WritesNothing, CacheTypeOK
  <1> QED
    BY <1>2, <1>3, <1>4, <1>5, RemovalSound

LEMMA WriteValueSound ==
    ASSUME CacheInv, NEW c \in Clients, WriteValue(c)
    PROVE  CacheInv'
  <1>1. /\ CacheTypeOK /\ client[c] \in Client /\ client[c].stage = "writing"
        /\ accesses \in Nat /\ accesses + 1 \in 0..MaxAccesses /\ accesses' = accesses + 1
        /\ client' = Done(c) /\ moment \in Nat /\ ExpiresIn \in Nat
        /\ UNCHANGED <<moment, source>>
    BY CacheAssumption DEF CacheInv, CacheTypeOK, WriteValue
  <1>2. PICK key : key = client[c].key
    OBVIOUS
  <1>3. PICK new : new = [key |-> key, version |-> client[c].version,
                          expires_at |-> moment + ExpiresIn, accessed_at |-> accesses + 1]
    OBVIOUS
  <1>4. /\ new \in CacheEntry /\ new.key = key /\ new.version = client[c].version
        /\ new.accessed_at = accesses + 1
    BY <1>1, <1>2, <1>3 DEF CacheEntry, Client
  <1>5. PICK rest : rest = Unexpired(Without(key))
    OBVIOUS
  <1>6. rest \subseteq entries /\ \A e \in rest : e.key # key
    BY <1>5 DEF Unexpired, Without
  <1>7. /\ rest \subseteq CacheEntry /\ IsFiniteSet(rest)
        /\ \A e \in rest : e.accessed_at <= accesses
        /\ \A e, f \in rest : e.accessed_at = f.accessed_at => e = f
        /\ \A e, f \in rest : e.key = f.key => e = f
    BY <1>6, FewerEntries
  <1>8. PICK all : all = rest \cup {new}
    OBVIOUS
  <1>9. all \subseteq CacheEntry /\ IsFiniteSet(all)
    BY <1>4, <1>7, <1>8, FS_AddElement
  <1>10. /\ \A e \in all : e.accessed_at <= accesses + 1
         /\ \A e, f \in all : e.accessed_at = f.accessed_at => e = f
    <2>1. \A e \in rest : e.accessed_at \in Nat
      BY <1>7 DEF CacheEntry
    <2>2. \A e \in rest : e.accessed_at < new.accessed_at
      BY <1>1, <1>4, <1>7, <2>1
    <2>3. \A e \in rest : e.accessed_at # new.accessed_at /\ e.accessed_at <= accesses + 1
      BY <1>1, <1>4, <2>1, <2>2
    <2> QED
      BY <1>1, <1>4, <1>7, <1>8, <2>3
  <1>11. entries' = Trimmed(all)
    BY <1>2, <1>3, <1>5, <1>8 DEF WriteValue
  <1>12. entries' \subseteq all /\ IsFiniteSet(entries') /\ Cardinality(entries') <= MaxSize
    BY <1>9, <1>10, <1>11, TrimmedFits
  <1>13. /\ client' \in [Clients -> Client] /\ client'[c].stage = "idle"
         /\ \A d \in Clients : d # c => client'[d] = client[d]
    BY <1>1, DoneRow
  <1>14. raced' = IF client[c].overtaken THEN raced \cup {key} ELSE raced \ {key}
    BY <1>2 DEF WriteValue
  <1>15. \A k : Changed(k) => Changed(k)'
    BY <1>1, <1>13, StillChanged
  <1>16. CacheTypeOK'
    <2>1. key \in CacheKeys
      BY <1>1, <1>2 DEF Client
    <2>2. raced' \subseteq CacheKeys
      BY <1>1, <1>14, <2>1 DEF CacheTypeOK
    <2>3. entries' \subseteq CacheEntry
      BY <1>9, <1>12
    <2> QED
      BY <1>1, <1>12, <1>13, <2>2, <2>3 DEF CacheTypeOK
  <1>17. Ordered'
    BY <1>1, <1>10, <1>12 DEF Ordered
  <1>18. Keyed'
    BY <1>4, <1>6, <1>7, <1>8, <1>12 DEF Keyed
  <1>19. StaleIsExplained'
    <2>1. ASSUME NEW e \in entries', e.version < source[e.key]
          PROVE  e.key \in raced' \/ Changed(e.key)'
      <3>1. CASE e = new
        <4>1. client[c].overtaken \/ Changed(key)
          BY <1>1, <1>2, <1>4, <2>1, <3>1 DEF CacheInv, OldIsKnown
        <4> QED
          BY <1>4, <1>14, <1>15, <3>1, <4>1
      <3>2. CASE e # new
        <4>1. e \in rest /\ e \in entries /\ e.key # key
          BY <1>6, <1>8, <1>12, <3>2
        <4>2. e.key \in raced \/ Changed(e.key)
          BY <2>1, <4>1 DEF CacheInv, StaleIsExplained, Changed
        <4> QED
          BY <1>14, <1>15, <4>1, <4>2
      <3> QED
        BY <3>1, <3>2
    <2> QED
      BY <1>1, <2>1 DEF StaleIsExplained, Changed
  <1>20. ASSUME NEW d \in Clients PROVE OldIsKnown(d)'
    <2>1. OldIsKnown(d)
      BY DEF CacheInv
    <2> QED
      BY <1>1, <1>13, <1>15, <2>1 DEF OldIsKnown
  <1> QED
    BY <1>16, <1>17, <1>18, <1>19, <1>20 DEF CacheInv

(***************************************************************************)
(* Changing a source, and deleting its key.                                 *)
(***************************************************************************)
LEMMA ChangeSourceSound ==
    ASSUME CacheInv, NEW c \in Clients, NEW key \in CacheKeys, ChangeSource(c, key)
    PROVE  CacheInv'
  <1>1. /\ CacheTypeOK /\ client[c] \in Client /\ client[c].stage = "idle"
        /\ UNCHANGED <<moment, entries, accesses, raced>>
        /\ source' = [source EXCEPT ![key] = @ + 1] /\ source[key] < MaxVersion
    BY DEF CacheInv, CacheTypeOK, ChangeSource, IsIdle
  <1>2. PICK row : row = [client[c] EXCEPT !.stage = "changed", !.key = key]
    OBVIOUS
  <1>3. row \in Client /\ row.stage = "changed" /\ row.key = key
    BY <1>1, <1>2 DEF Client
  <1>4. client' = Goes(c, row)
    BY <1>2 DEF ChangeSource
  <1>5. /\ client' \in [Clients -> Client] /\ client'[c] = row
        /\ \A d \in Clients : d # c => client'[d] = client[d]
    BY <1>1, <1>3, <1>4, GoesRow
  <1>6. /\ \A k : Changed(k) => Changed(k)'
        /\ Changed(key)'
    <2>1. \A k : Changed(k) => Changed(k)'
      BY <1>1, <1>5, StillChanged
    <2> QED
      BY <1>3, <1>5, <2>1 DEF Changed
  <1>7. /\ source' \in [CacheKeys -> 0..MaxVersion]
        /\ \A k \in CacheKeys : k # key => source'[k] = source[k]
    <2>1. source[key] + 1 \in 0..MaxVersion
      BY <1>1, CacheAssumption DEF CacheTypeOK
    <2> QED
      BY <1>1, <2>1 DEF CacheTypeOK
  <1>8. CacheTypeOK' /\ Ordered' /\ Keyed'
    BY <1>1, <1>5, <1>7 DEF CacheInv, CacheTypeOK, Ordered, Keyed
  <1>9. StaleIsExplained'
    <2>1. ASSUME NEW e \in entries, e.version < source'[e.key]
          PROVE  e.key \in raced \/ Changed(e.key)'
      <3>1. e.key \in CacheKeys
        BY <1>1 DEF CacheTypeOK, CacheEntry
      <3>2. e.version < source[e.key] => e.key \in raced \/ Changed(e.key)
        BY DEF CacheInv, StaleIsExplained, Changed
      <3> QED
        BY <1>6, <1>7, <2>1, <3>1, <3>2
    <2> QED
      BY <1>1, <2>1 DEF StaleIsExplained, Changed
  <1>10. ASSUME NEW d \in Clients PROVE OldIsKnown(d)'
    <2>1. client[d].key \in CacheKeys /\ OldIsKnown(d)
      BY <1>1 DEF CacheInv, CacheTypeOK, Client
    <2> QED
      BY <1>3, <1>5, <1>6, <1>7, <2>1 DEF OldIsKnown
  <1> QED
    BY <1>8, <1>9, <1>10 DEF CacheInv

LEMMA DeleteSound ==
    ASSUME CacheInv, NEW c \in Clients, Delete(c)
    PROVE  CacheInv'
  <1>1. /\ CacheTypeOK /\ client[c] \in Client /\ client[c].stage = "changed"
        /\ UNCHANGED <<moment, source, accesses, raced>>
    BY DEF CacheInv, CacheTypeOK, Delete
  <1>2. PICK key : key = client[c].key
    OBVIOUS
  <1>3. /\ entries' = Without(key)
        /\ client' = [other \in Clients |->
              IF other = c THEN Done(c)[c]
              ELSE IF client[other].stage = "writing" /\ client[other].key = key
                   THEN [client[other] EXCEPT !.overtaken = TRUE]
              ELSE client[other]]
    BY <1>2 DEF Delete, Deleted
  <1>4. Done(c)[c] \in Client /\ Done(c)[c].stage = "idle"
    <2>1. PICK row : row = [client[c] EXCEPT !.stage = "idle", !.version = 0,
                                             !.overtaken = FALSE]
      OBVIOUS
    <2>2. row = [stage |-> "idle", key |-> client[c].key, version |-> 0, overtaken |-> FALSE]
      BY <1>1, <2>1 DEF Client
    <2>3. row \in Client /\ row.stage = "idle"
      BY <1>1, <2>2, NoVersion DEF Client
    <2>4. Done(c)[c] = row
      BY <1>1, <2>1 DEF Done, Goes, CacheTypeOK
    <2> QED
      BY <2>3, <2>4
  <1>5. ASSUME NEW d \in Clients, d # c
        PROVE  /\ client'[d] \in Client /\ client'[d].stage = client[d].stage
               /\ client'[d].key = client[d].key /\ client'[d].version = client[d].version
               /\ client[d].overtaken => client'[d].overtaken
               /\ client[d].stage = "writing" /\ client[d].key = key => client'[d].overtaken
    <2>1. client[d] \in Client
      BY <1>1 DEF CacheTypeOK
    <2>2. CASE client[d].stage = "writing" /\ client[d].key = key
      <3>1. client'[d] = [client[d] EXCEPT !.overtaken = TRUE]
        BY <1>3, <1>5, <2>2
      <3> QED
        BY <2>1, <2>2, <3>1 DEF Client
    <2>3. CASE ~(client[d].stage = "writing" /\ client[d].key = key)
      BY <1>3, <1>5, <2>1, <2>3
    <2> QED
      BY <2>2, <2>3
  <1>6. client' \in [Clients -> Client] /\ client'[c].stage = "idle"
    <2>1. \A d \in Clients : client'[d] \in Client
      BY <1>3, <1>4, <1>5
    <2> QED
      BY <1>3, <1>4, <2>1
  <1>7. \A k : k # key /\ Changed(k) => Changed(k)'
    BY <1>2, <1>5 DEF Changed
  <1>8. /\ entries' \subseteq CacheEntry /\ IsFiniteSet(entries')
        /\ Cardinality(entries') <= MaxSize
        /\ \A e \in entries' : e.accessed_at <= accesses
        /\ \A e, f \in entries' : e.accessed_at = f.accessed_at => e = f
        /\ \A e, f \in entries' : e.key = f.key => e = f
    <2>1. entries' \subseteq entries
      BY <1>3 DEF Without
    <2> QED
      BY <2>1, FewerEntries
  <1>9. CacheTypeOK' /\ Ordered' /\ Keyed'
    BY <1>1, <1>6, <1>8 DEF CacheTypeOK, Ordered, Keyed
  <1>10. StaleIsExplained'
    <2>1. ASSUME NEW e \in entries', e.version < source[e.key]
          PROVE  e.key \in raced \/ Changed(e.key)'
      <3>1. e \in entries /\ e.key # key
        BY <1>3 DEF Without
      <3>2. e.key \in raced \/ Changed(e.key)
        BY <2>1, <3>1 DEF CacheInv, StaleIsExplained, Changed
      <3> QED
        BY <1>7, <3>1, <3>2
    <2> QED
      BY <1>1, <2>1 DEF StaleIsExplained, Changed
  <1>11. ASSUME NEW d \in Clients PROVE OldIsKnown(d)'
    <2>1. OldIsKnown(d)
      BY DEF CacheInv
    <2>2. CASE d = c
      BY <1>6, <2>2 DEF OldIsKnown
    <2>3. CASE d # c
      <3>1. /\ client'[d].stage = client[d].stage /\ client'[d].key = client[d].key
            /\ client'[d].version = client[d].version
            /\ client[d].overtaken => client'[d].overtaken
            /\ client[d].stage = "writing" /\ client[d].key = key => client'[d].overtaken
        BY <1>5, <2>3
      <3> QED
        BY <1>1, <1>7, <2>1, <3>1 DEF OldIsKnown
    <2> QED
      BY <2>2, <2>3
  <1> QED
    BY <1>9, <1>10, <1>11 DEF CacheInv

\* Clear, the clock, and a step that changes nothing
LEMMA StoreStands ==
    ASSUME CacheInv, Clear \/ MomentPasses \/ UNCHANGED cacheVars
    PROVE  CacheInv'
  <1>1. /\ entries' \subseteq entries /\ UNCHANGED <<source, accesses, client, raced>>
        /\ moment' \in 0..MaxMoment
    BY CacheAssumption DEF CacheInv, CacheTypeOK, Clear, MomentPasses, cacheVars
  <1>2. client' \in [Clients -> Client]
    BY <1>1 DEF CacheInv, CacheTypeOK
  <1>3. \A k : Changed(k) => Changed(k)'
    BY <1>1 DEF Changed
  <1>4. \A c \in Clients : OldIsKnown(c)'
    BY <1>1, <1>3 DEF CacheInv, OldIsKnown
  <1> QED
    BY <1>1, <1>2, <1>3, <1>4, RemovalSound

LEMMA CacheNextSound == CacheInv /\ [CacheNext]_cacheVars => CacheInv'
  BY FetchHitSound, FetchMissSound, ComputeSound, WriteValueSound, WritesNothingSound,
     ChangeSourceSound, DeleteSound, StoreStands DEF CacheNext

(***************************************************************************)
(* The store never holds more than max_size entries nor two for a key, and  *)
(* no two of them were used at once: there is always one to drop.           *)
(***************************************************************************)
THEOREM CacheInductive == CacheSpec => []CacheInv
  BY CacheInitSound, CacheNextSound, PTL DEF CacheSpec

(***************************************************************************)
(* For any number of clients, keys and versions, and any size and expiry: a *)
(* value that is older than its source is in the cache only until its key is*)
(* deleted, or by a fetch that overlapped that delete.                      *)
(***************************************************************************)
THEOREM StaleValuesAreExplained == CacheSpec => []StaleIsExplained
  <1>1. CacheInv => StaleIsExplained
    BY DEF CacheInv
  <1> QED
    BY <1>1, CacheInductive, PTL

----------------------------------------------------------------------------
(* AsyncAdapter                                                             *)

AsyncThread == [pc : {"none", "running", "waiting", "performing", "leaving", "dead"},
                until : Nat \cup {Never}]

LEMMA AsyncTypeInit == AsyncInit => AsyncTypeOK
  <1> SUFFICES ASSUME AsyncInit PROVE AsyncTypeOK
    OBVIOUS
  <1>1. MaxItems \in Nat /\ MaxShutdowns \in Nat
    BY AsyncAssumption
  <1>2. threads \in [Threads -> AsyncThread]
    BY DEF AsyncInit, AsyncThread
  <1>3. stops \in [Stoppers -> 0..MaxItems]
    BY <1>1 DEF AsyncInit
  <1> QED
    <2>1. /\ time \in Nat /\ items \subseteq Item /\ sequence \in 0..MaxItems
          /\ thread \in 0..MaxItems /\ stopping \in BOOLEAN
          /\ performed \subseteq 1..MaxItems /\ shutdowns \in 0..MaxShutdowns
      <3>1. 0 \in Nat /\ 0 \in 0..MaxItems /\ 0 \in 0..MaxShutdowns
        BY <1>1
      <3> QED
        BY <3>1 DEF AsyncInit
    <2> QED
      BY <1>2, <1>3, <2>1 DEF AsyncTypeOK, AsyncThread

\* A signal, and a thread that is started, leave every thread one of the kind
LEMMA SignalledTypes ==
    ASSUME NEW all \in [Threads -> AsyncThread], NEW next \in Signalled(all)
    PROVE  next \in [Threads -> AsyncThread]
  BY DEF Signalled, AsyncThread

LEMMA StartTypes ==
    ASSUME AsyncTypeOK, NEW w \in Threads, StartLocked(w)
    PROVE  /\ threads' \in [Threads -> AsyncThread]
           /\ thread' \in 0..MaxItems /\ stopping' \in BOOLEAN
  <1>1. threads \in [Threads -> AsyncThread]
    BY DEF AsyncTypeOK, AsyncThread
  <1>2. [threads EXCEPT ![w].pc = "running"] \in [Threads -> AsyncThread]
    BY <1>1 DEF AsyncThread
  <1>3. threads' \in [Threads -> AsyncThread]
    <2>1. CASE thread # 0 /\ Alive(thread)
      BY <1>1, <2>1, SignalledTypes DEF StartLocked
    <2>2. CASE ~(thread # 0 /\ Alive(thread))
      BY <1>2, <2>2, SignalledTypes DEF StartLocked
    <2> QED
      BY <2>1, <2>2
  <1>4. thread' \in 0..MaxItems /\ stopping' \in BOOLEAN
    <2>1. w \in 0..MaxItems /\ thread \in 0..MaxItems /\ stopping \in BOOLEAN
      BY AsyncAssumption DEF AsyncTypeOK, Threads
    <2>2. \/ thread' = thread /\ stopping' = stopping
          \/ thread' = w /\ stopping' = FALSE
      BY DEF StartLocked
    <2> QED
      BY <2>1, <2>2
  <1> QED
    BY <1>3, <1>4

LEMMA EnqueueTypes ==
    ASSUME AsyncTypeOK, NEW priority \in Priorities, NEW delay \in Delays,
           Enqueue(priority, delay)
    PROVE  AsyncTypeOK'
  <1>1. PICK w \in Threads : StartLocked(w)
    BY DEF Enqueue
  <1>2. /\ threads' \in [Threads -> AsyncThread]
        /\ thread' \in 0..MaxItems /\ stopping' \in BOOLEAN
    BY <1>1, StartTypes
  <1>3. sequence + 1 \in 1..MaxItems /\ time + delay \in Nat
    BY AsyncAssumption DEF Enqueue, AsyncTypeOK
  <1>4. items' \subseteq Item /\ sequence' \in 0..MaxItems
    BY <1>3 DEF Enqueue, AsyncTypeOK, Item
  <1> QED
    BY <1>2, <1>4 DEF Enqueue, AsyncTypeOK, AsyncThread

\* The time a thread waits for is that of an item: there is an earliest.
LEMMA EarliestIsATime ==
    ASSUME AsyncTypeOK, items # {}
    PROVE  Earliest \in Nat
  <1> DEFINE due == [i \in items |-> i.scheduled_at]
  <1>1. \A i \in items : due[i] \in Nat /\ due[i] = i.scheduled_at
    BY DEF AsyncTypeOK, Item
  <1>2. PICK i \in items : \A j \in items : due[i] <= due[j]
    <2> HIDE DEF due
    <2> QED
      BY <1>1, LeastNumber
  <1>3. \E t \in {j.scheduled_at : j \in items} : \A j \in items : t <= j.scheduled_at
    BY <1>1, <1>2
  <1>4. Earliest \in {j.scheduled_at : j \in items}
    BY <1>3 DEF Earliest
  <1> QED
    BY <1>1, <1>4

LEMMA RunsTypes ==
    ASSUME AsyncTypeOK, NEW w \in Threads, Runs(w)
    PROVE  AsyncTypeOK'
  <1>1. CASE NextItemWaits(w)
    <2>1. items # {} => Earliest \in Nat
      BY EarliestIsATime
    <2>2. (IF items = {} THEN Never ELSE Earliest) \in Nat \cup {Never}
      BY <2>1
    <2> QED
      BY <1>1, <2>2 DEF NextItemWaits, AsyncTypeOK
  <1>2. CASE NextItem(w)
    BY <1>2 DEF NextItem, AsyncTypeOK, Ready, Item
  <1>3. CASE NextItemStops(w) \/ WaitEnds(w) \/ PerformEnds(w) \/ ThreadEnds(w)
    BY <1>3 DEF NextItemStops, WaitEnds, PerformEnds, ThreadEnds, AsyncTypeOK
  <1> QED
    BY <1>1, <1>2, <1>3 DEF Runs

LEMMA StopTypes ==
    ASSUME AsyncTypeOK, NEW x \in Stoppers, Shutdown(x) \/ ShutdownEnds(x)
    PROVE  AsyncTypeOK'
  <1>1. CASE Shutdown(x)
    BY <1>1, AsyncAssumption DEF Shutdown, AsyncTypeOK, Waiting
  <1>2. CASE ShutdownEnds(x)
    <2>1. 0 \in 0..MaxItems
      BY AsyncAssumption
    <2>2. stops' \in [Stoppers -> 0..MaxItems]
      BY <1>2, <2>1 DEF ShutdownEnds, AsyncTypeOK
    <2>3. thread' \in 0..MaxItems /\ items' \subseteq Item /\ stopping' \in BOOLEAN
      BY <1>2, <2>1 DEF ShutdownEnds, AsyncTypeOK
    <2> QED
      BY <1>2, <2>2, <2>3 DEF ShutdownEnds, AsyncTypeOK
  <1> QED
    BY <1>1, <1>2

\* AsyncAdapter's steps, without its fairness, which safety does not need
AsyncSafety == AsyncInit /\ [][AsyncNext]_asyncVars

(***************************************************************************)
(* The items, the threads ever started and the callers of shutdown keep     *)
(* their types: whatever a thread waits for, it is the time of an item.     *)
(***************************************************************************)
THEOREM AsyncTypes == AsyncSafety => []AsyncTypeOK
  <1>1. AsyncTypeOK /\ [AsyncNext]_asyncVars => AsyncTypeOK'
    <2> SUFFICES ASSUME AsyncTypeOK, [AsyncNext]_asyncVars PROVE AsyncTypeOK'
      OBVIOUS
    <2>1. CASE UNCHANGED asyncVars
      BY <2>1 DEF asyncVars, AsyncTypeOK
    <2>2. CASE TimePasses
      BY <2>2 DEF TimePasses, AsyncTypeOK
    <2> QED
      BY <2>1, <2>2, EnqueueTypes, RunsTypes, StopTypes DEF AsyncNext
  <1> QED
    BY <1>1, AsyncTypeInit, PTL DEF AsyncSafety

----------------------------------------------------------------------------
(* MCProcess: the components side by side                                   *)

(***************************************************************************)
(* A behaviour of the composition is, seen through the variables of any one *)
(* component, a behaviour of that component: what is proved of each alone   *)
(* holds of them together.                                                  *)
(***************************************************************************)
THEOREM ProcessRunsItsParts ==
    ProcessSpec => /\ TransactionSpec /\ AsyncSafety /\ SessionSpec
                   /\ RecurringSpec /\ CacheSpec
  <1>1. ProcessInit => /\ TransactionInit /\ AsyncInit /\ SessionInit
                       /\ RecurringInit /\ CacheInit
    BY DEF ProcessInit
  <1>2. [ProcessNext]_processVars => [TransactionNext]_transactionVars
    BY DEF ProcessNext, processVars, InTransactions, InAsync, InSessions, InRecurring, InCache
  <1>3. [ProcessNext]_processVars => [AsyncNext]_asyncVars
    BY DEF ProcessNext, processVars, InTransactions, InAsync, InSessions, InRecurring, InCache
  <1>4. [ProcessNext]_processVars => [SessionNext]_sessionVars
    BY DEF ProcessNext, processVars, InTransactions, InAsync, InSessions, InRecurring, InCache
  <1>5. [ProcessNext]_processVars => [RecurringNext]_recurringVars
    BY DEF ProcessNext, processVars, InTransactions, InAsync, InSessions, InRecurring, InCache
  <1>6. [ProcessNext]_processVars => [CacheNext]_cacheVars
    BY DEF ProcessNext, processVars, InTransactions, InAsync, InSessions, InRecurring, InCache
  <1> QED
    BY <1>1, <1>2, <1>3, <1>4, <1>5, <1>6, PTL
    DEF ProcessSpec, TransactionSpec, AsyncSafety, SessionSpec, RecurringSpec, CacheSpec

(***************************************************************************)
(* The five components of a server process keep their types side by side.   *)
(***************************************************************************)
THEOREM ProcessTypes == ProcessSpec => []ProcessTypeOK
  <1>1. RecurringInv => RecurringTypeOK
    BY DEF RecurringInv
  <1>2. CacheInv => CacheTypeOK
    BY DEF CacheInv
  <1>3. TransactionTypeOK /\ AsyncTypeOK /\ SessionTypeOK /\ RecurringTypeOK /\ CacheTypeOK
            => ProcessTypeOK
    BY DEF ProcessTypeOK
  <1> QED
    BY <1>1, <1>2, <1>3, ProcessRunsItsParts, TransactionTypes, AsyncTypes, SessionTypes,
       RecurringInductive, CacheInductive, PTL

=============================================================================
