------------------------ MODULE DurableQueue_proofs ------------------------
(***************************************************************************)
(* What TLC checks of DurableQueue on small instances, proved for every set *)
(* of rows and consumers, every lease, batch and window size and every      *)
(* bound. The inductive invariant is IndInv; most of it says that a claim   *)
(* token is in one place. Then: under the mapping of Promise (DurableQueue) *)
(* every step of the queue is a step of LeasedWork or stutters.             *)
(***************************************************************************)
EXTENDS DurableQueue, TLAPS

(***************************************************************************)
(* Each token was issued, belongs to one claim of one consumer, and can be  *)
(* the lock of the claimed row only.                                        *)
(***************************************************************************)
TokensUnique ==
    /\ \A i \in Ids : rows[i].locked_by <= issued
    /\ \A c \in Consumers : \A k \in con[c].held :
          /\ k.token # Nil /\ k.token <= issued
          /\ \A i \in Ids : rows[i].locked_by = k.token => i = k.id
          /\ \A d \in Consumers : \A l \in con[d].held :
                k.token = l.token => c = d /\ k = l

(***************************************************************************)
(* locked_at and locked_by are set and cleared together, a locked row has   *)
(* used an attempt and none uses more than it has; a row is completed only  *)
(* in the jobs table; before the INSERT there is nothing.                   *)
(***************************************************************************)
RowsCoherent ==
    \A i \in Ids :
        /\ rows[i].locked_at = Nil <=> rows[i].locked_by = Nil
        /\ rows[i].locked_by # Nil => rows[i].attempts >= 1
        /\ rows[i].attempts <= MaxAttempts
        /\ rows[i].completed => Lifecycle
        /\ rows[i].stage = "new" => rows[i] = NewRow

(***************************************************************************)
(* A scanning consumer's clock reading is a past one, and not NULL.         *)
(***************************************************************************)
ReadingsPast ==
    \A c \in Consumers :
        /\ con[c].at <= clock
        /\ con[c].pc # "idle" => con[c].at # Nil

IndInv ==
    /\ TypeOK
    /\ TokensUnique
    /\ RowsCoherent
    /\ ReadingsPast
    /\ OutcomesExclusive
    /\ FailReadStillTrue

----------------------------------------------------------------------------
(* The UPDATEs, field by field                                              *)

LEMMA UnlockFacts ==
    ASSUME NEW r \in Row
    PROVE  /\ Unlock(r) \in Row
           /\ Unlock(r).locked_at = Nil /\ Unlock(r).locked_by = Nil
           /\ Unlock(r).stage = r.stage
           /\ Unlock(r).attempts = r.attempts
           /\ Unlock(r).available_at = r.available_at
           /\ Unlock(r).failed = r.failed
           /\ Unlock(r).completed = r.completed
           /\ Unlock(r).discarded = r.discarded
  BY DEF Unlock, Row, Nil

LEMMA TerminalFacts ==
    ASSUME NEW r \in Row
    PROVE  /\ Terminal(r) \in Row
           /\ Terminal(r).locked_at = Nil /\ Terminal(r).locked_by = Nil
           /\ Terminal(r).stage = r.stage
           /\ Terminal(r).attempts = r.attempts
           /\ Terminal(r).failed
           /\ Terminal(r).completed = r.completed
  <1>1. Unlock(r) \in Row
    BY UnlockFacts
  <1>2. Terminal(r) \in Row
    BY <1>1, QueueAssumption DEF Terminal, Row
  <1> QED
    BY <1>1, <1>2, UnlockFacts DEF Terminal, Row

LEMMA ClaimedFacts ==
    ASSUME NEW r \in Row, NEW at \in Nat, NEW token \in Nat
    PROVE  /\ Claimed(r, at, token) \in Row
           /\ Claimed(r, at, token).locked_at = at
           /\ Claimed(r, at, token).locked_by = token
           /\ Claimed(r, at, token).attempts = r.attempts + 1
           /\ Claimed(r, at, token).stage = r.stage
           /\ Claimed(r, at, token).failed = r.failed
           /\ Claimed(r, at, token).completed = r.completed
  <1>1. r.attempts \in Nat /\ r.attempts + 1 \in Nat
    BY DEF Row
  <1>2. Claimed(r, at, token) \in Row
    BY <1>1 DEF Claimed, Row
  <1>3. /\ Claimed(r, at, token).locked_at = at
        /\ Claimed(r, at, token).locked_by = token
        /\ Claimed(r, at, token).attempts = r.attempts + 1
    BY DEF Claimed, Row
  <1>4. /\ Claimed(r, at, token).stage = r.stage
        /\ Claimed(r, at, token).failed = r.failed
        /\ Claimed(r, at, token).completed = r.completed
    BY DEF Claimed, Row
  <1> QED
    BY <1>2, <1>3, <1>4

LEMMA ClaimedCounts ==
    \A r \in Row, at \in Nat, token \in Nat :
        Claimed(r, at, token).attempts = r.attempts + 1
  BY ClaimedFacts

LEMMA ClaimedStage ==
    \A r \in Row, at \in Nat, token \in Nat : Claimed(r, at, token).stage = r.stage
  BY ClaimedFacts

LEMMA CompletedFacts ==
    ASSUME NEW r \in Row
    PROVE  /\ Completed(r) \in Row
           /\ Completed(r).locked_at = Nil /\ Completed(r).locked_by = Nil
           /\ Completed(r).attempts = r.attempts
           /\ Completed(r).failed = r.failed
           /\ Completed(r).stage = IF Lifecycle THEN r.stage ELSE "gone"
           /\ Completed(r).completed = (IF Lifecycle THEN TRUE ELSE r.completed)
  <1>1. Unlock(r) \in Row
    BY UnlockFacts
  <1>2. CASE Lifecycle
    BY <1>1, <1>2, UnlockFacts DEF Completed, Row
  <1>3. CASE ~Lifecycle
    BY <1>1, <1>3, UnlockFacts DEF Completed, Row, Stages
  <1> QED
    BY <1>2, <1>3

LEMMA RevivedFacts ==
    ASSUME NEW r \in Row, NEW at \in Nat
    PROVE  /\ Revived(r, at) \in Row
           /\ Revived(r, at).locked_at = Nil /\ Revived(r, at).locked_by = Nil
           /\ Revived(r, at).attempts = 0
           /\ ~Revived(r, at).failed
           /\ Revived(r, at).stage = r.stage
           /\ Revived(r, at).completed = r.completed
  <1>1. Unlock(r) \in Row
    BY UnlockFacts
  <1>2. Revived(r, at) \in Row
    BY <1>1, QueueAssumption DEF Revived, Row
  <1> QED
    BY <1>1, <1>2, UnlockFacts DEF Revived, Row

LEMMA FailedAttemptFacts ==
    ASSUME NEW r \in Row, NEW at \in Nat, NEW n \in Nat \ {0}
    PROVE  /\ FailedAttempt(r, n, at) \in Row
           /\ FailedAttempt(r, n, at).locked_at = Nil
           /\ FailedAttempt(r, n, at).locked_by = Nil
           /\ FailedAttempt(r, n, at).attempts = r.attempts
           /\ FailedAttempt(r, n, at).stage = r.stage
           /\ FailedAttempt(r, n, at).completed = r.completed
           /\ FailedAttempt(r, n, at).failed =
                 (IF n >= MaxAttempts THEN TRUE ELSE r.failed)
  <1>1. Unlock(r) \in Row
    BY UnlockFacts
  <1>2. CASE n >= MaxAttempts
    BY <1>2, TerminalFacts DEF FailedAttempt
  <1>3. CASE ~(n >= MaxAttempts)
    <2>1. at + RetryDelay[n] \in Nat
      BY <1>3, QueueAssumption
    <2> QED
      BY <1>1, <1>3, <2>1, UnlockFacts DEF FailedAttempt, Row
  <1> QED
    BY <1>2, <1>3

LEMMA InsertedFacts ==
    ASSUME NEW at \in Nat
    PROVE  /\ NewRow \in Row
           /\ Inserted(at) \in Row
           /\ Inserted(at).stage = "live"
           /\ Inserted(at).attempts = 0
           /\ Inserted(at).locked_at = Nil /\ Inserted(at).locked_by = Nil
           /\ ~Inserted(at).failed /\ ~Inserted(at).completed
  BY DEF Inserted, NewRow, Row, Stages, Nil

----------------------------------------------------------------------------
(* Init and the steps                                                       *)

LEMMA InitHolds == Init => IndInv
  <1> SUFFICES ASSUME Init PROVE IndInv
    OBVIOUS
  <1> USE DEF Init
  <1>1. TypeOK
    <2>1. NewRow \in Row
      BY DEF NewRow, Row, Stages, Nil
    <2>2. Idle \in Consumer
      BY DEF Idle, Consumer, Nil
    <2> QED
      BY <2>1, <2>2 DEF TypeOK
  <1>2. TokensUnique /\ FailReadStillTrue /\ ReadingsPast
    BY DEF TokensUnique, FailReadStillTrue, ReadingsPast, NewRow, Idle, Nil
  <1>3. RowsCoherent /\ OutcomesExclusive
    BY QueueAssumption DEF RowsCoherent, OutcomesExclusive, NewRow, Nil
  <1> QED
    BY <1>1, <1>2, <1>3 DEF IndInv

\* A row as an action leaves it that ends a lease, or finds none.
Released(r) ==
    /\ r.locked_at = Nil /\ r.locked_by = Nil
    /\ r.attempts <= MaxAttempts
    /\ ~(r.completed /\ r.failed)
    /\ r.completed => Lifecycle
    /\ r.stage # "new"

(***************************************************************************)
(* Most actions only end leases and only drop claims: whatever else they do,*)
(* they keep the invariant.                                                 *)
(***************************************************************************)
LEMMA ReleaseKeepsIndInv ==
    ASSUME IndInv, TypeOK', ReadingsPast', issued' = issued,
           \A i \in Ids : rows'[i] = rows[i] \/ Released(rows'[i]),
           \A c \in Consumers : con'[c].held \subseteq con[c].held
    PROVE  IndInv'
  <1> USE DEF IndInv
  <1>1. \A i \in Ids : /\ rows[i] \in Row /\ rows'[i] \in Row
                       /\ rows'[i].locked_by = rows[i].locked_by \/ rows'[i].locked_by = Nil
    BY DEF TypeOK, Released
  <1>2. TokensUnique'
    <2>1. \A i \in Ids : rows'[i].locked_by <= issued'
      BY <1>1 DEF TokensUnique, TypeOK, Row, Nil
    <2>2. ASSUME NEW c \in Consumers, NEW k \in con'[c].held
          PROVE  /\ k.token # Nil /\ k.token <= issued'
                 /\ \A i \in Ids : rows'[i].locked_by = k.token => i = k.id
                 /\ \A d \in Consumers : \A l \in con'[d].held :
                       k.token = l.token => c = d /\ k = l
      <3>1. k \in con[c].held
        BY <2>2
      <3>2. k.token # Nil /\ k.token <= issued'
        BY <3>1 DEF TokensUnique
      <3>3. \A i \in Ids : rows'[i].locked_by = k.token => i = k.id
        BY <1>1, <3>1, <3>2 DEF TokensUnique
      <3>4. \A d \in Consumers : \A l \in con'[d].held :
                k.token = l.token => c = d /\ k = l
        BY <3>1 DEF TokensUnique
      <3> QED
        BY <3>2, <3>3, <3>4
    <2> QED
      BY <2>1, <2>2 DEF TokensUnique
  <1>3. RowsCoherent'
    BY DEF RowsCoherent, Released
  <1>4. OutcomesExclusive'
    BY DEF OutcomesExclusive, Released
  <1>5. FailReadStillTrue'
    <2> SUFFICES ASSUME NEW c \in Consumers, NEW k \in con'[c].held,
                        k.seen # 0, LockedBy(rows'[k.id], k.token)
                 PROVE  k.seen = rows'[k.id].attempts
      BY DEF FailReadStillTrue
    <2>1. k \in con[c].held /\ k.id \in Ids
      BY DEF TypeOK, Consumer, Claim
    <2>2. rows'[k.id] = rows[k.id]
      BY <2>1 DEF LockedBy, Released, TokensUnique
    <2> QED
      BY <2>1, <2>2 DEF FailReadStillTrue
  <1> QED
    BY <1>2, <1>3, <1>4, <1>5

LEMMA InsertStep == ASSUME IndInv, NEW i \in Ids, Insert(i) PROVE IndInv'
  <1> USE DEF IndInv
  <1>1. PICK d \in Schedules : rows' = [rows EXCEPT ![i] = Inserted(clock + d)]
    BY DEF Insert
  <1>2. clock + d \in Nat
    BY ConsumerAssumption DEF TypeOK
  <1>3. Released(Inserted(clock + d)) /\ Inserted(clock + d) \in Row
    BY <1>2, InsertedFacts, QueueAssumption DEF Released
  <1>4. TypeOK' /\ ReadingsPast'
    BY <1>1, <1>3 DEF Insert, TypeOK, ReadingsPast
  <1> QED
    BY <1>1, <1>3, <1>4, ReleaseKeepsIndInv DEF Insert, TypeOK

LEMMA TerminalReleased ==
    ASSUME IndInv, NEW i \in Ids, rows[i].stage = "live", ~rows[i].completed
    PROVE  Terminal(rows[i]) \in Row /\ Released(Terminal(rows[i]))
  <1>1. rows[i] \in Row
    BY DEF IndInv, TypeOK
  <1> QED
    BY <1>1, TerminalFacts DEF IndInv, Released, RowsCoherent

LEMMA StartClaimStep == ASSUME IndInv, NEW c \in Consumers, StartClaim(c) PROVE IndInv'
  <1> USE DEF IndInv
  <1>1. ASSUME NEW i \in Ids
        PROVE  rows'[i] \in Row /\ (rows'[i] = rows[i] \/ Released(rows'[i]))
    <2>1. CASE Exhausted(rows[i], clock)
      <3>1. rows[i].stage = "live" /\ rows[i].locked_by # Nil
        BY <2>1 DEF Exhausted, LeaseOver, RowsCoherent
      <3>2. ~rows[i].completed
        BY <3>1 DEF OutcomesExclusive
      <3> QED
        BY <2>1, <3>1, <3>2, TerminalReleased DEF StartClaim
    <2>2. CASE ~Exhausted(rows[i], clock)
      BY <2>2 DEF StartClaim, TypeOK
    <2> QED
      BY <2>1, <2>2
  <1>2. rows' \in [Ids -> Row]
    BY <1>1 DEF StartClaim
  <1>3. con' \in [Consumers -> Consumer]
    <2>1. con[c] \in Consumer /\ con \in [Consumers -> Consumer] /\ clock \in Nat
      BY DEF TypeOK
    <2>2. [con[c] EXCEPT !.pc = "select", !.at = clock] \in Consumer
      BY ONLY <2>1 DEF Consumer
    <2>3. con' = [con EXCEPT ![c] = [con[c] EXCEPT !.pc = "select", !.at = clock]]
      BY <2>1 DEF StartClaim
    <2> QED
      BY ONLY <2>1, <2>2, <2>3
  <1>4. TypeOK'
    BY <1>2, <1>3 DEF StartClaim, TypeOK
  <1>5. ReadingsPast'
    BY DEF StartClaim, ReadingsPast, TypeOK, Consumer, Nil
  <1>6. \A d \in Consumers : con'[d].held \subseteq con[d].held
    BY DEF StartClaim, TypeOK, Consumer
  <1> QED
    BY <1>1, <1>4, <1>5, <1>6, ReleaseKeepsIndInv DEF StartClaim

LEMMA SelectCandidatesStep ==
    ASSUME IndInv, NEW c \in Consumers, SelectCandidates(c) PROVE IndInv'
  <1> USE DEF IndInv
  <1>1. PICK s \in SeqOf(Ids, Window) :
            con' = [con EXCEPT ![c].pc = "scan", ![c].cands = s]
    BY DEF SelectCandidates
  <1>2. s \in Seq(Ids)
    BY ConsumerAssumption DEF SeqOf
  <1>3. TypeOK'
    <2>1. con[c] \in Consumer /\ con \in [Consumers -> Consumer]
      BY DEF TypeOK
    <2>2. [con[c] EXCEPT !.pc = "scan", !.cands = s] \in Consumer
      BY ONLY <1>2, <2>1 DEF Consumer
    <2>3. con' = [con EXCEPT ![c] = [con[c] EXCEPT !.pc = "scan", !.cands = s]]
      BY ONLY <1>1, <2>1, c \in Consumers
    <2>4. con' \in [Consumers -> Consumer]
      BY ONLY <2>1, <2>2, <2>3
    <2> QED
      BY <2>4 DEF SelectCandidates, TypeOK
  <1>4. ReadingsPast'
    BY <1>1 DEF SelectCandidates, ReadingsPast, TypeOK, Consumer
  <1>5. \A d \in Consumers : con'[d].held \subseteq con[d].held
    BY <1>1 DEF TypeOK, Consumer
  <1> QED
    BY <1>3, <1>4, <1>5, ReleaseKeepsIndInv DEF SelectCandidates

LEMMA ReturnClaimsStep ==
    ASSUME IndInv, NEW c \in Consumers, ReturnClaims(c) PROVE IndInv'
  <1> USE DEF IndInv
  <1>1. TypeOK'
    <2>1. <<>> \in Seq(Ids)
      OBVIOUS
    <2>2. con'[c] \in Consumer
      BY <2>1 DEF ReturnClaims, TypeOK, Consumer, Nil
    <2> QED
      BY <2>2 DEF ReturnClaims, TypeOK
  <1>2. ReadingsPast'
    BY DEF ReturnClaims, ReadingsPast, TypeOK, Consumer, Nil
  <1>3. \A d \in Consumers : con'[d].held \subseteq con[d].held
    BY DEF ReturnClaims, TypeOK, Consumer
  <1> QED
    BY <1>1, <1>2, <1>3, ReleaseKeepsIndInv DEF ReturnClaims

LEMMA CrashStep == ASSUME IndInv, NEW c \in Consumers, Crash(c) PROVE IndInv'
  <1> USE DEF IndInv
  <1>1. TypeOK'
    BY DEF Crash, TypeOK, Consumer, Idle, Nil
  <1>2. ReadingsPast'
    BY DEF Crash, ReadingsPast, TypeOK, Consumer, Idle, Nil
  <1>3. \A d \in Consumers : con'[d].held \subseteq con[d].held
    BY DEF Crash, TypeOK, Consumer, Idle
  <1> QED
    BY <1>1, <1>2, <1>3, ReleaseKeepsIndInv DEF Crash

LEMMA TickStep == ASSUME IndInv, Tick PROVE IndInv'
  <1> USE DEF IndInv
  <1>1. TypeOK'
    BY DEF Tick, TypeOK
  <1>2. ReadingsPast'
    BY DEF Tick, ReadingsPast, TypeOK, Consumer
  <1> QED
    BY <1>1, <1>2, ReleaseKeepsIndInv DEF Tick

LEMMA RetryFailedStep == ASSUME IndInv, NEW i \in Ids, RetryFailed(i) PROVE IndInv'
  <1> USE DEF IndInv
  <1>1. Revived(rows[i], clock) \in Row /\ Released(Revived(rows[i], clock))
    <2>1. rows[i] \in Row /\ clock \in Nat
      BY DEF TypeOK
    <2>2. rows[i].stage # "new" /\ (rows[i].completed => Lifecycle)
      BY DEF RetryFailed, RowsCoherent
    <2>3. 0 <= MaxAttempts
      BY QueueAssumption
    <2> QED
      BY <2>1, <2>2, <2>3, RevivedFacts DEF Released
  <1>2. TypeOK' /\ ReadingsPast'
    BY <1>1 DEF RetryFailed, TypeOK, ReadingsPast
  <1> QED
    BY <1>1, <1>2, ReleaseKeepsIndInv DEF RetryFailed, TypeOK

(***************************************************************************)
(* A consumer puts a claim down: what the three token-guarded UPDATEs and a *)
(* lost lease have in common.                                               *)
(***************************************************************************)
LEMMA DropStep ==
    ASSUME IndInv, NEW c \in Consumers, NEW k \in con[c].held, Drop(c, k),
           rows' \in [Ids -> Row],
           \A i \in Ids : rows'[i] = rows[i] \/ Released(rows'[i]),
           UNCHANGED <<clock, issued, crashes, revivals>>
    PROVE  IndInv'
  <1> USE DEF IndInv, Drop
  <1>1. TypeOK'
    BY DEF TypeOK, Consumer
  <1>2. ReadingsPast'
    BY DEF ReadingsPast, TypeOK, Consumer
  <1>3. \A d \in Consumers : con'[d].held \subseteq con[d].held
    BY DEF TypeOK, Consumer
  <1> QED
    BY <1>1, <1>2, <1>3, ReleaseKeepsIndInv

\* A live row under a held claim's token is in neither outcome.
LEMMA HeldRow ==
    ASSUME IndInv, NEW c \in Consumers, NEW k \in con[c].held, LockedBy(rows[k.id], k.token)
    PROVE  /\ k.id \in Ids /\ rows[k.id] \in Row
           /\ rows[k.id].stage = "live"
           /\ ~rows[k.id].completed /\ ~rows[k.id].failed
           /\ rows[k.id].locked_by # Nil
           /\ rows[k.id].attempts \in Nat \ {0}
           /\ rows[k.id].attempts <= MaxAttempts
  <1> USE DEF IndInv
  <1>1. k.id \in Ids
    BY DEF TypeOK, Consumer, Claim
  <1>2. rows[k.id] \in Row /\ rows[k.id].stage = "live" /\ rows[k.id].locked_by # Nil
    BY <1>1 DEF TypeOK, LockedBy, TokensUnique
  <1>3. rows[k.id].attempts \in Nat \ {0} /\ rows[k.id].attempts <= MaxAttempts
    BY <1>1, <1>2 DEF RowsCoherent, Row
  <1> QED
    BY <1>1, <1>2, <1>3 DEF OutcomesExclusive

LEMMA CompleteStep ==
    ASSUME IndInv, NEW c \in Consumers, NEW k \in con[c].held, Complete(c, k) PROVE IndInv'
  <1>1. CASE LockedBy(rows[k.id], k.token)
    <2>1. Completed(rows[k.id]) \in Row /\ Released(Completed(rows[k.id]))
      <3>1. /\ rows[k.id] \in Row /\ rows[k.id].stage = "live"
            /\ ~rows[k.id].failed /\ ~rows[k.id].completed
            /\ rows[k.id].attempts <= MaxAttempts
        BY <1>1, HeldRow
      <3> QED
        BY <3>1, CompletedFacts DEF Released
    <2>2. rows' = [rows EXCEPT ![k.id] = Completed(rows[k.id])]
      BY <1>1 DEF Complete
    <2>3. rows \in [Ids -> Row]
      BY DEF IndInv, TypeOK
    <2> QED
      BY <2>1, <2>2, <2>3, DropStep DEF Complete, Working
  <1>2. CASE ~LockedBy(rows[k.id], k.token)
    BY <1>2, DropStep DEF Complete, Working, IndInv, TypeOK
  <1> QED
    BY <1>1, <1>2

LEMMA TerminateStep ==
    ASSUME IndInv, NEW c \in Consumers, NEW k \in con[c].held, Terminate(c, k) PROVE IndInv'
  <1>1. CASE LockedBy(rows[k.id], k.token)
    <2>1. Terminal(rows[k.id]) \in Row /\ Released(Terminal(rows[k.id]))
      BY <1>1, HeldRow, TerminalReleased
    <2>2. rows' = [rows EXCEPT ![k.id] = Terminal(rows[k.id])]
      BY <1>1 DEF Terminate
    <2>3. rows \in [Ids -> Row]
      BY DEF IndInv, TypeOK
    <2> QED
      BY <2>1, <2>2, <2>3, DropStep DEF Terminate, Working
  <1>2. CASE ~LockedBy(rows[k.id], k.token)
    BY <1>2, DropStep DEF Terminate, Working, IndInv, TypeOK
  <1> QED
    BY <1>1, <1>2

LEMMA FailWriteStep ==
    ASSUME IndInv, NEW c \in Consumers, NEW k \in con[c].held, FailWrite(c, k) PROVE IndInv'
  <1>0. k.seen \in Nat \ {0} /\ clock \in Nat /\ rows \in [Ids -> Row]
    BY DEF IndInv, TypeOK, Consumer, Claim, FailWrite
  <1>1. CASE LockedBy(rows[k.id], k.token)
    <2> DEFINE new == FailedAttempt(rows[k.id], k.seen, clock)
    <2>1. new \in Row /\ Released(new)
      <3>1. /\ rows[k.id] \in Row /\ rows[k.id].stage = "live"
            /\ ~rows[k.id].completed /\ rows[k.id].attempts <= MaxAttempts
        BY <1>1, HeldRow
      <3> DEFINE r == rows[k.id]
                 n == k.seen
      <3>2. r \in Row /\ n \in Nat \ {0} /\ clock \in Nat
        BY <1>0, <3>1
      <3> HIDE DEF r, n
      <3>3. FailedAttempt(r, n, clock) \in Row
        BY ONLY <3>2, FailedAttemptFacts
      <3>4. FailedAttempt(r, n, clock).locked_at = Nil
        BY ONLY <3>2, FailedAttemptFacts
      <3>5. FailedAttempt(r, n, clock).locked_by = Nil
        BY ONLY <3>2, FailedAttemptFacts
      <3>6. FailedAttempt(r, n, clock).attempts = r.attempts
        BY ONLY <3>2, FailedAttemptFacts
      <3>7. FailedAttempt(r, n, clock).stage = r.stage
        BY ONLY <3>2, FailedAttemptFacts
      <3>8. FailedAttempt(r, n, clock).completed = r.completed
        BY ONLY <3>2, FailedAttemptFacts
      <3> USE DEF r, n
      <3> QED
        BY ONLY <3>1, <3>3, <3>4, <3>5, <3>6, <3>7, <3>8 DEF Released
    <2>2. rows' = [rows EXCEPT ![k.id] = new]
      BY <1>1 DEF FailWrite
    <2> HIDE DEF new
    <2>3. /\ rows' \in [Ids -> Row]
          /\ \A i \in Ids : rows'[i] = rows[i] \/ Released(rows'[i])
      BY ONLY <1>0, <2>1, <2>2
    <2>4. Drop(c, k) /\ UNCHANGED <<clock, issued, crashes, revivals>>
      BY DEF FailWrite
    <2> QED
      BY <2>3, <2>4, DropStep
  <1>2. CASE ~LockedBy(rows[k.id], k.token)
    BY <1>0, <1>2, DropStep DEF FailWrite
  <1> QED
    BY <1>1, <1>2

(***************************************************************************)
(* The other three actions create or keep a lease.                          *)
(***************************************************************************)
LEMMA RenewStep ==
    ASSUME IndInv, NEW c \in Consumers, NEW k \in con[c].held, Renew(c, k) PROVE IndInv'
  <1> USE DEF IndInv
  <1>1. CASE LockedBy(rows[k.id], k.token) /\ ~rows[k.id].failed
    <2>1. /\ k.id \in Ids /\ rows[k.id] \in Row /\ clock \in Nat /\ clock # Nil
          /\ rows[k.id].stage = "live" /\ rows[k.id].locked_by # Nil
          /\ ~rows[k.id].completed
      BY <1>1, HeldRow DEF TypeOK, Nil
    <2>2. rows' = [rows EXCEPT ![k.id] = Renewed(rows[k.id], clock)] /\ UNCHANGED con
      BY <1>1 DEF Renew
    <2>3. \A i \in Ids : /\ rows'[i] \in Row
                         /\ rows'[i].locked_by = rows[i].locked_by
                         /\ rows'[i].attempts = rows[i].attempts
                         /\ rows'[i].stage = rows[i].stage
                         /\ rows'[i].failed = rows[i].failed
                         /\ rows'[i].completed = rows[i].completed
                         /\ i # k.id => rows'[i] = rows[i]
      BY <2>1, <2>2 DEF TypeOK, Renewed, Row
    <2>4. rows'[k.id].locked_at # Nil
      BY <2>1, <2>2 DEF TypeOK, Renewed, Row
    <2>5. TypeOK' /\ ReadingsPast'
      BY <2>2, <2>3 DEF Renew, TypeOK, ReadingsPast
    <2>6. TokensUnique' /\ FailReadStillTrue'
      BY <2>2, <2>3 DEF Renew, TokensUnique, FailReadStillTrue, LockedBy, TypeOK, Consumer, Claim
    <2>7. RowsCoherent' /\ OutcomesExclusive'
      BY <1>1, <2>1, <2>3, <2>4 DEF RowsCoherent, OutcomesExclusive
    <2> QED
      BY <2>5, <2>6, <2>7
  <1>2. CASE ~(LockedBy(rows[k.id], k.token) /\ ~rows[k.id].failed)
    BY <1>2, DropStep DEF Renew, TypeOK
  <1> QED
    BY <1>1, <1>2

LEMMA FailReadStep ==
    ASSUME IndInv, NEW c \in Consumers, NEW k \in con[c].held, FailRead(c, k) PROVE IndInv'
  <1> USE DEF IndInv
  <1>1. CASE LockedBy(rows[k.id], k.token)
    <2> DEFINE n == rows[k.id].attempts
               seen == [k EXCEPT !.seen = n]
    <2>1. n \in Nat \ {0} /\ k \in Claim
      BY <1>1, HeldRow DEF TypeOK, Consumer
    <2>2. seen \in Claim /\ seen.id = k.id /\ seen.token = k.token /\ seen.seen = n
      BY <2>1 DEF Claim
    <2>3. con' = [con EXCEPT ![c].held = (con[c].held \ {k}) \cup {seen}]
      BY <1>1 DEF FailRead
    <2> HIDE DEF seen
    <2>4. TypeOK' /\ ReadingsPast'
      BY <2>2, <2>3 DEF FailRead, TypeOK, Consumer, ReadingsPast
    <2>5. con'[c].held = (con[c].held \ {k}) \cup {seen}
      BY <2>3 DEF TypeOK, Consumer
    <2>6. \A d \in Consumers \ {c} : con'[d] = con[d]
      BY <2>3 DEF TypeOK
    <2>7. UNCHANGED <<rows, issued>>
      BY DEF FailRead
    <2>8. TokensUnique'
      <3>1. \A i \in Ids : rows'[i].locked_by <= issued'
        BY <2>7 DEF TokensUnique
      <3>2. ASSUME NEW d \in Consumers, NEW l \in con'[d].held
            PROVE  \E m \in con[d].held : m.token = l.token /\ m.id = l.id
        BY <3>2, <2>2, <2>5, <2>6
      <3>3. ASSUME NEW d \in Consumers, NEW l \in con'[d].held
            PROVE  /\ l.token # Nil /\ l.token <= issued'
                   /\ \A i \in Ids : rows'[i].locked_by = l.token => i = l.id
        BY <3>2, <3>3, <2>7 DEF TokensUnique
      <3>4. ASSUME NEW d \in Consumers, NEW l \in con'[d].held,
                   NEW e \in Consumers, NEW m \in con'[e].held, l.token = m.token
            PROVE  d = e /\ l = m
        <4>1. d = e
          BY <3>2, <3>4 DEF TokensUnique
        <4>2. CASE d # c
          BY <3>4, <4>1, <4>2, <2>6 DEF TokensUnique
        <4>3. CASE d = c
          BY <3>4, <4>1, <4>3, <2>2, <2>5 DEF TokensUnique
        <4> QED
          BY <4>1, <4>2, <4>3
      <3> QED
        BY <3>1, <3>3, <3>4 DEF TokensUnique
    <2>9. RowsCoherent' /\ OutcomesExclusive'
      BY <2>7 DEF RowsCoherent, OutcomesExclusive
    <2>10. FailReadStillTrue'
      BY <2>2, <2>5, <2>6, <2>7 DEF FailReadStillTrue
    <2> QED
      BY <2>4, <2>8, <2>9, <2>10
  <1>2. CASE ~LockedBy(rows[k.id], k.token)
    BY <1>2, DropStep DEF FailRead, TypeOK
  <1> QED
    BY <1>1, <1>2

LEMMA ClaimCandidateStep ==
    ASSUME IndInv, NEW c \in Consumers, ClaimCandidate(c) PROVE IndInv'
  <1> USE DEF IndInv
  <1> DEFINE i == Head(con[c].cands)
             at == con[c].at
             t == issued + 1
             k == [id |-> i, token |-> t, seen |-> 0]
  <1>1. /\ i \in Ids /\ Tail(con[c].cands) \in Seq(Ids)
        /\ at \in Nat /\ at # Nil /\ at <= clock
        /\ rows[i] \in Row
        /\ t \in Nat /\ t # Nil /\ t > issued
        /\ con[c] \in Consumer
        /\ UNCHANGED <<clock, crashes, revivals>>
    <2>1. con[c] \in Consumer /\ con[c].cands # <<>> /\ con[c].pc = "scan"
      BY DEF ClaimCandidate, TypeOK
    <2>2. i \in Ids /\ Tail(con[c].cands) \in Seq(Ids)
      BY <2>1 DEF Consumer
    <2>3. at \in Nat /\ at # Nil /\ at <= clock
      BY <2>1 DEF Consumer, ReadingsPast
    <2>4. t \in Nat /\ t # Nil /\ t > issued
      BY DEF TypeOK, Nil
    <2> QED
      BY <2>1, <2>2, <2>3, <2>4 DEF ClaimCandidate, TypeOK
  <1>2. CASE Eligible(rows[i], at)
    <2> DEFINE new == Claimed(rows[i], at, t)
    <2>1. /\ rows' = [rows EXCEPT ![i] = new]
          /\ con' = [con EXCEPT ![c].cands = Tail(con[c].cands),
                                ![c].held = con[c].held \cup {k}]
          /\ issued' = t
      BY <1>2 DEF ClaimCandidate
    <2>2. /\ new \in Row /\ new.locked_at = at /\ new.locked_by = t
          /\ new.attempts = rows[i].attempts + 1
          /\ new.stage = rows[i].stage
          /\ new.failed <=> rows[i].failed
          /\ new.completed <=> rows[i].completed
      <3>1. rows[i] \in Row /\ at \in Nat /\ t \in Nat
        BY <1>1
      <3> HIDE DEF i, at, t
      <3>2. new \in Row
        BY <3>1, ClaimedFacts
      <3>3. new.stage = rows[i].stage
        BY <3>1, ClaimedFacts
      <3>4. new.locked_at = at /\ new.locked_by = t
        BY <3>1, ClaimedFacts
      <3>5. new.attempts = rows[i].attempts + 1
        BY <3>1, ClaimedFacts
      <3>6. (new.failed <=> rows[i].failed) /\ (new.completed <=> rows[i].completed)
        BY <3>1, ClaimedFacts
      <3> QED
        BY <3>2, <3>3, <3>4, <3>5, <3>6
    <2>3. /\ rows[i].stage = "live" /\ ~rows[i].failed /\ ~rows[i].completed
          /\ rows[i].attempts < MaxAttempts
      BY <1>1, <1>2 DEF Eligible, AttemptsLeft, RowsCoherent
    <2>4. k \in Claim /\ k.id = i /\ k.token = t /\ k.seen = 0
      BY <1>1 DEF Claim
    <2> HIDE DEF new, k, i, at, t
    <2>5. /\ rows'[i] = new
          /\ \A j \in Ids \ {i} : rows'[j] = rows[j]
      BY <1>1, <2>1 DEF TypeOK
    <2>6. /\ con'[c].held = con[c].held \cup {k}
          /\ con'[c].at = con[c].at /\ con'[c].pc = con[c].pc
          /\ \A d \in Consumers \ {c} : con'[d] = con[d]
      BY <2>1 DEF TypeOK, Consumer
    <2>7. TypeOK'
      <3>1. rows' \in [Ids -> Row]
        BY <2>1, <2>2 DEF TypeOK
      <3>2. con' \in [Consumers -> Consumer]
        BY <1>1, <2>1, <2>4 DEF TypeOK, Consumer
      <3> QED
        BY <1>1, <2>1, <3>1, <3>2 DEF TypeOK
    <2>8. ReadingsPast'
      BY <1>1, <2>6 DEF ReadingsPast
    <2>9. RowsCoherent' /\ OutcomesExclusive'
      <3>1. new.attempts <= MaxAttempts /\ new.attempts >= 1
        BY <1>1, <2>2, <2>3, QueueAssumption DEF Row
      <3>2. RowsCoherent'
        BY <1>1, <2>2, <2>3, <2>5, <3>1 DEF RowsCoherent
      <3>3. OutcomesExclusive'
        BY <2>2, <2>3, <2>5 DEF OutcomesExclusive
      <3> QED
        BY <3>2, <3>3
    <2>10. TokensUnique'
      <3>1. ASSUME NEW j \in Ids PROVE rows'[j].locked_by <= issued'
        <4>1. rows[j].locked_by \in Nat /\ rows[j].locked_by <= issued /\ issued \in Nat
          BY DEF TokensUnique, TypeOK, Row
        <4>2. CASE j = i
          BY <4>2, <1>1, <2>1, <2>2, <2>5
        <4>3. CASE j # i
          BY <4>1, <4>3, <1>1, <2>1, <2>5
        <4> QED
          BY <4>2, <4>3
      <3>2. ASSUME NEW d \in Consumers, NEW l \in con'[d].held
            PROVE  \/ d = c /\ l = k
                   \/ l \in con[d].held /\ l.token <= issued /\ l.token # t
        <4>1. l \in con[d].held \/ (d = c /\ l = k)
          BY <3>2, <2>6
        <4>2. ASSUME l \in con[d].held PROVE l.token <= issued /\ l.token # t
          <5>1. l.token <= issued /\ l.token \in Nat
            BY <4>2 DEF TokensUnique, TypeOK, Consumer, Claim
          <5> QED
            BY <5>1, <1>1 DEF TypeOK
        <4> QED
          BY <4>1, <4>2
      <3>3. ASSUME NEW d \in Consumers, NEW l \in con'[d].held
            PROVE  l.token # Nil /\ l.token <= issued'
        <4>1. CASE d = c /\ l = k
          BY <4>1, <1>1, <2>1, <2>4
        <4>2. CASE l \in con[d].held
          BY <4>2, <1>1, <2>1 DEF TokensUnique, TypeOK, Consumer, Claim
        <4> QED
          BY <3>2, <4>1, <4>2
      <3>4. ASSUME NEW d \in Consumers, NEW l \in con'[d].held, NEW j \in Ids,
                   rows'[j].locked_by = l.token
            PROVE  j = l.id
        <4>1. CASE j = i
          BY <3>2, <3>4, <4>1, <2>2, <2>4, <2>5
        <4>2. CASE j # i
          <5>1. rows[j].locked_by <= issued /\ rows[j].locked_by = l.token
            BY <3>4, <4>2, <2>5 DEF TokensUnique
          <5>2. l \in con[d].held
            BY <3>2, <5>1, <1>1, <2>4 DEF TypeOK
          <5> QED
            BY <5>1, <5>2 DEF TokensUnique
        <4> QED
          BY <4>1, <4>2
      <3>5. ASSUME NEW d \in Consumers, NEW l \in con'[d].held,
                   NEW e \in Consumers, NEW m \in con'[e].held, l.token = m.token
            PROVE  d = e /\ l = m
        BY <3>2, <3>5, <2>4 DEF TokensUnique
      <3> QED
        BY <3>1, <3>3, <3>4, <3>5 DEF TokensUnique
    <2>11. FailReadStillTrue'
      <3> SUFFICES ASSUME NEW d \in Consumers, NEW l \in con'[d].held,
                          l.seen # 0, LockedBy(rows'[l.id], l.token)
                   PROVE  l.seen = rows'[l.id].attempts
        BY DEF FailReadStillTrue
      <3>0. l \in con[d].held
        BY <2>4, <2>6
      <3>1. l \in con[d].held /\ l.id \in Ids /\ l.token <= issued /\ l.token \in Nat
        BY <3>0 DEF TokensUnique, TypeOK, Consumer, Claim
      <3>2. l.id # i
        BY <3>1, <1>1, <2>2, <2>5 DEF LockedBy, TypeOK
      <3> QED
        BY <3>1, <3>2, <2>5 DEF FailReadStillTrue
    <2> QED
      BY <2>7, <2>8, <2>9, <2>10, <2>11
  <1>3. CASE ~Eligible(rows[i], at)
    <2>1. /\ con' = [con EXCEPT ![c].cands = Tail(con[c].cands)]
          /\ UNCHANGED <<rows, issued>>
      BY <1>3 DEF ClaimCandidate
    <2>2. TypeOK' /\ ReadingsPast'
      BY <1>1, <2>1 DEF TypeOK, Consumer, ReadingsPast
    <2>3. \A d \in Consumers : con'[d].held \subseteq con[d].held
      BY <2>1 DEF TypeOK, Consumer
    <2> QED
      BY <2>1, <2>2, <2>3, ReleaseKeepsIndInv
  <1> QED
    BY <1>2, <1>3

LEMMA StepHolds == IndInv /\ [Next]_vars => IndInv'
  <1> SUFFICES ASSUME IndInv, [Next]_vars PROVE IndInv'
    OBVIOUS
  <1>1. ASSUME NEW i \in Ids, Insert(i) \/ RetryFailed(i) PROVE IndInv'
    BY <1>1, InsertStep, RetryFailedStep
  <1>2. ASSUME NEW c \in Consumers, Scan(c) PROVE IndInv'
    BY <1>2, StartClaimStep, SelectCandidatesStep, ClaimCandidateStep, ReturnClaimsStep DEF Scan
  <1>3. ASSUME NEW c \in Consumers, Crash(c) PROVE IndInv'
    BY <1>3, CrashStep
  <1>4. ASSUME NEW c \in Consumers, NEW k \in con[c].held, Renew(c, k) \/ Settle(c, k)
        PROVE  IndInv'
    BY <1>4, RenewStep, CompleteStep, TerminateStep, FailReadStep, FailWriteStep DEF Settle
  <1>5. CASE Tick
    BY <1>5, TickStep
  <1>6. CASE UNCHANGED vars
    <2>1. TypeOK' /\ ReadingsPast'
      BY <1>6 DEF vars, IndInv, TypeOK, ReadingsPast
    <2> QED
      BY <1>6, <2>1, ReleaseKeepsIndInv DEF vars
  <1> QED
    BY <1>1, <1>2, <1>3, <1>4, <1>5, <1>6 DEF Next

----------------------------------------------------------------------------
(* The theorems                                                             *)

THEOREM InductiveInvariant == Spec => []IndInv
  BY InitHolds, StepHolds, PTL DEF Spec

(***************************************************************************)
(* Rows, claims and counters keep their shape, for any table and any number *)
(* of consumers.                                                            *)
(***************************************************************************)
THEOREM TypeCorrect == Spec => []TypeOK
  <1>1. IndInv => TypeOK
    BY DEF IndInv
  <1> QED
    BY <1>1, InductiveInvariant, PTL

(***************************************************************************)
(* claim_many never hands the lease a row carries to two consumers.         *)
(***************************************************************************)
THEOREM LeaseExclusion == Spec => []OneLeaseHolder
  <1>1. IndInv => OneLeaseHolder
    BY DEF IndInv, OneLeaseHolder, TokensUnique, LockedBy
  <1> QED
    BY <1>1, InductiveInvariant, PTL

(***************************************************************************)
(* complete, fail_claim, terminate_claim, the expiry pass and retry_failed  *)
(* together never leave a row in two outcomes, or in one with a lease.      *)
(***************************************************************************)
THEOREM OneOutcome == Spec => []OutcomesExclusive
  <1>1. IndInv => OutcomesExclusive
    BY DEF IndInv
  <1> QED
    BY <1>1, InductiveInvariant, PTL

(***************************************************************************)
(* fail_claim's UPDATE acts on what its SELECT read.                        *)
(***************************************************************************)
THEOREM FailClaimAtomic == Spec => []FailReadStillTrue
  <1>1. IndInv => FailReadStillTrue
    BY DEF IndInv
  <1> QED
    BY <1>1, InductiveInvariant, PTL

----------------------------------------------------------------------------
(* No lease is stolen                                                       *)

\* How the lease of row i may end in a step.
EndsRightly(i) ==
    \/ LeaseOver(rows[i], clock)
    \/ \E c \in Consumers : \E k \in con[c].held :
          k.id = i /\ k.token = rows[i].locked_by /\ k \notin con'[c].held

Theft(i) ==
    /\ rows[i].locked_by # Nil /\ rows'[i].locked_by # rows[i].locked_by
    /\ ~EndsRightly(i)

\* An old clock reading sees no lease as lapsed that is not.
LEMMA OldReadingIsPatient ==
    ASSUME NEW r \in Row, NEW a \in Nat, NEW b \in Nat, a <= b, LeaseOver(r, a)
    PROVE  LeaseOver(r, b)
  BY QueueAssumption DEF LeaseOver, Row

\* The settling UPDATEs change no row but the one whose lease they hold.
LEMMA SettleIsNoTheft ==
    ASSUME IndInv, NEW c \in Consumers, NEW k \in con[c].held, Settle(c, k),
           NEW i \in Ids, Theft(i)
    PROVE  FALSE
  <1>0. k.id \in Ids /\ rows \in [Ids -> Row] /\ con \in [Consumers -> Consumer]
    BY DEF IndInv, TypeOK, Consumer, Claim
  <1>1. CASE FailRead(c, k)
    BY <1>1 DEF FailRead, Theft
  <1>2. CASE Complete(c, k) \/ Terminate(c, k) \/ FailWrite(c, k)
    <2>1. Drop(c, k)
      BY <1>2 DEF Complete, Terminate, FailWrite
    <2>2. k \notin con'[c].held
      BY <1>0, <2>1 DEF Drop, Consumer
    <2>3. \/ rows' = rows
          \/ /\ LockedBy(rows[k.id], k.token)
             /\ \A j \in Ids \ {k.id} : rows'[j] = rows[j]
      BY <1>0, <1>2 DEF Complete, Terminate, FailWrite
    <2>4. k.id = i /\ k.token = rows[i].locked_by
      BY <2>3 DEF Theft, LockedBy
    <2> QED
      BY <2>2, <2>4 DEF Theft, EndsRightly
  <1> QED
    BY <1>1, <1>2 DEF Settle

LEMMA NoTheft == IndInv /\ [Next]_vars => \A i \in Ids : ~Theft(i)
  <1> SUFFICES ASSUME IndInv, [Next]_vars, NEW i \in Ids, Theft(i) PROVE FALSE
    OBVIOUS
  <1>0. rows \in [Ids -> Row] /\ rows[i] \in Row /\ clock \in Nat
    BY DEF IndInv, TypeOK
  <1>1. ASSUME NEW j \in Ids, Insert(j) \/ RetryFailed(j) PROVE FALSE
    <2>1. i = j
      BY <1>0, <1>1 DEF Insert, RetryFailed, Theft
    <2>2. rows[i].locked_by = Nil
      BY <1>1, <2>1 DEF Insert, RetryFailed, IndInv, OutcomesExclusive
    <2> QED
      BY <2>2 DEF Theft
  <1>2. ASSUME NEW c \in Consumers, Scan(c) PROVE FALSE
    <2>1. CASE StartClaim(c)
      <3>1. Exhausted(rows[i], clock)
        BY <2>1 DEF StartClaim, Theft
      <3> QED
        BY <3>1 DEF Exhausted, Theft, EndsRightly
    <2>2. CASE SelectCandidates(c) \/ ReturnClaims(c)
      BY <2>2 DEF SelectCandidates, ReturnClaims, Theft
    <2>3. CASE ClaimCandidate(c)
      <3> DEFINE at == con[c].at
      <3>1. Head(con[c].cands) = i /\ Eligible(rows[i], at)
        BY <1>0, <2>3 DEF ClaimCandidate, Theft
      <3>2. at \in Nat /\ at <= clock
        BY DEF IndInv, TypeOK, Consumer, ReadingsPast
      <3>3. rows[i].locked_at # Nil
        BY DEF IndInv, RowsCoherent, Theft
      <3>4. LeaseOver(rows[i], at)
        BY <3>1, <3>3 DEF Eligible, Unlocked
      <3>5. LeaseOver(rows[i], clock)
        <4> HIDE DEF at
        <4> QED
          BY <1>0, <3>2, <3>4, OldReadingIsPatient
      <3> QED
        BY <3>5 DEF Theft, EndsRightly
    <2> QED
      BY <1>2, <2>1, <2>2, <2>3 DEF Scan
  <1>3. ASSUME NEW c \in Consumers, Crash(c) PROVE FALSE
    BY <1>3 DEF Crash, Theft
  <1>4. ASSUME NEW c \in Consumers, NEW k \in con[c].held, Renew(c, k) PROVE FALSE
    <2>1. \A j \in Ids : rows'[j].locked_by = rows[j].locked_by
      BY <1>0, <1>4 DEF Renew, Renewed, Row
    <2> QED
      BY <2>1 DEF Theft
  <1>5. ASSUME NEW c \in Consumers, NEW k \in con[c].held, Settle(c, k) PROVE FALSE
    BY <1>5, SettleIsNoTheft
  <1>6. CASE Tick \/ UNCHANGED vars
    BY <1>6 DEF Tick, vars, Theft
  <1> QED
    BY <1>1, <1>2, <1>3, <1>4, <1>5, <1>6 DEF Next

(***************************************************************************)
(* A lease ends by its holder or by lapsing, however stale the clock        *)
(* readings and answers of the other consumers are.                         *)
(***************************************************************************)
THEOREM LeaseSafety == Spec => NoStolenLease
  <1>1. IndInv /\ [Next]_vars =>
          [\A i \in Ids :
             (rows[i].locked_by # Nil /\ rows'[i].locked_by # rows[i].locked_by)
                => \/ LeaseOver(rows[i], clock)
                   \/ \E c \in Consumers : \E k \in con[c].held :
                         /\ k.id = i /\ k.token = rows[i].locked_by
                         /\ k \notin con'[c].held]_vars
    BY NoTheft DEF Theft, EndsRightly
  <1> QED
    BY <1>1, InductiveInvariant, PTL DEF Spec, NoStolenLease

----------------------------------------------------------------------------
(* DurableQueue implements LeasedWork                                       *)

\* Promise's item, as the mapping gives it.
Image(r) == [status |-> Status(r), holder |-> r.locked_by, starts |-> r.attempts]

Item == [i \in Ids |-> Image(rows[i])]

LEMMA InitRefines == Init => Promise!WorkInit
  BY DEF Init, Promise!WorkInit, Status, NewRow, Promise!Nobody, Nil

\* What each status says of a row.
LEMMA StatusOf ==
    ASSUME NEW r \in Row
    PROVE  /\ (r.stage = "new" /\ ~r.completed) => Status(r) = "absent"
           /\ (r.stage # "new" /\ (r.stage = "gone" \/ r.completed)) => Status(r) = "done"
           /\ (r.stage = "live" /\ ~r.completed /\ r.failed) => Status(r) = "dead"
           /\ (r.stage = "live" /\ ~r.completed /\ ~r.failed /\ r.locked_by = Nil) =>
                 Status(r) = "ready"
           /\ (r.stage = "live" /\ ~r.completed /\ ~r.failed /\ r.locked_by # Nil) =>
                 Status(r) = "held"
  <1>1. r.stage \in Stages
    BY DEF Row
  <1>2. (r.stage = "new" /\ ~r.completed) => Status(r) = "absent"
    BY DEF Status
  <1>3. (r.stage # "new" /\ (r.stage = "gone" \/ r.completed)) => Status(r) = "done"
    BY DEF Status
  <1>4. (r.stage = "live" /\ ~r.completed /\ r.failed) => Status(r) = "dead"
    BY DEF Status
  <1>5. (r.stage = "live" /\ ~r.completed /\ ~r.failed /\ r.locked_by = Nil) =>
                 Status(r) = "ready"
    BY DEF Status
  <1>6. (r.stage = "live" /\ ~r.completed /\ ~r.failed /\ r.locked_by # Nil) =>
                 Status(r) = "held"
    BY DEF Status
  <1> QED
    BY <1>2, <1>3, <1>4, <1>5, <1>6

\* A row whose lease is held is held work, with an attempt used.
LEMMA LockedIsHeld ==
    ASSUME IndInv, NEW i \in Ids, rows[i].locked_by # Nil
    PROVE  /\ rows[i] \in Row /\ rows[i].stage = "live"
           /\ ~rows[i].completed /\ ~rows[i].failed
           /\ Status(rows[i]) = "held"
  <1>1. rows[i] \in Row
    BY DEF IndInv, TypeOK
  <1>2. rows[i].stage = "live" /\ ~rows[i].completed /\ ~rows[i].failed
    BY DEF IndInv, OutcomesExclusive
  <1> QED
    BY <1>1, <1>2, StatusOf

\* A step that changes row i alone changes the item of row i alone.
LEMMA OneRow ==
    ASSUME NEW i \in Ids, \A j \in Ids \ {i} : rows'[j] = rows[j]
    PROVE  Item' = [Item EXCEPT ![i] = Image(rows'[i])]
  BY DEF Item, Image

\* The abstract step, or a stutter.
Refines == Promise!WorkNext \/ (Item' = Item /\ issued' = issued)

\* The abstract actions on the work of one row, in terms of the row.
LEMMA PutByRow ==
    ASSUME NEW i \in Ids, \A j \in Ids \ {i} : rows'[j] = rows[j], issued' = issued,
           Status(rows[i]) = "absent", Status(rows'[i]) = "ready",
           rows'[i].locked_by = rows[i].locked_by, rows'[i].attempts = rows[i].attempts
    PROVE  Promise!WorkNext
  <1>1. Image(rows'[i]) = [Image(rows[i]) EXCEPT !.status = "ready"]
    BY DEF Image
  <1>2. Item' = [Item EXCEPT ![i].status = "ready"]
    BY <1>1, OneRow DEF Item
  <1>3. Promise!Put(i)
    BY <1>2 DEF Promise!Put, Item, Image
  <1> QED
    BY <1>3 DEF Promise!WorkNext

LEMMA GrantByRow ==
    ASSUME NEW i \in Ids, \A j \in Ids \ {i} : rows'[j] = rows[j], issued' = issued + 1,
           Status(rows[i]) \in {"ready", "held"}, Status(rows'[i]) = "held",
           rows[i].attempts < MaxAttempts,
           rows'[i].locked_by = issued + 1, rows'[i].attempts = rows[i].attempts + 1
    PROVE  Promise!WorkNext
  <1>1. Image(rows'[i]) = [status |-> "held", holder |-> issued + 1,
                           starts |-> rows[i].attempts + 1]
    BY DEF Image
  <1>2. Item' = [Item EXCEPT ![i] = [status |-> "held", holder |-> issued + 1,
                                     starts |-> Item[i].starts + 1]]
    BY <1>1, OneRow DEF Item, Image
  <1>3. Promise!Grant(i)
    BY <1>2 DEF Promise!Grant, Item, Image
  <1> QED
    BY <1>3 DEF Promise!WorkNext

LEMMA GiveBackByRow ==
    ASSUME NEW i \in Ids, \A j \in Ids \ {i} : rows'[j] = rows[j], issued' = issued,
           Status(rows[i]) = "held", Status(rows'[i]) = "ready",
           rows[i].attempts < MaxAttempts,
           rows'[i].locked_by = Nil, rows'[i].attempts = rows[i].attempts
    PROVE  Promise!WorkNext
  <1>1. Image(rows'[i]) = [status |-> "ready", holder |-> Nil, starts |-> rows[i].attempts]
    BY DEF Image
  <1>2. Item' = [Item EXCEPT ![i] = [status |-> "ready", holder |-> Nil,
                                     starts |-> Item[i].starts]]
    BY <1>1, OneRow DEF Item, Image
  <1>3. Promise!GiveBack(i)
    BY <1>2 DEF Promise!GiveBack, Promise!Nobody, Nil, Item, Image
  <1> QED
    BY <1>3 DEF Promise!WorkNext

LEMMA FinishByRow ==
    ASSUME NEW i \in Ids, \A j \in Ids \ {i} : rows'[j] = rows[j], issued' = issued,
           Status(rows[i]) = "held", Status(rows'[i]) = "done",
           rows'[i].locked_by = Nil, rows'[i].attempts = rows[i].attempts
    PROVE  Promise!WorkNext
  <1>1. Image(rows'[i]) = [status |-> "done", holder |-> Nil, starts |-> rows[i].attempts]
    BY DEF Image
  <1>2. Item' = [Item EXCEPT ![i] = [status |-> "done", holder |-> Nil,
                                     starts |-> Item[i].starts]]
    BY <1>1, OneRow DEF Item, Image
  <1>3. Promise!Finish(i)
    BY <1>2 DEF Promise!Finish, Promise!Nobody, Nil, Item, Image
  <1> QED
    BY <1>3 DEF Promise!WorkNext

LEMMA ReviveByRow ==
    ASSUME NEW i \in Ids, \A j \in Ids \ {i} : rows'[j] = rows[j], issued' = issued,
           Status(rows[i]) = "dead", Status(rows'[i]) = "ready",
           rows'[i].locked_by = Nil, rows'[i].attempts = 0
    PROVE  Promise!WorkNext
  <1>1. Image(rows'[i]) = [status |-> "ready", holder |-> Nil, starts |-> 0]
    BY DEF Image
  <1>2. Item' = [Item EXCEPT ![i] = [status |-> "ready", holder |-> Nil, starts |-> 0]]
    BY <1>1, OneRow DEF Item
  <1>3. Promise!Revive(i)
    BY <1>2 DEF Promise!Revive, Promise!Nobody, Nil, Item, Image
  <1> QED
    BY <1>3 DEF Promise!WorkNext

LEMMA BuryByRows ==
    ASSUME NEW S \in SUBSET Ids, issued' = issued,
           \A j \in Ids \ S : rows'[j] = rows[j],
           \A i \in S : /\ Status(rows[i]) = "held" /\ Status(rows'[i]) = "dead"
                        /\ rows'[i].locked_by = Nil /\ rows'[i].attempts = rows[i].attempts
    PROVE  Promise!WorkNext
  <1>1. Item' = [w \in Ids |-> IF w \in S
                               THEN [status |-> "dead", holder |-> Nil,
                                     starts |-> Item[w].starts]
                               ELSE Item[w]]
    BY DEF Item, Image
  <1>2. Promise!Bury(S)
    BY <1>1 DEF Promise!Bury, Promise!Nobody, Nil, Item, Image
  <1> QED
    BY <1>2 DEF Promise!WorkNext

----------------------------------------------------------------------------
(* The steps of the queue                                                   *)

LEMMA InsertRefines == ASSUME IndInv, NEW i \in Ids, Insert(i) PROVE Promise!WorkNext
  <1>1. PICK d \in Schedules : rows' = [rows EXCEPT ![i] = Inserted(clock + d)]
    BY DEF Insert
  <1>2. clock + d \in Nat /\ rows[i] = NewRow /\ issued' = issued
    BY ConsumerAssumption DEF Insert, IndInv, TypeOK, RowsCoherent
  <1>3. rows'[i] = Inserted(clock + d) /\ \A j \in Ids \ {i} : rows'[j] = rows[j]
    BY <1>1 DEF IndInv, TypeOK
  <1>4. /\ rows[i].stage = "new" /\ ~rows[i].completed
        /\ rows[i].locked_by = Nil /\ rows[i].attempts = 0
    BY <1>2 DEF NewRow
  <1>5. rows[i] \in Row
    BY DEF IndInv, TypeOK
  <1>6. Status(rows[i]) = "absent"
    BY <1>4, <1>5, StatusOf
  <1>7. rows'[i].locked_by = Nil /\ rows'[i].attempts = 0
    BY <1>2, <1>3, InsertedFacts
  <1>8. Status(rows'[i]) = "ready"
    BY <1>2, <1>3, StatusOf, InsertedFacts
  <1> QED
    BY <1>2, <1>3, <1>4, <1>6, <1>7, <1>8, PutByRow

\* What Terminal makes of a leased row.
LEMMA TerminalIsDead ==
    ASSUME IndInv, NEW i \in Ids, rows[i].locked_by # Nil
    PROVE  /\ Status(Terminal(rows[i])) = "dead"
           /\ Terminal(rows[i]).locked_by = Nil
           /\ Terminal(rows[i]).attempts = rows[i].attempts
  <1>1. rows[i] \in Row /\ rows[i].stage = "live" /\ ~rows[i].completed
    BY LockedIsHeld
  <1> QED
    BY <1>1, TerminalFacts, StatusOf

LEMMA StartClaimRefines ==
    ASSUME IndInv, NEW c \in Consumers, StartClaim(c) PROVE Promise!WorkNext
  <1> DEFINE S == {i \in Ids : Exhausted(rows[i], clock)}
  <1>1. S \in SUBSET Ids /\ issued' = issued
    BY DEF StartClaim
  <1>2. \A j \in Ids \ S : rows'[j] = rows[j]
    BY DEF StartClaim
  <1>3. ASSUME NEW i \in S
        PROVE  /\ Status(rows[i]) = "held" /\ Status(rows'[i]) = "dead"
               /\ rows'[i].locked_by = Nil /\ rows'[i].attempts = rows[i].attempts
    <2>1. rows[i].locked_by # Nil
      BY DEF Exhausted, LeaseOver, IndInv, RowsCoherent
    <2>2. rows'[i] = Terminal(rows[i])
      BY DEF StartClaim
    <2> QED
      BY <2>1, <2>2, LockedIsHeld, TerminalIsDead
  <1> HIDE DEF S
  <1> QED
    BY <1>1, <1>2, <1>3, BuryByRows

LEMMA ClaimCandidateRefines ==
    ASSUME IndInv, NEW c \in Consumers, ClaimCandidate(c) PROVE Refines
  <1> DEFINE i == Head(con[c].cands)
             at == con[c].at
             t == issued + 1
             new == Claimed(rows[i], at, t)
  <1>1. /\ i \in Ids /\ rows[i] \in Row /\ at \in Nat /\ t \in Nat /\ t # Nil
    BY DEF ClaimCandidate, IndInv, TypeOK, Consumer, Nil
  <1>2. CASE Eligible(rows[i], at)
    <2>1. rows' = [rows EXCEPT ![i] = new] /\ issued' = t
      BY <1>2 DEF ClaimCandidate
    <2>2. /\ rows[i].stage = "live" /\ ~rows[i].failed /\ ~rows[i].completed
          /\ rows[i].attempts < MaxAttempts
      BY <1>1, <1>2 DEF Eligible, AttemptsLeft, IndInv, RowsCoherent
    <2> HIDE DEF i, at, t
    <2>3. new.locked_by = t /\ new.attempts = rows[i].attempts + 1
      <3>1. new.locked_by = t
        BY <1>1, ClaimedFacts
      <3>2. new.attempts = rows[i].attempts + 1
        BY <1>1, ClaimedFacts
      <3> QED
        BY <3>1, <3>2
    <2>4. new \in Row /\ new.stage = "live"
      BY <1>1, <2>2, ClaimedFacts
    <2>5. ~new.failed /\ ~new.completed
      <3>1. new.failed = rows[i].failed /\ new.completed = rows[i].completed
        BY <1>1, ClaimedFacts
      <3> QED
        BY <2>2, <3>1
    <2>6. new.locked_by # Nil
      BY <1>1, <2>3
    <2> HIDE DEF new
    <2>7. Status(new) = "held"
      BY <2>4, <2>5, <2>6, StatusOf
    <2>8. Status(rows[i]) \in {"ready", "held"}
      BY <1>1, <2>2, StatusOf
    <2>9. rows'[i] = new /\ \A j \in Ids \ {i} : rows'[j] = rows[j]
      BY <1>1, <2>1 DEF IndInv, TypeOK
    <2> QED
      BY <1>1, <2>1, <2>2, <2>3, <2>7, <2>8, <2>9, GrantByRow DEF Refines, t
  <1>3. CASE ~Eligible(rows[i], at)
    BY <1>3 DEF ClaimCandidate, Refines, Item
  <1> QED
    BY <1>2, <1>3

LEMMA CompleteRefines ==
    ASSUME IndInv, NEW c \in Consumers, NEW k \in con[c].held, Complete(c, k)
    PROVE  Refines
  <1>1. k.id \in Ids /\ k.token # Nil /\ rows \in [Ids -> Row]
    BY DEF IndInv, TypeOK, Consumer, Claim, TokensUnique
  <1>2. CASE LockedBy(rows[k.id], k.token)
    <2> DEFINE i == k.id
    <2>1. rows'[i] = Completed(rows[i]) /\ \A j \in Ids \ {i} : rows'[j] = rows[j]
      BY <1>1, <1>2 DEF Complete
    <2>2. rows[i].locked_by # Nil /\ i \in Ids /\ issued' = issued
      BY <1>1, <1>2 DEF LockedBy, Complete
    <2> HIDE DEF i
    <2>3. /\ rows[i] \in Row /\ rows[i].stage = "live" /\ Status(rows[i]) = "held"
      BY <2>2, LockedIsHeld
    <2>4. /\ rows'[i] \in Row
          /\ rows'[i].locked_by = Nil /\ rows'[i].attempts = rows[i].attempts
      BY <2>1, <2>3, CompletedFacts
    <2>5. rows'[i].stage = "gone" \/ (rows'[i].stage = "live" /\ rows'[i].completed)
      BY <2>1, <2>3, CompletedFacts
    <2>6. Status(rows'[i]) = "done"
      BY <2>4, <2>5, StatusOf
    <2> QED
      BY <2>1, <2>2, <2>3, <2>4, <2>6, FinishByRow DEF Refines
  <1>3. CASE ~LockedBy(rows[k.id], k.token)
    BY <1>3 DEF Complete, Refines, Item
  <1> QED
    BY <1>2, <1>3

LEMMA TerminateRefines ==
    ASSUME IndInv, NEW c \in Consumers, NEW k \in con[c].held, Terminate(c, k)
    PROVE  Refines
  <1>1. k.id \in Ids /\ k.token # Nil /\ rows \in [Ids -> Row]
    BY DEF IndInv, TypeOK, Consumer, Claim, TokensUnique
  <1>2. CASE LockedBy(rows[k.id], k.token)
    <2>1. rows'[k.id] = Terminal(rows[k.id])
      BY <1>1, <1>2 DEF Terminate
    <2>2. \A j \in Ids \ {k.id} : rows'[j] = rows[j]
      BY <1>1, <1>2 DEF Terminate
    <2>3. rows[k.id].locked_by # Nil /\ issued' = issued
      BY <1>1, <1>2 DEF LockedBy, Terminate
    <2>4. Status(rows[k.id]) = "held"
      BY <1>1, <2>3, LockedIsHeld
    <2>5. /\ Status(rows'[k.id]) = "dead" /\ rows'[k.id].locked_by = Nil
          /\ rows'[k.id].attempts = rows[k.id].attempts
      BY <1>1, <2>1, <2>3, TerminalIsDead
    <2>6. {k.id} \in SUBSET Ids
      BY <1>1
    <2> QED
      BY <2>2, <2>3, <2>4, <2>5, <2>6, BuryByRows DEF Refines
  <1>3. CASE ~LockedBy(rows[k.id], k.token)
    BY <1>3 DEF Terminate, Refines, Item
  <1> QED
    BY <1>2, <1>3

\* The guarded UPDATE of fail_claim gives work back only if a grant is left,
\* because what it read of the attempts still is so.
LEMMA FailWriteRefines ==
    ASSUME IndInv, NEW c \in Consumers, NEW k \in con[c].held, FailWrite(c, k)
    PROVE  Refines
  <1>1. /\ k.id \in Ids /\ k.token # Nil /\ rows \in [Ids -> Row]
        /\ k.seen \in Nat \ {0} /\ clock \in Nat
    BY DEF IndInv, TypeOK, Consumer, Claim, TokensUnique, FailWrite
  <1>2. CASE LockedBy(rows[k.id], k.token)
    <2>1. rows'[k.id] = FailedAttempt(rows[k.id], k.seen, clock)
      BY <1>1, <1>2 DEF FailWrite
    <2>2. \A j \in Ids \ {k.id} : rows'[j] = rows[j]
      BY <1>1, <1>2 DEF FailWrite
    <2>3. rows[k.id].locked_by # Nil /\ issued' = issued
      BY <1>1, <1>2 DEF LockedBy, FailWrite
    <2>4. k.seen = rows[k.id].attempts
      BY <1>1, <1>2 DEF IndInv, FailReadStillTrue
    <2>5. /\ rows[k.id] \in Row /\ rows[k.id].stage = "live"
          /\ ~rows[k.id].completed /\ ~rows[k.id].failed
          /\ Status(rows[k.id]) = "held"
      BY <1>1, <2>3, LockedIsHeld
    <2>6. CASE k.seen >= MaxAttempts
      <3>1. rows'[k.id] = Terminal(rows[k.id])
        BY <2>1, <2>6 DEF FailedAttempt
      <3>2. /\ Status(rows'[k.id]) = "dead" /\ rows'[k.id].locked_by = Nil
            /\ rows'[k.id].attempts = rows[k.id].attempts
        BY <1>1, <2>3, <3>1, TerminalIsDead
      <3>3. {k.id} \in SUBSET Ids
        BY <1>1
      <3> QED
        BY <2>2, <2>3, <2>5, <3>2, <3>3, BuryByRows DEF Refines
    <2>7. CASE ~(k.seen >= MaxAttempts)
      <3>1. rows[k.id].attempts < MaxAttempts
        BY <1>1, <2>4, <2>7, QueueAssumption
      <3> DEFINE r == rows[k.id]
                 s == FailedAttempt(r, k.seen, clock)
      <3>0. r \in Row /\ ~r.completed /\ ~r.failed
        BY <2>5
      <3> HIDE DEF r
      <3>2. /\ s \in Row
            /\ s.locked_by = Nil
            /\ s.attempts = r.attempts
            /\ s.stage = r.stage
        BY <1>1, <3>0, FailedAttemptFacts
      <3>3. ~s.completed /\ ~s.failed
        <4>1. s.completed = r.completed /\ s.failed = r.failed
          BY <1>1, <2>7, <3>0, FailedAttemptFacts
        <4> QED
          BY <3>0, <4>1
      <3> HIDE DEF s
      <3>5. rows'[k.id] = s
        BY <2>1 DEF r, s
      <3>4. Status(s) = "ready"
        BY <2>5, <3>2, <3>3, StatusOf DEF r
      <3> QED
        BY <1>1, <2>2, <2>3, <2>5, <3>1, <3>2, <3>4, <3>5, GiveBackByRow DEF Refines, r
    <2> QED
      BY <2>6, <2>7
  <1>3. CASE ~LockedBy(rows[k.id], k.token)
    BY <1>3 DEF FailWrite, Refines, Item
  <1> QED
    BY <1>2, <1>3

LEMMA RenewRefines ==
    ASSUME IndInv, NEW c \in Consumers, NEW k \in con[c].held, Renew(c, k)
    PROVE  Refines
  <1>1. \A i \in Ids : /\ rows'[i].stage = rows[i].stage
                       /\ rows'[i].locked_by = rows[i].locked_by
                       /\ rows'[i].attempts = rows[i].attempts
                       /\ rows'[i].failed = rows[i].failed
                       /\ rows'[i].completed = rows[i].completed
    BY DEF Renew, Renewed, IndInv, TypeOK, Row
  <1>2. \A i \in Ids : Image(rows'[i]) = Image(rows[i])
    BY <1>1 DEF Image, Status
  <1> QED
    BY <1>2 DEF Renew, Refines, Item

LEMMA RetryFailedRefines ==
    ASSUME IndInv, NEW i \in Ids, RetryFailed(i) PROVE Refines
  <1>1. rows \in [Ids -> Row] /\ rows[i] \in Row /\ clock \in Nat
    BY DEF IndInv, TypeOK
  <1>2. /\ rows'[i] = Revived(rows[i], clock)
        /\ \A j \in Ids \ {i} : rows'[j] = rows[j]
        /\ issued' = issued
    BY <1>1 DEF RetryFailed
  <1>3. rows[i].stage = "live" /\ rows[i].failed /\ ~rows[i].completed
    BY DEF RetryFailed, IndInv, OutcomesExclusive
  <1>4. Status(rows[i]) = "dead"
    BY <1>1, <1>3, StatusOf
  <1>5. /\ rows'[i] \in Row /\ rows'[i].stage = "live"
        /\ rows'[i].locked_by = Nil /\ rows'[i].attempts = 0
    BY <1>1, <1>2, <1>3, RevivedFacts
  <1>6. ~rows'[i].failed /\ ~rows'[i].completed
    BY <1>1, <1>2, <1>3, RevivedFacts
  <1>7. Status(rows'[i]) = "ready"
    BY <1>5, <1>6, StatusOf
  <1> QED
    BY <1>2, <1>4, <1>5, <1>7, ReviveByRow DEF Refines

LEMMA StepRefines == IndInv /\ [Next]_vars => Refines
  <1> SUFFICES ASSUME IndInv, [Next]_vars PROVE Refines
    OBVIOUS
  <1>1. ASSUME NEW i \in Ids, Insert(i) \/ RetryFailed(i) PROVE Refines
    BY <1>1, InsertRefines, RetryFailedRefines DEF Refines
  <1>2. ASSUME NEW c \in Consumers, StartClaim(c) \/ ClaimCandidate(c) PROVE Refines
    BY <1>2, StartClaimRefines, ClaimCandidateRefines DEF Refines
  <1>3. ASSUME NEW c \in Consumers, NEW k \in con[c].held,
               Renew(c, k) \/ Complete(c, k) \/ Terminate(c, k) \/ FailWrite(c, k)
        PROVE  Refines
    BY <1>3, RenewRefines, CompleteRefines, TerminateRefines, FailWriteRefines
  <1>4. ASSUME UNCHANGED <<rows, issued>> PROVE Refines
    BY <1>4 DEF Refines, Item
  <1>5. ASSUME NEW c \in Consumers,
               SelectCandidates(c) \/ ReturnClaims(c) \/ Crash(c)
        PROVE  Refines
    BY <1>4, <1>5 DEF SelectCandidates, ReturnClaims, Crash
  <1>6. ASSUME NEW c \in Consumers, NEW k \in con[c].held, FailRead(c, k) PROVE Refines
    BY <1>4, <1>6 DEF FailRead
  <1>7. CASE Tick \/ UNCHANGED vars
    BY <1>4, <1>7 DEF Tick, vars
  <1> QED
    BY <1>1, <1>2, <1>3, <1>5, <1>6, <1>7 DEF Next, Scan, Settle

(***************************************************************************)
(* Durable::Queue keeps the promise of LeasedWork: whatever consumers do    *)
(* late, twice or not at all, work is granted, given back, finished, buried *)
(* and revived only as LeasedWork allows.                                   *)
(***************************************************************************)
THEOREM Implements == Spec => KeepsPromise
  <1>1. Refines => [Promise!WorkNext]_(Promise!workVars)
    BY DEF Refines, Promise!workVars, Item, Image
  <1>2. IndInv /\ [Next]_vars => [Promise!WorkNext]_(Promise!workVars)
    BY <1>1, StepRefines
  <1> QED
    BY <1>2, InitRefines, InductiveInvariant, PTL DEF Spec, KeepsPromise, Promise!WorkSpec

=============================================================================
