------------------------ MODULE OutboxRelay_proofs ------------------------
(***************************************************************************)
(* OutboxRelay, for any number of messages, subscribers, relays, attempts,  *)
(* deaths and revivals: a relay is a consumer of the queue, so the          *)
(* invariant of DurableQueue_proofs holds for it; with that, a message      *)
(* leaves the outbox only when delivered, and is handled no more often than *)
(* its attempts allow.                                                      *)
(***************************************************************************)
EXTENDS OutboxRelay, DurableQueue_proofs, FiniteSetTheorems

----------------------------------------------------------------------------
(* Relays are consumers                                                     *)

LEMMA RelayStepIsQueueStep == [RelayNext]_relayVars => [Next]_vars
  <1> SUFFICES ASSUME [RelayNext]_relayVars PROVE [Next]_vars
    OBVIOUS
  <1>1. CASE UNCHANGED relayVars
    BY <1>1 DEF relayVars
  <1>2. CASE \E i \in Ids : Insert(i) \/ RetryFailed(i)
    BY <1>2 DEF Next
  <1>3. CASE \E c \in Consumers : Scan(c)
    BY <1>3 DEF Next
  <1>4. CASE Tick
    BY <1>4 DEF Next
  <1>5. CASE \E c \in Consumers : Abandon(c)
    BY <1>5 DEF Next, Abandon
  <1>6. ASSUME NEW c \in Consumers, NEW k \in con[c].held,
               \/ Call(c, k) \/ CallRaises(c, k) \/ Rejected(c, k)
               \/ Finish(c, k) \/ FinishErrs(c, k) \/ Fail(c, k)
        PROVE  [Next]_vars
    <2>1. CASE Call(c, k) \/ CallRaises(c, k) \/ Rejected(c, k) \/ FinishErrs(c, k)
      BY <2>1 DEF Call, CallRaises, Rejected, FinishErrs
    <2>2. CASE Finish(c, k) \/ Fail(c, k)
      <3>1. Settle(c, k)
        BY <2>2 DEF Finish, Fail, Settle
      <3> QED
        BY <3>1 DEF Next
    <2> QED
      BY <1>6, <2>1, <2>2
  <1> QED
    BY <1>1, <1>2, <1>3, <1>4, <1>5, <1>6 DEF RelayNext, DispatchOnce

(***************************************************************************)
(* Every behaviour of the relays is one of the queue: the relays add what   *)
(* happens around its operations and change none of them.                   *)
(***************************************************************************)
THEOREM RelaysConsume == RelaySpec => RelaysAreConsumers
  <1>1. RelayInit => Init
    BY DEF RelayInit
  <1> QED
    BY <1>1, RelayStepIsQueueStep, PTL DEF RelaySpec, RelaysAreConsumers, Spec

LEMMA RelayIndInv == RelaySpec => []IndInv
  BY RelaysConsume, InductiveInvariant, PTL DEF RelaysAreConsumers

----------------------------------------------------------------------------
(* The invariant                                                            *)

(***************************************************************************)
(* A relay has one message at a time and starts each dispatch afresh; while *)
(* nothing raised, whom it has passed has dealt with the message.           *)
(***************************************************************************)
OneDispatch ==
    \A c \in Consumers :
        /\ \A k, l \in con[c].held : k = l
        /\ (con[c].pc # "idle" \/ con[c].held = {}) => relay[c] = Fresh
        /\ \A k \in con[c].held, s \in 1..Subscribers :
              (~relay[c].raised /\ s < relay[c].next) => handled[k.id][s] > 0

(***************************************************************************)
(* The relays that have yet to call s with message i. Each of them may make *)
(* handled grow by one, and an attempt was counted for it.                  *)
(***************************************************************************)
Owing(i, s) == {c \in Consumers : relay[c].next <= s /\ \E k \in con[c].held : k.id = i}

Accounts ==
    \A i \in Ids : \A s \in 1..Subscribers :
        /\ IsFiniteSet(Owing(i, s))
        /\ handled[i][s] + Cardinality(Owing(i, s)) <= rows[i].attempts + MaxAttempts * revivals

RelayInv == RelayTypeOK /\ OneDispatch /\ NothingLost /\ Accounts

LEMMA RelayInitHolds == RelayInit => RelayInv
  <1> SUFFICES ASSUME RelayInit PROVE RelayInv
    OBVIOUS
  <1> USE DEF RelayInit
  <1>1. TypeOK
    BY InitHolds DEF IndInv
  <1>2. RelayTypeOK
    BY <1>1, RelayAssumption DEF RelayTypeOK, Dispatch, Fresh
  <1>3. \A c \in Consumers : con[c].held = {}
    BY DEF Init, Idle
  <1>4. OneDispatch
    BY <1>3 DEF OneDispatch
  <1>5. NothingLost
    BY DEF NothingLost, Init, NewRow
  <1>6. Accounts
    <2> SUFFICES ASSUME NEW i \in Ids, NEW s \in 1..Subscribers
                 PROVE  /\ IsFiniteSet(Owing(i, s))
                        /\ handled[i][s] + Cardinality(Owing(i, s))
                              <= rows[i].attempts + MaxAttempts * revivals
      BY DEF Accounts
    <2>1. Owing(i, s) = {}
      BY <1>3 DEF Owing
    <2>2. IsFiniteSet({}) /\ Cardinality({}) = 0
      BY FS_EmptySet
    <2>3. handled[i][s] = 0 /\ rows[i].attempts = 0 /\ revivals = 0
      BY DEF Init, NewRow
    <2>4. MaxAttempts * 0 = 0
      BY QueueAssumption
    <2> QED
      BY <2>1, <2>2, <2>3, <2>4
  <1> QED
    BY <1>2, <1>4, <1>5, <1>6 DEF RelayInv

----------------------------------------------------------------------------
(* What a step of the queue does to a row's attempts and stage              *)

\* Steady: no row starts an execution, is revived or is deleted.
Steady ==
    /\ revivals' = revivals
    /\ \A i \in Ids : /\ rows'[i].attempts = rows[i].attempts
                      /\ rows'[i].stage = "gone" => rows[i].stage = "gone"

LEMMA InsertIsSteady == ASSUME IndInv, NEW i \in Ids, Insert(i) PROVE Steady
  <1>1. PICK d \in Schedules : rows' = [rows EXCEPT ![i] = Inserted(clock + d)]
    BY DEF Insert
  <1>2. clock + d \in Nat /\ rows \in [Ids -> Row]
    BY ConsumerAssumption DEF IndInv, TypeOK
  <1>3. rows[i] = NewRow /\ NewRow.attempts = 0
    BY DEF Insert, IndInv, RowsCoherent, NewRow
  <1> QED
    BY <1>1, <1>2, <1>3, InsertedFacts DEF Steady, Insert

LEMMA StartClaimIsSteady == ASSUME IndInv, NEW c \in Consumers, StartClaim(c) PROVE Steady
  <1>1. \A i \in Ids : rows[i] \in Row
    BY DEF IndInv, TypeOK
  <1>2. ASSUME NEW i \in Ids
        PROVE  rows'[i].attempts = rows[i].attempts /\ rows'[i].stage = rows[i].stage
    BY <1>1, TerminalFacts DEF StartClaim
  <1> QED
    BY <1>2 DEF Steady, StartClaim

LEMMA FailIsSteady ==
    ASSUME IndInv, NEW c \in Consumers, NEW k \in con[c].held, FailRead(c, k) \/ FailWrite(c, k)
    PROVE  Steady
  <1>0. /\ k.id \in Ids /\ k.seen \in Nat /\ clock \in Nat
        /\ rows \in [Ids -> Row] /\ rows[k.id] \in Row
    BY DEF IndInv, TypeOK, Consumer, Claim
  <1>1. CASE FailRead(c, k)
    BY <1>1 DEF FailRead, Steady
  <1>2. CASE FailWrite(c, k)
    <2>1. k.seen \in Nat \ {0}
      BY <1>0, <1>2 DEF FailWrite
    <2>2. /\ FailedAttempt(rows[k.id], k.seen, clock).attempts = rows[k.id].attempts
          /\ FailedAttempt(rows[k.id], k.seen, clock).stage = rows[k.id].stage
      BY <1>0, <2>1, FailedAttemptFacts
    <2>3. rows' = rows \/ rows' = [rows EXCEPT ![k.id] = FailedAttempt(rows[k.id], k.seen, clock)]
      BY <1>2 DEF FailWrite
    <2>4. revivals' = revivals
      BY <1>2 DEF FailWrite
    <2> QED
      BY <1>0, <2>2, <2>3, <2>4 DEF Steady
  <1> QED
    BY <1>1, <1>2

----------------------------------------------------------------------------
(* Steps that start nothing and call nobody                                 *)

LEMMA Quantities ==
    ASSUME IndInv, RelayInv, NEW i \in Ids, NEW s \in 1..Subscribers
    PROVE  /\ handled[i][s] \in Nat /\ rows[i].attempts \in Nat
           /\ revivals \in Nat /\ MaxAttempts * revivals \in Int
           /\ IsFiniteSet(Owing(i, s)) /\ Cardinality(Owing(i, s)) \in Nat
           /\ handled[i][s] + Cardinality(Owing(i, s))
                 <= rows[i].attempts + MaxAttempts * revivals
  <1>1. rows[i] \in Row /\ revivals \in Nat /\ handled[i] \in [1..Subscribers -> Nat]
    BY DEF IndInv, TypeOK, RelayInv, RelayTypeOK
  <1>2. handled[i][s] \in Nat /\ rows[i].attempts \in Nat
    BY <1>1 DEF Row
  <1>3. MaxAttempts \in Int /\ revivals \in Int
    BY <1>1, QueueAssumption
  <1>4. \A m, n \in Int : m * n \in Int
    OBVIOUS
  <1>5. /\ IsFiniteSet(Owing(i, s))
        /\ handled[i][s] + Cardinality(Owing(i, s)) <= rows[i].attempts + MaxAttempts * revivals
    BY DEF RelayInv, Accounts
  <1> QED
    BY <1>1, <1>2, <1>3, <1>4, <1>5, FS_CardinalityType

\* One entry of Accounts, where nothing is handled and no attempt counted.
LEMMA EntryKept ==
    ASSUME IndInv, RelayInv, NEW i \in Ids, NEW s \in 1..Subscribers,
           Owing(i, s)' \subseteq Owing(i, s), handled'[i][s] = handled[i][s],
           rows'[i].attempts = rows[i].attempts, revivals' = revivals
    PROVE  /\ IsFiniteSet(Owing(i, s)')
           /\ handled'[i][s] + Cardinality(Owing(i, s)')
                 <= rows'[i].attempts + MaxAttempts * revivals'
  <1>1. IsFiniteSet(Owing(i, s)) /\ Owing(i, s)' \in SUBSET Owing(i, s)
    BY Quantities
  <1>2. IsFiniteSet(Owing(i, s)') /\ Cardinality(Owing(i, s)') <= Cardinality(Owing(i, s))
    BY <1>1, FS_Subset
  <1>3. Cardinality(Owing(i, s)') \in Nat
    BY <1>2, FS_CardinalityType
  <1>4. \A h, m, n, a \in Nat, b \in Int : (n <= m /\ h + m <= a + b) => h + n <= a + b
    OBVIOUS
  <1>5. handled[i][s] + Cardinality(Owing(i, s)') <= rows[i].attempts + MaxAttempts * revivals
    BY <1>2, <1>3, <1>4, Quantities
  <1> QED
    BY <1>2, <1>5

LEMMA QuietStep ==
    ASSUME IndInv, RelayInv, Steady, handled' = handled,
           \A i \in Ids, s \in 1..Subscribers : Owing(i, s)' \subseteq Owing(i, s)
    PROVE  NothingLost' /\ Accounts'
  <1>1. NothingLost'
    BY DEF NothingLost, Delivered, Steady, RelayInv
  <1>2. Accounts'
    BY EntryKept DEF Accounts, Steady
  <1> QED
    BY <1>1, <1>2

\* No claim is gained or lost, no relay moves: the scans, INSERT and the clock.
LEMMA IdleStep ==
    ASSUME IndInv, RelayInv, IndInv', Steady, UNCHANGED <<relay, called, handled>>,
           \A c \in Consumers :
               /\ con'[c].held = con[c].held
               /\ con'[c].pc # "idle" => con[c].pc # "idle" \/ con[c].held = {}
    PROVE  RelayInv'
  <1>1. RelayTypeOK'
    BY DEF RelayInv, RelayTypeOK, IndInv
  <1>2. OneDispatch'
    BY DEF RelayInv, OneDispatch
  <1>3. \A i \in Ids, s \in 1..Subscribers : Owing(i, s)' \subseteq Owing(i, s)
    BY DEF Owing
  <1>4. NothingLost' /\ Accounts'
    BY <1>3, QuietStep
  <1> QED
    BY <1>1, <1>2, <1>4 DEF RelayInv

LEMMA WaitStep ==
    ASSUME IndInv, RelayInv, IndInv', UNCHANGED <<relay, called, handled>>,
           \/ \E i \in Ids : Insert(i)
           \/ \E c \in Consumers : StartClaim(c) \/ SelectCandidates(c) \/ ReturnClaims(c)
           \/ Tick
           \/ UNCHANGED vars
    PROVE  RelayInv'
  <1>0. con \in [Consumers -> Consumer]
    BY DEF IndInv, TypeOK
  <1>1. CASE \E i \in Ids : Insert(i)
    <2>1. Steady
      BY <1>1, InsertIsSteady
    <2>2. con' = con
      BY <1>1 DEF Insert
    <2> QED
      BY <2>1, <2>2, IdleStep
  <1>2. ASSUME NEW c \in Consumers, StartClaim(c) PROVE RelayInv'
    <2>1. Steady
      BY <1>2, StartClaimIsSteady
    <2>2. con' = [con EXCEPT ![c].pc = "select", ![c].at = clock] /\ con[c].held = {}
      BY <1>2 DEF StartClaim
    <2>3. ASSUME NEW d \in Consumers
          PROVE  /\ con'[d].held = con[d].held
                 /\ con'[d].pc # "idle" => con[d].pc # "idle" \/ con[d].held = {}
      BY <1>0, <2>2 DEF Consumer
    <2> QED
      BY <2>1, <2>3, <1>2, IdleStep
  <1>3. ASSUME NEW c \in Consumers, SelectCandidates(c) PROVE RelayInv'
    <2>1. Steady
      BY <1>3 DEF SelectCandidates, Steady
    <2>2. PICK s \in SeqOf(Ids, Window) :
              con' = [con EXCEPT ![c].pc = "scan", ![c].cands = s]
      BY <1>3 DEF SelectCandidates
    <2>3. con[c].pc = "select"
      BY <1>3 DEF SelectCandidates
    <2>4. ASSUME NEW d \in Consumers
          PROVE  /\ con'[d].held = con[d].held
                 /\ con'[d].pc # "idle" => con[d].pc # "idle" \/ con[d].held = {}
      BY <1>0, <2>2, <2>3 DEF Consumer
    <2> QED
      BY <2>1, <2>4, IdleStep
  <1>4. ASSUME NEW c \in Consumers, ReturnClaims(c) PROVE RelayInv'
    <2>1. Steady
      BY <1>4 DEF ReturnClaims, Steady
    <2>2. con' = [con EXCEPT ![c].pc = "idle", ![c].at = Nil, ![c].cands = <<>>]
      BY <1>4 DEF ReturnClaims
    <2>3. ASSUME NEW d \in Consumers
          PROVE  /\ con'[d].held = con[d].held
                 /\ con'[d].pc # "idle" => con[d].pc # "idle" \/ con[d].held = {}
      BY <1>0, <2>2 DEF Consumer
    <2> QED
      BY <2>1, <2>3, IdleStep
  <1>5. CASE Tick
    <2>1. Steady /\ con' = con
      BY <1>5 DEF Tick, Steady
    <2> QED
      BY <2>1, IdleStep
  <1>6. CASE UNCHANGED vars
    <2>1. Steady /\ con' = con
      BY <1>6 DEF vars, Steady
    <2> QED
      BY <2>1, IdleStep
  <1> QED
    BY <1>1, <1>2, <1>3, <1>4, <1>5, <1>6

----------------------------------------------------------------------------
(* An operator's revival, and a claim                                       *)

LEMMA RetryFailedRelays ==
    ASSUME IndInv, RelayInv, IndInv', NEW j \in Ids, RetryFailed(j),
           UNCHANGED <<relay, called, handled>>
    PROVE  RelayInv'
  <1>1. RelayTypeOK'
    BY DEF RelayInv, RelayTypeOK, IndInv
  <1>2. con' = con /\ revivals' = revivals + 1 /\ rows' = [rows EXCEPT ![j] = Revived(@, clock)]
    BY DEF RetryFailed
  <1>3. /\ rows \in [Ids -> Row] /\ rows[j] \in Row /\ clock \in Nat
        /\ \A i \in Ids : rows[i].attempts <= MaxAttempts
    BY DEF IndInv, TypeOK, RowsCoherent
  <1>4. Revived(rows[j], clock).attempts = 0 /\ Revived(rows[j], clock).stage = rows[j].stage
    BY <1>3, RevivedFacts
  <1>5. OneDispatch'
    BY <1>2 DEF RelayInv, OneDispatch
  <1>6. NothingLost'
    BY <1>2, <1>3, <1>4 DEF RelayInv, NothingLost, Delivered
  <1>7. Accounts'
    <2> SUFFICES ASSUME NEW i \in Ids, NEW s \in 1..Subscribers
                 PROVE  /\ IsFiniteSet(Owing(i, s)')
                        /\ handled'[i][s] + Cardinality(Owing(i, s)')
                              <= rows'[i].attempts + MaxAttempts * revivals'
      BY DEF Accounts
    <2>1. Owing(i, s)' = Owing(i, s) /\ handled'[i][s] = handled[i][s]
      BY <1>2 DEF Owing
    <2>2. rows'[i].attempts = rows[i].attempts \/ rows'[i].attempts = 0
      BY <1>2, <1>3, <1>4
    <2>3. MaxAttempts * (revivals + 1) = MaxAttempts * revivals + MaxAttempts
      <3>1. \A m, n \in Int : m * (n + 1) = m * n + m
        OBVIOUS
      <3> QED
        BY <3>1, Quantities, QueueAssumption
    <2>4. rows[i].attempts <= MaxAttempts /\ MaxAttempts \in Nat
      BY <1>3, QueueAssumption
    <2>5. \A h, m, a, x \in Nat, b \in Int :
              (h + m <= a + b /\ a <= x) => (h + m <= a + (b + x) /\ h + m <= 0 + (b + x))
      OBVIOUS
    <2>6. /\ handled[i][s] + Cardinality(Owing(i, s))
                <= rows[i].attempts + (MaxAttempts * revivals + MaxAttempts)
          /\ handled[i][s] + Cardinality(Owing(i, s))
                <= 0 + (MaxAttempts * revivals + MaxAttempts)
      BY <2>4, <2>5, Quantities
    <2> QED
      BY <1>2, <2>1, <2>2, <2>3, <2>6, Quantities
  <1> QED
    BY <1>1, <1>5, <1>6, <1>7 DEF RelayInv

\* claim takes one row: a relay that may claim has nothing.
LEMMA ClaimsWithNothing ==
    ASSUME IndInv, RelayInv, NEW c \in Consumers, ClaimCandidate(c)
    PROVE  con[c].held = {} /\ relay[c] = Fresh /\ con[c].pc = "scan"
  <1>1. con[c].pc = "scan" /\ Cardinality(con[c].held) < 1
    BY RelayAssumption DEF ClaimCandidate
  <1>2. ASSUME NEW k \in con[c].held PROVE FALSE
    <2>1. con[c].held = {k}
      BY DEF RelayInv, OneDispatch
    <2>2. Cardinality({k}) = 1
      BY FS_Singleton
    <2> QED
      BY <1>1, <2>1, <2>2
  <1> QED
    BY <1>1, <1>2 DEF RelayInv, OneDispatch

LEMMA AtMostOneMore ==
    ASSUME NEW S, NEW x, IsFiniteSet(S)
    PROVE  IsFiniteSet(S \cup {x}) /\ Cardinality(S \cup {x}) <= Cardinality(S) + 1
  <1>1. Cardinality(S) \in Nat
    BY FS_CardinalityType
  <1> QED
    BY <1>1, FS_AddElement

LEMMA ClaimCandidateRelays ==
    ASSUME IndInv, RelayInv, IndInv', NEW c \in Consumers, ClaimCandidate(c),
           UNCHANGED <<relay, called, handled>>
    PROVE  RelayInv'
  <1> DEFINE i == Head(con[c].cands)
             k == [id |-> i, token |-> issued + 1, seen |-> 0]
  <1>0. /\ con[c].held = {} /\ relay[c] = Fresh /\ con[c].pc = "scan"
        /\ con \in [Consumers -> Consumer]
        /\ revivals' = revivals /\ relay' = relay /\ handled' = handled
    BY ClaimsWithNothing DEF IndInv, TypeOK, ClaimCandidate
  <1>1. CASE ~Eligible(rows[i], con[c].at)
    <2>1. con' = [con EXCEPT ![c].cands = Tail(con[c].cands)] /\ rows' = rows
      BY <1>1 DEF ClaimCandidate
    <2>2. ASSUME NEW d \in Consumers
          PROVE  con'[d].held = con[d].held /\ con'[d].pc = con[d].pc
      BY <1>0, <2>1 DEF Consumer
    <2>3. Steady
      BY <1>0, <2>1 DEF Steady
    <2> QED
      BY <2>2, <2>3, IdleStep
  <1>2. CASE Eligible(rows[i], con[c].at)
    <2>1. /\ rows' = [rows EXCEPT ![i] = Claimed(rows[i], con[c].at, issued + 1)]
          /\ con' = [con EXCEPT ![c].cands = Tail(con[c].cands), ![c].held = @ \cup {k}]
      BY <1>2 DEF ClaimCandidate
    <2>2. /\ con'[c].held = {k} /\ con'[c].pc = "scan"
          /\ \A d \in Consumers \ {c} : con'[d] = con[d]
      BY <1>0, <2>1 DEF Consumer
    <2>3. i \in Ids
      <3>1. con[c].cands \in Seq(Ids) /\ con[c].cands # <<>>
        BY <1>0 DEF Consumer, ClaimCandidate
      <3> QED
        BY <3>1
    <2> HIDE DEF i
    <2>4. /\ rows'[i].attempts = rows[i].attempts + 1 /\ rows'[i].stage = rows[i].stage
          /\ \A j \in Ids \ {i} : rows'[j] = rows[j]
      <3> DEFINE at == con[c].at
                 t == issued + 1
      <3>1. rows \in [Ids -> Row] /\ rows[i] \in Row /\ at \in Nat /\ t \in Nat
        BY <1>0, <2>3 DEF IndInv, TypeOK, Consumer
      <3> HIDE DEF at, t
      <3>2. Claimed(rows[i], at, t).attempts = rows[i].attempts + 1
        BY ONLY <3>1, ClaimedCounts
      <3>3. Claimed(rows[i], at, t).stage = rows[i].stage
        BY ONLY <3>1, ClaimedStage
      <3> USE DEF at, t
      <3> QED
        BY <2>1, <2>3, <3>1, <3>2, <3>3
    <2>5. RelayTypeOK'
      BY DEF RelayInv, RelayTypeOK, IndInv
    <2>6. OneDispatch'
      <3> SUFFICES ASSUME NEW d \in Consumers
                   PROVE  /\ \A x, y \in con'[d].held : x = y
                          /\ (con'[d].pc # "idle" \/ con'[d].held = {}) => relay[d] = Fresh
                          /\ \A x \in con'[d].held, s \in 1..Subscribers :
                                (~relay[d].raised /\ s < relay[d].next) => handled[x.id][s] > 0
        BY DEF OneDispatch
      <3>1. CASE d = c
        <4>1. ~(\E s \in 1..Subscribers : s < relay[c].next)
          BY <1>0 DEF Fresh
        <4> QED
          BY <1>0, <2>2, <3>1, <4>1
      <3>2. CASE d # c
        BY <2>2, <3>2 DEF RelayInv, OneDispatch
      <3> QED
        BY <3>1, <3>2
    <2>7. NothingLost'
      BY <2>3, <2>4 DEF RelayInv, NothingLost, Delivered
    <2>8. Accounts'
      <3> SUFFICES ASSUME NEW j \in Ids, NEW s \in 1..Subscribers
                   PROVE  /\ IsFiniteSet(Owing(j, s)')
                          /\ handled'[j][s] + Cardinality(Owing(j, s)')
                                <= rows'[j].attempts + MaxAttempts * revivals'
        BY DEF Accounts
      <3>1. CASE j # i
        <4>1. Owing(j, s)' \subseteq Owing(j, s)
          <5> SUFFICES ASSUME NEW d \in Consumers, relay[d].next <= s,
                              NEW x \in con'[d].held, x.id = j
                       PROVE  x \in con[d].held
            BY DEF Owing
          <5>1. CASE d = c
            BY <2>2, <3>1, <5>1
          <5>2. CASE d # c
            BY <2>2, <5>2
          <5> QED
            BY <5>1, <5>2
        <4> QED
          BY <1>0, <2>4, <3>1, <4>1, EntryKept
      <3>2. CASE j = i
        <4>1. Owing(j, s)' \subseteq Owing(j, s) \cup {c}
          <5> SUFFICES ASSUME NEW d \in Consumers, d # c, relay[d].next <= s,
                              NEW x \in con'[d].held, x.id = j
                       PROVE  x \in con[d].held
            BY <1>0 DEF Owing
          <5> QED
            BY <2>2
        <4>2. /\ IsFiniteSet(Owing(j, s) \cup {c})
              /\ Cardinality(Owing(j, s) \cup {c}) <= Cardinality(Owing(j, s)) + 1
          <5>1. IsFiniteSet(Owing(j, s))
            BY Quantities
          <5> QED
            BY <5>1, AtMostOneMore
        <4>3. /\ IsFiniteSet(Owing(j, s)')
              /\ Cardinality(Owing(j, s)') <= Cardinality(Owing(j, s) \cup {c})
          BY <4>1, <4>2, FS_Subset
        <4>4. /\ Cardinality(Owing(j, s)') \in Nat
              /\ Cardinality(Owing(j, s) \cup {c}) \in Nat
          BY <4>2, <4>3, FS_CardinalityType
        <4>5. \A h, m, n, p, a \in Nat, b \in Int :
                  (n <= p /\ p <= m + 1 /\ h + m <= a + b) => h + n <= (a + 1) + b
          OBVIOUS
        <4>6. handled[j][s] + Cardinality(Owing(j, s)')
                 <= (rows[j].attempts + 1) + MaxAttempts * revivals
          BY <4>2, <4>3, <4>4, <4>5, Quantities
        <4> QED
          BY <1>0, <2>4, <3>2, <4>3, <4>6
      <3> QED
        BY <3>1, <3>2
    <2> QED
      BY <2>5, <2>6, <2>7, <2>8 DEF RelayInv
  <1> QED
    BY <1>1, <1>2

----------------------------------------------------------------------------
(* Within a dispatch                                                        *)

\* The relay moves on, the table does not: whom it passes is no longer owed.
LEMMA PassStep ==
    ASSUME IndInv, RelayInv, IndInv', UNCHANGED vars,
           NEW c \in Consumers, NEW k \in con[c].held, Working(c, k),
           NEW r \in Dispatch, relay' = [relay EXCEPT ![c] = r],
           r.next >= relay[c].next, r.raised,
           called' \in [Ids -> [1..Subscribers -> Nat]],
           handled' = handled
    PROVE  RelayInv'
  <1>0. relay \in [Consumers -> Dispatch] /\ relay[c] \in Dispatch /\ con' = con
    BY DEF RelayInv, RelayTypeOK, vars
  <1>1. RelayTypeOK'
    BY <1>0 DEF RelayInv, RelayTypeOK, IndInv
  <1>2. Steady
    BY DEF Steady, vars
  <1>3. con[c].pc = "idle" /\ con[c].held # {}
    BY DEF Working
  <1>4. OneDispatch'
    BY <1>0, <1>3 DEF RelayInv, OneDispatch
  <1>5. \A i \in Ids, s \in 1..Subscribers : Owing(i, s)' \subseteq Owing(i, s)
    <2> SUFFICES ASSUME NEW i \in Ids, NEW s \in 1..Subscribers,
                        NEW d \in Consumers, relay'[d].next <= s
                 PROVE  relay[d].next <= s
      BY <1>0 DEF Owing
    <2>1. relay[c].next \in Int /\ r.next \in Int
      BY <1>0, RelayAssumption DEF Dispatch
    <2> QED
      BY <1>0, <2>1
  <1>6. NothingLost' /\ Accounts'
    BY <1>2, <1>5, QuietStep
  <1> QED
    BY <1>1, <1>4, <1>6 DEF RelayInv

LEMMA OneMore ==
    ASSUME NEW f \in [Ids -> [1..Subscribers -> Nat]], NEW i \in Ids, NEW s \in 1..Subscribers
    PROVE  [f EXCEPT ![i][s] = @ + 1] \in [Ids -> [1..Subscribers -> Nat]]
  <1> DEFINE g == [f[i] EXCEPT ![s] = @ + 1]
  <1>1. f[i] \in [1..Subscribers -> Nat] /\ f[i][s] + 1 \in Nat
    <2>1. f[i] \in [1..Subscribers -> Nat]
      OBVIOUS
    <2>2. f[i][s] \in Nat
      BY <2>1
    <2> QED
      BY <2>1, <2>2
  <1>2. g \in [1..Subscribers -> Nat]
    BY <1>1
  <1>3. [f EXCEPT ![i][s] = @ + 1] = [f EXCEPT ![i] = g]
    OBVIOUS
  <1> HIDE DEF g
  <1>4. [f EXCEPT ![i] = g] \in [Ids -> [1..Subscribers -> Nat]]
    BY <1>2
  <1> QED
    BY <1>3, <1>4

LEMMA CallStep ==
    ASSUME IndInv, RelayInv, IndInv',
           NEW c \in Consumers, NEW k \in con[c].held, Call(c, k)
    PROVE  RelayInv'
  <1> DEFINE n == relay[c].next
             new == [relay[c] EXCEPT !.next = n + 1]
  <1>0. /\ k.id \in Ids /\ relay \in [Consumers -> Dispatch] /\ relay[c] \in Dispatch
        /\ con' = con /\ rows' = rows /\ revivals' = revivals
        /\ handled \in [Ids -> [1..Subscribers -> Nat]]
    BY DEF RelayInv, RelayTypeOK, IndInv, TypeOK, Consumer, Claim, Call, vars
  <1>1. n \in 1..Subscribers
    BY <1>0, RelayAssumption DEF Call, AllCalled, Dispatch
  <1>2. /\ relay' = [relay EXCEPT ![c] = new]
        /\ handled' = [handled EXCEPT ![k.id][n] = @ + 1]
        /\ called' = [called EXCEPT ![k.id][n] = @ + 1]
    BY <1>0 DEF Call, Called
  <1>3. new \in Dispatch /\ new.next = n + 1 /\ new.raised = relay[c].raised
    BY <1>0, <1>1, RelayAssumption DEF Dispatch
  <1>4. ASSUME NEW i \in Ids, NEW s \in 1..Subscribers
        PROVE  /\ handled'[i][s] = IF i = k.id /\ s = n THEN handled[i][s] + 1 ELSE handled[i][s]
               /\ handled[i][s] \in Nat
    BY <1>0, <1>1, <1>2
  <1> HIDE DEF n, new
  <1>5. RelayTypeOK'
    <2>1. TypeOK'
      BY DEF IndInv
    <2>2. relay' \in [Consumers -> Dispatch]
      BY <1>0, <1>2, <1>3
    <2>3. called' \in [Ids -> [1..Subscribers -> Nat]]
      BY <1>0, <1>1, <1>2, OneMore DEF RelayInv, RelayTypeOK
    <2>4. handled' \in [Ids -> [1..Subscribers -> Nat]]
      BY <1>0, <1>1, <1>2, OneMore
    <2> QED
      BY <2>1, <2>2, <2>3, <2>4 DEF RelayTypeOK
  <1>6. OneDispatch'
    <2> SUFFICES ASSUME NEW d \in Consumers
                 PROVE  /\ \A x, y \in con[d].held : x = y
                        /\ (con[d].pc # "idle" \/ con[d].held = {}) => relay'[d] = Fresh
                        /\ \A x \in con[d].held, s \in 1..Subscribers :
                              (~relay'[d].raised /\ s < relay'[d].next) => handled'[x.id][s] > 0
      BY <1>0 DEF OneDispatch
    <2>1. \A x, y \in con[d].held : x = y
      BY DEF RelayInv, OneDispatch
    <2>2. (con[d].pc # "idle" \/ con[d].held = {}) => relay'[d] = Fresh
      <3>1. con[c].pc = "idle" /\ con[c].held # {}
        BY DEF Call, Working
      <3> QED
        BY <1>0, <1>2, <3>1 DEF RelayInv, OneDispatch
    <2>3. ASSUME NEW x \in con[d].held, NEW s \in 1..Subscribers,
                 ~relay'[d].raised, s < relay'[d].next
          PROVE  handled'[x.id][s] > 0
      <3>0. x.id \in Ids
        BY <1>0 DEF IndInv, TypeOK, Consumer, Claim
      <3>1. CASE d = c /\ s = n
        <4>1. x = k
          BY <2>1, <3>1
        <4> QED
          BY <1>0, <1>4, <3>1, <4>1
      <3>2. CASE ~(d = c /\ s = n)
        <4>1. ~relay[d].raised /\ s < relay[d].next
          <5>1. CASE d # c
            BY <1>0, <1>2, <2>3, <5>1
          <5>2. CASE d = c
            <6>1. s \in Int /\ n \in Int /\ s # n /\ s < n + 1 /\ ~relay[c].raised
              BY <1>0, <1>1, <1>2, <1>3, <2>3, <3>2, <5>2
            <6> QED
              BY <5>2, <6>1 DEF n
          <5> QED
            BY <5>1, <5>2
        <4>2. handled[x.id][s] > 0
          BY <4>1 DEF RelayInv, OneDispatch
        <4> QED
          BY <1>4, <3>0, <4>2
      <3> QED
        BY <3>1, <3>2
    <2> QED
      BY <2>1, <2>2, <2>3
  <1>7. NothingLost'
    <2> SUFFICES ASSUME NEW i \in Ids, rows[i].stage = "gone", NEW s \in 1..Subscribers
                 PROVE  handled'[i][s] > 0
      BY <1>0 DEF NothingLost, Delivered
    <2>1. handled[i][s] > 0
      BY DEF RelayInv, NothingLost, Delivered
    <2> QED
      BY <1>4, <2>1
  <1>8. Accounts'
    <2> SUFFICES ASSUME NEW i \in Ids, NEW s \in 1..Subscribers
                 PROVE  /\ IsFiniteSet(Owing(i, s)')
                        /\ handled'[i][s] + Cardinality(Owing(i, s)')
                              <= rows'[i].attempts + MaxAttempts * revivals'
      BY DEF Accounts
    <2>1. \A d \in Consumers : relay'[d].next <= s => relay[d].next <= s
      <3>1. n + 1 <= s => n <= s
        BY <1>1
      <3> QED
        BY <1>0, <1>2, <1>3, <3>1 DEF n
    <2>2. Owing(i, s)' \subseteq Owing(i, s)
      BY <1>0, <2>1 DEF Owing
    <2>3. CASE ~(i = k.id /\ s = n)
      BY <1>0, <1>4, <2>2, <2>3, EntryKept
    <2>4. CASE i = k.id /\ s = n
      <3>1. c \in Owing(i, s)
        <4>1. relay[c].next <= s
          BY <1>1, <2>4 DEF n
        <4> QED
          BY <2>4, <4>1 DEF Owing
      <3>2. c \notin Owing(i, s)'
        <4>1. relay'[c].next = n + 1
          BY <1>0, <1>2, <1>3
        <4>2. ~(n + 1 <= s)
          BY <1>1, <2>4
        <4> QED
          BY <4>1, <4>2 DEF Owing
      <3>3. IsFiniteSet(Owing(i, s)) /\ Owing(i, s)' \in SUBSET (Owing(i, s) \ {c})
        BY <2>2, <3>2, Quantities
      <3>4. /\ IsFiniteSet(Owing(i, s) \ {c})
            /\ Cardinality(Owing(i, s) \ {c}) = Cardinality(Owing(i, s)) - 1
        BY <3>1, <3>3, FS_RemoveElement
      <3>5. /\ IsFiniteSet(Owing(i, s)')
            /\ Cardinality(Owing(i, s)') <= Cardinality(Owing(i, s) \ {c})
        BY <3>3, <3>4, FS_Subset
      <3>6. Cardinality(Owing(i, s)') \in Nat
        BY <3>5, FS_CardinalityType
      <3>7. Cardinality(Owing(i, s)') <= Cardinality(Owing(i, s)) - 1
        BY <3>4, <3>5
      <3>8. \A h, m, p, a \in Nat, b \in Int :
                (p <= m - 1 /\ h + m <= a + b) => (h + 1) + p <= a + b
        OBVIOUS
      <3>9. (handled[i][s] + 1) + Cardinality(Owing(i, s)')
               <= rows[i].attempts + MaxAttempts * revivals
        BY <3>6, <3>7, <3>8, Quantities
      <3> QED
        BY <1>0, <1>4, <2>4, <3>5, <3>9
    <2> QED
      BY <2>3, <2>4
  <1> QED
    BY <1>5, <1>6, <1>7, <1>8 DEF RelayInv

----------------------------------------------------------------------------
(* The end of a dispatch                                                    *)

\* The relay has nothing any more and is fresh; nobody was called.
LEMMA EndStep ==
    ASSUME IndInv, RelayInv, IndInv', NEW c \in Consumers,
           con'[c].held = {}, \A d \in Consumers \ {c} : con'[d] = con[d],
           relay' = [relay EXCEPT ![c] = Fresh], UNCHANGED <<called, handled>>
    PROVE  /\ RelayTypeOK' /\ OneDispatch'
           /\ \A i \in Ids, s \in 1..Subscribers : Owing(i, s)' \subseteq Owing(i, s)
  <1>0. relay \in [Consumers -> Dispatch] /\ Fresh \in Dispatch
    BY RelayAssumption DEF RelayInv, RelayTypeOK, Dispatch, Fresh
  <1>1. RelayTypeOK'
    BY <1>0 DEF RelayInv, RelayTypeOK, IndInv
  <1>2. OneDispatch'
    <2> SUFFICES ASSUME NEW d \in Consumers
                 PROVE  /\ \A x, y \in con'[d].held : x = y
                        /\ (con'[d].pc # "idle" \/ con'[d].held = {}) => relay'[d] = Fresh
                        /\ \A x \in con'[d].held, s \in 1..Subscribers :
                              (~relay'[d].raised /\ s < relay'[d].next) => handled[x.id][s] > 0
      BY DEF OneDispatch
    <2>1. CASE d = c
      BY <1>0, <2>1
    <2>2. CASE d # c
      BY <1>0, <2>2 DEF RelayInv, OneDispatch
    <2> QED
      BY <2>1, <2>2
  <1>3. ASSUME NEW i \in Ids, NEW s \in 1..Subscribers, NEW d \in Owing(i, s)'
        PROVE  d \in Owing(i, s)
    <2>1. d \in Consumers /\ relay'[d].next <= s /\ \E k \in con'[d].held : k.id = i
      BY DEF Owing
    <2>2. d # c
      BY <2>1
    <2> QED
      BY <1>0, <2>1, <2>2 DEF Owing
  <1> QED
    BY <1>1, <1>2, <1>3

LEMMA AbandonStep ==
    ASSUME IndInv, RelayInv, IndInv', NEW c \in Consumers, Abandon(c)
    PROVE  RelayInv'
  <1>1. con' = [con EXCEPT ![c] = Idle] /\ con \in [Consumers -> Consumer]
    BY DEF Abandon, Crash, IndInv, TypeOK
  <1>2. con'[c].held = {} /\ \A d \in Consumers \ {c} : con'[d] = con[d]
    BY <1>1 DEF Idle
  <1>3. Steady /\ handled' = handled
    BY DEF Abandon, Crash, Steady
  <1>4. /\ RelayTypeOK' /\ OneDispatch'
        /\ \A i \in Ids, s \in 1..Subscribers : Owing(i, s)' \subseteq Owing(i, s)
    BY <1>2, EndStep DEF Abandon
  <1> QED
    BY <1>3, <1>4, QuietStep DEF RelayInv

\* What Drop leaves of a relay that has one claim.
LEMMA DropsAll ==
    ASSUME IndInv, RelayInv, NEW c \in Consumers, NEW k \in con[c].held, Drop(c, k)
    PROVE  con'[c].held = {} /\ \A d \in Consumers \ {c} : con'[d] = con[d]
  <1>1. con \in [Consumers -> Consumer] /\ con[c] \in Consumer
    BY DEF IndInv, TypeOK
  <1>2. con[c].held \ {k} = {}
    BY DEF RelayInv, OneDispatch
  <1> QED
    BY <1>1, <1>2 DEF Drop, Consumer

\* Only here does a message leave the outbox.
LEMMA FinishStep ==
    ASSUME IndInv, RelayInv, IndInv',
           NEW c \in Consumers, NEW k \in con[c].held, Finish(c, k)
    PROVE  RelayInv'
  <1>0. /\ k.id \in Ids /\ rows \in [Ids -> Row] /\ rows[k.id] \in Row
        /\ Complete(c, k) /\ Drop(c, k) /\ revivals' = revivals /\ handled' = handled
    BY DEF IndInv, TypeOK, Consumer, Claim, Finish, Complete
  <1>1. /\ RelayTypeOK' /\ OneDispatch'
        /\ \A i \in Ids, s \in 1..Subscribers : Owing(i, s)' \subseteq Owing(i, s)
    BY <1>0, DropsAll, EndStep DEF Finish
  <1>2. Completed(rows[k.id]).attempts = rows[k.id].attempts
    BY <1>0, CompletedFacts
  <1>3. \A i \in Ids : rows'[i].attempts = rows[i].attempts
    BY <1>0, <1>2 DEF Complete
  <1>4. Accounts'
    BY <1>0, <1>1, <1>3, EntryKept DEF Accounts
  <1>5. Delivered(k.id)
    <2> SUFFICES ASSUME NEW s \in 1..Subscribers PROVE handled[k.id][s] > 0
      BY DEF Delivered
    <2>1. relay[c].next \in Int /\ relay[c].next > Subscribers /\ ~relay[c].raised
      BY RelayAssumption DEF Finish, AllCalled, RelayInv, RelayTypeOK, Dispatch
    <2>2. s < relay[c].next
      BY <2>1, RelayAssumption
    <2> QED
      BY <2>1, <2>2 DEF RelayInv, OneDispatch
  <1>6. NothingLost'
    <2> SUFFICES ASSUME NEW i \in Ids, rows'[i].stage = "gone" PROVE Delivered(i)
      BY <1>0 DEF NothingLost, Delivered
    <2>1. CASE i = k.id
      BY <1>5, <2>1
    <2>2. CASE i # k.id
      <3>1. rows'[i] = rows[i]
        BY <1>0, <2>2 DEF Complete
      <3> QED
        BY <3>1 DEF RelayInv, NothingLost
    <2> QED
      BY <2>1, <2>2
  <1> QED
    BY <1>1, <1>4, <1>6 DEF RelayInv

LEMMA FailStep ==
    ASSUME IndInv, RelayInv, IndInv',
           NEW c \in Consumers, NEW k \in con[c].held, Fail(c, k)
    PROVE  RelayInv'
  <1>0. /\ con \in [Consumers -> Consumer] /\ con[c] \in Consumer
        /\ relay \in [Consumers -> Dispatch] /\ relay[c].raised
        /\ UNCHANGED <<called, handled>>
        /\ relay' = IF con'[c].held = {} THEN [relay EXCEPT ![c] = Fresh] ELSE relay
    BY DEF IndInv, TypeOK, RelayInv, RelayTypeOK, Fail
  <1>1. Steady
    BY FailIsSteady DEF Fail
  <1>2. CASE Drop(c, k)
    <2>1. con'[c].held = {} /\ \A d \in Consumers \ {c} : con'[d] = con[d]
      BY <1>2, DropsAll
    <2>2. relay' = [relay EXCEPT ![c] = Fresh]
      BY <1>0, <2>1
    <2>3. /\ RelayTypeOK' /\ OneDispatch'
          /\ \A i \in Ids, s \in 1..Subscribers : Owing(i, s)' \subseteq Owing(i, s)
      BY <1>0, <2>1, <2>2, EndStep
    <2> QED
      BY <1>0, <1>1, <2>3, QuietStep DEF RelayInv
  <1>3. CASE FailRead(c, k) /\ LockedBy(rows[k.id], k.token)
    <2> DEFINE seen == [k EXCEPT !.seen = rows[k.id].attempts]
    <2>1. con' = [con EXCEPT ![c].held = (@ \ {k}) \cup {seen}]
      BY <1>3 DEF FailRead
    <2>2. con[c].held \ {k} = {} /\ k \in Claim
      BY <1>0 DEF RelayInv, OneDispatch, Consumer
    <2>3. seen.id = k.id
      BY <2>2 DEF Claim
    <2> HIDE DEF seen
    <2>4. /\ con'[c].held = {seen} /\ con'[c].pc = con[c].pc
          /\ \A d \in Consumers \ {c} : con'[d] = con[d]
      BY <1>0, <2>1, <2>2 DEF Consumer
    <2>5. relay' = relay
      BY <1>0, <2>4
    <2>6. RelayTypeOK'
      BY <1>0, <2>5 DEF RelayInv, RelayTypeOK, IndInv
    <2>7. OneDispatch'
      <3> SUFFICES ASSUME NEW d \in Consumers
                   PROVE  /\ \A x, y \in con'[d].held : x = y
                          /\ (con'[d].pc # "idle" \/ con'[d].held = {}) => relay[d] = Fresh
                          /\ \A x \in con'[d].held, s \in 1..Subscribers :
                                (~relay[d].raised /\ s < relay[d].next) => handled[x.id][s] > 0
        BY <1>0, <2>5 DEF OneDispatch
      <3>1. CASE d = c
        <4>1. con[c].pc = "idle"
          BY <1>3 DEF FailRead, Working
        <4> QED
          BY <1>0, <2>4, <3>1, <4>1
      <3>2. CASE d # c
        BY <2>4, <3>2 DEF RelayInv, OneDispatch
      <3> QED
        BY <3>1, <3>2
    <2>8. ASSUME NEW i \in Ids, NEW s \in 1..Subscribers, NEW d \in Owing(i, s)'
          PROVE  d \in Owing(i, s)
      <3>1. d \in Consumers /\ relay[d].next <= s /\ \E x \in con'[d].held : x.id = i
        BY <2>5 DEF Owing
      <3>2. \E x \in con[d].held : x.id = i
        <4>1. CASE d = c
          BY <2>3, <2>4, <3>1, <4>1
        <4>2. CASE d # c
          BY <2>4, <3>1, <4>2
        <4> QED
          BY <4>1, <4>2
      <3> QED
        BY <3>1, <3>2 DEF Owing
    <2>9. NothingLost' /\ Accounts'
      BY <1>0, <1>1, <2>8, QuietStep
    <2> QED
      BY <2>6, <2>7, <2>9 DEF RelayInv
  <1> QED
    BY <1>2, <1>3 DEF Fail, FailRead, FailWrite

----------------------------------------------------------------------------
(* The invariant is inductive; the theorems                                 *)

LEMMA RelayStepHolds == IndInv /\ RelayInv /\ IndInv' /\ [RelayNext]_relayVars => RelayInv'
  <1> SUFFICES ASSUME IndInv, RelayInv, IndInv', [RelayNext]_relayVars PROVE RelayInv'
    OBVIOUS
  <1>1. CASE UNCHANGED relayVars
    BY <1>1, WaitStep DEF relayVars
  <1>2. CASE /\ \/ \E i \in Ids : Insert(i) \/ RetryFailed(i)
                \/ \E c \in Consumers : Scan(c)
                \/ Tick
             /\ UNCHANGED <<relay, called, handled>>
    <2>1. CASE \E i \in Ids : Insert(i) \/ RetryFailed(i)
      BY <1>2, <2>1, WaitStep, RetryFailedRelays
    <2>2. CASE \E c \in Consumers : Scan(c)
      BY <1>2, <2>2, WaitStep, ClaimCandidateRelays DEF Scan
    <2>3. CASE Tick
      BY <1>2, <2>3, WaitStep
    <2> QED
      BY <1>2, <2>1, <2>2, <2>3
  <1>3. ASSUME NEW c \in Consumers, Abandon(c) PROVE RelayInv'
    BY <1>3, AbandonStep
  <1>4. ASSUME NEW c \in Consumers, NEW k \in con[c].held,
               \/ CallRaises(c, k) \/ Rejected(c, k) \/ FinishErrs(c, k)
        PROVE  RelayInv'
    <2>0. relay \in [Consumers -> Dispatch] /\ relay[c] \in Dispatch
      BY DEF RelayInv, RelayTypeOK
    <2>1. /\ relay[c].next \in 1..(Subscribers + 1) /\ Subscribers \in Nat \ {0}
      BY <2>0, RelayAssumption DEF Dispatch
    <2>2. CASE CallRaises(c, k)
      <3> DEFINE r == [relay[c] EXCEPT !.next = relay[c].next + 1, !.raised = TRUE]
      <3>1. relay' = [relay EXCEPT ![c] = r]
        BY <2>0, <2>2 DEF CallRaises
      <3>2. r \in Dispatch /\ r.next >= relay[c].next /\ r.raised
        <4>0. relay[c].next + 1 \in 1..(Subscribers + 1)
          BY <2>1, <2>2 DEF CallRaises, AllCalled
        <4>1. r \in Dispatch /\ r.next = relay[c].next + 1
          BY <2>0, <4>0 DEF Dispatch
        <4>2. r.raised = TRUE
          BY <2>0 DEF Dispatch
        <4> HIDE DEF r
        <4> QED
          BY <2>1, <4>1, <4>2
      <3>3. called' \in [Ids -> [1..Subscribers -> Nat]]
        <4>1. k.id \in Ids
          BY DEF IndInv, TypeOK, Consumer, Claim
        <4>2. relay[c].next \in 1..Subscribers
          BY <2>1, <2>2 DEF CallRaises, AllCalled
        <4> QED
          BY <2>2, <4>1, <4>2, OneMore DEF CallRaises, Called, RelayInv, RelayTypeOK
      <3> HIDE DEF r
      <3> QED
        BY <2>2, <3>1, <3>2, <3>3, PassStep DEF CallRaises
    <2>3. CASE Rejected(c, k)
      <3> DEFINE r == [next |-> Subscribers + 1, raised |-> TRUE]
      <3>1. relay' = [relay EXCEPT ![c] = r]
        BY <2>3 DEF Rejected
      <3>2. r \in Dispatch /\ r.next >= relay[c].next /\ r.raised
        BY <2>1 DEF Dispatch
      <3>3. called' \in [Ids -> [1..Subscribers -> Nat]]
        BY <2>3 DEF Rejected, RelayInv, RelayTypeOK
      <3> HIDE DEF r
      <3> QED
        BY <2>3, <3>1, <3>2, <3>3, PassStep DEF Rejected
    <2>4. CASE FinishErrs(c, k)
      <3> DEFINE r == [relay[c] EXCEPT !.raised = TRUE]
      <3>1. relay' = [relay EXCEPT ![c] = r]
        BY <2>0, <2>4 DEF FinishErrs
      <3>2. r \in Dispatch /\ r.next >= relay[c].next /\ r.raised
        <4>1. r \in Dispatch /\ r.next = relay[c].next
          BY <2>0 DEF Dispatch
        <4>2. r.raised = TRUE
          BY <2>0 DEF Dispatch
        <4> HIDE DEF r
        <4> QED
          BY <2>1, <4>1, <4>2
      <3>3. called' \in [Ids -> [1..Subscribers -> Nat]]
        BY <2>4 DEF FinishErrs, RelayInv, RelayTypeOK
      <3> HIDE DEF r
      <3> QED
        BY <2>4, <3>1, <3>2, <3>3, PassStep DEF FinishErrs
    <2> QED
      BY <1>4, <2>2, <2>3, <2>4
  <1> QED
    BY <1>1, <1>2, <1>3, <1>4, CallStep, FinishStep, FailStep DEF RelayNext, DispatchOnce

LEMMA RelayInductive == RelaySpec => []RelayInv
  BY RelayInitHolds, RelayStepHolds, RelayIndInv, PTL DEF RelaySpec

(***************************************************************************)
(* A relay's place in a dispatch, and the tallies of calls, keep their      *)
(* types.                                                                   *)
(***************************************************************************)
THEOREM RelayTypes == RelaySpec => []RelayTypeOK
  <1>1. RelayInv => RelayTypeOK
    BY DEF RelayInv
  <1> QED
    BY <1>1, RelayInductive, PTL

(***************************************************************************)
(* At least once: no message leaves an outbox before every subscriber has   *)
(* dealt with it, whatever raises, lapses, dies or is revived on the way.   *)
(***************************************************************************)
THEOREM AtLeastOnce == RelaySpec => []NothingLost
  <1>1. RelayInv => NothingLost
    BY DEF RelayInv
  <1> QED
    BY <1>1, RelayInductive, PTL

(***************************************************************************)
(* And no more often than attempts were spent on it: redelivery is bounded  *)
(* by max_attempts for each time an operator revives the message.           *)
(***************************************************************************)
THEOREM BoundedRedelivery == RelaySpec => []RedeliveryIsPaidFor
  <1>1. IndInv /\ RelayInv => RedeliveryIsPaidFor
    <2> SUFFICES ASSUME IndInv, RelayInv, NEW i \in Ids, NEW s \in 1..Subscribers
                 PROVE  handled[i][s] <= rows[i].attempts + MaxAttempts * revivals
      BY DEF RedeliveryIsPaidFor
    <2>1. \A h, m, a \in Nat, b \in Int : h + m <= a + b => h <= a + b
      OBVIOUS
    <2> QED
      BY <2>1, Quantities
  <1> QED
    BY <1>1, RelayInductive, RelayIndInv, PTL


----------------------------------------------------------------------------
(* Nobody is skipped                                                        *)

Holding(i) == {c \in Consumers : \E k \in con[c].held : k.id = i}

\* The relays that have passed s with message i and are not beyond t
Between(i, s, t) == {c \in Holding(i) : s < relay[c].next /\ relay[c].next <= t}

(***************************************************************************)
(* Two subscribers were called as often, but for the relays between them    *)
(* and those that died there.                                               *)
(***************************************************************************)
Level(i, s, t) ==
    /\ called[i][t] + Cardinality(Between(i, s, t)) <= called[i][s]
    /\ called[i][s] <= called[i][t] + Cardinality(Between(i, s, t)) + crashes

SkipInv ==
    /\ \A i \in Ids : IsFiniteSet(Holding(i))
    /\ \A i \in Ids : \A s, t \in 1..Subscribers : s < t => Level(i, s, t)


LEMMA CallTypes ==
    ASSUME IndInv, RelayInv
    PROVE  /\ con \in [Consumers -> Consumer] /\ relay \in [Consumers -> Dispatch]
           /\ called \in [Ids -> [1..Subscribers -> Nat]]
           /\ \A i \in Ids, s \in 1..Subscribers : called[i][s] \in Nat
           /\ crashes \in Nat /\ Subscribers \in Nat \ {0}
           /\ \A c \in Consumers : relay[c].next \in 1..(Subscribers + 1)
           /\ \A c \in Consumers : \A k \in con[c].held : k.id \in Ids
  <1>1. /\ con \in [Consumers -> Consumer] /\ relay \in [Consumers -> Dispatch]
        /\ called \in [Ids -> [1..Subscribers -> Nat]] /\ crashes \in Nat
        /\ Subscribers \in Nat \ {0}
    BY RelayAssumption DEF IndInv, TypeOK, RelayInv, RelayTypeOK
  <1>2. \A i \in Ids, s \in 1..Subscribers : called[i][s] \in Nat
    BY <1>1
  <1>3. \A c \in Consumers : relay[c].next \in 1..(Subscribers + 1)
    BY <1>1 DEF Dispatch
  <1>4. \A c \in Consumers : \A k \in con[c].held : k.id \in Ids
    BY <1>1 DEF Consumer, Claim
  <1> QED
    BY <1>1, <1>2, <1>3, <1>4

LEMMA BetweenIsFinite ==
    ASSUME SkipInv, NEW i \in Ids, NEW s, NEW t
    PROVE  /\ IsFiniteSet(Between(i, s, t)) /\ Cardinality(Between(i, s, t)) \in Nat
           /\ Cardinality(Between(i, s, t)) <= Cardinality(Holding(i))
           /\ Cardinality(Holding(i)) \in Nat
  <1>1. IsFiniteSet(Holding(i)) /\ Between(i, s, t) \in SUBSET Holding(i)
    BY DEF SkipInv, Between
  <1> QED
    BY <1>1, FS_Subset, FS_CardinalityType

\* At most one relay more has the message
LEMMA HoldingStaysFinite ==
    ASSUME SkipInv, NEW c, \A d \in Consumers \ {c} : con'[d].held = con[d].held
    PROVE  \A i \in Ids : IsFiniteSet(Holding(i)')
  <1> SUFFICES ASSUME NEW i \in Ids PROVE IsFiniteSet(Holding(i)')
    OBVIOUS
  <1>1. Holding(i)' \in SUBSET (Holding(i) \cup {c})
    BY DEF Holding
  <1>2. IsFiniteSet(Holding(i) \cup {c})
    BY AtMostOneMore DEF SkipInv
  <1> QED
    BY <1>1, <1>2, FS_Subset

\* A step that calls nobody, of a relay that is between no two subscribers
LEMMA SkipsKept ==
    ASSUME SkipInv, NEW c, UNCHANGED <<called, crashes>>,
           \A d \in Consumers \ {c} : con'[d].held = con[d].held /\ relay'[d] = relay[d],
           \A i \in Ids, s, t \in 1..Subscribers :
               c \notin Between(i, s, t) /\ c \notin Between(i, s, t)'
    PROVE  SkipInv'
  <1>1. \A i \in Ids : IsFiniteSet(Holding(i)')
    BY HoldingStaysFinite
  <1>2. ASSUME NEW i \in Ids, NEW s \in 1..Subscribers, NEW t \in 1..Subscribers
        PROVE  Between(i, s, t)' = Between(i, s, t)
    BY DEF Between, Holding
  <1>3. \A i \in Ids, s, t \in 1..Subscribers : s < t => Level(i, s, t)'
    BY <1>2 DEF SkipInv, Level
  <1> QED
    BY <1>1, <1>3 DEF SkipInv

LEMMA SkipInit == RelayInit => SkipInv
  <1> SUFFICES ASSUME RelayInit PROVE SkipInv
    OBVIOUS
  <1>1. \A c \in Consumers : con[c].held = {}
    BY DEF RelayInit, Init, Idle
  <1>2. \A i \in Ids : Holding(i) = {} /\ \A s, t : Between(i, s, t) = {}
    BY <1>1 DEF Holding, Between
  <1>3. IsFiniteSet({}) /\ Cardinality({}) = 0
    BY FS_EmptySet
  <1>4. crashes = 0 /\ \A i \in Ids, s \in 1..Subscribers : called[i][s] = 0
    BY DEF RelayInit, Init
  <1>5. \A i \in Ids : IsFiniteSet(Holding(i))
    BY <1>2, <1>3
  <1>6. \A i \in Ids, s, t \in 1..Subscribers : Level(i, s, t)
    <2>1. \A i \in Ids, s, t \in 1..Subscribers : Cardinality(Between(i, s, t)) = 0
      BY <1>2, <1>3
    <2> QED
      BY <1>4, <2>1 DEF Level
  <1> QED
    BY <1>5, <1>6 DEF SkipInv

\* The steps in which no relay moves
LEMMA WaitSkips ==
    ASSUME IndInv, SkipInv, UNCHANGED <<relay, called, handled>>,
           \/ \E i \in Ids : Insert(i) \/ RetryFailed(i)
           \/ \E c \in Consumers : StartClaim(c) \/ SelectCandidates(c) \/ ReturnClaims(c)
           \/ Tick
           \/ UNCHANGED vars
    PROVE  SkipInv'
  <1>1. con \in [Consumers -> Consumer]
    BY DEF IndInv, TypeOK
  <1>2. crashes' = crashes
    BY DEF Insert, RetryFailed, StartClaim, SelectCandidates, ReturnClaims, Tick, vars
  <1>3. \A d \in Consumers : con'[d].held = con[d].held
    <2>1. ASSUME NEW c \in Consumers, StartClaim(c) PROVE \A d \in Consumers : con'[d].held = con[d].held
      <3>1. con' = [con EXCEPT ![c].pc = "select", ![c].at = clock]
        BY <2>1 DEF StartClaim
      <3> QED
        BY <1>1, <3>1 DEF Consumer
    <2>2. ASSUME NEW c \in Consumers, SelectCandidates(c)
          PROVE  \A d \in Consumers : con'[d].held = con[d].held
      <3>1. PICK s \in SeqOf(Ids, Window) : con' = [con EXCEPT ![c].pc = "scan", ![c].cands = s]
        BY <2>2 DEF SelectCandidates
      <3> QED
        BY <1>1, <3>1 DEF Consumer
    <2>3. ASSUME NEW c \in Consumers, ReturnClaims(c)
          PROVE  \A d \in Consumers : con'[d].held = con[d].held
      <3>1. con' = [con EXCEPT ![c].pc = "idle", ![c].at = Nil, ![c].cands = <<>>]
        BY <2>3 DEF ReturnClaims
      <3> QED
        BY <1>1, <3>1 DEF Consumer
    <2>4. CASE (\E i \in Ids : Insert(i) \/ RetryFailed(i)) \/ Tick \/ UNCHANGED vars
      BY <2>4 DEF Insert, RetryFailed, Tick, vars
    <2> QED
      BY <2>1, <2>2, <2>3, <2>4
  <1>4. /\ \A i \in Ids : Holding(i)' = Holding(i)
        /\ \A i \in Ids, s, t \in 1..Subscribers : Between(i, s, t)' = Between(i, s, t)
    BY <1>3 DEF Holding, Between
  <1> QED
    BY <1>2, <1>4 DEF SkipInv, Level

\* A claim starts before the first subscriber
LEMMA ClaimSkips ==
    ASSUME IndInv, RelayInv, SkipInv, NEW c \in Consumers, ClaimCandidate(c),
           UNCHANGED <<relay, called, handled>>
    PROVE  SkipInv'
  <1>1. con \in [Consumers -> Consumer] /\ crashes' = crashes /\ relay[c] = Fresh
    BY ClaimsWithNothing DEF IndInv, TypeOK, ClaimCandidate
  <1>2. \A d \in Consumers \ {c} : con'[d] = con[d]
    <2>1. \/ con' = [con EXCEPT ![c].cands = Tail(con[c].cands)]
          \/ \E k : con' = [con EXCEPT ![c].cands = Tail(con[c].cands), ![c].held = @ \cup {k}]
      BY DEF ClaimCandidate
    <2> QED
      BY <1>1, <2>1
  <1>3. relay[c].next = 1 /\ relay'[c].next = 1
    BY <1>1 DEF Fresh
  <1>4. \A s \in 1..Subscribers : ~(s < 1)
    OBVIOUS
  <1>5. \A i \in Ids, s, t \in 1..Subscribers :
            c \notin Between(i, s, t) /\ c \notin Between(i, s, t)'
    BY <1>3, <1>4 DEF Between
  <1> QED
    BY <1>1, <1>2, <1>5, SkipsKept

\* publish refuses the message before the first subscriber, or complete errs after the last
LEMMA PassSkips ==
    ASSUME IndInv, RelayInv, SkipInv, NEW c \in Consumers, NEW k \in con[c].held,
           Rejected(c, k) \/ FinishErrs(c, k)
    PROVE  SkipInv'
  <1>1. /\ relay[c].next \in 1..(Subscribers + 1) /\ Subscribers \in Nat
        /\ relay \in [Consumers -> Dispatch] /\ relay[c] \in Dispatch
    BY CallTypes
  <1>2. /\ con' = con /\ UNCHANGED <<called, crashes>>
        /\ \A d \in Consumers \ {c} : relay'[d] = relay[d]
    BY <1>1 DEF Rejected, FinishErrs, vars
  <1>3. /\ relay[c].next = 1 \/ relay[c].next > Subscribers
        /\ relay'[c].next > Subscribers
    <2>1. CASE Rejected(c, k)
      <3>1. relay'[c].next = Subscribers + 1 /\ relay[c].next = 1
        BY <1>1, <2>1 DEF Rejected, Fresh
      <3> QED
        BY <1>1, <3>1
    <2>2. CASE FinishErrs(c, k)
      <3>1. relay'[c].next = relay[c].next /\ relay[c].next > Subscribers
        BY <1>1, <2>2 DEF FinishErrs, AllCalled, Dispatch
      <3> QED
        BY <1>1, <3>1
    <2> QED
      BY <2>1, <2>2
  <1>4. \A s, t \in 1..Subscribers : \A n \in {relay[c].next, relay'[c].next} :
            ~(s < n /\ n <= t)
    <2>1. relay'[c].next \in Int
      BY <1>1, <1>2 DEF Rejected, FinishErrs, Dispatch
    <2> QED
      BY <1>1, <1>3, <2>1
  <1>5. \A i \in Ids, s, t \in 1..Subscribers :
            c \notin Between(i, s, t) /\ c \notin Between(i, s, t)'
    BY <1>4 DEF Between
  <1> QED
    BY <1>2, <1>5, SkipsKept

\* A dispatch ends when all were called
LEMMA EndSkips ==
    ASSUME IndInv, RelayInv, SkipInv, NEW c \in Consumers, NEW k \in con[c].held,
           Finish(c, k) \/ Fail(c, k)
    PROVE  SkipInv'
  <1>1. /\ relay[c].next \in 1..(Subscribers + 1) /\ Subscribers \in Nat
        /\ relay \in [Consumers -> Dispatch] /\ con \in [Consumers -> Consumer]
    BY CallTypes
  <1>2. /\ relay[c].next > Subscribers /\ UNCHANGED <<called, crashes>>
        /\ relay' = relay \/ relay' = [relay EXCEPT ![c] = Fresh]
    BY DEF Finish, Fail, AllCalled, Complete, FailRead, FailWrite
  <1>3. \A d \in Consumers \ {c} : con'[d] = con[d] /\ relay'[d] = relay[d]
    <2>1. \/ Drop(c, k)
          \/ \E seen : con' = [con EXCEPT ![c].held = (@ \ {k}) \cup {seen}]
      BY DEF Finish, Fail, Complete, FailRead, FailWrite
    <2> QED
      BY <1>1, <1>2, <2>1 DEF Drop
  <1>4. relay'[c].next = 1 \/ relay'[c].next = relay[c].next
    BY <1>1, <1>2 DEF Fresh
  <1>5. \A s, t \in 1..Subscribers : \A n \in {relay[c].next, relay'[c].next} :
            ~(s < n /\ n <= t)
    BY <1>1, <1>2, <1>4
  <1>6. \A i \in Ids, s, t \in 1..Subscribers :
            c \notin Between(i, s, t) /\ c \notin Between(i, s, t)'
    BY <1>5 DEF Between
  <1> QED
    BY <1>2, <1>3, <1>6, SkipsKept


\* A death leaves at most one subscriber pair a call apart
LEMMA AbandonSkips ==
    ASSUME IndInv, RelayInv, SkipInv, NEW c \in Consumers, Abandon(c) PROVE SkipInv'
  <1>1. /\ relay \in [Consumers -> Dispatch] /\ con \in [Consumers -> Consumer]
        /\ crashes \in Nat /\ \A i \in Ids, s \in 1..Subscribers : called[i][s] \in Nat
    BY CallTypes
  <1>2. /\ con' = [con EXCEPT ![c] = Idle] /\ relay' = [relay EXCEPT ![c] = Fresh]
        /\ crashes' = crashes + 1 /\ called' = called
    BY DEF Abandon, Crash
  <1>3. con'[c].held = {} /\ \A d \in Consumers \ {c} : con'[d] = con[d] /\ relay'[d] = relay[d]
    BY <1>1, <1>2 DEF Idle
  <1>4. \A i \in Ids : IsFiniteSet(Holding(i)')
    BY <1>3, HoldingStaysFinite
  <1>5. ASSUME NEW i \in Ids, NEW s \in 1..Subscribers, NEW t \in 1..Subscribers, s < t
        PROVE  Level(i, s, t)'
    <2> DEFINE before == Between(i, s, t)
               after == Between(i, s, t)'
    <2>1. after = before \ {c}
      BY <1>3 DEF Between, Holding
    <2>2. IsFiniteSet(before) /\ Cardinality(before) \in Nat /\ Level(i, s, t)
      BY <1>5, BetweenIsFinite DEF SkipInv
    <2> HIDE DEF before, after
    <2>3. \/ after = before
          \/ Cardinality(after) = Cardinality(before) - 1
      BY <2>1, <2>2, FS_RemoveElement
    <2>4. Cardinality(after) \in {Cardinality(before), Cardinality(before) - 1}
      BY <2>3
    <2>5. called[i][s] \in Nat /\ called[i][t] \in Nat
      BY <1>1
    <2>6. /\ called[i][t] + Cardinality(after) <= called[i][s]
          /\ called[i][s] <= called[i][t] + Cardinality(after) + (crashes + 1)
      <3>1. /\ called[i][t] + Cardinality(before) <= called[i][s]
            /\ called[i][s] <= called[i][t] + Cardinality(before) + crashes
        BY <2>2 DEF Level, before
      <3> QED
        BY ONLY <1>1, <2>2, <2>4, <2>5, <3>1
    <2> QED
      BY <1>2, <2>6 DEF Level, after
  <1> QED
    BY <1>4, <1>5 DEF SkipInv

\* A call takes a relay past the subscriber it calls: between that one and those after it,
\* and no longer between those before it and that one
LEMMA CallSkips ==
    ASSUME IndInv, RelayInv, SkipInv, NEW c \in Consumers, NEW k \in con[c].held,
           Call(c, k) \/ CallRaises(c, k)
    PROVE  SkipInv'
  <1> DEFINE n == relay[c].next
  <1>1. /\ relay \in [Consumers -> Dispatch] /\ relay[c] \in Dispatch
        /\ called \in [Ids -> [1..Subscribers -> Nat]]
        /\ \A i \in Ids, s \in 1..Subscribers : called[i][s] \in Nat
        /\ crashes \in Nat /\ k.id \in Ids
    BY CallTypes
  <1>2. n \in 1..Subscribers
    BY CallTypes DEF Call, CallRaises, AllCalled
  <1>3. /\ con' = con /\ crashes' = crashes
        /\ called' = [called EXCEPT ![k.id][n] = @ + 1]
    BY DEF Call, CallRaises, Called, vars
  <1>4. relay'[c].next = n + 1 /\ \A d \in Consumers \ {c} : relay'[d] = relay[d]
    <2>1. CASE Call(c, k)
      BY <1>1, <2>1 DEF Call, Dispatch
    <2>2. CASE CallRaises(c, k)
      <3> DEFINE r == [relay[c] EXCEPT !.next = n + 1, !.raised = TRUE]
      <3>1. relay' = [relay EXCEPT ![c] = r]
        BY <1>1, <2>2 DEF CallRaises
      <3>2. r.next = n + 1
        BY <1>1 DEF Dispatch
      <3> HIDE DEF r
      <3> QED
        BY <1>1, <3>1, <3>2
    <2> QED
      BY <2>1, <2>2
  <1>5. \A i \in Ids, s \in 1..Subscribers :
            called'[i][s] = IF i = k.id /\ s = n THEN called[i][s] + 1 ELSE called[i][s]
    BY <1>1, <1>2, <1>3
  <1>6. \A i \in Ids : c \in Holding(i) <=> i = k.id
    BY <1>1 DEF Holding, RelayInv, OneDispatch
  <1>7. \A i \in Ids : Holding(i)' = Holding(i)
    BY <1>3 DEF Holding
  <1> HIDE DEF n
  <1>8. n = relay[c].next
    BY DEF n
  <1>9. ASSUME NEW i \in Ids, NEW s \in 1..Subscribers, NEW t \in 1..Subscribers, s < t
        PROVE  Level(i, s, t)'
    <2> DEFINE before == Between(i, s, t)
               after == Between(i, s, t)'
    <2>1. /\ IsFiniteSet(before) /\ Cardinality(before) \in Nat
          /\ called[i][t] + Cardinality(before) <= called[i][s]
          /\ called[i][s] <= called[i][t] + Cardinality(before) + crashes
      BY <1>9, BetweenIsFinite DEF SkipInv, Level
    <2>2. /\ before \ {c} = after \ {c}
          /\ c \in before <=> i = k.id /\ s < n /\ n <= t
          /\ c \in after <=> i = k.id /\ s < n + 1 /\ n + 1 <= t
      <3>1. \A d \in Consumers : d \in before <=>
                d \in Holding(i) /\ s < relay[d].next /\ relay[d].next <= t
        BY DEF Between, Holding
      <3>2. \A d \in Consumers : d \in after <=>
                d \in Holding(i) /\ s < relay'[d].next /\ relay'[d].next <= t
        BY <1>7 DEF Between, Holding
      <3>3. before \subseteq Consumers /\ after \subseteq Consumers
        BY DEF Between, Holding
      <3> HIDE DEF before, after
      <3>4. before \ {c} = after \ {c}
        BY <1>4, <3>1, <3>2, <3>3
      <3> QED
        BY <1>4, <1>6, <1>8, <3>1, <3>2, <3>4
    <2>3. called[i][s] \in Nat /\ called[i][t] \in Nat
      BY <1>1
    <2> HIDE DEF before, after
    <2>4. \A a, b, m, k1 \in Nat : a + m <= b /\ b <= a + m + k1 =>
              /\ a + (m + 1) <= b + 1 /\ b + 1 <= a + (m + 1) + k1
              /\ (a + 1) + (m - 1) <= b /\ b <= (a + 1) + (m - 1) + k1
      OBVIOUS
    <2>5. /\ called'[i][t] + Cardinality(after) <= called'[i][s]
          /\ called'[i][s] <= called'[i][t] + Cardinality(after) + crashes
      <3>1. CASE i = k.id /\ s = n
        <4>1. c \notin before /\ c \in after
          BY ONLY <1>2, <1>9, <2>2, <3>1, s \in 1..Subscribers, t \in 1..Subscribers
        <4>2. after = before \cup {c}
          BY <2>2, <4>1
        <4>3. Cardinality(after) = Cardinality(before) + 1
          BY <2>1, <4>1, <4>2, FS_AddElement
        <4>4. called'[i][s] = called[i][s] + 1 /\ called'[i][t] = called[i][t]
          <5>1. t # n
            BY ONLY <1>9, <3>1, s \in 1..Subscribers, t \in 1..Subscribers
          <5> QED
            BY <1>5, <3>1, <5>1
        <4> QED
          BY <1>1, <2>1, <2>3, <2>4, <4>3, <4>4
      <3>2. CASE i = k.id /\ t = n
        <4>1. c \in before /\ c \notin after
          BY ONLY <1>2, <1>9, <2>2, <3>2, s \in 1..Subscribers, t \in 1..Subscribers
        <4>2. after = before \ {c}
          BY <2>2, <4>1
        <4>3. Cardinality(after) = Cardinality(before) - 1
          BY <2>1, <4>1, <4>2, FS_RemoveElement
        <4>4. called'[i][t] = called[i][t] + 1 /\ called'[i][s] = called[i][s]
          <5>1. s # n
            BY ONLY <1>9, <3>2, s \in 1..Subscribers, t \in 1..Subscribers
          <5> QED
            BY <1>5, <3>2, <5>1
        <4> QED
          BY <1>1, <2>1, <2>3, <2>4, <4>3, <4>4
      <3>3. CASE ~(i = k.id /\ (s = n \/ t = n))
        <4>1. c \in before <=> c \in after
          <5>1. CASE i # k.id
            BY <2>2, <5>1
          <5>2. CASE s # n /\ t # n
            <6>1. (s < n <=> s < n + 1) /\ (n <= t <=> n + 1 <= t)
              BY ONLY <1>2, <5>2, s \in 1..Subscribers, t \in 1..Subscribers
            <6> QED
              BY <2>2, <6>1
          <5> QED
            BY <3>3, <5>1, <5>2
        <4>2. after = before
          BY <2>2, <4>1
        <4>3. called'[i][t] = called[i][t] /\ called'[i][s] = called[i][s]
          BY <1>5, <3>3
        <4> QED
          BY <2>1, <4>2, <4>3
      <3> QED
        BY <3>1, <3>2, <3>3
    <2> QED
      BY <1>3, <2>5 DEF Level, after
  <1>10. \A i \in Ids : IsFiniteSet(Holding(i)')
    BY <1>7 DEF SkipInv
  <1> QED
    BY <1>9, <1>10 DEF SkipInv

LEMMA SkipStep == IndInv /\ RelayInv /\ SkipInv /\ [RelayNext]_relayVars => SkipInv'
  <1> SUFFICES ASSUME IndInv, RelayInv, SkipInv, [RelayNext]_relayVars PROVE SkipInv'
    OBVIOUS
  <1>1. CASE UNCHANGED relayVars
    BY <1>1, WaitSkips DEF relayVars
  <1>2. CASE /\ \/ \E i \in Ids : Insert(i) \/ RetryFailed(i)
                \/ \E c \in Consumers : Scan(c)
                \/ Tick
             /\ UNCHANGED <<relay, called, handled>>
    <2>1. CASE (\E i \in Ids : Insert(i) \/ RetryFailed(i)) \/ Tick
      BY <1>2, <2>1, WaitSkips
    <2>2. CASE \E c \in Consumers : Scan(c)
      BY <1>2, <2>2, WaitSkips, ClaimSkips DEF Scan
    <2> QED
      BY <1>2, <2>1, <2>2
  <1> QED
    BY <1>1, <1>2, AbandonSkips, CallSkips, PassSkips, EndSkips DEF RelayNext, DispatchOnce

(***************************************************************************)
(* A subscriber that raises takes nothing from those after it (publish's    *)
(* rescue is inside its loop): two subscribers of a message were called as  *)
(* often, but for the dispatches under way and those cut off by a death.    *)
(***************************************************************************)
THEOREM SubscribersKeepLevel == RelaySpec => []NobodyIsSkipped
  <1>1. IndInv /\ RelayInv /\ SkipInv => NobodyIsSkipped
    <2> SUFFICES ASSUME IndInv, RelayInv, SkipInv,
                        NEW i \in Ids, NEW s \in 1..Subscribers, NEW t \in 1..Subscribers, s < t
                 PROVE  called[i][s] - called[i][t] \in 0..(crashes + Cardinality(Holding(i)))
      BY DEF NobodyIsSkipped, Holding
    <2>1. /\ called[i][s] \in Nat /\ called[i][t] \in Nat /\ crashes \in Nat
          /\ Level(i, s, t)
      BY CallTypes DEF SkipInv
    <2>2. /\ Cardinality(Between(i, s, t)) \in Nat /\ Cardinality(Holding(i)) \in Nat
          /\ Cardinality(Between(i, s, t)) <= Cardinality(Holding(i))
      BY BetweenIsFinite
    <2> QED
      BY <2>1, <2>2 DEF Level
  <1> QED
    BY <1>1, SkipInit, SkipStep, RelayInductive, RelayIndInv, PTL DEF RelaySpec

=============================================================================
