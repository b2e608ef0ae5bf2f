--------------------------- MODULE Helium_proofs ----------------------------
(***************************************************************************)
(* Theorems about the Helium client: HeliumStream misses no event;          *)
(* HeliumReactivity's registry holds what its bindings depend on, in order, *)
(* and what a page computes and shows is what its state says;               *)
(* HeliumElements binds an element once, and if and only if it is there; and*)
(* about MCBrowser, where they stand beside Morpheus.                       *)
(***************************************************************************)
EXTENDS MCBrowser, Morpheus_proofs, SequenceTheorems, FiniteSetTheorems, TLAPS

(***************************************************************************)
(* Why a stream misses nothing: what was handled ends where the reading, or *)
(* the next request, goes on.                                               *)
(***************************************************************************)

InOrder(q) == \A i \in 1..Len(q) - 1 : q[i + 1] = q[i] + 1

\* The last event handled is id
EndsWith(q, id) == q # <<>> /\ q[Len(q)] = id

\* The buffer holds the beginning of an event there is
HalfIsProduced == half => next <= produced

\* Reading goes on after the last event handled, and the id of this response is its
ReadsOn ==
    conn = "open" =>
        /\ seen # <<>> => EndsWith(seen, next - 1)
        /\ lastId # 0 => EndsWith(seen, lastId)

\* The next request resumes after it; the first of all follows nothing
AsksOn ==
    /\ conn = "waiting" => EndsWith(seen, lastId)
    /\ conn = "asked" =>
          IF connections = 0 THEN seen = <<>>
          ELSE EndsWith(seen, lastId) /\ resume = lastId

StreamInv ==
    /\ StreamTypeOK /\ HalfIsProduced
    /\ ~barren /\ ~cut => InOrder(seen) /\ ReadsOn /\ AsksOn

----------------------------------------------------------------------------

LEMMA EventsAre ==
    ASSUME NEW most \in Nat, NEW from \in 1..most + 1, NEW to \in 0..most, to >= from - 1
    PROVE  /\ Events(from, to) \in Seq(1..most) /\ Len(Events(from, to)) = to - from + 1
           /\ \A i \in 1..to - from + 1 : Events(from, to)[i] = from + i - 1
  <1>1. to - from + 1 \in Nat
    OBVIOUS
  <1>2. \A i \in 1..to - from + 1 : from + i - 1 \in 1..most
    OBVIOUS
  <1> DEFINE len == to - from + 1
             e == [i \in 1..len |-> from + i - 1]
  <1>3. e \in [1..len -> 1..most] /\ len \in Nat /\ \A i \in 1..len : e[i] = from + i - 1
    BY <1>1, <1>2
  <1>4. Events(from, to) = e
    BY DEF Events
  <1> HIDE DEF e, len
  <1>5. e \in Seq(1..most)
    BY <1>3, SeqDef
  <1>6. Len(e) = len
    BY <1>3, <1>5, LenProperties
  <1> QED
    BY <1>3, <1>4, <1>5, <1>6 DEF len

LEMMA ConcatParts ==
    ASSUME NEW S, NEW q \in Seq(S), NEW e \in Seq(S), NEW r, r = q \o e
    PROVE  /\ r \in Seq(S) /\ Len(q) \in Nat /\ Len(e) \in Nat
           /\ Len(r) = Len(q) + Len(e)
           /\ \A i \in 1..Len(q) : r[i] = q[i]
           /\ \A j \in 1..Len(e) : r[Len(q) + j] = e[j]
  <1>1. Len(q) \in Nat /\ Len(e) \in Nat
    OBVIOUS
  <1>2. r \in Seq(S) /\ Len(r) = Len(q) + Len(e)
    BY ConcatProperties
  <1>3. \A i \in 1..Len(q) : r[i] = q[i]
    BY <1>1, ConcatProperties
  <1>4. ASSUME NEW j \in 1..Len(e) PROVE r[Len(q) + j] = e[j]
    <2>1. Len(q) + j \in 1..Len(q) + Len(e) /\ ~(Len(q) + j <= Len(q))
          /\ (Len(q) + j) - Len(q) = j
      BY <1>1
    <2> QED
      BY <2>1, ConcatProperties
  <1> QED
    BY <1>1, <1>2, <1>3, <1>4

(***************************************************************************)
(* Events that follow the last one handled, or the first ones of all.       *)
(***************************************************************************)
LEMMA EventsFollow ==
    ASSUME NEW most \in Nat, NEW q \in Seq(1..most), NEW from \in 1..most + 1,
           NEW to \in 0..most, to >= from - 1,
           NEW r, r = q \o Events(from, to)
    PROVE  /\ r \in Seq(1..most)
           /\ to >= from => EndsWith(r, to)
           /\ to < from => r = q
           /\ InOrder(q) /\ (q # <<>> => EndsWith(q, from - 1)) => InOrder(r)
  <1>1. PICK e : e = Events(from, to)
    OBVIOUS
  <1>2. PICK n : n = Len(q)
    OBVIOUS
  <1>3. PICK m : m = to - from + 1
    OBVIOUS
  <1>4. /\ e \in Seq(1..most) /\ Len(e) = m /\ m \in Nat /\ n \in Nat
        /\ \A i \in 1..m : e[i] = from + i - 1
    <2>1. e \in Seq(1..most) /\ Len(e) = m
      BY <1>1, <1>3, EventsAre
    <2>2. m \in Nat /\ n \in Nat
      BY <1>2, <1>3
    <2>3. \A i \in 1..m : e[i] = from + i - 1
      BY <1>1, <1>3, EventsAre
    <2> QED
      BY <2>1, <2>2, <2>3
  <1>5. /\ r \in Seq(1..most) /\ Len(r) = n + m
        /\ \A i \in 1..n : r[i] = q[i]
        /\ \A j \in 1..m : r[n + j] = e[j]
    BY <1>1, <1>2, <1>4, ConcatParts
  <1>6. to >= from => EndsWith(r, to)
    <2> SUFFICES ASSUME to >= from PROVE EndsWith(r, to)
      OBVIOUS
    <2>1. m \in 1..m /\ n + m # 0
      BY <1>3, <1>4
    <2>2. r[n + m] = to
      <3>1. r[n + m] = e[m] /\ e[m] = from + m - 1
        BY <1>4, <1>5, <2>1
      <3> QED
        BY <1>3, <3>1
    <2>3. r # <<>>
      BY <1>5, <2>1, EmptySeq
    <2> QED
      BY <1>5, <2>2, <2>3 DEF EndsWith
  <1>7. to < from => r = q
    <2> SUFFICES ASSUME to < from PROVE r = q
      OBVIOUS
    <2>1. Len(e) = 0
      BY <1>3, <1>4
    <2>2. e = <<>>
      BY <1>4, <2>1, EmptySeq
    <2> QED
      BY <1>1, <2>2, ConcatEmptySeq
  <1>8. ASSUME InOrder(q), q # <<>> => EndsWith(q, from - 1)
        PROVE  InOrder(r)
    <2> SUFFICES ASSUME NEW i \in 1..Len(r) - 1 PROVE r[i + 1] = r[i] + 1
      BY DEF InOrder
    <2>1. i \in 1..n + m - 1
      BY <1>4, <1>5
    <2>2. CASE i < n
      <3>1. i \in 1..n /\ i + 1 \in 1..n /\ i \in 1..n - 1
        BY <1>4, <2>1, <2>2
      <3>2. q[i + 1] = q[i] + 1
        BY <1>2, <1>8, <3>1 DEF InOrder
      <3> QED
        BY <1>5, <3>1, <3>2
    <2>3. CASE i = n
      <3>1. q # <<>> /\ 1 \in 1..m /\ i \in 1..n
        BY <1>2, <1>4, <2>1, <2>3, EmptySeq
      <3>2. r[i] = from - 1
        BY <1>2, <1>5, <1>8, <2>3, <3>1 DEF EndsWith
      <3>3. r[i + 1] = e[1]
        BY <1>5, <2>3, <3>1
      <3>4. e[1] = from
        BY <1>4, <3>1
      <3> QED
        BY <3>2, <3>3, <3>4
    <2>4. CASE i > n
      <3>1. PICK j \in 1..m : i = n + j /\ j + 1 \in 1..m
        <4>1. i - n \in 1..m /\ (i - n) + 1 \in 1..m /\ i = n + (i - n)
          BY <1>4, <2>1, <2>4
        <4> QED
          BY <4>1
      <3>2. i + 1 = n + (j + 1)
        BY <1>4, <3>1
      <3>3. r[i] = e[j] /\ r[i + 1] = e[j + 1]
        BY <1>5, <3>1, <3>2
      <3>4. e[j] = from + j - 1 /\ e[j + 1] = from + (j + 1) - 1
        BY <1>4, <3>1
      <3> QED
        BY <3>3, <3>4
    <2> QED
      BY <1>4, <2>1, <2>2, <2>3, <2>4
  <1> QED
    BY <1>5, <1>6, <1>7, <1>8

\* The kinds of the variables, with the bounds as numbers
LEMMA StreamTypes ==
    ASSUME StreamTypeOK
    PROVE  /\ produced \in Nat /\ MaxProduced \in Nat /\ MaxConnections \in Nat
           /\ connections \in Nat /\ lastId \in Nat /\ resume \in Nat /\ next \in Nat
           /\ next \in 1..produced + 1 /\ seen \in Seq(1..produced)
  BY StreamAssumption DEF StreamTypeOK

LEMMA StreamInitSound == StreamInit => StreamInv
  <1> SUFFICES ASSUME StreamInit PROVE StreamInv
    OBVIOUS
  <1>1. StreamTypeOK
    <2>1. produced \in 0..MaxProduced /\ 0 \in 0..produced /\ 0 \in 0..MaxConnections
          /\ 1 \in 1..produced + 1
      BY StreamAssumption DEF StreamInit
    <2>2. <<>> \in Seq(1..produced)
      BY EmptySeq
    <2> QED
      BY <2>1, <2>2 DEF StreamInit, StreamTypeOK
  <1>2. HalfIsProduced /\ ReadsOn /\ AsksOn
    BY DEF StreamInit, HalfIsProduced, ReadsOn, AsksOn
  <1>3. InOrder(seen)
    BY EmptySeq DEF StreamInit, InOrder
  <1> QED
    BY <1>1, <1>2, <1>3 DEF StreamInv

LEMMA ProduceSound == ASSUME StreamInv, Produce PROVE StreamInv'
  <1>1. StreamTypeOK /\ HalfIsProduced
    BY DEF StreamInv
  <1>2. StreamTypeOK'
    <2>1. seen' \in Seq(1..produced') /\ produced' \in 0..MaxProduced
      <3>1. 1..produced \subseteq 1..produced'
        BY <1>1, StreamTypes DEF Produce
      <3> QED
        BY <1>1, <3>1, StreamTypes DEF Produce
    <2> QED
      BY <1>1, <2>1, StreamTypes DEF Produce, StreamTypeOK
  <1>3. HalfIsProduced'
    BY <1>1, StreamTypes DEF HalfIsProduced, Produce
  <1>4. ~barren /\ ~cut => (InOrder(seen) /\ ReadsOn /\ AsksOn)'
    BY DEF StreamInv, Produce, ReadsOn, AsksOn
  <1> QED
    BY <1>2, <1>3, <1>4 DEF StreamInv, Produce

\* A response, or none
LEMMA AnsweredSound ==
    ASSUME StreamInv, Responds \/ RespondsOtherwise \/ RequestFails
    PROVE  StreamInv'
  <1>1. StreamTypeOK /\ HalfIsProduced
    BY DEF StreamInv
  <1>2. StreamTypeOK'
    <2>1. 0 \in 0..produced /\ resume + 1 \in 1..produced + 1 /\ produced + 1 \in 1..produced + 1
      BY <1>1, StreamTypes DEF StreamTypeOK
    <2>2. CASE Responds
      BY <1>1, <2>1, <2>2 DEF StreamTypeOK, Responds
    <2>3. CASE RespondsOtherwise \/ RequestFails
      BY <1>1, <2>3 DEF StreamTypeOK, RespondsOtherwise, RequestFails
    <2> QED
      BY <2>2, <2>3
  <1>3. HalfIsProduced'
    BY <1>1, StreamTypes DEF HalfIsProduced, Responds, RespondsOtherwise, RequestFails
  <1>4. ASSUME ~barren, ~cut PROVE (InOrder(seen) /\ ReadsOn /\ AsksOn)'
    <2>1. InOrder(seen) /\ ReadsOn /\ AsksOn
      BY <1>4 DEF StreamInv
    <2>2. conn = "asked" /\ seen' = seen
      BY DEF Responds, RespondsOtherwise, RequestFails
    <2>3. connections # 0 => EndsWith(seen, lastId) /\ resume = lastId
      BY <2>1, <2>2 DEF AsksOn
    <2>4. connections = 0 => seen = <<>>
      BY <2>1, <2>2 DEF AsksOn
    <2>5. connections # 0 => resume # 0
      <3> SUFFICES ASSUME connections # 0 PROVE resume # 0
        OBVIOUS
      <3>1. Len(seen) \in 1..Len(seen) /\ seen[Len(seen)] = lastId
        BY <1>1, <2>3, StreamTypes, EmptySeq DEF EndsWith
      <3> QED
        BY <1>1, <2>3, <3>1, StreamTypes
    <2>6. ReadsOn'
      BY <1>1, <2>2, <2>3, <2>4, <2>5, StreamTypes
         DEF ReadsOn, Responds, RespondsOtherwise, RequestFails
    <2>7. AsksOn'
      BY <1>1, <2>2, <2>3, <2>4, StreamTypes
         DEF AsksOn, Responds, RespondsOtherwise, RequestFails
    <2> QED
      BY <2>1, <2>2, <2>6, <2>7
  <1> QED
    BY <1>2, <1>3, <1>4 DEF StreamInv, Responds, RespondsOtherwise, RequestFails

LEMMA ReconnectSound == ASSUME StreamInv, Reconnect PROVE StreamInv'
  <1>1. StreamTypeOK /\ HalfIsProduced
    BY DEF StreamInv
  <1>2. StreamTypeOK'
    <2>1. connections + 1 \in 0..MaxConnections
      BY <1>1, StreamTypes DEF StreamTypeOK, Reconnect
    <2> QED
      BY <1>1, <2>1 DEF StreamTypeOK, Reconnect, ResumesFrom
  <1>3. HalfIsProduced'
    BY <1>1 DEF HalfIsProduced, Reconnect
  <1>4. ASSUME ~barren, ~cut PROVE (InOrder(seen) /\ ReadsOn /\ AsksOn)'
    <2>1. InOrder(seen) /\ EndsWith(seen, lastId)
      BY <1>4 DEF StreamInv, AsksOn, Reconnect
    <2>2. /\ seen' = seen /\ lastId' = lastId
          /\ \/ conn' = "asked" /\ resume' = lastId /\ connections' = connections + 1
             \/ conn' = "over"
      BY DEF Reconnect, ResumesFrom
    <2> QED
      <3>1. connections \in Nat /\ (conn' = "asked" => connections' # 0)
        BY <1>1, <2>2, StreamTypes
      <3>2. InOrder(seen)' /\ EndsWith(seen, lastId)'
        BY <2>1, <2>2 DEF InOrder, EndsWith
      <3> QED
        BY <2>2, <3>1, <3>2 DEF ReadsOn, AsksOn
  <1> QED
    BY <1>2, <1>3, <1>4 DEF StreamInv, Reconnect

\* What one chunk adds
LEMMA ReadingOn ==
    ASSUME StreamInv, conn = "open", NEW to \in 0..produced, to >= next - 1,
           NEW r, r = seen \o Events(next, to)
    PROVE  /\ r \in Seq(1..produced)
           /\ ~barren /\ ~cut =>
                 /\ InOrder(r) /\ (r # <<>> => EndsWith(r, to))
                 /\ lastId # 0 => EndsWith(r, IF to >= next THEN to ELSE lastId)
                 /\ to >= next => EndsWith(r, to)
  <1>1. StreamTypeOK
    BY DEF StreamInv
  <1>2. /\ r \in Seq(1..produced)
        /\ to >= next => EndsWith(r, to)
        /\ to < next => r = seen
        /\ InOrder(seen) /\ (seen # <<>> => EndsWith(seen, next - 1)) => InOrder(r)
    BY <1>1, StreamTypes, EventsFollow
  <1>3. next \in Nat /\ (to < next => to = next - 1)
    <2>1. next \in Nat /\ produced \in Nat
      BY <1>1, StreamTypes
    <2> QED
      BY <2>1
  <1>4. ASSUME ~barren, ~cut
        PROVE  /\ InOrder(r) /\ (r # <<>> => EndsWith(r, to))
               /\ lastId # 0 => EndsWith(r, IF to >= next THEN to ELSE lastId)
    <2>1. /\ InOrder(seen) /\ (seen # <<>> => EndsWith(seen, next - 1))
          /\ lastId # 0 => EndsWith(seen, lastId)
      BY <1>4 DEF StreamInv, ReadsOn
    <2>2. to >= next \/ to < next
      BY <1>1, StreamTypes
    <2> QED
      BY <1>2, <1>3, <2>1, <2>2
  <1> QED
    BY <1>2, <1>4

LEMMA ReadSound ==
    ASSUME StreamInv, NEW to \in 0..produced, NEW more \in BOOLEAN, Read(to, more)
    PROVE  StreamInv'
  <1>1. StreamTypeOK
    BY DEF StreamInv
  <1>2. /\ conn = "open" /\ to >= next - 1 /\ (more => to < produced)
        /\ seen' = seen \o Events(next, to)
        /\ lastId' = IF to >= next THEN to ELSE lastId
        /\ next' = to + 1 /\ half' = more
        /\ UNCHANGED <<retryMode, current, produced, conn, resume, connections, barren, cut>>
    BY DEF Read
  <1>3. /\ seen' \in Seq(1..produced)
        /\ ~barren /\ ~cut =>
              /\ InOrder(seen') /\ (seen' # <<>> => EndsWith(seen', to))
              /\ lastId # 0 => EndsWith(seen', lastId')
              /\ to >= next => EndsWith(seen', to)
    BY <1>2, ReadingOn
  <1>4. StreamTypeOK'
    <2>1. to + 1 \in 1..produced + 1
      BY <1>1, StreamTypes
    <2> QED
      BY <1>1, <1>2, <1>3, <2>1 DEF StreamTypeOK
  <1>5. HalfIsProduced'
    BY <1>1, <1>2, StreamTypes DEF HalfIsProduced
  <1>6. ASSUME ~barren, ~cut PROVE (InOrder(seen) /\ ReadsOn /\ AsksOn)'
    <2>1. (to + 1) - 1 = to
      OBVIOUS
    <2>2. InOrder(seen)' /\ AsksOn'
      BY <1>2, <1>3, <1>6 DEF InOrder, AsksOn
    <2>3. ReadsOn'
      BY <1>2, <1>3, <1>6, <2>1 DEF ReadsOn, EndsWith
    <2> QED
      BY <2>2, <2>3
  <1> QED
    BY <1>2, <1>4, <1>5, <1>6 DEF StreamInv

\* The response is over: the next request, if any, follows the id that is kept
LEMMA EndsSound ==
    ASSUME StreamInv, NEW how, NEW id \in 0..produced, Ends(how, id), conn = "open",
           UNCHANGED <<retryMode, current, produced, resume, connections>>,
           cut' \in BOOLEAN, cut => cut', next' \in 1..produced + 1,
           seen' \in Seq(1..produced),
           ~barren' /\ ~cut' => InOrder(seen') /\ EndsWith(seen', id)
    PROVE  StreamInv'
  <1>1. StreamTypeOK
    BY DEF StreamInv
  <1>2. StreamTypeOK'
    BY <1>1 DEF StreamTypeOK, Ends
  <1>3. HalfIsProduced'
    BY DEF HalfIsProduced, Ends
  <1>4. ASSUME ~barren', ~cut' PROVE (InOrder(seen) /\ ReadsOn /\ AsksOn)'
    <2>1. /\ InOrder(seen') /\ EndsWith(seen', id) /\ lastId' = id
          /\ conn' \in {"waiting", "over"}
      BY <1>4 DEF Ends
    <2>2. InOrder(seen)' /\ EndsWith(seen, lastId)'
      BY <2>1 DEF InOrder, EndsWith
    <2> QED
      BY <2>1, <2>2 DEF ReadsOn, AsksOn
  <1> QED
    BY <1>2, <1>3, <1>4 DEF StreamInv

LEMMA ReadThrowsSound ==
    ASSUME StreamInv, NEW bad \in 0..produced, ReadThrows(bad)
    PROVE  StreamInv'
  <1>1. StreamTypeOK
    BY DEF StreamInv
  <1>2. /\ conn = "open" /\ bad >= next /\ next' = bad + 1
        /\ seen' = seen \o Events(next, bad) /\ Ends("error", bad)
        /\ UNCHANGED <<retryMode, current, produced, resume, connections, cut>>
        /\ barren' = (barren \/ bad = 0)
    BY DEF ReadThrows, Ends
  <1>3. bad >= next - 1 /\ bad + 1 \in 1..produced + 1
    BY <1>1, <1>2, StreamTypes
  <1>4. /\ seen' \in Seq(1..produced)
        /\ ~barren /\ ~cut => InOrder(seen') /\ EndsWith(seen', bad)
    BY <1>2, <1>3, ReadingOn
  <1>5. cut' \in BOOLEAN
    BY <1>1, <1>2 DEF StreamTypeOK
  <1> QED
    BY <1>2, <1>3, <1>4, <1>5, EndsSound

LEMMA ReadFailsSound == ASSUME StreamInv, ReadFails PROVE StreamInv'
  <1>1. StreamTypeOK
    BY DEF StreamInv
  <1>2. /\ conn = "open" /\ Ends("error", lastId)
        /\ UNCHANGED <<retryMode, current, produced, resume, next, seen, connections, cut>>
        /\ barren' = (barren \/ lastId = 0)
    BY DEF ReadFails, Ends
  <1>3. /\ lastId \in 0..produced /\ cut' \in BOOLEAN /\ next' \in 1..produced + 1
        /\ seen' \in Seq(1..produced)
    BY <1>1, <1>2 DEF StreamTypeOK
  <1>4. ~barren' /\ ~cut' => InOrder(seen') /\ EndsWith(seen', lastId)
    BY <1>2 DEF StreamInv, ReadsOn
  <1> QED
    BY <1>2, <1>3, <1>4, EndsSound

LEMMA ClosedSound == ASSUME StreamInv, Closed PROVE StreamInv'
  <1>1. StreamTypeOK /\ conn = "open"
    BY DEF StreamInv, Closed
  <1>2. /\ UNCHANGED <<retryMode, current, produced, resume, next, connections>>
        /\ next' \in 1..produced + 1 /\ lastId \in 0..produced
    BY <1>1 DEF Closed, StreamTypeOK
  <1>3. CASE half /\ current
    <2>1. PICK id \in {lastId, next}, how \in {"closed", "error"} : Ends(how, id)
      BY <1>3 DEF Closed
    <2>2. seen' = Append(seen, next) /\ cut' = TRUE
      BY <1>3 DEF Closed
    <2>3. next \in 1..produced
      BY <1>1, <1>3, StreamTypes DEF StreamInv, HalfIsProduced
    <2>4. id \in 0..produced
      BY <1>1, <1>2, <2>1, <2>3, StreamTypes
    <2>5. seen' \in Seq(1..produced)
      BY <1>1, <2>2, <2>3, StreamTypes
    <2> QED
      BY <1>1, <1>2, <2>1, <2>2, <2>4, <2>5, EndsSound
  <1>4. CASE ~(half /\ current)
    <2>1. Ends("closed", lastId) /\ UNCHANGED <<seen, cut>>
          /\ barren' = (barren \/ lastId = 0)
      BY <1>4 DEF Closed, Ends
    <2>2. ~barren' /\ ~cut' => InOrder(seen') /\ EndsWith(seen', lastId)
      BY <1>1, <2>1 DEF StreamInv, ReadsOn
    <2>3. seen' \in Seq(1..produced) /\ cut' \in BOOLEAN
      BY <1>1, <2>1 DEF StreamTypeOK
    <2> QED
      BY <1>1, <1>2, <2>1, <2>2, <2>3, EndsSound
  <1> QED
    BY <1>3, <1>4

\* The page is gone, or nothing happens
LEMMA StreamStops ==
    ASSUME StreamInv, ReadInVain \/ Supersede \/ UNCHANGED streamVars
    PROVE  StreamInv'
  <1>1. /\ UNCHANGED <<retryMode, produced, resume, next, half, lastId, seen, connections,
                       barren, cut>>
        /\ conn' \in {conn, "over"} /\ current' \in {current, FALSE}
    BY DEF ReadInVain, Supersede, streamVars
  <1>2. StreamTypeOK' /\ HalfIsProduced'
    BY <1>1 DEF StreamInv, StreamTypeOK, HalfIsProduced
  <1>3. ~barren /\ ~cut => (InOrder(seen) /\ ReadsOn /\ AsksOn)'
    BY <1>1 DEF StreamInv, InOrder, ReadsOn, AsksOn
  <1> QED
    BY <1>1, <1>2, <1>3 DEF StreamInv

LEMMA StreamNextSound == StreamInv /\ [StreamNext]_streamVars => StreamInv'
  BY ProduceSound, AnsweredSound, ReconnectSound, ReadSound, ReadThrowsSound,
     ReadFailsSound, ClosedSound, StreamStops DEF StreamNext

THEOREM StreamInductive == StreamSpec => []StreamInv
  BY StreamInitSound, StreamNextSound, PTL DEF StreamSpec

(***************************************************************************)
(* Over any number of events and responses, whichever of them break or fail *)
(* to come, every event is handled once and in order, but for a response    *)
(* that ends before any id and an end in the middle of an event.            *)
(***************************************************************************)
THEOREM NothingIsMissed == StreamSpec => []NothingMissed
  <1>1. StreamInv => NothingMissed
    BY DEF StreamInv, NothingMissed, InOrder
  <1> QED
    BY <1>1, StreamInductive, PTL

----------------------------------------------------------------------------

(***************************************************************************)
(* Why the registry agrees with the dependencies: only updateBinding-       *)
(* Dependencies touches either, and what it is called with are bindings of  *)
(* the page, because the call stack holds nothing else.                     *)
(***************************************************************************)

Snapshots == UNION {[S -> Values] : S \in SUBSET Keys}

CallFrame(bindings) ==
    [call : {"notify", "apply", "execute"}, b : {0} \cup bindings, queue : Seq(bindings),
     all : BOOLEAN, safe : BOOLEAN, result : Results, read : Snapshots]

\* An effect is executed by the mount, as the next there is to do, or by an application.
CallsFit(bindings, frames, left) ==
    /\ frames \in Seq(CallFrame(bindings))
    /\ \A i \in 1..Len(frames) :
          /\ frames[i].call # "notify" => frames[i].b \in bindings
          /\ frames[i].call = "execute" =>
                IF i = 1 THEN left # <<>> ELSE frames[i - 1].call = "apply"

\* A queue of the registry holds the bindings that depend on its key, once each, those
\* of `firsts` before the others.
QueueFits(bindings, firsts, dependents, queue) ==
    /\ queue \in Seq(bindings)
    /\ {queue[i] : i \in 1..Len(queue)} = dependents
    /\ \A i, j \in 1..Len(queue) : i < j =>
          /\ queue[i] # queue[j]
          /\ queue[j] \in firsts => queue[i] \in firsts

Firsts == {b \in Index : First(b)}
Dependents(k) == {b \in Index : k \in deps[b]}

RegistryFits ==
    \A k \in Registered : QueueFits(Index, Firsts, Dependents(k), registry[k])

ReactivityInv ==
    /\ ReactivityTypeOK
    /\ CallsFit(Index, stack, todo)
    /\ RegistryFits

----------------------------------------------------------------------------
(* A queue of the registry                                                  *)

LEMMA KeptFits ==
    ASSUME NEW bindings, NEW firsts, NEW dependents, NEW queue, NEW b \in dependents,
           QueueFits(bindings, firsts, dependents, queue)
    PROVE  QueueFits(bindings, firsts, dependents \ {b}, Kept(b, queue))
  <1> DEFINE place == CHOOSE i \in DOMAIN queue : queue[i] = b
             from(i) == IF i < place THEN i ELSE i + 1
             kept == [i \in 1..Len(queue) - 1 |-> queue[from(i)]]
             len == Len(queue)
  <1>1. queue \in Seq(bindings) /\ len \in Nat /\ DOMAIN queue = 1..len
    BY LenProperties DEF QueueFits
  <1>2. place \in 1..len /\ queue[place] = b
    BY <1>1 DEF QueueFits
  <1>3. Kept(b, queue) = kept
    BY DEF Kept
  <1> HIDE DEF place
  <1>4. \A i \in 1..len - 1 : from(i) \in 1..len /\ from(i) # place
    BY <1>1, <1>2
  <1>5. \A i, j \in 1..len - 1 : i < j => from(i) < from(j)
    BY <1>1, <1>2
  <1>6. \A j \in 1..len : j # place => \E i \in 1..len - 1 : from(i) = j
    <2> SUFFICES ASSUME NEW j \in 1..len, j # place
                 PROVE  \E i \in 1..len - 1 : from(i) = j
      OBVIOUS
    <2>1. CASE j < place
      BY <1>1, <1>2, <2>1
    <2>2. CASE j > place
      <3>1. j - 1 \in 1..len - 1 /\ from(j - 1) = j
        BY <1>1, <1>2, <2>2
      <3> QED
        BY <3>1
    <2> QED
      BY <1>1, <1>2, <2>1, <2>2
  <1>7. kept \in Seq(bindings) /\ Len(kept) = len - 1
    <2>1. len - 1 \in Nat
      BY <1>1, <1>2
    <2>2. \A i \in 1..len - 1 : queue[from(i)] \in bindings
      BY <1>1, <1>4, ElementOfSeq
    <2>3. kept \in [1..len - 1 -> bindings]
      BY <2>2
    <2>4. kept \in Seq(bindings)
      BY <2>1, <2>3, SeqDef
    <2> QED
      BY <2>1, <2>3, <2>4, LenProperties
  <1>8. \A i \in 1..len - 1 : kept[i] = queue[from(i)]
    OBVIOUS
  <1> HIDE DEF kept, from, len
  <1>9. \A i \in 1..len : i # place => queue[i] # b
    BY <1>1, <1>2 DEF QueueFits, len
  <1>10. {kept[i] : i \in 1..len - 1} = dependents \ {b}
    <2>1. ASSUME NEW i \in 1..len - 1 PROVE kept[i] \in dependents \ {b}
      <3>1. queue[from(i)] \in dependents
        BY <1>4 DEF QueueFits, len
      <3> QED
        BY <3>1, <1>4, <1>8, <1>9
    <2>2. ASSUME NEW c \in dependents \ {b} PROVE \E i \in 1..len - 1 : kept[i] = c
      <3>1. PICK j \in 1..len : queue[j] = c
        BY DEF QueueFits, len
      <3>2. j # place
        BY <1>2, <3>1
      <3> QED
        BY <1>6, <1>8, <3>1, <3>2
    <2> QED
      BY <2>1, <2>2
  <1>11. \A i, j \in 1..len - 1 : i < j =>
            /\ kept[i] # kept[j] /\ (kept[j] \in firsts => kept[i] \in firsts)
    BY <1>4, <1>5, <1>8 DEF QueueFits, len
  <1> QED
    BY <1>3, <1>7, <1>10, <1>11 DEF QueueFits

LEMMA AddedFits ==
    ASSUME NEW b \in Index, NEW dependents, NEW queue, b \notin dependents,
           dependents \subseteq Index,
           QueueFits(Index, Firsts, dependents, queue)
    PROVE  QueueFits(Index, Firsts, dependents \cup {b}, Added(b, queue))
  <1> DEFINE len == Len(queue)
  <1>1. queue \in Seq(Index) /\ len \in Nat
    BY LenProperties DEF QueueFits
  <1>2. <<b>> \in Seq(Index) /\ Len(<<b>>) = 1 /\ <<b>>[1] = b
    OBVIOUS
  <1>3. \A i \in 1..len : queue[i] \in dependents
    BY DEF QueueFits
  <1>4. \A c \in dependents : \E i \in 1..len : queue[i] = c
    BY DEF QueueFits
  <1>5. CASE First(b)
    <2> DEFINE q == <<b>> \o queue
    <2>1. q \in Seq(Index) /\ Len(q) = len + 1 /\ q[1] = b
          /\ \A i \in 2..len + 1 : q[i] = queue[i - 1]
      BY <1>1, <1>2, ConcatProperties
    <2>2. Added(b, queue) = q
      BY <1>5 DEF Added
    <2> HIDE DEF q, len
    <2>3. {q[i] : i \in 1..len + 1} = dependents \cup {b}
      <3>1. ASSUME NEW i \in 1..len + 1 PROVE q[i] \in dependents \cup {b}
        <4>1. CASE i = 1
          BY <2>1, <4>1
        <4>2. CASE i # 1
          <5>1. i \in 2..len + 1 /\ i - 1 \in 1..len
            BY <1>1, <4>2
          <5> QED
            BY <5>1, <2>1, <1>3
        <4> QED
          BY <4>1, <4>2
      <3>2. ASSUME NEW c \in dependents PROVE \E i \in 1..len + 1 : q[i] = c
        <4>1. PICK i \in 1..len : queue[i] = c
          BY <1>4
        <4>2. i + 1 \in 2..len + 1 /\ (i + 1) - 1 = i /\ i + 1 \in 1..len + 1
          BY <1>1
        <4>3. q[i + 1] = c
          BY <2>1, <4>1, <4>2
        <4> QED
          BY <4>2, <4>3
      <3>3. 1 \in 1..len + 1
        BY <1>1
      <3> QED
        BY <3>1, <3>2, <3>3, <2>1
    <2>4. ASSUME NEW i \in 1..len + 1, NEW j \in 1..len + 1, i < j
          PROVE  q[i] # q[j] /\ (q[j] \in Firsts => q[i] \in Firsts)
      <3>1. j \in 2..len + 1 /\ j - 1 \in 1..len /\ q[j] = queue[j - 1]
        BY <1>1, <2>1, <2>4
      <3>2. CASE i = 1
        BY <3>1, <3>2, <2>1, <1>3, <1>5 DEF Firsts
      <3>3. CASE i # 1
        <4>1. i \in 2..len + 1 /\ i - 1 \in 1..len /\ q[i] = queue[i - 1] /\ i - 1 < j - 1
          BY <1>1, <2>1, <2>4, <3>3
        <4> QED
          BY <3>1, <4>1 DEF QueueFits, len
      <3> QED
        BY <3>2, <3>3
    <2> QED
      BY <2>1, <2>2, <2>3, <2>4 DEF QueueFits
  <1>6. CASE ~First(b)
    <2> DEFINE q == Append(queue, b)
    <2>1. q \in Seq(Index) /\ Len(q) = len + 1 /\ q[len + 1] = b
          /\ \A i \in 1..len : q[i] = queue[i]
      BY <1>1, AppendProperties
    <2>2. Added(b, queue) = q
      BY <1>6 DEF Added
    <2> HIDE DEF q, len
    <2>3. {q[i] : i \in 1..len + 1} = dependents \cup {b}
      <3>1. ASSUME NEW i \in 1..len + 1 PROVE q[i] \in dependents \cup {b}
        <4>1. i \in 1..len \/ i = len + 1
          BY <1>1
        <4> QED
          BY <4>1, <2>1, <1>3
      <3>2. ASSUME NEW c \in dependents PROVE \E i \in 1..len + 1 : q[i] = c
        <4>1. PICK i \in 1..len : queue[i] = c
          BY <1>4
        <4>2. i \in 1..len + 1
          BY <1>1
        <4> QED
          BY <4>1, <4>2, <2>1
      <3>3. len + 1 \in 1..len + 1
        BY <1>1
      <3> QED
        BY <3>1, <3>2, <3>3, <2>1
    <2>4. ASSUME NEW i \in 1..len + 1, NEW j \in 1..len + 1, i < j
          PROVE  q[i] # q[j] /\ (q[j] \in Firsts => q[i] \in Firsts)
      <3>1. i \in 1..len /\ q[i] = queue[i]
        BY <1>1, <2>1, <2>4
      <3>2. CASE j = len + 1
        BY <3>1, <3>2, <2>1, <1>3, <1>6 DEF Firsts
      <3>3. CASE j # len + 1
        <4>1. j \in 1..len /\ q[j] = queue[j]
          BY <1>1, <2>1, <3>3
        <4> QED
          BY <3>1, <4>1, <2>4 DEF QueueFits, len
      <3> QED
        BY <3>2, <3>3
    <2> QED
      BY <2>1, <2>2, <2>3, <2>4 DEF QueueFits
  <1> QED
    BY <1>5, <1>6

LEMMA RegistersFits ==
    ASSUME ReactivityInv, NEW b \in Index, NEW keys \in SUBSET Registered,
           Registers(b, keys), UNCHANGED page
    PROVE  /\ registry' \in [Registered -> Seq(Index)]
           /\ deps' \in [Index -> SUBSET Registered]
           /\ threw' \subseteq Index
           /\ RegistryFits'
  <1>1. /\ registry' = Reregistered(b, keys)
        /\ deps' = [deps EXCEPT ![b] = keys]
        /\ threw' \subseteq threw
        /\ page' = page
    BY DEF Registers
  <1>2. /\ deps \in [Index -> SUBSET Registered] /\ threw \subseteq Index
        /\ \A k \in Registered : QueueFits(Index, Firsts, Dependents(k), registry[k])
    BY DEF ReactivityInv, ReactivityTypeOK, RegistryFits
  <1>3. Index' = Index /\ Firsts' = Firsts
    BY <1>1 DEF Index, Firsts, First, Def
  <1>4. \A k \in Registered :
            Dependents(k)' = IF k \in keys THEN Dependents(k) \cup {b} ELSE Dependents(k) \ {b}
    BY <1>1, <1>2, <1>3 DEF Dependents
  <1>5. ASSUME NEW k \in Registered
        PROVE  QueueFits(Index, Firsts, Dependents(k)', registry'[k])
    <2>1. QueueFits(Index, Firsts, Dependents(k), registry[k])
      BY <1>2
    <2>2. (b \in Dependents(k)) = (k \in deps[b]) /\ Dependents(k) \subseteq Index
      BY DEF Dependents
    <2>3. CASE k \in deps[b] \ keys
      <3>1. registry'[k] = Kept(b, registry[k])
        BY <1>1, <2>3 DEF Reregistered
      <3>2. Dependents(k)' = Dependents(k) \ {b} /\ b \in Dependents(k)
        BY <1>4, <2>2, <2>3
      <3> QED
        BY <2>1, <3>1, <3>2, KeptFits
    <2>4. CASE k \in keys \ deps[b]
      <3>1. registry'[k] = Added(b, registry[k])
        BY <1>1, <2>4 DEF Reregistered
      <3>2. Dependents(k)' = Dependents(k) \cup {b} /\ b \notin Dependents(k)
        BY <1>4, <2>2, <2>4
      <3> QED
        BY <2>1, <2>2, <3>1, <3>2, AddedFits
    <2>5. CASE k \notin deps[b] \ keys /\ k \notin keys \ deps[b]
      <3>1. registry'[k] = registry[k]
        BY <1>1, <2>5 DEF Reregistered
      <3>2. Dependents(k)' = Dependents(k)
        BY <1>4, <2>2, <2>5
      <3> QED
        BY <2>1, <3>1, <3>2
    <2> QED
      BY <2>3, <2>4, <2>5
  <1>6. RegistryFits'
    BY <1>3, <1>5 DEF RegistryFits
  <1>7. registry' \in [Registered -> Seq(Index)]
    <2>1. \A k \in Registered : registry'[k] \in Seq(Index)
      BY <1>5 DEF QueueFits
    <2>2. registry' = [k \in Registered |-> registry'[k]]
      BY <1>1 DEF Reregistered
    <2> QED
      BY <2>1, <2>2
  <1>8. deps' \in [Index -> SUBSET Registered]
    BY <1>1, <1>2
  <1> QED
    BY <1>1, <1>2, <1>3, <1>6, <1>7, <1>8

----------------------------------------------------------------------------
(* The call stack                                                           *)

LEMMA NoCalls == \A bindings, left : CallsFit(bindings, <<>>, left)
  BY EmptySeq DEF CallsFit

\* What a call in progress needs below it
Sits(frame, bindings, below, left) ==
    /\ frame \in CallFrame(bindings)
    /\ frame.call # "notify" => frame.b \in bindings
    /\ frame.call = "execute" =>
          IF below = <<>> THEN left # <<>> ELSE below[Len(below)].call = "apply"

LEMMA PushFits ==
    ASSUME NEW bindings, NEW frames, NEW left, NEW frame,
           CallsFit(bindings, frames, left), Sits(frame, bindings, frames, left)
    PROVE  /\ CallsFit(bindings, Append(frames, frame), left)
           /\ Append(frames, frame) # <<>>
           /\ Len(Append(frames, frame)) = Len(frames) + 1
           /\ Append(frames, frame)[Len(frames) + 1] = frame
           /\ \A i \in 1..Len(frames) : Append(frames, frame)[i] = frames[i]
  <1> DEFINE s == Append(frames, frame)
             n == Len(frames)
  <1>1. frames \in Seq(CallFrame(bindings)) /\ frame \in CallFrame(bindings)
    BY DEF CallsFit, Sits
  <1>2. s \in Seq(CallFrame(bindings)) /\ n \in Nat /\ Len(s) = n + 1 /\ s[n + 1] = frame
        /\ \A i \in 1..n : s[i] = frames[i]
    BY <1>1, AppendProperties, LenProperties
  <1>3. s # <<>>
    BY <1>2, EmptySeq
  <1>4. frames = <<>> <=> n = 0
    BY <1>1, EmptySeq
  <1> HIDE DEF s
  <1>5. ASSUME NEW i \in 1..n + 1
        PROVE  /\ s[i].call # "notify" => s[i].b \in bindings
               /\ s[i].call = "execute" => IF i = 1 THEN left # <<>> ELSE s[i - 1].call = "apply"
    <2>1. CASE i \in 1..n
      <3>1. i # 1 => i - 1 \in 1..n
        BY <1>2, <2>1
      <3> QED
        BY <1>2, <2>1, <3>1 DEF CallsFit
    <2>2. CASE i = n + 1
      <3>1. n # 0 => n \in 1..n /\ i - 1 = n
        BY <1>2, <2>2
      <3>2. n # 0 => s[i - 1] = frames[n]
        BY <1>2, <3>1
      <3>3. i = 1 <=> n = 0
        BY <1>2, <2>2
      <3> QED
        BY <1>2, <1>4, <2>2, <3>2, <3>3 DEF Sits
    <2> QED
      BY <1>2, <2>1, <2>2
  <1>6. CallsFit(bindings, s, left)
    BY <1>2, <1>5 DEF CallsFit
  <1> QED
    BY <1>2, <1>3, <1>6 DEF s

LEMMA PopFits ==
    ASSUME NEW bindings, NEW frames, NEW left,
           CallsFit(bindings, frames, left), frames # <<>>
    PROVE  LET below == SubSeq(frames, 1, Len(frames) - 1)
           IN /\ CallsFit(bindings, below, left)
              /\ Len(frames) \in Nat \ {0} /\ Len(below) = Len(frames) - 1
              /\ Sits(frames[Len(frames)], bindings, below, left)
  <1> DEFINE below == SubSeq(frames, 1, Len(frames) - 1)
             n == Len(frames)
  <1>1. frames \in Seq(CallFrame(bindings)) /\ n \in Nat \ {0}
    BY EmptySeq DEF CallsFit
  <1>2. below \in Seq(CallFrame(bindings)) /\ Len(below) = n - 1
        /\ \A i \in 1..n - 1 : below[i] = frames[i]
    <2>1. n - 1 \in Nat /\ \A i \in 1..n - 1 : frames[i] \in CallFrame(bindings)
      BY <1>1, ElementOfSeq
    <2>2. \A S, s : (\A i \in 1..n - 1 : s[i] \in S) =>
              /\ SubSeq(s, 1, n - 1) \in Seq(S)
              /\ Len(SubSeq(s, 1, n - 1)) = IF 1 <= n - 1 THEN n - 1 - 1 + 1 ELSE 0
              /\ \A i \in 1..n - 1 - 1 + 1 : SubSeq(s, 1, n - 1)[i] = s[1 + i - 1]
      BY <2>1, SubSeqProperties
    <2>3. \A m \in Nat \ {0} : m - 1 - 1 + 1 = m - 1 /\ (~(1 <= m - 1) => m - 1 = 0)
      OBVIOUS
    <2>4. \A i \in 1..n - 1 : 1 + i - 1 = i
      BY <1>1
    <2> QED
      BY <1>1, <2>1, <2>2, <2>3, <2>4
  <1> HIDE DEF below
  <1>3. CallsFit(bindings, below, left)
    BY <1>1, <1>2 DEF CallsFit
  <1>4. below = <<>> <=> n = 1
    BY <1>1, <1>2, EmptySeq
  <1>5. n \in 1..n /\ (n # 1 => n - 1 \in 1..n - 1)
    <2>1. \A m \in Nat \ {0} : m \in 1..m /\ (m # 1 => m - 1 \in 1..m - 1)
      OBVIOUS
    <2> QED
      BY ONLY <1>1, <2>1
  <1>6. Sits(frames[n], bindings, below, left)
    <2>1. frames[n] \in CallFrame(bindings)
      BY <1>1, <1>5, ElementOfSeq
    <2> QED
      BY <1>2, <1>4, <1>5, <2>1 DEF CallsFit, Sits
  <1> QED
    BY <1>1, <1>2, <1>3, <1>6 DEF below

\* A call goes on: it is what it was, with other contents.
LEMMA GoesOnFits ==
    ASSUME NEW bindings, NEW frames, NEW left, NEW frame \in CallFrame(bindings),
           CallsFit(bindings, frames, left), frames # <<>>,
           frame.call = frames[Len(frames)].call, frame.b = frames[Len(frames)].b
    PROVE  LET s == Append(SubSeq(frames, 1, Len(frames) - 1), frame)
           IN /\ CallsFit(bindings, s, left)
              /\ s # <<>> /\ Len(s) = Len(frames) /\ s[Len(s)] = frame
  <1> DEFINE below == SubSeq(frames, 1, Len(frames) - 1)
  <1>1. /\ CallsFit(bindings, below, left)
        /\ Len(frames) \in Nat \ {0} /\ Len(below) = Len(frames) - 1
        /\ Sits(frames[Len(frames)], bindings, below, left)
    BY PopFits
  <1> HIDE DEF below
  <1>2. Sits(frame, bindings, below, left)
    BY <1>1 DEF Sits
  <1>3. Len(below) + 1 = Len(frames)
    BY <1>1
  <1> DEFINE s == Append(below, frame)
  <1>4. /\ CallsFit(bindings, s, left) /\ s # <<>>
        /\ Len(s) = Len(below) + 1 /\ s[Len(below) + 1] = frame
    BY <1>1, <1>2, PushFits
  <1>5. Len(s) = Len(frames) /\ s[Len(s)] = frame
    BY <1>3, <1>4
  <1> QED
    BY <1>4, <1>5 DEF below

\* The call below is handed its result.
LEMMA AnswersFits ==
    ASSUME NEW bindings, NEW frames, NEW left, NEW result \in Results,
           CallsFit(bindings, frames, left), frames # <<>>
    PROVE  LET s == [frames EXCEPT ![Len(frames)].result = result]
           IN CallsFit(bindings, s, left) /\ Len(s) = Len(frames)
  <1> DEFINE n == Len(frames)
             frame == [frames[n] EXCEPT !.result = result]
             s == [frames EXCEPT ![n] = frame]
  <1>1. frames \in Seq(CallFrame(bindings)) /\ n \in Nat \ {0} /\ n \in 1..n
    BY EmptySeq DEF CallsFit
  <1>2. frames[n] \in CallFrame(bindings)
    BY <1>1, ElementOfSeq
  <1>3. frame \in CallFrame(bindings) /\ frame.call = frames[n].call /\ frame.b = frames[n].b
    BY <1>2 DEF CallFrame
  <1>4. s = [frames EXCEPT ![Len(frames)].result = result]
    BY DEF frame
  <1> HIDE DEF frame
  <1>5. /\ s \in Seq(CallFrame(bindings)) /\ Len(s) = n
        /\ \A i \in 1..n : s[i] = IF i = n THEN frame ELSE frames[i]
    BY <1>1, <1>3, ExceptSeq
  <1> HIDE DEF s
  <1>6. \A i \in 1..n : s[i].call = frames[i].call /\ s[i].b = frames[i].b
    BY <1>3, <1>5
  <1>7. \A i \in 1..n : i # 1 => i - 1 \in 1..n
    BY <1>1
  <1>8. CallsFit(bindings, s, left)
    BY <1>5, <1>6, <1>7 DEF CallsFit
  <1> QED
    BY <1>4, <1>5, <1>8

----------------------------------------------------------------------------
(* The page, and what its expressions evaluate to                           *)

LEMMA PageFits ==
    ASSUME ReactivityInv
    PROVE  /\ page.bindings \in Seq(Binding)
           /\ Index = 1..Len(page.bindings) /\ Len(page.bindings) \in Nat
           /\ \A b \in Index : Def(b) \in Binding
  <1>1. page.bindings \in Seq(Binding)
    BY ReactivityAssumption DEF ReactivityInv, ReactivityTypeOK
  <1>2. Index = 1..Len(page.bindings) /\ Len(page.bindings) \in Nat
    BY <1>1, LenProperties DEF Index
  <1> QED
    BY <1>1, <1>2, ElementOfSeq DEF Def

LEMMA NothingReadFits == <<>> \in Snapshots
  <1>1. <<>> \in [{} -> Values]
    OBVIOUS
  <1> QED
    BY <1>1 DEF Snapshots

LEMMA ExpressionFits ==
    ASSUME ReactivityInv, NEW b \in Index
    PROVE  /\ Def(b).target \in Keys
           /\ Value(b) \in Values
           /\ Snapshot(b) \in Snapshots
           /\ \A read \in Snapshots : Tracked(b, read) \in SUBSET Registered
  <1>1. Def(b) \in Binding
    BY PageFits
  <1>2. /\ Def(b).test \in Keys /\ Def(b).yes \in Keys /\ Def(b).no \in Keys
        /\ Def(b).target \in Keys /\ Def(b).keys \subseteq Registered
    BY <1>1 DEF Binding
  <1>3. state \in [Keys -> Values]
    BY DEF ReactivityInv, ReactivityTypeOK
  <1>4. Value(b) \in Values
    BY <1>2, <1>3 DEF Value
  <1>5. KeysRead(b) \in SUBSET Keys
    BY <1>2 DEF KeysRead
  <1>6. Snapshot(b) \in [KeysRead(b) -> Values]
    BY <1>3, <1>5 DEF Snapshot
  <1>7. Snapshot(b) \in Snapshots
    BY <1>5, <1>6 DEF Snapshots
  <1>8. ASSUME NEW read \in Snapshots PROVE Tracked(b, read) \in SUBSET Registered
    <2>1. DOMAIN read \subseteq Keys
      BY DEF Snapshots
    <2> QED
      BY <1>2, <2>1 DEF Tracked, Registered
  <1> QED
    BY <1>2, <1>4, <1>7, <1>8

LEMMA FramesFit ==
    ASSUME ReactivityInv
    PROVE  /\ \A k \in Keys : \A below : Sits(Notify(k), Index, below, todo)
           /\ \A b \in Index, safe \in BOOLEAN : \A below, left :
                 Sits(Apply(b, safe), Index, below, left)
           /\ \A b \in Index, read \in Snapshots : \A below :
                 (IF below = <<>> THEN todo # <<>> ELSE below[Len(below)].call = "apply") =>
                 Sits(Execute(b, read), Index, below, todo)
           /\ \A ok \in BOOLEAN, v \in Values : Result(ok, v) \in Results
           /\ Result(TRUE, 0) \in Results /\ Result(FALSE, 0) \in Results
           /\ NoResult \in Results
  <1>1. \A k \in Registered : registry[k] \in Seq(Index)
    BY DEF ReactivityInv, ReactivityTypeOK
  <1>2. NoResult \in Results /\ \A ok \in BOOLEAN, v \in Values : Result(ok, v) \in Results
    BY DEF NoResult, Result, Results, Values
  <1>3. \A k \in Keys : \A below : Sits(Notify(k), Index, below, todo)
    BY <1>1, <1>2, NothingReadFits DEF Sits, Notify, CallFrame, Registered
  <1>4. <<>> \in Seq(Index)
    BY EmptySeq
  <1>5. \A b \in Index, safe \in BOOLEAN : \A below, left : Sits(Apply(b, safe), Index, below, left)
    BY <1>2, <1>4, NothingReadFits DEF Sits, Apply, CallFrame
  <1>6. ASSUME NEW b \in Index, NEW read \in Snapshots, NEW below,
               IF below = <<>> THEN todo # <<>> ELSE below[Len(below)].call = "apply"
        PROVE  Sits(Execute(b, read), Index, below, todo)
    BY <1>2, <1>4, <1>6 DEF Sits, Execute, CallFrame
  <1>7. 0 \in Values
    BY DEF Values
  <1>8. Result(TRUE, 0) \in Results /\ Result(FALSE, 0) \in Results
    BY <1>2, <1>7
  <1> QED
    BY <1>2, <1>3, <1>5, <1>6, <1>8

----------------------------------------------------------------------------
(* The steps                                                                *)

LEMMA ReactivityInvParts ==
    ASSUME ReactivityInv
    PROVE  /\ page \in Pages /\ phase \in {"execute", "restore", "apply", "mounted"}
           /\ todo \in Seq(Index) /\ state \in [Keys -> Values]
           /\ registry \in [Registered -> Seq(Index)]
           /\ deps \in [Index -> SUBSET Registered]
           /\ initial \in [Index -> Results] /\ painted \in [Index -> Values]
           /\ threw \subseteq Index /\ applying \subseteq Index
           /\ Len(stack) <= MaxDepth /\ writes \in 0..MaxWrites
           /\ CallsFit(Index, stack, todo)
           /\ RegistryFits
  BY DEF ReactivityInv, ReactivityTypeOK

\* What every step has to show, its page being the one before
StepFits ==
    /\ page' = page
    /\ phase' \in {"execute", "restore", "apply", "mounted"}
    /\ todo' \in Seq(Index) /\ state' \in [Keys -> Values]
    /\ registry' \in [Registered -> Seq(Index)]
    /\ deps' \in [Index -> SUBSET Registered]
    /\ initial' \in [Index -> Results] /\ painted' \in [Index -> Values]
    /\ threw' \subseteq Index /\ applying' \subseteq Index
    /\ Len(stack') <= MaxDepth /\ writes' \in 0..MaxWrites
    /\ CallsFit(Index, stack', todo')
    /\ RegistryFits'

LEMMA StepIsSound == ASSUME ReactivityInv, StepFits PROVE ReactivityInv'
  <1>1. Index' = Index /\ page' \in Pages
    BY ReactivityInvParts DEF StepFits, Index
  <1>2. ReactivityTypeOK'
    BY <1>1 DEF StepFits, ReactivityTypeOK
  <1>3. CallsFit(Index, stack, todo)'
    BY <1>1 DEF StepFits
  <1> QED
    BY <1>2, <1>3 DEF StepFits, ReactivityInv

LEMMA RegistryStays ==
    ASSUME ReactivityInv, UNCHANGED <<page, registry, deps>>
    PROVE  RegistryFits' /\ Index' = Index
  <1>1. Index' = Index /\ Firsts' = Firsts
    BY DEF Index, Firsts, First, Def
  <1>2. \A k \in Registered : Dependents(k)' = Dependents(k)
    BY <1>1 DEF Dependents
  <1> QED
    BY <1>1, <1>2, ReactivityInvParts DEF RegistryFits

LEMMA SetsFits ==
    ASSUME ReactivityInv, NEW k \in Keys, NEW v \in Values, NEW below,
           CallsFit(Index, below, todo), Sets(k, v, below)
    PROVE  /\ state' \in [Keys -> Values]
           /\ CallsFit(Index, stack', todo)
           /\ Len(stack') <= MaxDepth
  <1>1. Sits(Notify(k), Index, below, todo)
    BY FramesFit
  <1>2. CallsFit(Index, stack', todo) /\ Len(stack') = Len(below) + 1
    BY <1>1, PushFits DEF Sets
  <1>3. Len(below) \in Nat
    BY LenProperties DEF CallsFit
  <1>4. Len(stack') <= MaxDepth
    BY <1>2, <1>3, ReactivityAssumption DEF Sets
  <1>5. state' \in [Keys -> Values]
    BY ReactivityInvParts DEF Sets
  <1> QED
    BY <1>2, <1>4, <1>5

LEMMA WriteSound ==
    ASSUME ReactivityInv, NEW k \in Keys, NEW v \in Values, Write(k, v)
    PROVE  ReactivityInv'
  <1>1. /\ UNCHANGED <<page, phase, todo, registry, deps, initial, painted, threw, applying>>
        /\ Sets(k, v, <<>>) /\ writes < MaxWrites /\ writes' = writes + 1
    BY DEF Write
  <1>2. /\ state' \in [Keys -> Values] /\ CallsFit(Index, stack', todo)
        /\ Len(stack') <= MaxDepth
    BY <1>1, NoCalls, SetsFits
  <1>3. writes' \in 0..MaxWrites
    BY <1>1, ReactivityInvParts, ReactivityAssumption
  <1>4. StepFits
    BY <1>1, <1>2, <1>3, ReactivityInvParts, RegistryStays DEF StepFits
  <1> QED
    BY <1>4, StepIsSound

LEMMA TopFits ==
    ASSUME ReactivityInv, stack # <<>>
    PROVE  /\ CallsFit(Index, Below, todo) /\ Len(Below) = Len(stack) - 1
           /\ Len(stack) \in Nat \ {0}
           /\ Sits(Top, Index, Below, todo) /\ Top \in CallFrame(Index)
           /\ \A frame \in CallFrame(Index) :
                 frame.call = Top.call /\ frame.b = Top.b =>
                 /\ CallsFit(Index, OnTop(frame), todo)
                 /\ OnTop(frame) # <<>> /\ Len(OnTop(frame)) = Len(stack)
                 /\ OnTop(frame)[Len(stack)] = frame
  <1>1. CallsFit(Index, stack, todo)
    BY ReactivityInvParts
  <1>2. /\ CallsFit(Index, Below, todo) /\ Len(Below) = Len(stack) - 1
        /\ Len(stack) \in Nat \ {0} /\ Sits(Top, Index, Below, todo)
    BY <1>1, PopFits DEF Below, Top
  <1>3. Top \in CallFrame(Index)
    BY <1>2 DEF Sits
  <1>4. ASSUME NEW frame \in CallFrame(Index), frame.call = Top.call, frame.b = Top.b
        PROVE  /\ CallsFit(Index, OnTop(frame), todo)
               /\ OnTop(frame) # <<>> /\ Len(OnTop(frame)) = Len(stack)
               /\ OnTop(frame)[Len(stack)] = frame
    BY <1>1, <1>4, GoesOnFits DEF OnTop, Below, Top
  <1> QED
    BY <1>2, <1>3, <1>4

LEMMA RunNextSound == ASSUME ReactivityInv, RunNext PROVE ReactivityInv'
  <1> DEFINE b == Head(Top.queue)
             frame == [Top EXCEPT !.queue = Tail(@)]
  <1>1. /\ Running("notify") /\ Top.queue # <<>> /\ RunsNext(b)
        /\ UNCHANGED <<page, phase, todo, state, registry, deps, initial, painted, threw, writes>>
    BY DEF RunNext
  <1>2. stack # <<>> /\ Top \in CallFrame(Index) /\ Top.queue \in Seq(Index)
    BY <1>1, TopFits DEF Running, CallFrame
  <1>3. b \in Index /\ Tail(Top.queue) \in Seq(Index)
    BY <1>1, <1>2, HeadTailProperties
  <1>4. frame \in CallFrame(Index) /\ frame.call = Top.call /\ frame.b = Top.b
    BY <1>2, <1>3 DEF CallFrame
  <1>5. CallsFit(Index, OnTop(frame), todo) /\ Len(OnTop(frame)) = Len(stack)
    BY <1>2, <1>4, TopFits
  <1> HIDE DEF b, frame
  <1>6. /\ applying' \subseteq Index /\ CallsFit(Index, stack', todo)
        /\ Len(stack') <= MaxDepth
    <2>1. CASE b \in applying
      <3>1. stack' = OnTop(frame) /\ applying' = applying
        BY <1>1, <2>1 DEF RunsNext, b, frame
      <3> QED
        BY <3>1, <1>5, ReactivityInvParts
    <2>2. CASE b \notin applying
      <3>1. /\ Len(stack) < MaxDepth /\ applying' = applying \cup {b}
            /\ stack' = Append(OnTop(frame), Apply(b, TRUE))
        BY <1>1, <2>2 DEF RunsNext, b, frame
      <3>2. Sits(Apply(b, TRUE), Index, OnTop(frame), todo)
        BY <1>3, FramesFit
      <3> DEFINE frames == OnTop(frame)
                 call == Apply(b, TRUE)
      <3> HIDE DEF frames, call
      <3>3. /\ CallsFit(Index, frames, todo) /\ Sits(call, Index, frames, todo)
            /\ stack' = Append(frames, call) /\ Len(frames) = Len(stack)
        BY <3>1, <3>2, <1>5 DEF frames, call
      <3>6. CallsFit(Index, Append(frames, call), todo) /\ Len(Append(frames, call)) = Len(frames) + 1
        BY <3>3, PushFits
      <3>5. CallsFit(Index, stack', todo) /\ Len(stack') = Len(stack) + 1
        BY <3>3, <3>6
      <3>4. Len(stack') <= MaxDepth
        BY <3>1, <3>5, <1>2, TopFits, ReactivityAssumption
      <3> QED
        BY <3>1, <3>5, <3>4, <1>3, ReactivityInvParts
    <2> QED
      BY <2>1, <2>2
  <1>7. StepFits
    BY <1>1, <1>6, ReactivityInvParts, RegistryStays DEF StepFits
  <1> QED
    BY <1>7, StepIsSound

LEMMA NotifyEndsSound == ASSUME ReactivityInv, NotifyEnds PROVE ReactivityInv'
  <1> DEFINE frame == [Top EXCEPT !.queue = registry[ALL], !.all = FALSE]
  <1>1. /\ Running("notify")
        /\ stack' = IF Top.all THEN OnTop(frame) ELSE Below
        /\ UNCHANGED <<page, phase, todo, state, registry, deps, initial, painted, threw,
                       applying, writes>>
    BY DEF NotifyEnds
  <1>2. stack # <<>> /\ Top \in CallFrame(Index) /\ Len(stack) \in Nat \ {0}
    BY <1>1, TopFits DEF Running
  <1>3. registry[ALL] \in Seq(Index)
    BY ReactivityInvParts DEF Registered
  <1>4. frame \in CallFrame(Index) /\ frame.call = Top.call /\ frame.b = Top.b
    BY <1>2, <1>3 DEF CallFrame
  <1>5. CallsFit(Index, OnTop(frame), todo) /\ Len(OnTop(frame)) = Len(stack)
    BY <1>2, <1>4, TopFits
  <1>6. CallsFit(Index, Below, todo) /\ Len(Below) = Len(stack) - 1
    BY <1>2, TopFits
  <1> HIDE DEF frame
  <1>7. CallsFit(Index, stack', todo) /\ Len(stack') <= MaxDepth
    BY <1>1, <1>2, <1>5, <1>6, ReactivityInvParts, ReactivityAssumption
  <1>8. StepFits
    BY <1>1, <1>7, ReactivityInvParts, RegistryStays DEF StepFits
  <1> QED
    BY <1>8, StepIsSound

\* A result goes to the application below, or is kept for the one to come.
LEMMA ReturnsFits ==
    ASSUME ReactivityInv, NEW below, NEW result \in Results,
           CallsFit(Index, below, todo), Returns(below, result),
           below = <<>> => todo # <<>>,
           below # <<>> => below[Len(below)].call = "apply"
    PROVE  /\ todo' \in Seq(Index) /\ initial' \in [Index -> Results]
           /\ CallsFit(Index, stack', todo') /\ Len(stack') = Len(below)
  <1>1. CASE below = <<>>
    <2>1. /\ stack' = <<>> /\ initial' = [initial EXCEPT ![Head(todo)] = result]
          /\ todo' = Tail(todo)
      BY <1>1 DEF Returns
    <2>2. Head(todo) \in Index /\ todo' \in Seq(Index)
      BY <1>1, <2>1, ReactivityInvParts, HeadTailProperties
    <2>3. initial' \in [Index -> Results]
      BY <2>1, <2>2, ReactivityInvParts
    <2> QED
      BY <1>1, <2>1, <2>2, <2>3, NoCalls
  <1>2. CASE below # <<>>
    <2>1. /\ stack' = [below EXCEPT ![Len(below)].result = result]
          /\ initial' = initial /\ todo' = todo
      BY <1>2 DEF Returns
    <2> DEFINE s == [below EXCEPT ![Len(below)].result = result]
    <2>2. CallsFit(Index, s, todo) /\ Len(s) = Len(below)
      BY <1>2, AnswersFits
    <2> QED
      BY <2>1, <2>2, ReactivityInvParts
  <1> QED
    BY <1>1, <1>2

LEMMA ExecuteBindingFits ==
    ASSUME ReactivityInv, NEW b \in Index, ExecuteBinding(b), UNCHANGED page,
           stack = <<>> => todo # <<>>,
           stack # <<>> => Top.call = "apply"
    PROVE  /\ todo' \in Seq(Index) /\ state' \in [Keys -> Values]
           /\ registry' \in [Registered -> Seq(Index)]
           /\ deps' \in [Index -> SUBSET Registered]
           /\ initial' \in [Index -> Results] /\ threw' \subseteq Index
           /\ Len(stack') <= MaxDepth
           /\ CallsFit(Index, stack', todo')
           /\ RegistryFits'
  <1>1. stack # <<>> => stack[Len(stack)].call = "apply"
    BY DEF Top
  <1>2. CASE ExecuteThrows(b)
    <2>1. Returns(stack, Result(FALSE, 0)) /\ Result(FALSE, 0) \in Results
      BY <1>2, FramesFit DEF ExecuteThrows
    <2>2. /\ todo' \in Seq(Index) /\ initial' \in [Index -> Results]
          /\ CallsFit(Index, stack', todo') /\ Len(stack') = Len(stack)
      BY <1>1, <2>1, ReturnsFits, ReactivityInvParts
    <2>3. UNCHANGED <<page, state, registry, deps>> /\ threw' \subseteq Index
      BY <1>2, ReactivityInvParts DEF ExecuteThrows
    <2> QED
      BY <2>2, <2>3, ReactivityInvParts, RegistryStays
  <1>3. CASE ExecuteReads(b)
    <2> DEFINE keys == Tracked(b, Snapshot(b))
    <2>1. /\ Registers(b, keys) /\ Returns(stack, Result(TRUE, Value(b))) /\ state' = state
      BY <1>3 DEF ExecuteReads
    <2>2. keys \in SUBSET Registered /\ Result(TRUE, Value(b)) \in Results
      BY ExpressionFits, FramesFit
    <2> HIDE DEF keys
    <2>3. /\ todo' \in Seq(Index) /\ initial' \in [Index -> Results]
          /\ CallsFit(Index, stack', todo') /\ Len(stack') = Len(stack)
      BY <1>1, <2>1, <2>2, ReturnsFits, ReactivityInvParts
    <2>4. /\ registry' \in [Registered -> Seq(Index)]
          /\ deps' \in [Index -> SUBSET Registered] /\ threw' \subseteq Index
          /\ RegistryFits'
      BY <2>1, <2>2, RegistersFits
    <2> QED
      BY <2>1, <2>3, <2>4, ReactivityInvParts
  <1>4. CASE ExecuteAssigns(b)
    <2> DEFINE call == Execute(b, Snapshot(b))
               below == Append(stack, call)
    <2>1. /\ Sets(Def(b).target, Value(b), below)
          /\ UNCHANGED <<page, registry, deps, threw, initial, todo>>
      BY <1>4 DEF ExecuteAssigns
    <2>2. IF stack = <<>> THEN todo # <<>> ELSE stack[Len(stack)].call = "apply"
      BY <1>1
    <2>3. Sits(call, Index, stack, todo)
      BY <2>2, ExpressionFits, FramesFit
    <2> HIDE DEF call
    <2>4. CallsFit(Index, below, todo)
      BY <2>3, PushFits, ReactivityInvParts
    <2> HIDE DEF below
    <2>5. Def(b).target \in Keys /\ Value(b) \in Values
      BY ExpressionFits
    <2>6. state' \in [Keys -> Values] /\ CallsFit(Index, stack', todo) /\ Len(stack') <= MaxDepth
      BY <2>1, <2>4, <2>5, SetsFits
    <2> QED
      BY <2>1, <2>6, ReactivityInvParts, RegistryStays
  <1> QED
    BY <1>2, <1>3, <1>4 DEF ExecuteBinding

LEMMA ExecuteEndsSound == ASSUME ReactivityInv, ExecuteEnds PROVE ReactivityInv'
  <1> DEFINE b == Top.b
             keys == Tracked(b, Top.read)
  <1>1. /\ stack # <<>> /\ Top.call = "execute"
        /\ Registers(b, keys) /\ Returns(Below, Result(TRUE, 0))
        /\ UNCHANGED <<page, phase, state, painted, applying, writes>>
    BY DEF ExecuteEnds, Running
  <1>2. /\ CallsFit(Index, Below, todo) /\ Len(Below) = Len(stack) - 1
        /\ Len(stack) \in Nat \ {0} /\ Sits(Top, Index, Below, todo)
    BY <1>1, TopFits
  <1>3. /\ b \in Index /\ Top.read \in Snapshots
        /\ IF Below = <<>> THEN todo # <<>> ELSE Below[Len(Below)].call = "apply"
    BY <1>1, <1>2 DEF Sits, CallFrame
  <1>4. keys \in SUBSET Registered
    BY <1>3, ExpressionFits
  <1> HIDE DEF b, keys
  <1>5. /\ registry' \in [Registered -> Seq(Index)]
        /\ deps' \in [Index -> SUBSET Registered] /\ threw' \subseteq Index
        /\ RegistryFits'
    BY <1>1, <1>3, <1>4, RegistersFits
  <1>6. Result(TRUE, 0) \in Results
    BY FramesFit
  <1>7. /\ todo' \in Seq(Index) /\ initial' \in [Index -> Results]
        /\ CallsFit(Index, stack', todo') /\ Len(stack') = Len(Below)
    BY <1>1, <1>2, <1>3, <1>6, ReturnsFits
  <1>8. Len(stack') <= MaxDepth
    BY <1>2, <1>7, ReactivityInvParts, ReactivityAssumption
  <1>9. StepFits
    BY <1>1, <1>5, <1>7, <1>8, ReactivityInvParts DEF StepFits
  <1> QED
    BY <1>9, StepIsSound

LEMMA ApplyExecutesSound == ASSUME ReactivityInv, ApplyExecutes PROVE ReactivityInv'
  <1>1. /\ stack # <<>> /\ Top.call = "apply"
        /\ UNCHANGED <<page, phase, painted, applying, writes>>
    BY DEF ApplyExecutes, Running
  <1>2. Top \in CallFrame(Index) /\ Top.b \in Index /\ Sits(Top, Index, Below, todo)
    BY <1>1, TopFits DEF Sits
  <1>3. CASE initial[Top.b].made
    <2> DEFINE frame == [Top EXCEPT !.result = initial[Top.b]]
    <2>1. /\ stack' = OnTop(frame)
          /\ initial' = [initial EXCEPT ![Top.b] = NoResult]
          /\ UNCHANGED <<state, registry, deps, threw, todo>>
      BY <1>3 DEF ApplyExecutes
    <2>2. initial[Top.b] \in Results /\ initial' \in [Index -> Results]
      BY <1>2, <2>1, FramesFit, ReactivityInvParts
    <2>3. frame \in CallFrame(Index) /\ frame.call = Top.call /\ frame.b = Top.b
      BY <1>2, <2>2 DEF CallFrame
    <2> HIDE DEF frame
    <2>4. CallsFit(Index, stack', todo) /\ Len(stack') = Len(stack)
      BY <1>1, <2>1, <2>3, TopFits
    <2>5. StepFits
      BY <1>1, <2>1, <2>2, <2>4, ReactivityInvParts, RegistryStays DEF StepFits
    <2> QED
      BY <2>5, StepIsSound
  <1>4. CASE ~initial[Top.b].made
    <2>1. ExecuteBinding(Top.b)
      BY <1>4 DEF ApplyExecutes
    <2> DEFINE b == Top.b
    <2>2. b \in Index /\ ExecuteBinding(b)
      BY <1>2, <2>1
    <2> HIDE DEF b
    <2>3. /\ todo' \in Seq(Index) /\ state' \in [Keys -> Values]
          /\ registry' \in [Registered -> Seq(Index)]
          /\ deps' \in [Index -> SUBSET Registered]
          /\ initial' \in [Index -> Results] /\ threw' \subseteq Index
          /\ Len(stack') <= MaxDepth
          /\ CallsFit(Index, stack', todo')
          /\ RegistryFits'
      BY <1>1, <2>2, ExecuteBindingFits
    <2>4. StepFits
      BY <1>1, <2>3, ReactivityInvParts DEF StepFits
    <2> QED
      BY <2>4, StepIsSound
  <1> QED
    BY <1>3, <1>4

LEMMA ApplyStoresSound == ASSUME ReactivityInv, ApplyStores PROVE ReactivityInv'
  <1> DEFINE frame == Spent(Top)
             below == OnTop(frame)
             k == Def(Top.b).target
  <1>1. /\ stack # <<>> /\ Top.call = "apply"
        /\ Sets(k, Top.result.value, below)
        /\ UNCHANGED <<page, phase, todo, registry, deps, initial, painted, threw,
                       applying, writes>>
    BY DEF ApplyStores, Running
  <1>2. Top \in CallFrame(Index) /\ Top.b \in Index /\ Sits(Top, Index, Below, todo)
    BY <1>1, TopFits DEF Sits
  <1>3. Top.result.value \in Values /\ k \in Keys
    BY <1>2, ExpressionFits DEF CallFrame, Results
  <1>4. frame \in CallFrame(Index) /\ frame.call = Top.call /\ frame.b = Top.b
    BY <1>2, FramesFit DEF CallFrame, Spent
  <1> HIDE DEF frame, k
  <1>5. CallsFit(Index, below, todo)
    BY <1>1, <1>4, TopFits
  <1> HIDE DEF below
  <1>6. state' \in [Keys -> Values] /\ CallsFit(Index, stack', todo) /\ Len(stack') <= MaxDepth
    BY <1>1, <1>3, <1>5, SetsFits
  <1>7. StepFits
    BY <1>1, <1>6, ReactivityInvParts, RegistryStays DEF StepFits
  <1> QED
    BY <1>7, StepIsSound

LEMMA ApplyEndsSound == ASSUME ReactivityInv, ApplyEnds PROVE ReactivityInv'
  <1>1. /\ stack # <<>> /\ Top.call = "apply" /\ stack' = Below /\ Leaves(Top)
        /\ painted' = IF Top.result.ok THEN [painted EXCEPT ![Top.b] = Top.result.value]
                                       ELSE painted
        /\ UNCHANGED <<page, phase, todo, state, registry, deps, initial, threw, writes>>
    BY DEF ApplyEnds, Running
  <1>2. /\ CallsFit(Index, Below, todo) /\ Len(Below) = Len(stack) - 1
        /\ Len(stack) \in Nat \ {0} /\ Top \in CallFrame(Index) /\ Sits(Top, Index, Below, todo)
    BY <1>1, TopFits
  <1>3. Top.result.value \in Values /\ Top.b \in Index
    BY <1>1, <1>2 DEF CallFrame, Results, Sits
  <1>4. painted' \in [Index -> Values]
    BY <1>1, <1>3, ReactivityInvParts
  <1>5. applying' \subseteq Index
    BY <1>1, ReactivityInvParts DEF Leaves
  <1>6. Len(stack') <= MaxDepth
    BY <1>1, <1>2, ReactivityInvParts, ReactivityAssumption
  <1>7. StepFits
    BY <1>1, <1>2, <1>4, <1>5, <1>6, ReactivityInvParts, RegistryStays DEF StepFits
  <1> QED
    BY <1>7, StepIsSound

LEMMA MountSound ==
    ASSUME ReactivityInv,
           MountExecutes \/ MountExecuted \/ MountRestored \/ MountApplies \/ Mounted
    PROVE  ReactivityInv'
  <1>1. CASE MountExecutes
    <2> DEFINE b == Head(todo)
    <2>1. /\ stack = <<>> /\ todo # <<>> /\ ExecuteBinding(b)
          /\ UNCHANGED <<page, phase, painted, applying, writes>>
      BY <1>1 DEF MountExecutes
    <2>2. b \in Index
      BY <2>1, ReactivityInvParts, HeadTailProperties
    <2> HIDE DEF b
    <2>3. /\ todo' \in Seq(Index) /\ state' \in [Keys -> Values]
          /\ registry' \in [Registered -> Seq(Index)]
          /\ deps' \in [Index -> SUBSET Registered]
          /\ initial' \in [Index -> Results] /\ threw' \subseteq Index
          /\ Len(stack') <= MaxDepth
          /\ CallsFit(Index, stack', todo')
          /\ RegistryFits'
      BY <2>1, <2>2, ExecuteBindingFits
    <2>4. StepFits
      BY <2>1, <2>3, ReactivityInvParts DEF StepFits
    <2> QED
      BY <2>4, StepIsSound
  <1>2. CASE MountExecuted \/ Mounted
    <2>1. /\ phase' \in {"restore", "mounted"}
          /\ UNCHANGED <<page, todo, state, registry, deps, initial, painted, threw, applying,
                         stack, writes>>
      BY <1>2 DEF MountExecuted, Mounted
    <2>2. StepFits
      BY <2>1, ReactivityInvParts, RegistryStays DEF StepFits
    <2> QED
      BY <2>2, StepIsSound
  <1>3. CASE MountRestored
    <2>1. /\ phase' = "apply" /\ stack = <<>> /\ todo' \in [Index -> Index]
          /\ UNCHANGED <<page, state, registry, deps, initial, painted, threw, applying,
                         stack, writes>>
      BY <1>3 DEF MountRestored, NewBindings
    <2>2. todo' \in Seq(Index)
      BY <2>1, PageFits, SeqDef
    <2>3. StepFits
      BY <2>1, <2>2, NoCalls, ReactivityInvParts, RegistryStays DEF StepFits
    <2> QED
      BY <2>3, StepIsSound
  <1>4. CASE MountApplies
    <2> DEFINE call == Apply(Head(todo), FALSE)
    <2>1. /\ stack = <<>> /\ stack' = <<call>> /\ todo # <<>> /\ todo' = Tail(todo)
          /\ UNCHANGED <<page, phase, state, registry, deps, initial, painted, threw,
                         applying, writes>>
      BY <1>4 DEF MountApplies
    <2>2. Head(todo) \in Index /\ todo' \in Seq(Index)
      BY <2>1, ReactivityInvParts, HeadTailProperties
    <2>3. Sits(call, Index, <<>>, todo')
      BY <2>2, FramesFit
    <2> HIDE DEF call
    <2>4. CallsFit(Index, stack', todo') /\ Len(stack') = 1
      <3>1. CallsFit(Index, Append(<<>>, call), todo')
        BY <2>3, NoCalls, PushFits
      <3>2. stack' = Append(<<>>, call) /\ Len(stack') = 1
        BY <2>1
      <3> QED
        BY <3>1, <3>2
    <2>5. 1 <= MaxDepth
      BY ReactivityAssumption
    <2>6. StepFits
      BY <2>1, <2>2, <2>4, <2>5, ReactivityInvParts, RegistryStays DEF StepFits
    <2> QED
      BY <2>6, StepIsSound
  <1> QED
    BY <1>1, <1>2, <1>3, <1>4

LEMMA ReactivityInitSound == ReactivityInit => ReactivityInv
  <1> SUFFICES ASSUME ReactivityInit PROVE ReactivityInv
    OBVIOUS
  <1>1. page.bindings \in Seq(Binding) /\ page \in Pages
    BY ReactivityAssumption DEF ReactivityInit
  <1>2. Index = 1..Len(page.bindings) /\ Len(page.bindings) \in Nat
    BY <1>1, LenProperties DEF Index
  <1>3. todo \in Seq(Index)
    <2>1. todo \in [1..Len(page.bindings) -> Index]
      BY <1>2 DEF ReactivityInit
    <2> QED
      BY <1>2, <2>1, SeqDef
  <1>4. <<>> \in Seq(Index) /\ Len(<<>>) = 0
    BY EmptySeq
  <1>5. NoResult \in Results /\ 0 \in Values
    BY DEF NoResult, Results, Values
  <1>6. ReactivityTypeOK
    BY <1>1, <1>3, <1>4, <1>5, ReactivityAssumption DEF ReactivityInit, ReactivityTypeOK
  <1>7. CallsFit(Index, stack, todo)
    BY NoCalls DEF ReactivityInit
  <1>8. RegistryFits
    <2>1. ASSUME NEW k \in Registered
          PROVE  QueueFits(Index, Firsts, Dependents(k), registry[k])
      <3>1. registry[k] = <<>> /\ Dependents(k) = {}
        BY DEF ReactivityInit, Dependents
      <3> QED
        BY <3>1, <1>4 DEF QueueFits
    <2> QED
      BY <2>1 DEF RegistryFits
  <1> QED
    BY <1>6, <1>7, <1>8 DEF ReactivityInv

LEMMA ReactivityStutters == ASSUME ReactivityInv, UNCHANGED reactivityVars PROVE ReactivityInv'
  <1>1. StepFits
    BY ReactivityInvParts, RegistryStays DEF StepFits, reactivityVars
  <1> QED
    BY <1>1, StepIsSound

LEMMA ReactivityNextSound == ReactivityInv /\ [ReactivityNext]_reactivityVars => ReactivityInv'
  BY WriteSound, RunNextSound, NotifyEndsSound, ExecuteEndsSound, ApplyExecutesSound,
     ApplyStoresSound, ApplyEndsSound, MountSound, ReactivityStutters
     DEF ReactivityNext, Engine

THEOREM ReactivityInductive == ReactivitySpec => []ReactivityInv
  BY ReactivityInitSound, ReactivityNextSound, PTL DEF ReactivitySpec

(***************************************************************************)
(* The types hold on every page, with any number of bindings, writes and    *)
(* calls within calls.                                                      *)
(***************************************************************************)
THEOREM ReactivityTypes == ReactivitySpec => []ReactivityTypeOK
  <1>1. ReactivityInv => ReactivityTypeOK
    BY DEF ReactivityInv
  <1> QED
    BY <1>1, ReactivityInductive, PTL

(***************************************************************************)
(* On every page, however the executions of its bindings nest, a key's queue*)
(* holds exactly the bindings that depend on it, once each, and calculations*)
(* before what shows their results.                                         *)
(***************************************************************************)
THEOREM RegistryIsRight == ReactivitySpec => []RegistryAgrees
  <1>1. ASSUME ReactivityInv PROVE RegistryAgrees
    <2>1. ASSUME NEW k \in Registered
          PROVE  /\ {registry[k][i] : i \in DOMAIN registry[k]} = {b \in Index : k \in deps[b]}
                 /\ \A i, j \in DOMAIN registry[k] : i < j =>
                       /\ registry[k][i] # registry[k][j]
                       /\ First(registry[k][j]) => First(registry[k][i])
      <3>1. QueueFits(Index, Firsts, Dependents(k), registry[k])
        BY <1>1, ReactivityInvParts DEF RegistryFits
      <3>2. registry[k] \in Seq(Index) /\ DOMAIN registry[k] = 1..Len(registry[k])
        BY <3>1, LenProperties DEF QueueFits
      <3>3. \A i \in DOMAIN registry[k] : registry[k][i] \in Index
        BY <3>2, ElementOfSeq
      <3> QED
        BY <3>1, <3>2, <3>3 DEF QueueFits, Dependents, Firsts
    <2> QED
      BY <2>1 DEF RegistryAgrees
  <1> QED
    BY <1>1, ReactivityInductive, PTL

----------------------------------------------------------------------------

(***************************************************************************)
(* Why everything shown is what the state says. The call stack climbs: what *)
(* a call below a notification computes comes, in the order of the page's   *)
(* definitions, before everything that notification will run, so that no    *)
(* value is overwritten that an execution in progress has read. And every   *)
(* binding is owed its run: it shows what the state says, or a notification *)
(* in progress will come to it, or it is being run, or it threw.            *)
(***************************************************************************)

\* d comes after b, or is run at every write, or computes nothing
Above(rank, b, d) ==
    d \in Writers =>
        \/ d \in Alls
        \/ b \notin Alls /\ rank[Def(b).target] < rank[Def(d).target]

InQueue(b, frame) == \E n \in 1..Len(frame.queue) : frame.queue[n] = b

SafeApply(frame) == frame.call = "apply" /\ frame.safe

\* What a call holds by itself; made are the bindings with a result of the mount
Own(frame, made) ==
    /\ frame.call = "execute" => Def(frame.b).kind = "effect"
    /\ frame.call = "apply" => /\ frame.result.ok => frame.result.made
                               /\ frame.result.made => frame.b \notin made

\* A call made by the one right below it
Seated(lo, hi, made) ==
    /\ hi.call = "notify" => lo.call # "notify"
    /\ hi.call = "apply" => lo.call = "notify"
    /\ hi.call = "execute" => lo.call = "apply" /\ lo.b = hi.b /\ ~lo.result.made
    /\ lo.call = "apply" =>
          /\ lo.b \notin made
          /\ hi.call = "notify" => Def(lo.b).kind = "calc" /\ lo.result = Result(FALSE, 0)

\* A call anywhere above another
Over(rank, lo, hi) ==
    /\ lo.call # "notify" =>
          IF hi.call = "notify"
          THEN lo.b \in Writers /\ \A d \in Index : InQueue(d, hi) => Above(rank, lo.b, d)
          ELSE \/ hi.call = "execute" /\ hi.b = lo.b
               \/ lo.b \in Writers /\ Above(rank, lo.b, hi.b)
    /\ SafeApply(lo) /\ SafeApply(hi) => lo.b # hi.b

\* The calls in progress, turn being the binding the mount executes and busy those applied
Shape(rank, frames, made, turn, busy) ==
    /\ \A i \in 1..Len(frames) : Own(frames[i], made)
    /\ \A i \in 1..Len(frames) : i # 1 => Seated(frames[i - 1], frames[i], made)
    /\ \A i, j \in 1..Len(frames) : i < j => Over(rank, frames[i], frames[j])
    /\ frames # <<>> /\ frames[1].call = "execute" => frames[1].b = turn
    /\ \A b : b \in busy <=> \E i \in 1..Len(frames) : SafeApply(frames[i]) /\ frames[i].b = b

\* What a call needs of those below it
Joins(rank, frames, frame, made, turn) ==
    /\ Own(frame, made)
    /\ IF frames = <<>> THEN frame.call = "execute" => frame.b = turn
                        ELSE Seated(frames[Len(frames)], frame, made)
    /\ \A i \in 1..Len(frames) : Over(rank, frames[i], frame)

LEMMA SequenceGrows ==
    ASSUME NEW S, NEW frames \in Seq(S), NEW frame \in S
    PROVE  LET s == Append(frames, frame)
           IN /\ s \in Seq(S) /\ s # <<>> /\ Len(frames) \in Nat
              /\ Len(s) = Len(frames) + 1 /\ s[Len(frames) + 1] = frame
              /\ \A i \in 1..Len(frames) : s[i] = frames[i]
  <1> DEFINE s == Append(frames, frame)
  <1>1. s \in Seq(S) /\ Len(frames) \in Nat /\ Len(s) = Len(frames) + 1
        /\ s[Len(frames) + 1] = frame /\ \A i \in 1..Len(frames) : s[i] = frames[i]
    BY AppendProperties, LenProperties
  <1>2. s # <<>>
    BY <1>1, EmptySeq
  <1> QED
    BY <1>1, <1>2

LEMMA SequenceShrinks ==
    ASSUME NEW S, NEW frames \in Seq(S), frames # <<>>
    PROVE  LET s == SubSeq(frames, 1, Len(frames) - 1)
           IN /\ s \in Seq(S) /\ Len(frames) \in Nat \ {0} /\ Len(s) = Len(frames) - 1
              /\ frames[Len(frames)] \in S
              /\ \A i \in 1..Len(s) : s[i] = frames[i]
              /\ s = <<>> <=> Len(frames) = 1
  <1> DEFINE s == SubSeq(frames, 1, Len(frames) - 1)
             n == Len(frames)
  <1>1. n \in Nat \ {0}
    BY EmptySeq
  <1>2. \A m \in Nat \ {0} : /\ m - 1 \in Nat /\ m \in 1..m
                             /\ m - 1 - 1 + 1 = m - 1 /\ (~(1 <= m - 1) => m - 1 = 0)
                             /\ \A i \in 1..m - 1 : 1 + i - 1 = i /\ i \in 1..m
    OBVIOUS
  <1>3. \A i \in 1..n - 1 : frames[i] \in S
    BY <1>1, <1>2, ElementOfSeq
  <1>4. /\ SubSeq(frames, 1, n - 1) \in Seq(S)
        /\ Len(SubSeq(frames, 1, n - 1)) = IF 1 <= n - 1 THEN n - 1 - 1 + 1 ELSE 0
        /\ \A i \in 1..n - 1 - 1 + 1 : SubSeq(frames, 1, n - 1)[i] = frames[1 + i - 1]
    <2>1. \A T, q : (\A i \in 1..n - 1 : q[i] \in T) =>
              /\ SubSeq(q, 1, n - 1) \in Seq(T)
              /\ Len(SubSeq(q, 1, n - 1)) = IF 1 <= n - 1 THEN n - 1 - 1 + 1 ELSE 0
              /\ \A i \in 1..n - 1 - 1 + 1 : SubSeq(q, 1, n - 1)[i] = q[1 + i - 1]
      BY <1>1, <1>2, SubSeqProperties
    <2> QED
      BY <1>3, <2>1
  <1>5. s \in Seq(S) /\ Len(s) = n - 1 /\ \A i \in 1..n - 1 : s[i] = frames[i]
    BY <1>1, <1>2, <1>4
  <1> HIDE DEF s
  <1>6. s = <<>> <=> n = 1
    BY <1>1, <1>5, EmptySeq
  <1>7. frames[n] \in S
    BY <1>1, <1>2, ElementOfSeq
  <1> QED
    BY <1>1, <1>5, <1>6, <1>7 DEF s

LEMMA NothingClimbs == \A rank, made, turn : Shape(rank, <<>>, made, turn, {})
  <1>1. Len(<<>>) = 0 /\ 1..0 = {}
    OBVIOUS
  <1> QED
    BY <1>1 DEF Shape

LEMMA PushClimbs ==
    ASSUME NEW S, NEW frames \in Seq(S), NEW frame \in S, NEW rank, NEW made, NEW turn, NEW busy,
           Shape(rank, frames, made, turn, busy), Joins(rank, frames, frame, made, turn)
    PROVE  Shape(rank, Append(frames, frame), made, turn,
                 IF SafeApply(frame) THEN busy \cup {frame.b} ELSE busy)
  <1> DEFINE s == Append(frames, frame)
             n == Len(frames)
             held == IF SafeApply(frame) THEN busy \cup {frame.b} ELSE busy
  <1>1. n \in Nat /\ Len(s) = n + 1 /\ s[n + 1] = frame /\ \A i \in 1..n : s[i] = frames[i]
    BY SequenceGrows
  <1>2. frames = <<>> <=> n = 0
    BY EmptySeq
  <1> HIDE DEF s
  <1>3. \A i \in 1..n + 1 : i \in 1..n \/ i = n + 1
    BY <1>1
  <1>4. \A i \in 1..n : i \in 1..n + 1 /\ i # n + 1
    BY <1>1
  <1>5. n + 1 \in 1..n + 1 /\ (n + 1) - 1 = n /\ (n # 0 => n \in 1..n) /\ (n + 1 = 1 <=> n = 0)
    BY <1>1
  <1>6. \A i \in 1..n + 1 : Own(s[i], made)
    BY <1>1, <1>3 DEF Shape, Joins
  <1>7. ASSUME NEW i \in 1..n + 1, i # 1 PROVE Seated(s[i - 1], s[i], made)
    <2>1. CASE i \in 1..n
      <3>1. i - 1 \in 1..n
        BY <1>1, <1>7, <2>1
      <3> QED
        BY <1>1, <1>7, <2>1, <3>1 DEF Shape
    <2>2. CASE i = n + 1
      <3>1. s[i - 1] = frames[n] /\ s[i] = frame /\ frames # <<>>
        BY <1>1, <1>2, <1>5, <1>7, <2>2
      <3> QED
        BY <3>1 DEF Joins
    <2> QED
      BY <1>3, <2>1, <2>2
  <1>8. ASSUME NEW i \in 1..n + 1, NEW j \in 1..n + 1, i < j PROVE Over(rank, s[i], s[j])
    <2>1. i \in 1..n
      BY <1>1, <1>8
    <2>2. CASE j \in 1..n
      BY <1>1, <1>8, <2>1, <2>2 DEF Shape
    <2>3. CASE j = n + 1
      BY <1>1, <2>1, <2>3 DEF Joins
    <2> QED
      BY <1>3, <2>2, <2>3
  <1>9. s # <<>> /\ s[1].call = "execute" => s[1].b = turn
    <2>1. CASE n = 0
      <3>1. frames = <<>> /\ s[1] = frame
        BY <1>1, <1>2, <2>1
      <3> QED
        BY <3>1 DEF Joins
    <2>2. CASE n # 0
      <3>1. frames # <<>> /\ s[1] = frames[1]
        BY <1>1, <1>2, <2>2
      <3> QED
        BY <3>1 DEF Shape
    <2> QED
      BY <2>1, <2>2
  <1>10. ASSUME NEW b
         PROVE  b \in held <=> \E i \in 1..n + 1 : SafeApply(s[i]) /\ s[i].b = b
    <2>1. b \in busy <=> \E i \in 1..n : SafeApply(frames[i]) /\ frames[i].b = b
      BY DEF Shape
    <2>2. b \in held <=> b \in busy \/ (SafeApply(frame) /\ frame.b = b)
      OBVIOUS
    <2> QED
      BY <1>1, <1>3, <1>4, <1>5, <2>1, <2>2
  <1> QED
    BY <1>1, <1>6, <1>7, <1>8, <1>9, <1>10 DEF Shape, s

LEMMA PopClimbs ==
    ASSUME NEW S, NEW frames \in Seq(S), NEW rank, NEW made, NEW turn, NEW busy,
           Shape(rank, frames, made, turn, busy), frames # <<>>
    PROVE  LET below == SubSeq(frames, 1, Len(frames) - 1)
               top == frames[Len(frames)]
           IN /\ Shape(rank, below, made, turn, IF SafeApply(top) THEN busy \ {top.b} ELSE busy)
              /\ Joins(rank, below, top, made, turn)
              /\ SafeApply(top) => top.b \in busy
  <1> DEFINE s == SubSeq(frames, 1, Len(frames) - 1)
             n == Len(frames)
             top == frames[n]
             held == IF SafeApply(top) THEN busy \ {top.b} ELSE busy
  <1>1. n \in Nat \ {0} /\ Len(s) = n - 1 /\ (s = <<>> <=> n = 1)
        /\ \A i \in 1..n - 1 : s[i] = frames[i]
    BY SequenceShrinks
  <1> HIDE DEF s
  <1>2. \A m \in Nat \ {0} : /\ \A i \in 1..m - 1 : i \in 1..m /\ i < m /\ (i # 1 => i - 1 \in 1..m - 1)
                             /\ m \in 1..m /\ (m # 1 => m - 1 \in 1..m - 1 /\ 1 \in 1..m - 1)
                             /\ \A i \in 1..m : i \in 1..m - 1 \/ i = m
    OBVIOUS
  <1>3. \A i \in 1..n - 1 : Own(s[i], made)
    BY <1>1, <1>2 DEF Shape
  <1>4. \A i \in 1..n - 1 : i # 1 => Seated(s[i - 1], s[i], made)
    BY <1>1, <1>2 DEF Shape
  <1>5. \A i, j \in 1..n - 1 : i < j => Over(rank, s[i], s[j])
    <2>1. ASSUME NEW i \in 1..n - 1, NEW j \in 1..n - 1, i < j
          PROVE  Over(rank, s[i], s[j])
      <3>1. i \in 1..n /\ j \in 1..n
        BY <1>1, <1>2
      <3>2. Over(rank, frames[i], frames[j])
        BY <2>1, <3>1 DEF Shape
      <3>3. s[i] = frames[i] /\ s[j] = frames[j]
        BY <1>1
      <3> QED
        BY <3>2, <3>3
    <2> QED
      BY <2>1
  <1>6. s # <<>> /\ s[1].call = "execute" => s[1].b = turn
    BY <1>1, <1>2 DEF Shape
  <1>7. ASSUME NEW b
        PROVE  b \in held <=> \E i \in 1..n - 1 : SafeApply(s[i]) /\ s[i].b = b
    <2>1. b \in busy <=> \E i \in 1..n : SafeApply(frames[i]) /\ frames[i].b = b
      BY DEF Shape
    <2>2. b \in held <=> b \in busy /\ ~(SafeApply(top) /\ top.b = b)
      OBVIOUS
    <2>3. \A i \in 1..n - 1 : SafeApply(frames[i]) /\ SafeApply(top) => frames[i].b # top.b
      BY <1>1, <1>2 DEF Shape, Over
    <2>4. n \in 1..n /\ \A i \in 1..n : i \in 1..n - 1 \/ i = n
      BY <1>1, <1>2
    <2>5. \A i \in 1..n - 1 : i \in 1..n /\ s[i] = frames[i]
      BY <1>1, <1>2
    <2> QED
      BY ONLY <2>1, <2>2, <2>3, <2>4, <2>5
  <1>8. Shape(rank, s, made, turn, held)
    BY <1>1, <1>3, <1>4, <1>5, <1>6, <1>7 DEF Shape
  <1>9. Joins(rank, s, top, made, turn)
    <2>1. Own(top, made) /\ \A i \in 1..n - 1 : Over(rank, s[i], top)
      BY <1>1, <1>2 DEF Shape
    <2>2. s = <<>> => (top.call = "execute" => top.b = turn)
      BY <1>1 DEF Shape
    <2>3. s # <<>> => Seated(s[n - 1], top, made)
      BY <1>1, <1>2 DEF Shape
    <2> QED
      BY <1>1, <2>1, <2>2, <2>3 DEF Joins
  <1>10. SafeApply(top) => top.b \in busy
    BY <1>1, <1>2 DEF Shape
  <1> QED
    BY <1>8, <1>9, <1>10 DEF s

\* A call goes on as what it was, with nothing new to run.
LEMMA JoinsOn ==
    ASSUME NEW rank, NEW below, NEW made, NEW turn, NEW top, NEW frame,
           Joins(rank, below, top, made, turn),
           frame.call = top.call /\ frame.b = top.b /\ frame.safe = top.safe,
           frame.call = "notify" => \A d : InQueue(d, frame) => InQueue(d, top),
           frame.call = "apply" => Own(frame, made)
    PROVE  Joins(rank, below, frame, made, turn)
  <1>1. Own(frame, made)
    BY DEF Joins, Own
  <1>2. \A lo : Seated(lo, top, made) => Seated(lo, frame, made)
    BY DEF Seated
  <1>3. \A lo : Over(rank, lo, top) => Over(rank, lo, frame)
    BY DEF Over, SafeApply
  <1> QED
    BY <1>1, <1>2, <1>3 DEF Joins

LEMMA GoesOnClimbs ==
    ASSUME NEW S, NEW frames \in Seq(S), NEW rank, NEW made, NEW turn, NEW busy, NEW frame \in S,
           Shape(rank, frames, made, turn, busy), frames # <<>>,
           SafeApply(frame) <=> SafeApply(frames[Len(frames)]), frame.b = frames[Len(frames)].b,
           Joins(rank, SubSeq(frames, 1, Len(frames) - 1), frame, made, turn)
    PROVE  Shape(rank, Append(SubSeq(frames, 1, Len(frames) - 1), frame), made, turn, busy)
  <1> DEFINE below == SubSeq(frames, 1, Len(frames) - 1)
             top == frames[Len(frames)]
             held == IF SafeApply(top) THEN busy \ {top.b} ELSE busy
  <1>1. Shape(rank, below, made, turn, held) /\ (SafeApply(top) => top.b \in busy)
    BY PopClimbs
  <1>2. below \in Seq(S) /\ Joins(rank, below, frame, made, turn)
    BY SequenceShrinks
  <1>3. busy = IF SafeApply(frame) THEN held \cup {frame.b} ELSE held
    BY <1>1
  <1> HIDE DEF held, below
  <1>4. Shape(rank, Append(below, frame), made, turn,
              IF SafeApply(frame) THEN held \cup {frame.b} ELSE held)
    BY <1>1, <1>2, PushClimbs
  <1> QED
    BY <1>3, <1>4 DEF below

\* Results of the mount that are used up
LEMMA ForgetsClimbs ==
    ASSUME NEW rank, NEW frames, NEW made, NEW turn, NEW busy, NEW left \in SUBSET made,
           Shape(rank, frames, made, turn, busy)
    PROVE  Shape(rank, frames, left, turn, busy)
  <1>1. \A frame : Own(frame, made) => Own(frame, left)
    BY DEF Own
  <1>2. \A lo, hi : Seated(lo, hi, made) => Seated(lo, hi, left)
    BY DEF Seated
  <1> QED
    BY <1>1, <1>2 DEF Shape

----------------------------------------------------------------------------
(* The order of a page's definitions                                        *)

\* What a binding is registered under
DepsFit == \A b \in Index : deps[b] \subseteq IF b \in Alls THEN {ALL} ELSE Feeds(b)

LEMMA BindingParts ==
    ASSUME ReactivityInv
    PROVE  /\ 0 \notin Index /\ Writers \subseteq Index /\ Alls \subseteq Writers
           /\ \A b \in Index :
                 /\ Def(b).kind \in {"show", "calc", "effect"}
                 /\ b \in Writers <=> Def(b).kind # "show"
                 /\ b \in Alls => Def(b).kind = "effect"
                 /\ b \in Alls <=> ALL \in Def(b).keys
                 /\ Def(b).target \in Keys /\ KeysRead(b) \subseteq Feeds(b)
                 /\ Feeds(b) \subseteq Keys /\ ALL \notin Feeds(b)
                 /\ KeysRead(b) \subseteq Keys /\ Def(b).test \in Keys
                 /\ Def(b).yes \in Keys /\ Def(b).no \in Keys
  <1>1. 0 \notin Index
    BY PageFits
  <1>2. Writers \subseteq Index /\ Alls \subseteq Writers
    BY DEF Writers, Alls
  <1>3. ASSUME NEW b \in Index
        PROVE  /\ Def(b).kind \in {"show", "calc", "effect"}
               /\ b \in Writers <=> Def(b).kind # "show"
               /\ b \in Alls => Def(b).kind = "effect"
               /\ b \in Alls <=> ALL \in Def(b).keys
               /\ Def(b).target \in Keys /\ KeysRead(b) \subseteq Feeds(b)
               /\ Feeds(b) \subseteq Keys /\ ALL \notin Feeds(b)
               /\ KeysRead(b) \subseteq Keys /\ Def(b).test \in Keys
               /\ Def(b).yes \in Keys /\ Def(b).no \in Keys
    <2>1. Def(b) \in Binding
      BY PageFits
    <2>2. /\ Def(b).kind \in {"show", "calc", "effect"} /\ Def(b).target \in Keys
          /\ Def(b).test \in Keys /\ Def(b).yes \in Keys /\ Def(b).no \in Keys
          /\ Def(b).keys \subseteq Registered
          /\ Def(b).kind # "effect" => Def(b).keys = {}
      BY <2>1 DEF Binding
    <2>3. b \in Writers <=> Def(b).kind # "show"
      BY DEF Writers
    <2>4. b \in Alls <=> ALL \in Def(b).keys
      BY <2>2, <2>3 DEF Alls
    <2>5. Feeds(b) \subseteq Keys /\ ALL \notin Feeds(b)
      BY <2>2, ReactivityAssumption DEF Feeds, Registered
    <2>6. KeysRead(b) \subseteq Feeds(b)
      BY DEF KeysRead, Feeds
    <2> QED
      BY <2>2, <2>3, <2>4, <2>5, <2>6
  <1> QED
    BY <1>1, <1>2, <1>3

\* The order is one, and the registry respects it.
LEMMA RankParts ==
    ASSUME ReactivityInv, DepsFit, NEW rank \in Ranks, Ranked(rank)
    PROVE  /\ \A b, c \in Writers : \A d : Above(rank, b, c) /\ Above(rank, c, d) => Above(rank, b, d)
           /\ \A c \in Writers : Above(rank, c, c) => c \in Alls
           /\ \A c, d : d \in Index /\ ALL \in deps[d] => Above(rank, c, d)
           /\ \A c \in Writers : \A d \in Index : Def(c).target \in deps[d] => Above(rank, c, d)
           /\ \A c \in Writers : Def(c).target \notin KeysRead(c)
           /\ \A b, c \in Writers : Above(rank, b, c) => Def(c).target \notin KeysRead(b)
           /\ \A b, c \in Writers : b # c => Def(b).target # Def(c).target
  <1>1. \A k \in Keys : rank[k] \in Int
    <2>1. Cardinality(Keys) \in Nat
      BY ReactivityAssumption, FS_CardinalityType
    <2> QED
      BY <2>1 DEF Ranks
  <1>2. /\ \A b, c \in Writers : b # c => Def(b).target # Def(c).target
        /\ \A b \in Writers : \A k \in Feeds(b) : rank[k] < rank[Def(b).target]
        /\ \A b \in Alls, c \in Writers : Def(b).target \notin Feeds(c)
    BY DEF Ranked
  <1>3. Alls \subseteq Writers /\ \A b \in Writers : rank[Def(b).target] \in Int
    BY <1>1, BindingParts
  <1>4. \A b, c \in Writers : \A d : Above(rank, b, c) /\ Above(rank, c, d) => Above(rank, b, d)
    <2> SUFFICES ASSUME NEW b \in Writers, NEW c \in Writers, NEW d \in Writers,
                        Above(rank, b, c), Above(rank, c, d), d \notin Alls
                 PROVE  b \notin Alls /\ rank[Def(b).target] < rank[Def(d).target]
      BY DEF Above
    <2>1. c \notin Alls /\ rank[Def(c).target] < rank[Def(d).target]
      BY DEF Above
    <2>2. b \notin Alls /\ rank[Def(b).target] < rank[Def(c).target]
      BY <2>1 DEF Above
    <2> QED
      BY <2>1, <2>2, <1>3
  <1>5. \A c \in Writers : Above(rank, c, c) => c \in Alls
    BY <1>3 DEF Above
  <1>6. \A c, d : d \in Index /\ ALL \in deps[d] => Above(rank, c, d)
    BY BindingParts DEF DepsFit, Above
  <1>7. ASSUME NEW c \in Writers, NEW d \in Index, Def(c).target \in deps[d] PROVE Above(rank, c, d)
    <2>1. CASE d \in Alls
      BY <2>1 DEF Above
    <2>2. CASE d \notin Alls
      <3>1. Def(c).target \in Feeds(d)
        BY <1>7, <2>2 DEF DepsFit
      <3> QED
        BY <3>1, <1>2 DEF Above
    <2> QED
      BY <2>1, <2>2
  <1>8. \A c \in Writers : Def(c).target \notin KeysRead(c)
    BY <1>2, <1>3, BindingParts
  <1>9. ASSUME NEW b \in Writers, NEW c \in Writers, Above(rank, b, c)
        PROVE  Def(c).target \notin KeysRead(b)
    <2>1. CASE c \in Alls
      BY <1>2, <2>1, BindingParts
    <2>2. CASE c \notin Alls
      <3>1. rank[Def(b).target] < rank[Def(c).target]
        BY <1>9, <2>2 DEF Above
      <3>2. \A k \in KeysRead(b) : k \in Keys /\ rank[k] < rank[Def(b).target]
        BY <1>2, BindingParts
      <3> QED
        BY <1>1, <1>3, <3>1, <3>2
    <2> QED
      BY <2>1, <2>2
  <1> QED
    BY <1>2, <1>4, <1>5, <1>6, <1>7, <1>8, <1>9

\* A page does not change.
LEMMA PageStays ==
    ASSUME UNCHANGED page
    PROVE  /\ Index' = Index /\ Writers' = Writers /\ Alls' = Alls /\ Computed' = Computed
           /\ \A b : Def(b)' = Def(b) /\ Feeds(b)' = Feeds(b)
           /\ \A rank : Ranked(rank)' <=> Ranked(rank)
           /\ \A rank, frames, made, turn, busy :
                 Shape(rank, frames, made, turn, busy)' <=> Shape(rank, frames, made, turn, busy)
  <1>1. Index' = Index /\ \A b : Def(b)' = Def(b) /\ Feeds(b)' = Feeds(b)
    BY DEF Index, Def, Feeds
  <1>2. Writers' = Writers
    BY <1>1 DEF Writers
  <1>3. Alls' = Alls /\ Computed' = Computed
    BY <1>1, <1>2 DEF Alls, Computed
  <1>4. ASSUME NEW rank PROVE Ranked(rank)' <=> Ranked(rank)
    BY <1>1, <1>2, <1>3 DEF Ranked
  <1>5. \A rank, b, d : Above(rank, b, d)' <=> Above(rank, b, d)
    BY <1>1, <1>2, <1>3 DEF Above
  <1>6. \A frame, made : Own(frame, made)' <=> Own(frame, made)
    BY <1>1 DEF Own
  <1>7. \A lo, hi, made : Seated(lo, hi, made)' <=> Seated(lo, hi, made)
    BY <1>1 DEF Seated, Result
  <1>8. \A rank, lo, hi : Over(rank, lo, hi)' <=> Over(rank, lo, hi)
    BY <1>1, <1>2, <1>5 DEF Over, InQueue, SafeApply
  <1>9. ASSUME NEW rank, NEW frames, NEW made, NEW turn, NEW busy
        PROVE  Shape(rank, frames, made, turn, busy)' <=> Shape(rank, frames, made, turn, busy)
    BY <1>6, <1>7, <1>8 DEF Shape, SafeApply
  <1> QED
    BY <1>1, <1>2, <1>3, <1>4, <1>9

----------------------------------------------------------------------------
(* The stack climbs, step by step                                           *)

Made == {b \in Index : initial[b].made}
Turn == IF phase = "execute" /\ todo # <<>> THEN Head(todo) ELSE 0

Climbs(rank) ==
    /\ rank \in Ranks /\ Ranked(rank) /\ DepsFit
    /\ Shape(rank, stack, Made, Turn, applying)

\* What a step has to show
ClimbsOn(rank) == Shape(rank, stack', Made', Turn', applying')

\* No call, no shape
LEMMA ClimbsAnew ==
    ASSUME NEW rank, NEW made, NEW turn, NEW busy, Shape(rank, <<>>, made, turn, busy)
    PROVE  busy = {} /\ \A m, t : Shape(rank, <<>>, m, t, busy)
  <1>1. Len(<<>>) = 0 /\ 1..0 = {}
    OBVIOUS
  <1>2. busy = {}
    BY <1>1 DEF Shape
  <1> QED
    BY <1>2, NothingClimbs

LEMMA StackIs == ASSUME ReactivityInv PROVE stack \in Seq(CallFrame(Index))
  BY ReactivityInvParts DEF CallsFit

LEMMA TopClimbs ==
    ASSUME ReactivityInv, stack # <<>>, NEW rank, NEW made, NEW turn, NEW busy,
           Shape(rank, stack, made, turn, busy)
    PROVE  /\ Shape(rank, Below, made, turn, IF SafeApply(Top) THEN busy \ {Top.b} ELSE busy)
           /\ Joins(rank, Below, Top, made, turn)
           /\ SafeApply(Top) => Top.b \in busy
           /\ \A frame \in CallFrame(Index) :
                 /\ frame.call = Top.call /\ frame.b = Top.b /\ frame.safe = Top.safe
                 /\ Joins(rank, Below, frame, made, turn)
                 => Shape(rank, OnTop(frame), made, turn, busy)
  <1>1. stack \in Seq(CallFrame(Index))
    BY StackIs
  <1>2. /\ Shape(rank, Below, made, turn, IF SafeApply(Top) THEN busy \ {Top.b} ELSE busy)
        /\ Joins(rank, Below, Top, made, turn)
        /\ SafeApply(Top) => Top.b \in busy
    BY <1>1, PopClimbs DEF Below, Top
  <1>3. ASSUME NEW frame \in CallFrame(Index),
               frame.call = Top.call /\ frame.b = Top.b /\ frame.safe = Top.safe,
               Joins(rank, Below, frame, made, turn)
        PROVE  Shape(rank, OnTop(frame), made, turn, busy)
    <2>1. SafeApply(frame) <=> SafeApply(Top)
      BY <1>3 DEF SafeApply
    <2> QED
      BY <1>1, <1>3, <2>1, GoesOnClimbs DEF OnTop, Below, Top
  <1> QED
    BY <1>2, <1>3

\* The queues of a notification
LEMMA QueueIs ==
    ASSUME ReactivityInv, NEW k \in Registered
    PROVE  \A d : (\E n \in 1..Len(registry[k]) : registry[k][n] = d) <=> d \in Index /\ k \in deps[d]
  <1>1. QueueFits(Index, Firsts, Dependents(k), registry[k])
    BY ReactivityInvParts DEF RegistryFits
  <1>2. {registry[k][i] : i \in 1..Len(registry[k])} = Dependents(k)
    BY <1>1 DEF QueueFits
  <1> QED
    BY <1>2 DEF Dependents

\* A computed key is written by the call that is on top.
Computes(below, k) ==
    LET lo == below[Len(below)]
    IN /\ lo.b \in Writers /\ Def(lo.b).target = k
       /\ \/ lo.call = "execute"
          \/ lo.call = "apply" /\ lo.b \notin Made
             /\ Def(lo.b).kind = "calc" /\ lo.result = Result(FALSE, 0)

LEMMA SetsClimbs ==
    ASSUME ReactivityInv, NEW rank, Climbs(rank), NEW below \in Seq(CallFrame(Index)),
           Shape(rank, below, Made, Turn, applying),
           NEW k \in Keys, NEW v, Sets(k, v, below),
           below # <<>> => Computes(below, k)
    PROVE  Shape(rank, stack', Made, Turn, applying)
  <1> DEFINE n == Len(below)
             frame == Notify(k)
             c == below[n].b
  <1>1. stack' = Append(below, frame) /\ frame.call = "notify" /\ frame.queue = registry[k]
    BY DEF Sets, Notify
  <1>2. frame \in CallFrame(Index)
    BY FramesFit DEF Sits
  <1>3. \A d \in Index : InQueue(d, frame) => k \in deps[d]
    <2>1. k \in Registered
      BY DEF Registered
    <2> QED
      BY <1>1, <2>1, QueueIs DEF InQueue
  <1> HIDE DEF frame
  <1>4. \A i \in 1..n : Over(rank, below[i], frame)
    <2> SUFFICES ASSUME NEW i \in 1..n, below[i].call # "notify"
                 PROVE  /\ below[i].b \in Writers
                        /\ \A d \in Index : InQueue(d, frame) => Above(rank, below[i].b, d)
      BY <1>1 DEF Over, SafeApply
    <2>1. below # <<>> /\ n \in Nat /\ n \in 1..n
      BY EmptySeq
    <2>2. c \in Writers /\ Def(c).target = k /\ below[n].call # "notify"
      BY <2>1 DEF Computes
    <2>3. \A d \in Index : InQueue(d, frame) => Above(rank, c, d)
      BY <1>3, <2>2, RankParts DEF Climbs
    <2>4. below[i].b = c \/ (below[i].b \in Writers /\ Above(rank, below[i].b, c))
      <3>1. CASE i = n
        BY <3>1
      <3>2. CASE i # n
        <4>1. i < n
          BY <2>1, <3>2
        <4>2. Over(rank, below[i], below[n])
          BY <4>1, <2>1 DEF Shape
        <4> QED
          BY <4>2, <2>2 DEF Over
      <3> QED
        BY <3>1, <3>2
    <2> HIDE DEF c
    <2>5. \A d : Above(rank, below[i].b, c) /\ below[i].b \in Writers /\ Above(rank, c, d)
                 => Above(rank, below[i].b, d)
      BY <2>2, RankParts DEF Climbs
    <2> QED
      BY <2>2, <2>3, <2>4, <2>5
  <1>5. below # <<>> => Seated(below[n], frame, Made)
    BY <1>1 DEF Computes, Seated
  <1>6. Joins(rank, below, frame, Made, Turn)
    BY <1>1, <1>4, <1>5 DEF Joins, Own
  <1>7. ~SafeApply(frame)
    BY <1>1 DEF SafeApply
  <1> QED
    BY <1>1, <1>2, <1>6, <1>7, PushClimbs

LEMMA WriteClimbs ==
    ASSUME ReactivityInv, NEW rank, Climbs(rank), NEW k \in Keys, NEW v, Write(k, v)
    PROVE  ClimbsOn(rank)
  <1>1. /\ stack = <<>> /\ Sets(k, v, <<>>)
        /\ UNCHANGED <<page, phase, todo, initial, applying>>
    BY DEF Write
  <1>2. Made' = Made /\ Turn' = Turn
    BY <1>1, PageStays DEF Made, Turn
  <1>3. <<>> \in Seq(CallFrame(Index)) /\ Shape(rank, <<>>, Made, Turn, applying)
    BY <1>1, EmptySeq DEF Climbs
  <1>4. Shape(rank, stack', Made, Turn, applying)
    BY <1>1, <1>3, SetsClimbs
  <1> QED
    BY <1>1, <1>2, <1>4 DEF ClimbsOn

LEMMA RunNextClimbs ==
    ASSUME ReactivityInv, NEW rank, Climbs(rank), RunNext PROVE ClimbsOn(rank)
  <1> DEFINE c == Head(Top.queue)
             frame == [Top EXCEPT !.queue = Tail(@)]
             n == Len(stack)
  <1>1. /\ stack # <<>> /\ Top.call = "notify" /\ Top.queue # <<>> /\ RunsNext(c)
        /\ UNCHANGED <<page, phase, todo, initial>>
    BY DEF RunNext, Running
  <1>2. Made' = Made /\ Turn' = Turn
    BY <1>1, PageStays DEF Made, Turn
  <1>3. /\ Joins(rank, Below, Top, Made, Turn)
        /\ \A f \in CallFrame(Index) :
                 /\ f.call = Top.call /\ f.b = Top.b /\ f.safe = Top.safe
                 /\ Joins(rank, Below, f, Made, Turn)
                 => Shape(rank, OnTop(f), Made, Turn, applying)
    BY <1>1, TopClimbs DEF Climbs
  <1>4. Top \in CallFrame(Index) /\ Top.queue \in Seq(Index)
    BY <1>1, TopFits DEF CallFrame
  <1>5. /\ c \in Index /\ Tail(Top.queue) \in Seq(Index)
        /\ Len(Top.queue) \in Nat \ {0} /\ Len(Tail(Top.queue)) = Len(Top.queue) - 1
        /\ c = Top.queue[1]
        /\ \A i \in 1..Len(Tail(Top.queue)) : Tail(Top.queue)[i] = Top.queue[i + 1]
    BY <1>1, <1>4, HeadTailProperties, EmptySeq
  <1>6. frame \in CallFrame(Index) /\ frame.call = "notify" /\ frame.b = Top.b
        /\ frame.safe = Top.safe /\ frame.queue = Tail(Top.queue)
    BY <1>1, <1>4, <1>5 DEF CallFrame
  <1> HIDE DEF frame
  <1>7. InQueue(c, Top) /\ \A d : InQueue(d, frame) => InQueue(d, Top)
    <2>1. 1 \in 1..Len(Top.queue) /\ \A i \in 1..Len(Top.queue) - 1 : i + 1 \in 1..Len(Top.queue)
      BY <1>5
    <2> QED
      BY <1>5, <1>6, <2>1 DEF InQueue
  <1> HIDE DEF c
  <1>8. Joins(rank, Below, frame, Made, Turn)
    BY <1>1, <1>3, <1>6, <1>7, JoinsOn
  <1>9. Shape(rank, OnTop(frame), Made, Turn, applying)
    BY <1>1, <1>3, <1>6, <1>8
  <1>10. CASE c \in applying
    <2>1. stack' = OnTop(frame) /\ applying' = applying
      BY <1>1, <1>10 DEF RunsNext, frame
    <2> QED
      BY <1>2, <1>9, <2>1 DEF ClimbsOn
  <1>11. CASE c \notin applying
    <2> DEFINE call == Apply(c, TRUE)
               s == OnTop(frame)
    <2>1. stack' = Append(s, call) /\ applying' = applying \cup {c}
      BY <1>1, <1>11 DEF RunsNext, frame
    <2>2. call \in CallFrame(Index)
      BY <1>5, FramesFit DEF Sits
    <2>3. call.call = "apply" /\ call.b = c /\ call.safe /\ call.result = NoResult
      BY DEF Apply
    <2>4. /\ Below \in Seq(CallFrame(Index)) /\ s \in Seq(CallFrame(Index))
          /\ Len(Below) \in Nat /\ Len(s) = Len(Below) + 1 /\ s[Len(Below) + 1] = frame
          /\ s # <<>> /\ \A i \in 1..Len(Below) : s[i] = Below[i]
      <3>1. Below \in Seq(CallFrame(Index))
        BY <1>1, StackIs, SequenceShrinks DEF Below
      <3> QED
        BY <3>1, <1>6, SequenceGrows DEF OnTop
    <2> HIDE DEF call, s
    <2>5. Own(call, Made) /\ Seated(s[Len(s)], call, Made)
      BY <1>6, <2>3, <2>4 DEF Own, Seated, NoResult
    <2>6. ASSUME NEW i \in 1..Len(s) PROVE Over(rank, s[i], call)
      <3>1. SafeApply(s[i]) => s[i].b # c
        BY <1>9, <1>11 DEF Shape, s
      <3>2. CASE i \in 1..Len(Below)
        <4>1. Over(rank, s[i], Top) /\ c \in Index
          BY <1>3, <1>5, <2>4, <3>2 DEF Joins
        <4> QED
          BY <1>1, <1>7, <2>3, <3>1, <4>1 DEF Over
      <3>3. CASE i \notin 1..Len(Below)
        <4>1. s[i] = frame
          BY <2>4, <3>3
        <4> QED
          BY <1>6, <4>1 DEF Over, SafeApply
      <3> QED
        BY <3>2, <3>3
    <2>7. Joins(rank, s, call, Made, Turn)
      BY <2>4, <2>5, <2>6 DEF Joins
    <2>8. SafeApply(call)
      BY <2>3 DEF SafeApply
    <2>9. Shape(rank, s, Made, Turn, applying)
      BY <1>9 DEF s
    <2>10. Shape(rank, Append(s, call), Made, Turn, applying \cup {c})
      BY <2>2, <2>3, <2>4, <2>7, <2>8, <2>9, PushClimbs
    <2> QED
      BY <1>2, <2>1, <2>10 DEF ClimbsOn
  <1> QED
    BY <1>10, <1>11

LEMMA NotifyEndsClimbs ==
    ASSUME ReactivityInv, NEW rank, Climbs(rank), NotifyEnds PROVE ClimbsOn(rank)
  <1> DEFINE frame == [Top EXCEPT !.queue = registry[ALL], !.all = FALSE]
  <1>1. /\ stack # <<>> /\ Top.call = "notify"
        /\ stack' = IF Top.all THEN OnTop(frame) ELSE Below
        /\ UNCHANGED <<page, phase, todo, initial, applying>>
    BY DEF NotifyEnds, Running
  <1>2. Made' = Made /\ Turn' = Turn
    BY <1>1, PageStays DEF Made, Turn
  <1>3. /\ Shape(rank, Below, Made, Turn, IF SafeApply(Top) THEN applying \ {Top.b} ELSE applying)
        /\ Joins(rank, Below, Top, Made, Turn)
        /\ \A f \in CallFrame(Index) :
                 /\ f.call = Top.call /\ f.b = Top.b /\ f.safe = Top.safe
                 /\ Joins(rank, Below, f, Made, Turn)
                 => Shape(rank, OnTop(f), Made, Turn, applying)
    BY <1>1, TopClimbs DEF Climbs
  <1>4. Top \in CallFrame(Index) /\ ALL \in Registered /\ registry[ALL] \in Seq(Index)
    BY <1>1, TopFits, ReactivityInvParts DEF Registered
  <1>5. frame \in CallFrame(Index) /\ frame.call = "notify" /\ frame.b = Top.b
        /\ frame.safe = Top.safe /\ frame.queue = registry[ALL]
    BY <1>1, <1>4 DEF CallFrame
  <1> HIDE DEF frame
  <1>6. \A d \in Index : InQueue(d, frame) => \A b : Above(rank, b, d)
    <2>1. \A d \in Index : InQueue(d, frame) => ALL \in deps[d]
      BY <1>4, <1>5, QueueIs DEF InQueue
    <2> QED
      BY <2>1, RankParts DEF Climbs
  <1>7. Joins(rank, Below, frame, Made, Turn)
    <2>1. Own(frame, Made)
      BY <1>5 DEF Own
    <2>2. \A lo : Seated(lo, Top, Made) => Seated(lo, frame, Made)
      BY <1>1, <1>5 DEF Seated
    <2>3. \A lo : Over(rank, lo, Top) => Over(rank, lo, frame)
      BY <1>1, <1>5, <1>6 DEF Over, SafeApply
    <2> QED
      BY <1>1, <1>3, <1>5, <2>1, <2>2, <2>3 DEF Joins
  <1>8. Shape(rank, OnTop(frame), Made, Turn, applying)
    BY <1>1, <1>3, <1>5, <1>7
  <1>9. Shape(rank, Below, Made, Turn, applying)
    BY <1>1, <1>3 DEF SafeApply
  <1> QED
    BY <1>1, <1>2, <1>8, <1>9 DEF ClimbsOn

\* An execution hands its result to the application below.
LEMMA AnswersClimbs ==
    ASSUME ReactivityInv, NEW rank, NEW made, NEW turn, NEW busy,
           NEW below \in Seq(CallFrame(Index)), below # <<>>,
           NEW result \in Results, result.made,
           below[Len(below)].call = "apply", below[Len(below)].b \notin made,
           Shape(rank, below, made, turn, busy), Returns(below, result)
    PROVE  /\ Shape(rank, stack', made, turn, busy)
           /\ UNCHANGED <<initial, todo>>
           /\ Len(stack') = Len(below) /\ stack'[Len(below)] = [below[Len(below)] EXCEPT !.result = result]
           /\ \A i \in 1..Len(below) - 1 : stack'[i] = below[i]
  <1> DEFINE n == Len(below)
             lower == SubSeq(below, 1, n - 1)
             frame == [below[n] EXCEPT !.result = result]
             s == Append(lower, frame)
  <1>1. stack' = [below EXCEPT ![n].result = result] /\ UNCHANGED <<initial, todo>>
    BY DEF Returns
  <1>2. /\ n \in Nat \ {0} /\ lower \in Seq(CallFrame(Index)) /\ Len(lower) = n - 1
        /\ below[n] \in CallFrame(Index) /\ \A i \in 1..n - 1 : lower[i] = below[i]
    BY SequenceShrinks
  <1>3. /\ frame \in CallFrame(Index) /\ frame.call = below[n].call /\ frame.b = below[n].b
        /\ frame.safe = below[n].safe /\ frame.result = result
    BY <1>2 DEF CallFrame
  <1>4. [below EXCEPT ![n].result = result] = [below EXCEPT ![n] = frame]
    OBVIOUS
  <1> HIDE DEF lower, frame
  <1>5. /\ s \in Seq(CallFrame(Index)) /\ Len(lower) \in Nat /\ Len(s) = Len(lower) + 1
        /\ s[Len(lower) + 1] = frame /\ \A i \in 1..Len(lower) : s[i] = lower[i]
    BY <1>2, <1>3, SequenceGrows
  <1> HIDE DEF s
  <1>6. s = [below EXCEPT ![n] = frame]
    <2> DEFINE t == [below EXCEPT ![n] = frame]
    <2>1. /\ t \in Seq(CallFrame(Index)) /\ Len(t) = n
          /\ \A i \in 1..n : t[i] = IF i = n THEN frame ELSE below[i]
      <3>1. n \in 1..n
        BY <1>2
      <3> QED
        BY <1>3, <3>1, ExceptSeq
    <2> HIDE DEF t
    <2>2. Len(s) = n /\ \A i \in 1..n : s[i] = t[i]
      <3>1. \A m \in Nat \ {0} : (m - 1) + 1 = m /\ \A i \in 1..m : i = m \/ i \in 1..m - 1
        OBVIOUS
      <3>2. Len(s) = n /\ s[n] = frame /\ \A i \in 1..n - 1 : s[i] = below[i]
        BY <1>2, <1>5, <3>1
      <3> QED
        BY <1>2, <2>1, <3>1, <3>2
    <2>3. s = t
      BY <1>5, <2>1, <2>2, SeqEqual
    <2> QED
      BY <2>3 DEF t
  <1>7. Joins(rank, lower, below[n], made, turn)
    BY PopClimbs DEF lower
  <1>8. Own(frame, made)
    BY <1>3 DEF Own
  <1>9. Joins(rank, lower, frame, made, turn)
    BY <1>3, <1>7, <1>8, JoinsOn
  <1>10. SafeApply(frame) <=> SafeApply(below[n])
    BY <1>3 DEF SafeApply
  <1>11. Shape(rank, s, made, turn, busy)
    BY <1>3, <1>9, <1>10, GoesOnClimbs DEF s, lower
  <1>12. Len(s) = n /\ s[n] = frame /\ \A i \in 1..n - 1 : s[i] = below[i]
    BY <1>2, <1>5
  <1> QED
    BY <1>1, <1>4, <1>6, <1>11, <1>12 DEF frame

LEMMA ExecuteEndsClimbs ==
    ASSUME ReactivityInv, NEW rank, Climbs(rank), ExecuteEnds PROVE ClimbsOn(rank)
  <1>1. /\ stack # <<>> /\ Top.call = "execute" /\ Returns(Below, Result(TRUE, 0))
        /\ UNCHANGED <<page, phase, applying>>
    BY DEF ExecuteEnds, Running
  <1>2. /\ Shape(rank, Below, Made, Turn, applying) /\ Joins(rank, Below, Top, Made, Turn)
    BY <1>1, TopClimbs DEF Climbs, SafeApply
  <1>3. CASE Below = <<>>
    <2>1. stack' = <<>>
      BY <1>1, <1>3 DEF Returns
    <2>2. Shape(rank, <<>>, Made', Turn', applying)
      BY <1>2, <1>3, ClimbsAnew
    <2> QED
      BY <1>1, <2>1, <2>2 DEF ClimbsOn
  <1>4. CASE Below # <<>>
    <2>1. Below[Len(Below)].call = "apply" /\ Below[Len(Below)].b \notin Made
      BY <1>1, <1>2, <1>4 DEF Joins, Seated
    <2>2. Below \in Seq(CallFrame(Index))
      BY <1>1, StackIs, SequenceShrinks DEF Below
    <2>3. Result(TRUE, 0) \in Results /\ Result(TRUE, 0).made
      BY FramesFit DEF Result
    <2> DEFINE below == Below
               result == Result(TRUE, 0)
    <2>4. below \in Seq(CallFrame(Index)) /\ below # <<>> /\ result \in Results /\ result.made
          /\ below[Len(below)].call = "apply" /\ below[Len(below)].b \notin Made
          /\ Shape(rank, below, Made, Turn, applying) /\ Returns(below, result)
      BY <1>1, <1>2, <1>4, <2>1, <2>2, <2>3
    <2> HIDE DEF below, result
    <2>5. Shape(rank, stack', Made, Turn, applying) /\ UNCHANGED <<initial, todo>>
      BY <2>4, AnswersClimbs
    <2>6. Made' = Made /\ Turn' = Turn
      BY <1>1, <2>5, PageStays DEF Made, Turn
    <2> QED
      BY <1>1, <2>5, <2>6 DEF ClimbsOn
  <1> QED
    BY <1>3, <1>4

\* An effect's assignment
LEMMA AssignsClimbs ==
    ASSUME ReactivityInv, NEW rank, Climbs(rank), NEW b \in Index, ExecuteAssigns(b),
           IF stack = <<>> THEN b = Turn
           ELSE Top.call = "apply" /\ Top.b = b /\ ~Top.result.made /\ b \notin Made
    PROVE  Shape(rank, stack', Made, Turn, applying)
  <1> DEFINE call == Execute(b, Snapshot(b))
             below == Append(stack, call)
             k == Def(b).target
             n == Len(stack)
  <1>1. Sets(k, Value(b), below) /\ Def(b).kind = "effect" /\ k \in Keys
    BY BindingParts DEF ExecuteAssigns
  <1>2. call.call = "execute" /\ call.b = b
    BY DEF Execute
  <1>3. call \in CallFrame(Index)
    <2>1. Snapshot(b) \in Snapshots /\ NoResult \in Results /\ <<>> \in Seq(Index)
      BY ExpressionFits, FramesFit, EmptySeq
    <2> QED
      BY <2>1 DEF Execute, CallFrame
  <1> HIDE DEF call
  <1>4. stack \in Seq(CallFrame(Index))
    BY StackIs
  <1>5. Own(call, Made)
    BY <1>1, <1>2 DEF Own
  <1>6. stack # <<>> => Seated(stack[n], call, Made)
    BY <1>2 DEF Seated, Top
  <1>7. ASSUME NEW i \in 1..n PROVE Over(rank, stack[i], call)
    <2>1. stack # <<>> /\ n \in Nat \ {0} /\ n \in 1..n
      BY <1>4, EmptySeq
    <2>2. stack[n].call = "apply" /\ stack[n].b = b
      BY <2>1 DEF Top
    <2>3. CASE i = n
      BY <1>2, <2>2, <2>3 DEF Over, SafeApply
    <2>4. CASE i # n
      <3>1. i < n
        BY <2>1, <2>4
      <3>2. Over(rank, stack[i], stack[n])
        BY <2>1, <3>1 DEF Climbs, Shape
      <3> QED
        BY <1>2, <2>2, <3>2 DEF Over, SafeApply
    <2> QED
      BY <2>3, <2>4
  <1>8. Joins(rank, stack, call, Made, Turn)
    BY <1>2, <1>5, <1>6, <1>7 DEF Joins
  <1>9. Shape(rank, stack, Made, Turn, applying) /\ ~SafeApply(call)
    BY <1>2 DEF SafeApply, Climbs
  <1>10. Shape(rank, below, Made, Turn, applying)
    BY <1>3, <1>4, <1>8, <1>9, PushClimbs
  <1>11. /\ below \in Seq(CallFrame(Index)) /\ below # <<>> /\ below[Len(below)] = call
    <2>1. /\ below \in Seq(CallFrame(Index)) /\ below # <<>> /\ Len(below) = n + 1 /\ below[n + 1] = call
      BY <1>3, <1>4, SequenceGrows
    <2> QED
      BY <2>1
  <1> HIDE DEF below, k
  <1>12. Computes(below, k)
    BY <1>1, <1>2, <1>11, BindingParts DEF Computes, k
  <1> QED
    BY <1>1, <1>10, <1>11, <1>12, SetsClimbs

LEMMA ApplyExecutesClimbs ==
    ASSUME ReactivityInv, NEW rank, Climbs(rank), ApplyExecutes PROVE ClimbsOn(rank)
  <1> DEFINE b == Top.b
  <1>1. /\ stack # <<>> /\ Top.call = "apply" /\ ~Top.result.made
        /\ UNCHANGED <<page, phase, applying>>
    BY DEF ApplyExecutes, Running
  <1>2. Top \in CallFrame(Index) /\ b \in Index
    BY <1>1, TopFits DEF Sits
  <1>3. CASE initial[b].made
    <2> DEFINE frame == [Top EXCEPT !.result = initial[b]]
    <2>1. /\ stack' = OnTop(frame)
          /\ initial' = [initial EXCEPT ![b] = NoResult]
          /\ UNCHANGED todo
      BY <1>3 DEF ApplyExecutes
    <2>2. initial \in [Index -> Results] /\ initial[b] \in Results
      BY <1>2, ReactivityInvParts
    <2>3. Made' = Made \ {b} /\ Turn' = Turn
      <3>1. Index' = Index
        BY <1>1, PageStays
      <3>2. ~initial'[b].made /\ \A c \in Index : c # b => initial'[c] = initial[c]
        BY <1>2, <2>1, <2>2 DEF NoResult
      <3> QED
        BY <1>1, <2>1, <3>1, <3>2 DEF Made, Turn
    <2>4. /\ frame \in CallFrame(Index) /\ frame.call = "apply" /\ frame.b = b
          /\ frame.safe = Top.safe /\ frame.result = initial[b]
      BY <1>1, <1>2, <2>2 DEF CallFrame
    <2> HIDE DEF frame
    <2>5. Shape(rank, stack, Made', Turn, applying)
      <3>1. Made \ {b} \in SUBSET Made /\ Shape(rank, stack, Made, Turn, applying)
        BY DEF Climbs
      <3>2. Shape(rank, stack, Made \ {b}, Turn, applying)
        BY <3>1, ForgetsClimbs
      <3> QED
        BY <2>3, <3>2
    <2> DEFINE rest == Made'
    <2>6. /\ Joins(rank, Below, Top, rest, Turn)
          /\ \A f \in CallFrame(Index) :
                 /\ f.call = Top.call /\ f.b = Top.b /\ f.safe = Top.safe
                 /\ Joins(rank, Below, f, rest, Turn)
                 => Shape(rank, OnTop(f), rest, Turn, applying)
      BY <1>1, <2>5, TopClimbs
    <2>7. Own(frame, rest)
      BY <1>3, <2>3, <2>4 DEF Own
    <2> HIDE DEF rest
    <2>8. Joins(rank, Below, frame, rest, Turn)
      BY <1>1, <2>4, <2>6, <2>7, JoinsOn
    <2>9. Shape(rank, OnTop(frame), rest, Turn, applying)
      BY <1>1, <2>4, <2>6, <2>8
    <2> QED
      BY <1>1, <2>1, <2>3, <2>9 DEF ClimbsOn, rest
  <1>4. CASE ~initial[b].made
    <2>1. ExecuteBinding(b)
      BY <1>4 DEF ApplyExecutes
    <2>2. b \notin Made
      BY <1>4 DEF Made
    <2>3. stack[Len(stack)] = Top
      BY DEF Top
    <2> HIDE DEF b
    <2>4. CASE ExecuteThrows(b) \/ ExecuteReads(b)
      <3>1. PICK result \in Results : result.made /\ Returns(stack, result)
        <4>1. Result(FALSE, 0) \in Results /\ Result(TRUE, Value(b)) \in Results
          BY <1>2, ExpressionFits, FramesFit
        <4> QED
          BY <2>4, <4>1 DEF ExecuteThrows, ExecuteReads, Result
      <3>2. stack \in Seq(CallFrame(Index)) /\ Shape(rank, stack, Made, Turn, applying)
            /\ stack[Len(stack)].call = "apply" /\ stack[Len(stack)].b \notin Made
        BY <1>1, <2>2, <2>3, StackIs DEF Climbs, b
      <3>3. Shape(rank, stack', Made, Turn, applying) /\ UNCHANGED <<initial, todo>>
        <4> DEFINE below == stack
        <4>1. below \in Seq(CallFrame(Index)) /\ Shape(rank, below, Made, Turn, applying)
              /\ below # <<>> /\ Returns(below, result)
              /\ below[Len(below)].call = "apply" /\ below[Len(below)].b \notin Made
          BY <1>1, <3>1, <3>2
        <4> HIDE DEF below
        <4> QED
          BY <3>1, <4>1, AnswersClimbs
      <3>4. Made' = Made /\ Turn' = Turn
        BY <1>1, <3>3, PageStays DEF Made, Turn
      <3> QED
        BY <1>1, <3>3, <3>4 DEF ClimbsOn
    <2>5. CASE ExecuteAssigns(b)
      <3>1. Shape(rank, stack', Made, Turn, applying)
        BY <1>1, <1>2, <2>2, <2>5, AssignsClimbs DEF b
      <3>2. UNCHANGED <<initial, todo>>
        BY <2>5 DEF ExecuteAssigns
      <3>3. Made' = Made /\ Turn' = Turn
        BY <1>1, <3>2, PageStays DEF Made, Turn
      <3> QED
        BY <1>1, <3>1, <3>3 DEF ClimbsOn
    <2> QED
      BY <2>1, <2>4, <2>5 DEF ExecuteBinding
  <1> QED
    BY <1>3, <1>4

LEMMA ApplyStoresClimbs ==
    ASSUME ReactivityInv, NEW rank, Climbs(rank), ApplyStores PROVE ClimbsOn(rank)
  <1> DEFINE frame == Spent(Top)
             below == OnTop(frame)
             b == Top.b
             k == Def(b).target
  <1>1. /\ stack # <<>> /\ Top.call = "apply" /\ Top.result.ok /\ Def(b).kind = "calc"
        /\ Sets(k, Top.result.value, below)
        /\ UNCHANGED <<page, phase, todo, initial, applying>>
    BY DEF ApplyStores, Running
  <1>2. Made' = Made /\ Turn' = Turn
    BY <1>1, PageStays DEF Made, Turn
  <1>3. Top \in CallFrame(Index) /\ b \in Index
    BY <1>1, TopFits DEF Sits
  <1>4. /\ frame \in CallFrame(Index) /\ frame.call = "apply" /\ frame.b = b
        /\ frame.safe = Top.safe /\ frame.result = Result(FALSE, 0)
    BY <1>1, <1>3, FramesFit DEF CallFrame, Spent
  <1> HIDE DEF frame
  <1>5. /\ Joins(rank, Below, Top, Made, Turn)
        /\ \A f \in CallFrame(Index) :
                 /\ f.call = Top.call /\ f.b = Top.b /\ f.safe = Top.safe
                 /\ Joins(rank, Below, f, Made, Turn)
                 => Shape(rank, OnTop(f), Made, Turn, applying)
    BY <1>1, TopClimbs DEF Climbs
  <1>6. b \notin Made
    BY <1>1, <1>5 DEF Joins, Own
  <1>7. Own(frame, Made)
    BY <1>4, <1>6 DEF Own, Result
  <1>8. Joins(rank, Below, frame, Made, Turn)
    BY <1>1, <1>4, <1>5, <1>7, JoinsOn
  <1>9. Shape(rank, below, Made, Turn, applying)
    BY <1>1, <1>4, <1>5, <1>8
  <1>10. below \in Seq(CallFrame(Index)) /\ below # <<>> /\ below[Len(below)] = frame
    <2>1. Below \in Seq(CallFrame(Index))
      BY <1>1, StackIs, SequenceShrinks DEF Below
    <2>2. below \in Seq(CallFrame(Index)) /\ below # <<>> /\ Len(below) = Len(Below) + 1
          /\ below[Len(Below) + 1] = frame
      BY <1>4, <2>1, SequenceGrows DEF OnTop
    <2> QED
      BY <2>2
  <1>11. k \in Keys /\ b \in Writers
    BY <1>1, <1>3, BindingParts
  <1> HIDE DEF below
  <1>12. Computes(below, k)
    BY <1>1, <1>4, <1>6, <1>10, <1>11 DEF Computes
  <1> HIDE DEF k, b
  <1>13. Shape(rank, stack', Made, Turn, applying)
    BY <1>1, <1>9, <1>10, <1>11, <1>12, SetsClimbs
  <1> QED
    BY <1>1, <1>2, <1>13 DEF ClimbsOn

LEMMA ApplyEndsClimbs ==
    ASSUME ReactivityInv, NEW rank, Climbs(rank), ApplyEnds PROVE ClimbsOn(rank)
  <1>1. /\ stack # <<>> /\ Top.call = "apply" /\ stack' = Below /\ Leaves(Top)
        /\ UNCHANGED <<page, phase, todo, initial>>
    BY DEF ApplyEnds, Running
  <1>2. Made' = Made /\ Turn' = Turn
    BY <1>1, PageStays DEF Made, Turn
  <1>3. Shape(rank, Below, Made, Turn, IF SafeApply(Top) THEN applying \ {Top.b} ELSE applying)
    BY <1>1, TopClimbs DEF Climbs
  <1>4. applying' = IF SafeApply(Top) THEN applying \ {Top.b} ELSE applying
    BY <1>1 DEF Leaves, SafeApply
  <1> QED
    BY <1>1, <1>2, <1>3, <1>4 DEF ClimbsOn

LEMMA MountClimbs ==
    ASSUME ReactivityInv, NEW rank, Climbs(rank),
           MountExecutes \/ MountExecuted \/ MountRestored \/ MountApplies \/ Mounted
    PROVE  ClimbsOn(rank)
  <1>1. stack = <<>> /\ UNCHANGED <<page, applying>>
    BY DEF MountExecutes, MountExecuted, MountRestored, MountApplies, Mounted
  <1>2. \A made, turn : Shape(rank, <<>>, made, turn, applying)
    BY <1>1, ClimbsAnew DEF Climbs
  <1>3. CASE MountExecuted \/ MountRestored \/ Mounted
    <2>1. stack' = <<>>
      BY <1>1, <1>3 DEF MountExecuted, MountRestored, Mounted
    <2> QED
      BY <1>1, <1>2, <2>1 DEF ClimbsOn
  <1>4. CASE MountApplies
    <2> DEFINE b == Head(todo)
               call == Apply(b, FALSE)
    <2>1. stack' = Append(<<>>, call) /\ b \in Index
      <3>1. todo # <<>> /\ stack' = <<call>>
        BY <1>4 DEF MountApplies
      <3>2. b \in Index
        BY <3>1, ReactivityInvParts, HeadTailProperties
      <3> QED
        BY <3>1, <3>2
    <2>2. call \in CallFrame(Index)
      BY <2>1, FramesFit DEF Sits
    <2>3. call.call = "apply" /\ ~call.safe /\ call.result = NoResult
      BY DEF Apply
    <2> HIDE DEF call
    <2> DEFINE m == Made'
               t == Turn'
    <2> HIDE DEF m, t
    <2>4. Joins(rank, <<>>, call, m, t)
      <3>1. Own(call, m)
        BY <2>3 DEF Own, NoResult
      <3>2. Len(<<>>) = 0 /\ 1..0 = {}
        OBVIOUS
      <3> QED
        BY <2>3, <3>1, <3>2 DEF Joins
    <2>5. <<>> \in Seq(CallFrame(Index)) /\ ~SafeApply(call)
      BY <2>3, EmptySeq DEF SafeApply
    <2>6. Shape(rank, Append(<<>>, call), m, t, applying)
      BY <1>2, <2>2, <2>4, <2>5, PushClimbs
    <2> QED
      BY <1>1, <2>1, <2>6 DEF ClimbsOn, m, t
  <1>5. CASE MountExecutes
    <2> DEFINE b == Head(todo)
    <2>1. /\ phase = "execute" /\ todo # <<>> /\ ExecuteBinding(b) /\ UNCHANGED phase
      BY <1>5 DEF MountExecutes
    <2>2. b \in Index /\ b = Turn
      BY <2>1, ReactivityInvParts, HeadTailProperties DEF Turn
    <2> HIDE DEF b
    <2>3. CASE ExecuteThrows(b) \/ ExecuteReads(b)
      <3>1. stack' = <<>>
        BY <1>1, <2>3 DEF ExecuteThrows, ExecuteReads, Returns
      <3> QED
        BY <1>1, <1>2, <3>1 DEF ClimbsOn
    <2>4. CASE ExecuteAssigns(b)
      <3>1. Shape(rank, stack', Made, Turn, applying)
        BY <1>1, <2>2, <2>4, AssignsClimbs
      <3>2. UNCHANGED <<initial, todo>>
        BY <2>4 DEF ExecuteAssigns
      <3>3. Made' = Made /\ Turn' = Turn
        BY <1>1, <2>1, <3>2, PageStays DEF Made, Turn
      <3> QED
        BY <1>1, <3>1, <3>3 DEF ClimbsOn
    <2> QED
      BY <2>1, <2>3, <2>4 DEF ExecuteBinding
  <1> QED
    BY <1>3, <1>4, <1>5

----------------------------------------------------------------------------
(* Every binding is owed its run                                            *)

\* It is registered under what it reads, so that no change of it goes unnoticed.
Covered(b) == ~Throws(b) /\ (KeysRead(b) \subseteq deps[b] \/ ALL \in deps[b])

\* A result that may be used for what the binding says now
Right(b, result) ==
    /\ Covered(b)
    /\ IF Def(b).kind = "effect" THEN state[Def(b).target] = Value(b)
                                 ELSE result.value = Value(b)

Settled(b) ==
    /\ Covered(b)
    /\ IF b \in Writers THEN state[Def(b).target] = Value(b) ELSE painted[b] = Value(b)

AwaitedBy(b, frame) ==
    frame.call = "notify" /\ (InQueue(b, frame) \/ (frame.all /\ ALL \in deps[b]))

Awaited(b) == \E i \in 1..Len(stack) : AwaitedBy(b, stack[i])

Executing(b) == \E i \in 1..Len(stack) : stack[i].call = "execute" /\ stack[i].b = b

Begins(b) == Running("apply") /\ Top.b = b /\ ~Top.result.made

Concludes(b) == Running("apply") /\ Top.b = b /\ Top.result.ok /\ Def(b).kind # "effect"

\* The mount has yet to apply it.
Later(b) ==
    \/ phase \in {"execute", "restore"}
    \/ phase = "apply" /\ \E i \in 1..Len(todo) : todo[i] = b

\* A result of the mount that is still kept is right, or superseded before it is used.
KeptRight(b) ==
    initial[b].made =>
        IF initial[b].ok THEN Right(b, initial[b]) \/ Awaited(b) \/ Begins(b) ELSE b \in threw

\* The mount's application uses it, in a call of its own.
UsedAtOnce(b) ==
    ~Later(b) /\ initial[b].made =>
        Len(stack) = 1 /\ Begins(b) /\ (initial[b].ok => Right(b, initial[b]))

Owed(b) ==
    ~Later(b) =>
        \/ b \in threw \/ Settled(b) \/ Awaited(b)
        \/ Begins(b) \/ Concludes(b) \/ Executing(b)

Served(b) == KeptRight(b) /\ UsedAtOnce(b) /\ Owed(b)

\* What an effect in progress has read and assigned still holds.
ExecutionHolds(frame) ==
    frame.call = "execute" =>
        /\ ~Throws(frame.b) /\ state[Def(frame.b).target] = Value(frame.b)
        /\ frame.read = Snapshot(frame.b)

ExecutionsHold == \A i \in 1..Len(stack) : ExecutionHolds(stack[i])

TopRight == Running("apply") /\ Top.result.ok /\ ~Later(Top.b) => Right(Top.b, Top.result)

ConsistentFor(rank) ==
    /\ Climbs(rank) /\ ExecutionsHold /\ TopRight
    /\ \A b \in Index : Served(b)

\* What a step has to show besides ClimbsOn
ServesOn == DepsFit' /\ ExecutionsHold' /\ TopRight' /\ \A b \in Index : Served(b)'

\* The step changes nothing of what b computes from
ReadsSame(b) == \A k \in KeysRead(b) : state'[k] = state[k]

\* nor what it computed.
ReadsStay(b) == ReadsSame(b) /\ (b \in Writers => state'[Def(b).target] = state[Def(b).target])

LEMMA ValuesStay ==
    ASSUME ReactivityInv, UNCHANGED page, NEW b \in Index, ReadsSame(b)
    PROVE  /\ KeysRead(b)' = KeysRead(b) /\ (Throws(b)' <=> Throws(b))
           /\ Value(b)' = Value(b) /\ Snapshot(b)' = Snapshot(b)
  <1>1. Def(b)' = Def(b)
    BY PageStays
  <1>2. Def(b).test \in KeysRead(b)
        /\ (IF state[Def(b).test] # 0 THEN Def(b).yes ELSE Def(b).no) \in KeysRead(b)
    BY DEF KeysRead
  <1>3. state'[Def(b).test] = state[Def(b).test]
    BY <1>2 DEF ReadsSame
  <1>4. KeysRead(b)' = KeysRead(b)
    BY <1>1, <1>3 DEF KeysRead
  <1>5. Throws(b)' <=> Throws(b)
    BY <1>1, <1>2, <1>3 DEF Throws, ReadsSame
  <1>6. Value(b)' = Value(b)
    BY <1>1, <1>2, <1>3 DEF Value, ReadsSame
  <1>7. Snapshot(b)' = Snapshot(b)
    BY <1>4 DEF Snapshot, ReadsSame
  <1> QED
    BY <1>4, <1>5, <1>6, <1>7

\* A binding the step is not about
Undisturbed(b) ==
    /\ UNCHANGED page
    /\ painted'[b] = painted[b] /\ initial'[b] = initial[b] /\ deps'[b] = deps[b]
    /\ b \in threw => b \in threw'
    /\ ~Begins(b) /\ ~Concludes(b)
    /\ Later(b) => Later(b)'
    /\ Awaited(b) => Awaited(b)'
    /\ Executing(b) => Executing(b)'
    /\ ReadsStay(b) \/ (Covered(b) => Awaited(b)')

LEMMA UndisturbedServes ==
    ASSUME ReactivityInv, NEW b \in Index, Served(b), Undisturbed(b)
    PROVE  Served(b)'
  <1>1. Def(b)' = Def(b) /\ Writers' = Writers
    BY PageStays DEF Undisturbed
  <1>2. Covered(b) => Covered(b)' \/ Awaited(b)'
    BY ValuesStay DEF Undisturbed, Covered, ReadsStay
  <1>3. Right(b, initial[b]) => Right(b, initial[b])' \/ Awaited(b)'
    <2>1. CASE ReadsStay(b)
      <3>1. Value(b)' = Value(b) /\ (Covered(b)' <=> Covered(b))
        BY <2>1, ValuesStay DEF Undisturbed, Covered, ReadsStay
      <3>2. Def(b).kind = "effect" => b \in Writers
        BY DEF Writers
      <3> QED
        BY <1>1, <2>1, <3>1, <3>2 DEF Right, ReadsStay, Undisturbed
    <2>2. CASE Covered(b) => Awaited(b)'
      BY <2>2 DEF Right
    <2> QED
      BY <2>1, <2>2 DEF Undisturbed
  <1>4. Settled(b) => Settled(b)' \/ Awaited(b)'
    <2>1. CASE ReadsStay(b)
      <3>1. Value(b)' = Value(b) /\ (Covered(b)' <=> Covered(b))
        BY <2>1, ValuesStay DEF Undisturbed, Covered, ReadsStay
      <3> QED
        BY <1>1, <2>1, <3>1 DEF Settled, ReadsStay, Undisturbed
    <2>2. CASE Covered(b) => Awaited(b)'
      BY <2>2 DEF Settled
    <2> QED
      BY <2>1, <2>2 DEF Undisturbed
  <1>5. KeptRight(b)'
    BY <1>3 DEF Served, KeptRight, Undisturbed
  <1>6. UsedAtOnce(b)'
    BY DEF Served, UsedAtOnce, Undisturbed
  <1>7. Owed(b)'
    BY <1>4 DEF Served, Owed, Undisturbed
  <1> QED
    BY <1>5, <1>6, <1>7 DEF Served

\* The calls below the top one stay, whatever result they are handed.
Carries ==
    \A i \in 1..Len(stack) - 1 :
        /\ i \in 1..Len(stack')
        /\ stack'[i].call = stack[i].call /\ stack'[i].b = stack[i].b
        /\ stack'[i].queue = stack[i].queue /\ stack'[i].all = stack[i].all

LEMMA CarriedOn ==
    ASSUME ReactivityInv, NEW b, Carries, deps'[b] = deps[b]
    PROVE  /\ Awaited(b) /\ (stack # <<>> => ~AwaitedBy(b, Top)) => Awaited(b)'
           /\ Executing(b) /\ (stack # <<>> => ~(Top.call = "execute" /\ Top.b = b)) => Executing(b)'
  <1>1. Len(stack) \in Nat /\ (stack = <<>> <=> Len(stack) = 0)
    BY StackIs, EmptySeq, LenProperties
  <1>2. \A i \in 1..Len(stack) : stack # <<>> /\ (i = Len(stack) \/ i \in 1..Len(stack) - 1)
    BY <1>1
  <1>3. \A i \in 1..Len(stack) - 1 : AwaitedBy(b, stack[i]) => i \in 1..Len(stack') /\ (AwaitedBy(b, stack[i]))'
    BY DEF Carries, AwaitedBy, InQueue
  <1>4. Awaited(b) /\ (stack # <<>> => ~AwaitedBy(b, Top)) => Awaited(b)'
    <2> SUFFICES ASSUME NEW i \in 1..Len(stack), AwaitedBy(b, stack[i]),
                        stack # <<>> => ~AwaitedBy(b, Top)
                 PROVE  Awaited(b)'
      BY DEF Awaited
    <2>1. i \in 1..Len(stack) - 1
      BY <1>2 DEF Top
    <2> QED
      BY <1>3, <2>1 DEF Awaited
  <1>5. Executing(b) /\ (stack # <<>> => ~(Top.call = "execute" /\ Top.b = b)) => Executing(b)'
    BY <1>2 DEF Executing, Carries, Top
  <1> QED
    BY <1>4, <1>5

\* What is on the stack after a step
LEMMA StackParts ==
    ASSUME ReactivityInv
    PROVE  /\ Len(stack) \in Nat /\ (stack = <<>> <=> Len(stack) = 0)
           /\ \A frame \in CallFrame(Index) :
                 LET s == Append(stack, frame)
                 IN /\ s \in Seq(CallFrame(Index)) /\ Len(s) = Len(stack) + 1 /\ s # <<>>
                    /\ s[Len(stack) + 1] = frame /\ \A i \in 1..Len(stack) : s[i] = stack[i]
           /\ stack # <<>> =>
                 /\ Len(stack) \in Nat \ {0} /\ Len(stack) \in 1..Len(stack)
                 /\ Below \in Seq(CallFrame(Index)) /\ Len(Below) = Len(stack) - 1
                 /\ (Below = <<>> <=> Len(stack) = 1)
                 /\ Top \in CallFrame(Index) /\ Top = stack[Len(stack)]
                 /\ \A i \in 1..Len(stack) - 1 : Below[i] = stack[i]
                 /\ \A frame \in CallFrame(Index) :
                       LET s == OnTop(frame)
                       IN /\ s \in Seq(CallFrame(Index)) /\ Len(s) = Len(stack) /\ s # <<>>
                          /\ s[Len(stack)] = frame
                          /\ \A i \in 1..Len(stack) - 1 : s[i] = stack[i]
  <1>1. stack \in Seq(CallFrame(Index))
    BY StackIs
  <1>2. Len(stack) \in Nat /\ (stack = <<>> <=> Len(stack) = 0)
    BY <1>1, EmptySeq, LenProperties
  <1>3. ASSUME NEW frame \in CallFrame(Index)
        PROVE  LET s == Append(stack, frame)
               IN /\ s \in Seq(CallFrame(Index)) /\ Len(s) = Len(stack) + 1 /\ s # <<>>
                  /\ s[Len(stack) + 1] = frame /\ \A i \in 1..Len(stack) : s[i] = stack[i]
    BY <1>1, SequenceGrows
  <1>4. ASSUME stack # <<>>
        PROVE  /\ Len(stack) \in Nat \ {0} /\ Len(stack) \in 1..Len(stack)
               /\ Below \in Seq(CallFrame(Index)) /\ Len(Below) = Len(stack) - 1
               /\ (Below = <<>> <=> Len(stack) = 1)
               /\ Top \in CallFrame(Index) /\ Top = stack[Len(stack)]
               /\ \A i \in 1..Len(stack) - 1 : Below[i] = stack[i]
    <2> DEFINE s == SubSeq(stack, 1, Len(stack) - 1)
    <2>1. /\ s \in Seq(CallFrame(Index)) /\ Len(s) = Len(stack) - 1
          /\ stack[Len(stack)] \in CallFrame(Index)
          /\ \A i \in 1..Len(s) : s[i] = stack[i]
          /\ s = <<>> <=> Len(stack) = 1
      BY <1>1, <1>4, SequenceShrinks
    <2>2. s = Below
      BY DEF Below
    <2>3. Len(stack) \in Nat \ {0} /\ Len(stack) \in 1..Len(stack)
      BY <1>2, <1>4
    <2> HIDE DEF s
    <2> QED
      BY <2>1, <2>2, <2>3 DEF Top
  <1>5. ASSUME stack # <<>>, NEW frame \in CallFrame(Index)
        PROVE  LET s == OnTop(frame)
               IN /\ s \in Seq(CallFrame(Index)) /\ Len(s) = Len(stack) /\ s # <<>>
                  /\ s[Len(stack)] = frame
                  /\ \A i \in 1..Len(stack) - 1 : s[i] = stack[i]
    <2> DEFINE s == OnTop(frame)
    <2>1. Below \in Seq(CallFrame(Index)) /\ Len(Below) = Len(stack) - 1
          /\ \A i \in 1..Len(stack) - 1 : Below[i] = stack[i]
      BY <1>4, <1>5
    <2>2. /\ s \in Seq(CallFrame(Index)) /\ s # <<>> /\ Len(s) = Len(Below) + 1
          /\ s[Len(Below) + 1] = frame /\ \A i \in 1..Len(Below) : s[i] = Below[i]
      BY <2>1, SequenceGrows DEF OnTop
    <2> HIDE DEF s
    <2>3. Len(Below) + 1 = Len(stack)
      BY <1>2, <2>1
    <2> QED
      BY <2>1, <2>2, <2>3 DEF s
  <1> QED
    BY <1>2, <1>3, <1>4, <1>5

LEMMA DepsStay == ASSUME DepsFit, UNCHANGED <<page, deps>> PROVE DepsFit'
  BY PageStays DEF DepsFit

\* An execution registers the binding under what it reads.
LEMMA ExecutionCovers ==
    ASSUME ReactivityInv, DepsFit, NEW b \in Index, ~Throws(b),
           Registers(b, Tracked(b, Snapshot(b))), UNCHANGED <<page, state>>
    PROVE  /\ DepsFit' /\ Covered(b)'
           /\ \A c \in Index : c # b => deps'[c] = deps[c] /\ (c \in threw => c \in threw')
           /\ KeysRead(b)' = KeysRead(b) /\ Value(b)' = Value(b)
  <1>1. deps' = [deps EXCEPT ![b] = Tracked(b, Snapshot(b))] /\ threw' = threw \ {b}
    BY DEF Registers
  <1>2. deps \in [Index -> SUBSET Registered]
    BY ReactivityInvParts
  <1>3. deps'[b] = Tracked(b, Snapshot(b)) /\ \A c \in Index : c # b => deps'[c] = deps[c]
    BY <1>1, <1>2
  <1>4. Tracked(b, Snapshot(b)) = IF b \in Alls THEN {ALL} ELSE KeysRead(b) \cup Def(b).keys
    BY BindingParts DEF Tracked, Snapshot
  <1>5. b \notin Alls => Def(b).keys \subseteq Feeds(b)
    BY BindingParts DEF Feeds
  <1>6. Index' = Index /\ Alls' = Alls /\ \A c : Feeds(c)' = Feeds(c)
    BY PageStays
  <1>7. DepsFit'
    BY <1>3, <1>4, <1>5, <1>6, BindingParts DEF DepsFit
  <1>8. ReadsSame(b)
    BY DEF ReadsSame
  <1>9. KeysRead(b)' = KeysRead(b) /\ Value(b)' = Value(b) /\ ~Throws(b)'
    BY <1>8, ValuesStay
  <1>10. Covered(b)'
    BY <1>3, <1>4, <1>9 DEF Covered
  <1> QED
    BY <1>1, <1>3, <1>7, <1>9, <1>10

LEMMA HoldsOn ==
    ASSUME ExecutionsHold, UNCHANGED <<page, state>>,
           \A i \in 1..Len(stack') : stack'[i].call = "execute" =>
               \E j \in 1..Len(stack) : stack[j] = stack'[i]
    PROVE  ExecutionsHold'
  <1>1. \A b : /\ Def(b)' = Def(b) /\ KeysRead(b)' = KeysRead(b) /\ Value(b)' = Value(b)
               /\ (Throws(b)' <=> Throws(b))
    BY DEF Def, KeysRead, Value, Throws
  <1>2. \A b : Snapshot(b)' = Snapshot(b)
    BY <1>1 DEF Snapshot
  <1> QED
    BY <1>1, <1>2 DEF ExecutionsHold, ExecutionHolds

\* A write is noticed by whatever is registered under what it reads.
LEMMA SetsOthers ==
    ASSUME ReactivityInv, NEW k \in Keys, NEW v, NEW below \in Seq(CallFrame(Index)),
           Sets(k, v, below), UNCHANGED deps,
           NEW b \in Index, b \in Writers => Def(b).target # k
    PROVE  ReadsStay(b) \/ (Covered(b) => Awaited(b)')
  <1>1. state' = [state EXCEPT ![k] = v] /\ stack' = Append(below, Notify(k))
    BY DEF Sets
  <1>2. CASE k \notin KeysRead(b)
    <2>1. state \in [Keys -> Values] /\ KeysRead(b) \subseteq Keys /\ Def(b).target \in Keys
      BY ReactivityInvParts, BindingParts
    <2>2. ReadsStay(b)
      BY <1>1, <1>2, <2>1 DEF ReadsStay, ReadsSame
    <2> QED
      BY <2>2
  <1>3. CASE k \in KeysRead(b)
    <2> SUFFICES ASSUME Covered(b) PROVE Awaited(b)'
      OBVIOUS
    <2> DEFINE frame == Notify(k)
    <2>1. frame.call = "notify" /\ frame.queue = registry[k] /\ frame.all
      BY DEF Notify
    <2>2. k \in deps[b] \/ ALL \in deps[b]
      BY <1>3 DEF Covered
    <2>3. k \in deps[b] => InQueue(b, frame)
      <3>1. k \in Registered
        BY DEF Registered
      <3> QED
        BY <2>1, <3>1, QueueIs DEF InQueue
    <2>4. frame \in CallFrame(Index)
      BY FramesFit DEF Sits
    <2> HIDE DEF frame
    <2>5. Len(stack') \in 1..Len(stack') /\ stack'[Len(stack')] = frame
      <3>1. /\ Len(below) \in Nat /\ Len(Append(below, frame)) = Len(below) + 1
            /\ Append(below, frame)[Len(below) + 1] = frame
        BY <2>4, SequenceGrows
      <3> QED
        BY <1>1, <3>1 DEF frame
    <2> QED
      BY <2>1, <2>2, <2>3, <2>5 DEF Awaited, AwaitedBy, InQueue
  <1> QED
    BY <1>2, <1>3

LEMMA WriteServes ==
    ASSUME ReactivityInv, NEW rank, ConsistentFor(rank), NEW k \in Keys, NEW v, Write(k, v)
    PROVE  ServesOn
  <1> DEFINE frame == Notify(k)
             below == <<>>
  <1>1. /\ stack = <<>> /\ Sets(k, v, <<>>) /\ k \in page.inputs \cup page.saved
        /\ UNCHANGED <<page, phase, todo, deps, initial, painted, threw>>
    BY DEF Write
  <1>2. k \notin Computed
    BY <1>1 DEF ConsistentFor, Climbs, Ranked
  <1>3. frame \in CallFrame(Index) /\ frame.call = "notify"
    BY FramesFit DEF Sits, Notify
  <1>4. stack' = Append(<<>>, frame)
    BY <1>1 DEF Sets
  <1> HIDE DEF frame
  <1>5. Len(stack') = 1 /\ stack'[1] = frame /\ stack' # <<>>
    BY <1>4
  <1>6. ExecutionsHold'
    BY <1>3, <1>5 DEF ExecutionsHold, ExecutionHolds
  <1>7. TopRight'
    BY <1>3, <1>5 DEF TopRight, Running, Top
  <1>8. DepsFit'
    BY <1>1, DepsStay DEF ConsistentFor, Climbs
  <1>9. ASSUME NEW b \in Index PROVE Served(b)'
    <2>1. b \in Writers => Def(b).target # k
      BY <1>2 DEF Computed
    <2>2. below \in Seq(CallFrame(Index)) /\ Sets(k, v, below) /\ UNCHANGED deps
      BY <1>1, EmptySeq
    <2> HIDE DEF below
    <2>3. ReadsStay(b) \/ (Covered(b) => Awaited(b)')
      BY <2>1, <2>2, SetsOthers
    <2>4. Len(stack) = 0 /\ 1..0 = {}
      BY <1>1
    <2>5. ~Begins(b) /\ ~Concludes(b) /\ ~Awaited(b) /\ ~Executing(b)
      BY <1>1, <2>4 DEF Begins, Concludes, Running, Awaited, Executing
    <2>6. Later(b)' <=> Later(b)
      BY <1>1 DEF Later
    <2>7. Undisturbed(b)
      BY <1>1, <2>3, <2>5, <2>6 DEF Undisturbed
    <2> QED
      BY <2>7, UndisturbedServes DEF ConsistentFor
  <1> QED
    BY <1>6, <1>7, <1>8, <1>9 DEF ServesOn

LEMMA RunNextServes ==
    ASSUME ReactivityInv, NEW rank, ConsistentFor(rank), RunNext PROVE ServesOn
  <1> DEFINE c == Head(Top.queue)
             frame == [Top EXCEPT !.queue = Tail(@)]
             call == Apply(c, TRUE)
             n == Len(stack)
  <1>1. /\ stack # <<>> /\ Top.call = "notify" /\ Top.queue # <<>> /\ RunsNext(c)
        /\ UNCHANGED <<page, phase, todo, state, deps, initial, painted, threw>>
    BY DEF RunNext, Running
  <1>2. Top \in CallFrame(Index) /\ Top.queue \in Seq(Index) /\ Top = stack[n] /\ n \in Nat \ {0}
    BY <1>1, StackParts DEF CallFrame
  <1>3. /\ c \in Index /\ Tail(Top.queue) \in Seq(Index)
        /\ Len(Top.queue) \in Nat \ {0} /\ Len(Tail(Top.queue)) = Len(Top.queue) - 1
        /\ c = Top.queue[1]
        /\ \A i \in 1..Len(Tail(Top.queue)) : Tail(Top.queue)[i] = Top.queue[i + 1]
    BY <1>1, <1>2, HeadTailProperties, EmptySeq
  <1>4. /\ frame \in CallFrame(Index) /\ frame.call = "notify"
        /\ frame.queue = Tail(Top.queue) /\ frame.all = Top.all
    BY <1>1, <1>2, <1>3 DEF CallFrame
  <1>5. call \in CallFrame(Index) /\ call.call = "apply" /\ call.b = c /\ ~call.result.made /\ ~call.result.ok
    BY <1>3, FramesFit DEF Sits, Apply, NoResult
  <1>6. stack' = IF c \in applying THEN OnTop(frame) ELSE Append(OnTop(frame), call)
    BY <1>1 DEF RunsNext
  <1>7. \A b : b # c /\ InQueue(b, Top) => InQueue(b, frame)
    <2> SUFFICES ASSUME NEW i \in 1..Len(Top.queue), Top.queue[i] # c
                 PROVE  InQueue(Top.queue[i], frame)
      BY DEF InQueue
    <2>1. i - 1 \in 1..Len(Tail(Top.queue)) /\ (i - 1) + 1 = i
      BY <1>3
    <2> QED
      BY <1>3, <1>4, <2>1 DEF InQueue
  <1> HIDE DEF c, frame, call
  <1>8. /\ Len(stack') = (IF c \in applying THEN n ELSE n + 1)
        /\ stack'[n] = frame /\ (c \notin applying => stack'[n + 1] = call)
        /\ \A i \in 1..n - 1 : stack'[i] = stack[i]
    <2> DEFINE s == OnTop(frame)
    <2>1. /\ s \in Seq(CallFrame(Index)) /\ Len(s) = n /\ s[n] = frame
          /\ \A i \in 1..n - 1 : s[i] = stack[i]
      BY <1>1, <1>4, StackParts
    <2> HIDE DEF s
    <2>2. /\ Len(Append(s, call)) = n + 1 /\ Append(s, call)[n + 1] = call
          /\ \A i \in 1..n : Append(s, call)[i] = s[i]
      BY <1>5, <2>1, SequenceGrows
    <2>3. n \in 1..n /\ \A i \in 1..n - 1 : i \in 1..n
      BY <1>2
    <2> QED
      BY <1>6, <2>1, <2>2, <2>3 DEF s
  <1>9. \A i \in 1..Len(stack') : i \in 1..n - 1 \/ i = n \/ (i = n + 1 /\ c \notin applying)
    BY <1>2, <1>8
  <1>10. ExecutionsHold'
    <2>1. \A i \in 1..n - 1 : i \in 1..n
      BY <1>2
    <2>2. \A i \in 1..Len(stack') : stack'[i].call = "execute" => \E j \in 1..n : stack[j] = stack'[i]
      BY <1>4, <1>5, <1>8, <1>9, <2>1
    <2> QED
      BY <1>1, <2>2, HoldsOn DEF ConsistentFor
  <1>11. Top' = IF c \in applying THEN frame ELSE call
    BY <1>8 DEF Top
  <1>12. TopRight'
    BY <1>4, <1>5, <1>11 DEF TopRight, Running
  <1>13. DepsFit'
    BY <1>1, DepsStay DEF ConsistentFor, Climbs
  <1>14. n \in 1..Len(stack') /\ Carries
    <2>1. \A i \in 1..n - 1 : i \in 1..Len(stack')
      BY <1>2, <1>8
    <2> QED
      BY <1>2, <1>8, <2>1 DEF Carries
  <1>15. ASSUME NEW b \in Index, b # c PROVE Served(b)'
    <2>1. ~Begins(b) /\ ~Concludes(b)
      BY <1>1 DEF Begins, Concludes, Running
    <2>2. AwaitedBy(b, Top) => Awaited(b)'
      BY <1>1, <1>4, <1>7, <1>8, <1>14, <1>15 DEF AwaitedBy, Awaited, InQueue
    <2>3. (Awaited(b) => Awaited(b)') /\ (Executing(b) => Executing(b)')
      BY <1>1, <1>14, <2>2, CarriedOn
    <2>4. Later(b)' <=> Later(b)
      BY <1>1 DEF Later
    <2>5. ReadsStay(b)
      BY <1>1 DEF ReadsStay, ReadsSame
    <2>6. Undisturbed(b)
      BY <1>1, <2>1, <2>3, <2>4, <2>5 DEF Undisturbed
    <2> QED
      BY <2>6, UndisturbedServes DEF ConsistentFor
  <1>16. ASSUME NEW b \in Index, b = c PROVE Served(b)'
    <2>1. ~(~Later(b) /\ initial[b].made) /\ (Later(b)' <=> Later(b))
      BY <1>1, <1>3 DEF ConsistentFor, Served, UsedAtOnce, Begins, Running, Later
    <2>2. UsedAtOnce(b)'
      BY <1>1, <2>1 DEF UsedAtOnce
    <2>3. CASE c \notin applying
      <3>1. Begins(b)'
        <4>1. stack' # <<>>
          BY <1>2, <1>8, EmptySeq
        <4> QED
          BY <1>5, <1>11, <1>16, <2>3, <4>1 DEF Begins, Running
      <3>2. initial[b].made /\ ~initial[b].ok => b \in threw
        BY <1>3 DEF ConsistentFor, Served, KeptRight
      <3>3. KeptRight(b)' /\ Owed(b)'
        BY <1>1, <3>1, <3>2 DEF KeptRight, Owed
      <3> QED
        BY <2>2, <3>3 DEF Served
    <2>4. CASE c \in applying
      <3>1. PICK i \in 1..n : SafeApply(stack[i]) /\ stack[i].b = b
        BY <1>16, <2>4 DEF ConsistentFor, Climbs, Shape
      <3>2. i # n
        BY <1>1, <1>2, <3>1 DEF SafeApply
      <3>3. i < n /\ n \in 1..n /\ i + 1 \in 1..n /\ i + 1 # 1 /\ (i + 1) - 1 = i
        BY <1>2, <3>2
      <3>4. Over(rank, stack[i], Top) /\ Seated(stack[i], stack[i + 1], Made)
        BY <1>2, <3>3 DEF ConsistentFor, Climbs, Shape
      <3>5. InQueue(b, Top)
        <4>1. 1 \in 1..Len(Top.queue)
          BY <1>3
        <4> QED
          BY <1>3, <1>16, <4>1 DEF InQueue
      <3>6. b \in Writers /\ Above(rank, b, b)
        BY <1>1, <1>3, <3>1, <3>4, <3>5 DEF Over, SafeApply
      <3>7. Def(b).kind = "effect"
        BY <1>3, <3>6, RankParts, BindingParts DEF ConsistentFor, Climbs
      <3>8. b \notin Made /\ stack[i + 1].call = "execute" /\ stack[i + 1].b = b
        <4>1. stack[i + 1].call \in {"notify", "apply", "execute"}
          <5>1. \A S, q : q \in Seq(S) => \A m \in 1..Len(q) : q[m] \in S
            BY ElementOfSeq
          <5>2. stack[i + 1] \in CallFrame(Index)
            BY <3>3, <5>1, StackIs
          <5> QED
            BY <5>2 DEF CallFrame
        <4> QED
          BY <3>1, <3>4, <3>7, <4>1 DEF Seated, SafeApply
      <3>9. Executing(b) /\ (stack # <<>> => ~(Top.call = "execute" /\ Top.b = b))
        BY <1>1, <3>3, <3>8 DEF Executing
      <3>10. Executing(b)'
        BY <1>1, <1>14, <3>9, CarriedOn
      <3>11. ~initial[b].made
        BY <1>3, <3>8 DEF Made
      <3>12. KeptRight(b)' /\ Owed(b)'
        BY <1>1, <3>10, <3>11 DEF KeptRight, Owed
      <3> QED
        BY <2>2, <3>12 DEF Served
    <2> QED
      BY <2>3, <2>4
  <1> QED
    BY <1>10, <1>12, <1>13, <1>15, <1>16 DEF ServesOn

LEMMA NotifyEndsServes ==
    ASSUME ReactivityInv, NEW rank, ConsistentFor(rank), NotifyEnds PROVE ServesOn
  <1> DEFINE frame == [Top EXCEPT !.queue = registry[ALL], !.all = FALSE]
             n == Len(stack)
  <1>1. /\ stack # <<>> /\ Top.call = "notify" /\ Top.queue = <<>>
        /\ stack' = IF Top.all THEN OnTop(frame) ELSE Below
        /\ UNCHANGED <<page, phase, todo, state, deps, initial, painted, threw>>
    BY DEF NotifyEnds, Running
  <1>2. Top \in CallFrame(Index) /\ Top = stack[n] /\ n \in Nat \ {0}
        /\ Top.all \in BOOLEAN /\ ALL \in Registered /\ registry[ALL] \in Seq(Index)
    BY <1>1, StackParts, ReactivityInvParts DEF CallFrame, Registered
  <1>3. /\ frame \in CallFrame(Index) /\ frame.call = "notify" /\ frame.queue = registry[ALL]
    BY <1>1, <1>2 DEF CallFrame
  <1> HIDE DEF frame
  <1>4. /\ Len(stack') = (IF Top.all THEN n ELSE n - 1)
        /\ (Top.all => stack'[n] = frame)
        /\ \A i \in 1..n - 1 : stack'[i] = stack[i]
    BY <1>1, <1>3, StackParts
  <1>5. \A i \in 1..n - 1 : i \in 1..n /\ i \in 1..Len(stack')
    BY <1>2, <1>4
  <1>6. \A i \in 1..Len(stack') : i \in 1..n - 1 \/ (i = n /\ Top.all)
    BY <1>2, <1>4
  <1>7. ExecutionsHold'
    <2>1. \A i \in 1..Len(stack') : stack'[i].call = "execute" => \E j \in 1..n : stack[j] = stack'[i]
      BY <1>3, <1>4, <1>5, <1>6
    <2> QED
      BY <1>1, <2>1, HoldsOn DEF ConsistentFor
  <1>8. DepsFit'
    BY <1>1, DepsStay DEF ConsistentFor, Climbs
  <1>9. Carries
    BY <1>4, <1>5 DEF Carries
  <1>10. TopRight'
    <2>1. CASE Top.all
      <3>1. Top' = frame
        BY <1>4, <2>1 DEF Top
      <3> QED
        BY <1>3, <3>1 DEF TopRight, Running
    <2>2. CASE ~Top.all
      <3> SUFFICES ASSUME stack' # <<>>, Top'.call = "apply" PROVE ~Top'.result.ok
        BY DEF TopRight, Running
      <3>1. n # 1
        BY <1>1, <2>2, StackParts
      <3>2. n - 1 \in 1..n - 1 /\ n \in 1..n
        BY <1>2, <3>1
      <3>3. Top' = stack[n - 1]
        BY <1>4, <2>2, <3>2 DEF Top
      <3>4. Seated(stack[n - 1], stack[n], Made)
        BY <3>1, <3>2 DEF ConsistentFor, Climbs, Shape
      <3> QED
        BY <1>1, <1>2, <3>3, <3>4 DEF Seated, Result
    <2> QED
      BY <2>1, <2>2
  <1>11. ASSUME NEW b \in Index PROVE Served(b)'
    <2>1. ~Begins(b) /\ ~Concludes(b)
      BY <1>1 DEF Begins, Concludes, Running
    <2>2. AwaitedBy(b, Top) => Awaited(b)'
      <3> SUFFICES ASSUME AwaitedBy(b, Top) PROVE Awaited(b)'
        OBVIOUS
      <3>1. ~InQueue(b, Top)
        BY <1>1 DEF InQueue
      <3>2. Top.all /\ ALL \in deps[b]
        BY <3>1 DEF AwaitedBy
      <3>3. InQueue(b, frame)
        BY <1>2, <1>3, <3>2, QueueIs DEF InQueue
      <3>4. n \in 1..Len(stack')
        BY <1>2, <1>4, <3>2
      <3> QED
        BY <1>3, <1>4, <3>2, <3>3, <3>4 DEF Awaited, AwaitedBy, InQueue
    <2>3. (Awaited(b) => Awaited(b)') /\ (Executing(b) => Executing(b)')
      BY <1>1, <1>9, <2>2, CarriedOn
    <2>4. Later(b)' <=> Later(b)
      BY <1>1 DEF Later
    <2>5. ReadsStay(b)
      BY <1>1 DEF ReadsStay, ReadsSame
    <2>6. Undisturbed(b)
      BY <1>1, <2>1, <2>3, <2>4, <2>5 DEF Undisturbed
    <2> QED
      BY <2>6, UndisturbedServes DEF ConsistentFor
  <1> QED
    BY <1>7, <1>8, <1>10, <1>11 DEF ServesOn

\* What an effect in progress has read is not written by what runs above it.
LEMMA ExecutionsStay ==
    ASSUME ReactivityInv, NEW rank, ConsistentFor(rank), stack # <<>>, Top.call = "apply",
           NEW c \in Writers, c = Top.b, UNCHANGED page,
           NEW v, state' = [state EXCEPT ![Def(c).target] = v],
           v = Value(c) \/ Def(c).kind = "calc"
    PROVE  \A i \in 1..Len(stack) : \A frame : frame = stack[i] => ExecutionHolds(frame)'
  <1> SUFFICES ASSUME NEW i \in 1..Len(stack), NEW frame, frame = stack[i], frame.call = "execute"
               PROVE  ExecutionHolds(frame)'
    BY DEF ExecutionHolds
  <1> DEFINE d == frame.b
             n == Len(stack)
  <1>1. Top = stack[n] /\ n \in Nat \ {0}
    BY StackParts
  <1>2. i < n /\ n \in 1..n
    BY <1>1
  <1>3. Over(rank, frame, Top) /\ Own(frame, Made) /\ ExecutionHolds(frame)
    BY <1>1, <1>2 DEF ConsistentFor, Climbs, Shape, ExecutionsHold
  <1>4. d \in Writers /\ Above(rank, d, c) /\ Def(d).kind = "effect"
    BY <1>3 DEF Over, Own
  <1>5. ~Throws(d) /\ state[Def(d).target] = Value(d) /\ frame.read = Snapshot(d)
    BY <1>3 DEF ExecutionHolds
  <1> HIDE DEF d
  <1>6. state \in [Keys -> Values] /\ d \in Index /\ c \in Index
    BY <1>4, ReactivityInvParts, BindingParts
  <1>7. ReadsSame(d) /\ state'[Def(d).target] = state[Def(d).target]
    <2>1. Def(d).target \in Keys /\ Def(c).target \in Keys /\ KeysRead(d) \subseteq Keys
      BY <1>6, BindingParts
    <2>2. CASE d = c
      <3>1. v = state[Def(c).target]
        BY <1>4, <1>5, <2>2
      <3>2. state' = state
        BY <1>6, <2>1, <3>1
      <3> QED
        BY <3>2 DEF ReadsSame
    <2>3. CASE d # c
      <3>1. Def(c).target \notin KeysRead(d) /\ Def(d).target # Def(c).target
        BY <1>4, <2>3, RankParts DEF ConsistentFor, Climbs
      <3> QED
        BY <1>6, <2>1, <3>1 DEF ReadsSame
    <2> QED
      BY <2>2, <2>3
  <1>8. /\ (Throws(d)' <=> Throws(d)) /\ Value(d)' = Value(d) /\ Snapshot(d)' = Snapshot(d)
        /\ Def(d)' = Def(d)
    BY <1>6, <1>7, ValuesStay, PageStays
  <1> QED
    BY <1>5, <1>7, <1>8 DEF ExecutionHolds, d

LEMMA ExecuteEndsServes ==
    ASSUME ReactivityInv, NEW rank, ConsistentFor(rank), ExecuteEnds PROVE ServesOn
  <1> DEFINE n == Len(stack)
  <1>1. /\ stack # <<>> /\ Top.call = "execute"
        /\ Registers(Top.b, Tracked(Top.b, Top.read)) /\ Returns(Below, Result(TRUE, 0))
        /\ UNCHANGED <<page, phase, state, painted>>
    BY DEF ExecuteEnds, Running
  <1>2. /\ Top \in CallFrame(Index) /\ Top = stack[n] /\ n \in Nat \ {0} /\ n \in 1..n
        /\ Below \in Seq(CallFrame(Index)) /\ Len(Below) = n - 1
        /\ (Below = <<>> <=> n = 1) /\ \A i \in 1..n - 1 : Below[i] = stack[i]
    BY <1>1, StackParts
  <1>3. PICK b \in Index : b = Top.b
    BY <1>1, TopFits DEF Sits
  <1>4. ~Throws(b) /\ state[Def(b).target] = Value(b) /\ Top.read = Snapshot(b)
    BY <1>1, <1>2, <1>3 DEF ConsistentFor, ExecutionsHold, ExecutionHolds
  <1>5. /\ DepsFit' /\ Covered(b)'
        /\ \A c \in Index : c # b => deps'[c] = deps[c] /\ (c \in threw => c \in threw')
        /\ KeysRead(b)' = KeysRead(b) /\ Value(b)' = Value(b)
    BY <1>1, <1>3, <1>4, ExecutionCovers DEF ConsistentFor, Climbs
  <1>6. Joins(rank, Below, Top, Made, Turn)
    BY <1>1, TopClimbs DEF ConsistentFor, Climbs
  <1>7. Def(b).kind = "effect" /\ b \in Writers
    BY <1>1, <1>3, <1>6, BindingParts DEF Joins, Own
  <1>8. Def(b)' = Def(b) /\ Writers' = Writers
    BY <1>1, PageStays
  <1>9. Settled(b)' /\ \A result : Right(b, result)'
    BY <1>1, <1>4, <1>5, <1>7, <1>8 DEF Settled, Right
  <1>10. ASSUME NEW c \in Index, c # b, Carries, initial'[c] = initial[c], Later(c) => Later(c)'
         PROVE  Served(c)'
    <2>1. ~Begins(c) /\ ~Concludes(c) /\ ~AwaitedBy(c, Top)
      BY <1>1 DEF Begins, Concludes, Running, AwaitedBy
    <2>2. (Awaited(c) => Awaited(c)') /\ (Executing(c) => Executing(c)')
      BY <1>3, <1>5, <1>10, <2>1, CarriedOn
    <2>3. ReadsStay(c)
      BY <1>1 DEF ReadsStay, ReadsSame
    <2>4. Undisturbed(c)
      BY <1>1, <1>5, <1>10, <2>1, <2>2, <2>3 DEF Undisturbed
    <2> QED
      BY <2>4, UndisturbedServes DEF ConsistentFor
  <1>11. CASE Below = <<>>
    <2>1. /\ stack' = <<>> /\ todo' = Tail(todo)
          /\ initial' = [initial EXCEPT ![Head(todo)] = Result(TRUE, 0)]
      BY <1>1, <1>11 DEF Returns
    <2>2. b = Turn
      BY <1>1, <1>3, <1>6, <1>11 DEF Joins
    <2>3. phase = "execute" /\ b = Head(todo)
      BY <2>2, BindingParts DEF Turn
    <2>4. Len(<<>>) = 0 /\ 1..0 = {}
      OBVIOUS
    <2>5. ExecutionsHold' /\ TopRight'
      BY <2>1, <2>4 DEF ExecutionsHold, TopRight, Running
    <2>6. \A c : Later(c)'
      BY <1>1, <2>3 DEF Later
    <2>7. Carries
      <3>1. n - 1 = 0 /\ 1..0 = {}
        BY <1>2, <1>11
      <3> QED
        BY <3>1 DEF Carries
    <2>8. initial'[b] = Result(TRUE, 0) /\ \A c \in Index : c # b => initial'[c] = initial[c]
      BY <2>1, <2>3, ReactivityInvParts
    <2>9. Served(b)'
      <3>1. KeptRight(b)'
        BY <1>9, <2>8 DEF KeptRight, Result
      <3> QED
        BY <2>6, <3>1 DEF Served, UsedAtOnce, Owed
    <2> QED
      BY <1>5, <1>10, <2>5, <2>6, <2>7, <2>8, <2>9 DEF ServesOn
  <1>12. CASE Below # <<>>
    <2>1. /\ Below[n - 1].call = "apply" /\ Below[n - 1].b = b /\ b \notin Made
          /\ n - 1 \in 1..n - 1
      BY <1>1, <1>2, <1>3, <1>6, <1>12 DEF Joins, Seated
    <2> DEFINE result == Result(TRUE, 0)
               below == Below
               frame == [Below[n - 1] EXCEPT !.result = result]
    <2>2. /\ UNCHANGED <<initial, todo>> /\ Len(stack') = n - 1
          /\ stack'[n - 1] = frame /\ \A i \in 1..n - 2 : stack'[i] = stack[i]
      <3>1. result \in Results /\ result.made
        BY FramesFit DEF Result
      <3>2. Shape(rank, below, Made, Turn, applying)
        BY <1>1, TopClimbs DEF ConsistentFor, Climbs, SafeApply
      <3>3. below \in Seq(CallFrame(Index)) /\ below # <<>> /\ Returns(below, result)
            /\ below[Len(below)].call = "apply" /\ below[Len(below)].b \notin Made
        BY <1>1, <1>2, <1>12, <2>1
      <3> HIDE DEF below, result
      <3>4. /\ UNCHANGED <<initial, todo>>
            /\ Len(stack') = Len(below) /\ stack'[Len(below)] = [below[Len(below)] EXCEPT !.result = result]
            /\ \A i \in 1..Len(below) - 1 : stack'[i] = below[i]
        BY <3>1, <3>2, <3>3, AnswersClimbs
      <3>5. n - 1 - 1 = n - 2 /\ \A i \in 1..n - 2 : i \in 1..n - 1
        BY <1>2
      <3> QED
        BY <1>2, <3>4, <3>5 DEF below
    <2>3. /\ frame.call = "apply" /\ frame.b = b /\ frame.queue = stack[n - 1].queue
          /\ frame.all = stack[n - 1].all
      <3>1. Below[n - 1] \in CallFrame(Index) /\ Below[n - 1] = stack[n - 1]
        BY <1>2, <2>1, ElementOfSeq
      <3> QED
        BY <2>1, <3>1 DEF CallFrame
    <2> HIDE DEF frame
    <2>4. Carries
      <3>1. \A i \in 1..n - 1 : i \in 1..Len(stack') /\ (i = n - 1 \/ i \in 1..n - 2)
        BY <1>2, <2>2
      <3> QED
        BY <1>2, <2>1, <2>2, <2>3, <3>1 DEF Carries
    <2>5. ExecutionsHold'
      <3>1. \A i \in 1..Len(stack') : i = n - 1 \/ (i \in 1..n - 2 /\ i \in 1..n)
        BY <1>2, <2>2
      <3>2. \A i \in 1..Len(stack') : stack'[i].call = "execute" => \E j \in 1..n : stack[j] = stack'[i]
        BY <2>2, <2>3, <3>1
      <3> QED
        BY <1>1, <3>2, HoldsOn DEF ConsistentFor
    <2>6. Top'.b = b
      BY <2>2, <2>3 DEF Top
    <2>7. TopRight'
      BY <1>9, <2>6 DEF TopRight
    <2>8. \A c : Later(c)' <=> Later(c)
      BY <1>1, <2>2 DEF Later
    <2>9. Served(b)'
      <3>1. ~initial'[b].made
        BY <2>1, <2>2 DEF Made
      <3> QED
        BY <1>9, <3>1 DEF Served, KeptRight, UsedAtOnce, Owed
    <2> QED
      BY <1>5, <1>10, <2>2, <2>4, <2>5, <2>7, <2>8, <2>9 DEF ServesOn
  <1> QED
    BY <1>11, <1>12

LEMMA AssignsServes ==
    ASSUME ReactivityInv, NEW rank, ConsistentFor(rank), NEW b \in Index, ExecuteAssigns(b),
           UNCHANGED <<page, phase, painted>>,
           stack # <<>> => Top.call = "apply" /\ Top.b = b /\ ~initial[b].made
    PROVE  ServesOn
  <1> DEFINE call == Execute(b, Snapshot(b))
             below == Append(stack, call)
             k == Def(b).target
             frame == Notify(k)
             n == Len(stack)
  <1>1. /\ ~Throws(b) /\ Def(b).kind = "effect" /\ Sets(k, Value(b), below)
        /\ UNCHANGED <<registry, deps, threw, initial, todo>>
    BY DEF ExecuteAssigns
  <1>2. b \in Writers /\ k \in Keys /\ KeysRead(b) \subseteq Keys /\ k \notin KeysRead(b)
    BY <1>1, BindingParts, RankParts DEF ConsistentFor, Climbs
  <1>3. /\ call \in CallFrame(Index) /\ call.call = "execute" /\ call.b = b
        /\ call.read = Snapshot(b)
    <2>1. Snapshot(b) \in Snapshots /\ NoResult \in Results /\ <<>> \in Seq(Index)
      BY ExpressionFits, FramesFit, EmptySeq
    <2> QED
      BY <2>1 DEF Execute, CallFrame
  <1>4. frame \in CallFrame(Index) /\ frame.call = "notify"
    BY <1>2, FramesFit DEF Sits, Notify
  <1>5. stack' = Append(below, frame) /\ state' = [state EXCEPT ![k] = Value(b)]
    BY <1>1 DEF Sets
  <1> HIDE DEF call, frame
  <1>6. /\ below \in Seq(CallFrame(Index)) /\ Len(below) = n + 1 /\ below[n + 1] = call
        /\ n \in Nat /\ \A i \in 1..n : below[i] = stack[i]
    BY <1>3, StackParts
  <1> HIDE DEF below
  <1>7. /\ Len(stack') = n + 2 /\ stack'[n + 2] = frame /\ stack'[n + 1] = call
        /\ \A i \in 1..n : stack'[i] = stack[i]
    <2>1. /\ Len(stack') = Len(below) + 1 /\ stack'[Len(below) + 1] = frame
          /\ \A i \in 1..Len(below) : stack'[i] = below[i]
      BY <1>4, <1>5, <1>6, SequenceGrows
    <2>2. (n + 1) + 1 = n + 2 /\ n + 1 \in 1..n + 1 /\ \A i \in 1..n : i \in 1..n + 1
      BY <1>6
    <2> QED
      BY <1>6, <2>1, <2>2
  <1>8. \A i \in 1..n + 2 : i \in 1..n \/ i = n + 1 \/ i = n + 2
    BY <1>6
  <1>9. /\ ReadsSame(b) /\ state'[k] = Value(b)
        /\ \A c \in Keys : c # k => state'[c] = state[c]
    BY <1>2, <1>5, ReactivityInvParts DEF ReadsSame
  <1>10. /\ KeysRead(b)' = KeysRead(b) /\ Value(b)' = Value(b) /\ ~Throws(b)'
         /\ Snapshot(b)' = Snapshot(b) /\ Def(b)' = Def(b)
    BY <1>1, <1>9, ValuesStay, PageStays
  <1>11. ExecutionsHold'
    <2>1. ASSUME NEW i \in 1..n, NEW f, f = stack[i] PROVE ExecutionHolds(f)'
      <3>1. stack # <<>> /\ Top.call = "apply" /\ Top.b = b
        <4>1. n # 0
          BY <1>6
        <4> QED
          BY <4>1, StackParts
      <3> DEFINE value == Value(b)
      <3>2. state' = [state EXCEPT ![Def(b).target] = value] /\ (value = Value(b) \/ Def(b).kind = "calc")
        BY <1>5
      <3> HIDE DEF value
      <3> QED
        BY <1>2, <2>1, <3>1, <3>2, ExecutionsStay
    <2>2. ASSUME NEW f, f = call PROVE ExecutionHolds(f)'
      BY <1>3, <1>9, <1>10, <2>2 DEF ExecutionHolds
    <2>3. ASSUME NEW f, f = frame PROVE ExecutionHolds(f)'
      BY <1>4, <2>3 DEF ExecutionHolds
    <2>4. ASSUME NEW i \in 1..Len(stack'), NEW f, f = stack'[i] PROVE ExecutionHolds(f)'
      BY <1>7, <1>8, <2>1, <2>2, <2>3, <2>4
    <2> QED
      BY <2>4 DEF ExecutionsHold
  <1>12. TopRight'
    <2>1. Top' = frame
      BY <1>7 DEF Top
    <2> QED
      BY <1>4, <2>1 DEF TopRight, Running
  <1>13. DepsFit'
    BY <1>1, DepsStay DEF ConsistentFor, Climbs
  <1>14. Carries
    <2>1. \A i \in 1..n - 1 : i \in 1..n /\ i \in 1..n + 2
      BY <1>6
    <2> QED
      BY <1>7, <2>1 DEF Carries
  <1>15. \A c : Later(c)' <=> Later(c)
    BY <1>1 DEF Later
  <1>16. ASSUME NEW c \in Index, c # b PROVE Served(c)'
    <2>1. c \in Writers => Def(c).target # k
      BY <1>2, <1>16, RankParts DEF ConsistentFor, Climbs
    <2>2. ReadsStay(c) \/ (Covered(c) => Awaited(c)')
      <3> DEFINE value == Value(b)
      <3>1. Sets(k, value, below) /\ UNCHANGED deps
        BY <1>1
      <3> HIDE DEF value, k
      <3> QED
        BY <1>2, <1>6, <2>1, <3>1, SetsOthers
    <2>3. ~Begins(c) /\ ~Concludes(c) /\ (stack # <<>> => ~AwaitedBy(c, Top))
      BY <1>16 DEF Begins, Concludes, Running, AwaitedBy
    <2>4. (Awaited(c) => Awaited(c)') /\ (Executing(c) => Executing(c)')
      BY <1>1, <1>14, <2>3, CarriedOn
    <2>5. Undisturbed(c)
      BY <1>1, <1>15, <2>2, <2>3, <2>4 DEF Undisturbed
    <2> QED
      BY <2>5, UndisturbedServes DEF ConsistentFor
  <1>17. Served(b)'
    <2>1. Executing(b)'
      <3>1. n + 1 \in 1..Len(stack')
        BY <1>6, <1>7
      <3> QED
        BY <1>3, <1>7, <3>1 DEF Executing
    <2>2. CASE stack # <<>>
      BY <1>1, <2>1, <2>2 DEF Served, KeptRight, UsedAtOnce, Owed
    <2>3. CASE stack = <<>>
      <3>1. n = 0 /\ 1..0 = {}
        BY <2>3
      <3>2. ~Awaited(b) /\ ~Begins(b)
        BY <2>3, <3>1 DEF Awaited, Begins, Running
      <3>3. KeptRight(b) /\ (~Later(b) => ~initial[b].made)
        BY <3>1 DEF ConsistentFor, Served, UsedAtOnce
      <3>4. Covered(b) => Covered(b)'
        BY <1>1, <1>10 DEF Covered
      <3>5. KeptRight(b)'
        BY <1>1, <1>9, <1>10, <3>2, <3>3, <3>4 DEF KeptRight, Right
      <3>6. UsedAtOnce(b)' /\ Owed(b)'
        BY <1>1, <1>15, <2>1, <3>3 DEF UsedAtOnce, Owed
      <3> QED
        BY <3>5, <3>6 DEF Served
    <2> QED
      BY <2>2, <2>3
  <1> QED
    BY <1>11, <1>12, <1>13, <1>16, <1>17 DEF ServesOn

\* The others, while the call on top, an application of b, goes on
LEMMA OthersServe ==
    ASSUME ReactivityInv, NEW rank, ConsistentFor(rank), stack # <<>>, Top.call = "apply",
           NEW b \in Index, b = Top.b, NEW c \in Index, c # b, Carries,
           UNCHANGED <<page, phase, todo>>,
           painted'[c] = painted[c], initial'[c] = initial[c], deps'[c] = deps[c],
           c \in threw => c \in threw', ReadsStay(c) \/ (Covered(c) => Awaited(c)')
    PROVE  Served(c)'
  <1>1. ~Begins(c) /\ ~Concludes(c) /\ ~AwaitedBy(c, Top)
    BY DEF Begins, Concludes, AwaitedBy
  <1>2. (Awaited(c) => Awaited(c)') /\ (Executing(c) => Executing(c)')
    BY <1>1, CarriedOn
  <1>3. Later(c)' <=> Later(c)
    BY DEF Later
  <1>4. Undisturbed(c)
    BY <1>1, <1>2, <1>3 DEF Undisturbed
  <1> QED
    BY <1>4, UndisturbedServes DEF ConsistentFor

LEMMA ApplyExecutesServes ==
    ASSUME ReactivityInv, NEW rank, ConsistentFor(rank), ApplyExecutes PROVE ServesOn
  <1> DEFINE n == Len(stack)
  <1>1. /\ stack # <<>> /\ Top.call = "apply" /\ ~Top.result.made /\ Running("apply")
        /\ UNCHANGED <<page, phase, painted>>
    BY DEF ApplyExecutes, Running
  <1>2. PICK b \in Index : b = Top.b
    BY <1>1, TopFits DEF Sits
  <1>3. /\ Top \in CallFrame(Index) /\ Top = stack[n] /\ n \in Nat \ {0} /\ n \in 1..n
    BY <1>1, StackParts
  <1>4. Def(b)' = Def(b) /\ Writers' = Writers
    BY <1>1, PageStays
  <1>5. Served(b)
    BY DEF ConsistentFor
  <1>6. \A i \in 1..n : i \in 1..n - 1 \/ i = n
    BY <1>3
  <1>7. ASSUME NEW result \in Results, Len(stack') = n,
               stack'[n] = [Top EXCEPT !.result = result],
               \A i \in 1..n - 1 : stack'[i] = stack[i], UNCHANGED <<state, todo>>
        PROVE  /\ stack' # <<>> /\ Carries /\ ExecutionsHold'
               /\ Running("apply")' /\ Top'.b = b /\ Top'.result = result
               /\ \A c : Later(c)' <=> Later(c)
    <2>1. stack' # <<>> /\ Top' = [Top EXCEPT !.result = result]
      BY <1>3, <1>7 DEF Top
    <2>2. Top'.call = "apply" /\ Top'.b = b /\ Top'.result = result
      BY <1>1, <1>2, <1>3, <2>1 DEF CallFrame
    <2>3. Carries
      BY <1>6, <1>7, <1>3 DEF Carries
    <2>4. \A i \in 1..Len(stack') : stack'[i].call = "execute" => \E j \in 1..n : stack[j] = stack'[i]
      BY <1>6, <1>7, <2>1, <2>2
    <2>5. ExecutionsHold'
      BY <1>1, <1>7, <2>4, HoldsOn DEF ConsistentFor
    <2>6. \A c : Later(c)' <=> Later(c)
      BY <1>1, <1>7 DEF Later
    <2> QED
      BY <2>1, <2>2, <2>3, <2>5, <2>6 DEF Running
  <1>8. CASE initial[b].made
    <2> DEFINE result == initial[b]
               frame == [Top EXCEPT !.result = result]
    <2>1. /\ stack' = OnTop(frame)
          /\ initial' = [initial EXCEPT ![b] = NoResult]
          /\ UNCHANGED <<state, deps, threw, todo>>
      BY <1>2, <1>8 DEF ApplyExecutes
    <2>2. initial \in [Index -> Results] /\ result \in Results
      BY ReactivityInvParts
    <2>3. frame \in CallFrame(Index)
      BY <1>3, <2>2 DEF CallFrame
    <2>4. Len(stack') = n /\ stack'[n] = frame /\ \A i \in 1..n - 1 : stack'[i] = stack[i]
      BY <1>1, <2>1, <2>3, StackParts
    <2>5. PICK r \in Results : r = result
      BY <2>2
    <2> HIDE DEF result
    <2>6. /\ Carries /\ ExecutionsHold' /\ Running("apply")' /\ Top'.b = b /\ Top'.result = r
          /\ \A c : Later(c)' <=> Later(c)
      BY <1>7, <2>1, <2>4, <2>5
    <2>7. /\ ~initial'[b].made /\ \A c \in Index : c # b => initial'[c] = initial[c]
      BY <2>1, <2>2 DEF NoResult
    <2>8. /\ (Covered(b)' <=> Covered(b)) /\ (Right(b, r)' <=> Right(b, r))
          /\ (Settled(b)' <=> Settled(b))
      <3>1. ReadsSame(b)
        BY <2>1 DEF ReadsSame
      <3>2. KeysRead(b)' = KeysRead(b) /\ (Throws(b)' <=> Throws(b)) /\ Value(b)' = Value(b)
        BY <1>1, <3>1, ValuesStay
      <3> QED
        BY <1>1, <1>4, <2>1, <3>2 DEF Covered, Right, Settled
    <2>9. ~Later(b) /\ r.ok => Right(b, r)
      BY <1>5, <1>8, <2>5 DEF Served, UsedAtOnce, result
    <2>10. TopRight'
      BY <2>6, <2>8, <2>9 DEF TopRight
    <2>11. Owed(b)'
      <3> SUFFICES ASSUME ~Later(b) PROVE b \in threw' \/ Settled(b)' \/ Concludes(b)'
        BY <2>6 DEF Owed
      <3>1. CASE r.ok
        <4>1. Def(b).kind = "effect" => Settled(b)
          BY <2>9, <3>1, BindingParts DEF Right, Settled
        <4> QED
          BY <1>4, <2>6, <2>8, <3>1, <4>1 DEF Concludes
      <3>2. CASE ~r.ok
        BY <1>5, <1>8, <2>1, <2>5, <3>2 DEF Served, KeptRight, result
      <3> QED
        BY <3>1, <3>2
    <2>12. Served(b)'
      BY <2>7, <2>11 DEF Served, KeptRight, UsedAtOnce
    <2>13. ASSUME NEW c \in Index, c # b PROVE Served(c)'
      <3>1. ReadsStay(c)
        BY <2>1 DEF ReadsStay, ReadsSame
      <3> QED
        BY <1>1, <1>2, <2>1, <2>6, <2>7, <2>13, <3>1, OthersServe
    <2>14. DepsFit'
      BY <1>1, <2>1, DepsStay DEF ConsistentFor, Climbs
    <2> QED
      BY <2>6, <2>10, <2>12, <2>13, <2>14 DEF ServesOn
  <1>9. CASE ~initial[b].made
    <2>2. ExecuteBinding(b)
      BY <1>2, <1>9 DEF ApplyExecutes
    <2>3. CASE ExecuteAssigns(b)
      BY <1>1, <1>2, <1>9, <2>3, AssignsServes
    <2>4. ASSUME NEW result \in Results, result.made, Returns(stack, result)
          PROVE  /\ UNCHANGED <<initial, todo>> /\ Len(stack') = n
                 /\ stack'[n] = [Top EXCEPT !.result = result]
                 /\ \A i \in 1..n - 1 : stack'[i] = stack[i]
      <3>1. Shape(rank, stack, Made, Turn, applying) /\ b \notin Made
        BY <1>9 DEF ConsistentFor, Climbs, Made
      <3> DEFINE below == stack
      <3>2. /\ below \in Seq(CallFrame(Index)) /\ below # <<>> /\ Returns(below, result)
            /\ below[Len(below)].call = "apply" /\ below[Len(below)].b \notin Made
            /\ Shape(rank, below, Made, Turn, applying)
        BY <1>1, <1>2, <1>3, <2>4, <3>1, StackIs
      <3> HIDE DEF below
      <3>3. /\ UNCHANGED <<initial, todo>>
            /\ Len(stack') = Len(below) /\ stack'[Len(below)] = [below[Len(below)] EXCEPT !.result = result]
            /\ \A i \in 1..Len(below) - 1 : stack'[i] = below[i]
        BY <2>4, <3>2, AnswersClimbs
      <3> QED
        BY <1>3, <3>3 DEF below
    <2>5. CASE ExecuteThrows(b)
      <3> DEFINE result == Result(FALSE, 0)
      <3>1. /\ Returns(stack, result) /\ result \in Results /\ result.made /\ ~result.ok
            /\ threw' = threw \cup {b} /\ UNCHANGED <<state, deps>>
        BY <2>5, FramesFit DEF ExecuteThrows, Result
      <3> HIDE DEF result
      <3>2. PICK r \in Results : r = result
        BY <3>1
      <3>3. /\ UNCHANGED <<initial, todo>> /\ Len(stack') = n
            /\ stack'[n] = [Top EXCEPT !.result = r]
            /\ \A i \in 1..n - 1 : stack'[i] = stack[i]
        BY <2>4, <3>1, <3>2
      <3>4. Carries /\ ExecutionsHold' /\ Top'.result = r
        BY <1>7, <3>1, <3>3
      <3>5. TopRight'
        BY <3>1, <3>2, <3>4 DEF TopRight
      <3>6. DepsFit'
        BY <1>1, <3>1, DepsStay DEF ConsistentFor, Climbs
      <3>7. Served(b)'
        BY <1>9, <3>1, <3>3 DEF Served, KeptRight, UsedAtOnce, Owed
      <3>8. ASSUME NEW c \in Index, c # b PROVE Served(c)'
        <4>1. ReadsStay(c)
          BY <3>1 DEF ReadsStay, ReadsSame
        <4> QED
          BY <1>1, <1>2, <3>1, <3>3, <3>4, <3>8, <4>1, OthersServe
      <3> QED
        BY <3>4, <3>5, <3>6, <3>7, <3>8 DEF ServesOn
    <2>6. CASE ExecuteReads(b)
      <3> DEFINE result == Result(TRUE, Value(b))
      <3>1. /\ ~Throws(b) /\ Def(b).kind # "effect" /\ Registers(b, Tracked(b, Snapshot(b)))
            /\ Returns(stack, result) /\ UNCHANGED state
        BY <2>6 DEF ExecuteReads
      <3>2. result \in Results /\ result.made /\ result.ok /\ result.value = Value(b)
        BY ExpressionFits, FramesFit DEF Result
      <3> HIDE DEF result
      <3>3. PICK r \in Results : r = result
        BY <3>2
      <3>4. /\ UNCHANGED <<initial, todo>> /\ Len(stack') = n
            /\ stack'[n] = [Top EXCEPT !.result = r]
            /\ \A i \in 1..n - 1 : stack'[i] = stack[i]
        BY <2>4, <3>1, <3>2, <3>3
      <3>5. /\ Carries /\ ExecutionsHold' /\ Running("apply")' /\ Top'.b = b /\ Top'.result = r
        BY <1>7, <3>1, <3>4
      <3>6. /\ DepsFit' /\ Covered(b)' /\ Value(b)' = Value(b)
            /\ \A c \in Index : c # b => deps'[c] = deps[c] /\ (c \in threw => c \in threw')
        BY <1>1, <3>1, ExecutionCovers DEF ConsistentFor, Climbs
      <3>7. Right(b, r)'
        BY <1>4, <3>1, <3>2, <3>3, <3>6 DEF Right
      <3>8. TopRight'
        BY <3>5, <3>7 DEF TopRight
      <3>9. Concludes(b)'
        BY <1>4, <3>1, <3>2, <3>3, <3>5 DEF Concludes
      <3>10. Served(b)'
        BY <1>9, <3>4, <3>9 DEF Served, KeptRight, UsedAtOnce, Owed
      <3>11. ASSUME NEW c \in Index, c # b PROVE Served(c)'
        <4>1. ReadsStay(c)
          BY <3>1 DEF ReadsStay, ReadsSame
        <4> QED
          BY <1>1, <1>2, <3>4, <3>5, <3>6, <3>11, <4>1, OthersServe
      <3> QED
        BY <3>5, <3>6, <3>8, <3>10, <3>11 DEF ServesOn
    <2> QED
      BY <2>2, <2>3, <2>5, <2>6 DEF ExecuteBinding
  <1> QED
    BY <1>8, <1>9

LEMMA ApplyStoresServes ==
    ASSUME ReactivityInv, NEW rank, ConsistentFor(rank), ApplyStores PROVE ServesOn
  <1> DEFINE n == Len(stack)
             spent == Spent(Top)
             below == OnTop(spent)
  <1>1. /\ stack # <<>> /\ Top.call = "apply" /\ Top.result.ok /\ Running("apply")
        /\ UNCHANGED <<page, phase, todo, registry, deps, initial, painted, threw>>
    BY DEF ApplyStores, Running
  <1>2. PICK b \in Index : b = Top.b
    BY <1>1, TopFits DEF Sits
  <1>3. /\ Top \in CallFrame(Index) /\ Top = stack[n] /\ n \in Nat \ {0} /\ n \in 1..n
    BY <1>1, StackParts
  <1>4. PICK v \in Values : v = Top.result.value
    BY <1>3 DEF CallFrame, Results
  <1>5. PICK k \in Keys : k = Def(b).target
    BY BindingParts
  <1>6. Def(b).kind = "calc" /\ Sets(k, v, below)
    BY <1>2, <1>4, <1>5 DEF ApplyStores
  <1> DEFINE frame == Notify(k)
  <1>7. b \in Writers /\ KeysRead(b) \subseteq Keys /\ k \notin KeysRead(b)
    BY <1>5, <1>6, BindingParts, RankParts DEF ConsistentFor, Climbs
  <1>8. frame \in CallFrame(Index) /\ frame.call = "notify"
    BY FramesFit DEF Sits, Notify
  <1>9. spent \in CallFrame(Index) /\ spent.call = "apply"
    BY <1>1, <1>3, FramesFit DEF CallFrame, Spent
  <1>10. stack' = Append(below, frame) /\ state' = [state EXCEPT ![k] = v]
    BY <1>6 DEF Sets
  <1> HIDE DEF frame, spent
  <1>11. /\ below \in Seq(CallFrame(Index)) /\ Len(below) = n /\ below[n] = spent
         /\ \A i \in 1..n - 1 : below[i] = stack[i]
    BY <1>1, <1>9, StackParts
  <1> HIDE DEF below
  <1>12. /\ Len(stack') = n + 1 /\ stack'[n + 1] = frame /\ stack'[n] = spent
         /\ \A i \in 1..n - 1 : stack'[i] = stack[i]
    <2>1. /\ Len(stack') = Len(below) + 1 /\ stack'[Len(below) + 1] = frame
          /\ \A i \in 1..Len(below) : stack'[i] = below[i]
      BY <1>8, <1>10, <1>11, SequenceGrows
    <2>2. \A i \in 1..n - 1 : i \in 1..n
      BY <1>3
    <2> QED
      BY <1>3, <1>11, <2>1, <2>2
  <1>13. \A i \in 1..n + 1 : i \in 1..n - 1 \/ i = n \/ i = n + 1
    BY <1>3
  <1>14. /\ ReadsSame(b) /\ state'[k] = v
    BY <1>7, <1>10, ReactivityInvParts DEF ReadsSame
  <1>15. /\ KeysRead(b)' = KeysRead(b) /\ Value(b)' = Value(b) /\ (Throws(b)' <=> Throws(b))
         /\ Def(b)' = Def(b) /\ Writers' = Writers
    BY <1>1, <1>14, ValuesStay, PageStays
  <1>16. ExecutionsHold'
    <2>1. ASSUME NEW i \in 1..n - 1, NEW f, f = stack[i] PROVE ExecutionHolds(f)'
      <3>1. i \in 1..n
        BY <1>3
      <3>2. state' = [state EXCEPT ![Def(b).target] = v]
        BY <1>5, <1>10
      <3> QED
        BY <1>1, <1>2, <1>6, <1>7, <2>1, <3>1, <3>2, ExecutionsStay
    <2>2. ASSUME NEW f, f = spent \/ f = frame PROVE ExecutionHolds(f)'
      BY <1>8, <1>9, <2>2 DEF ExecutionHolds
    <2>3. ASSUME NEW i \in 1..Len(stack'), NEW f, f = stack'[i] PROVE ExecutionHolds(f)'
      BY <1>12, <1>13, <2>1, <2>2, <2>3
    <2> QED
      BY <2>3 DEF ExecutionsHold
  <1>17. TopRight'
    <2>1. Top' = frame
      BY <1>12 DEF Top
    <2> QED
      BY <1>8, <2>1 DEF TopRight, Running
  <1>18. DepsFit'
    BY <1>1, DepsStay DEF ConsistentFor, Climbs
  <1>19. Carries
    <2>1. \A i \in 1..n - 1 : i \in 1..n + 1
      BY <1>3
    <2> QED
      BY <1>12, <2>1 DEF Carries
  <1>20. ASSUME NEW c \in Index, c # b PROVE Served(c)'
    <2>1. c \in Writers => Def(c).target # k
      BY <1>5, <1>7, <1>20, RankParts DEF ConsistentFor, Climbs
    <2>2. ReadsStay(c) \/ (Covered(c) => Awaited(c)')
      BY <1>1, <1>6, <1>11, <2>1, SetsOthers
    <2> QED
      BY <1>1, <1>2, <1>19, <1>20, <2>2, OthersServe
  <1>21. Served(b)'
    <2>1. ~initial'[b].made
      <3>1. Own(Top, Made)
        BY <1>1, TopClimbs DEF ConsistentFor, Climbs, Joins
      <3> QED
        BY <1>1, <1>2, <3>1 DEF Own, Made
    <2>2. ~Later(b) => Settled(b)'
      <3> SUFFICES ASSUME ~Later(b) PROVE Settled(b)'
        OBVIOUS
      <3>1. Right(b, Top.result)
        BY <1>1, <1>2 DEF ConsistentFor, TopRight
      <3>2. Covered(b) /\ v = Value(b)
        BY <1>4, <1>6, <3>1 DEF Right
      <3> QED
        BY <1>1, <1>5, <1>7, <1>14, <1>15, <3>2 DEF Settled, Covered
    <2>3. Later(b)' <=> Later(b)
      BY <1>1 DEF Later
    <2> QED
      BY <2>1, <2>2, <2>3 DEF Served, KeptRight, UsedAtOnce, Owed
  <1> QED
    BY <1>16, <1>17, <1>18, <1>20, <1>21 DEF ServesOn

LEMMA ApplyEndsServes ==
    ASSUME ReactivityInv, NEW rank, ConsistentFor(rank), ApplyEnds PROVE ServesOn
  <1> DEFINE n == Len(stack)
  <1>1. /\ stack # <<>> /\ Top.call = "apply" /\ Top.result.made /\ Running("apply")
        /\ stack' = Below
        /\ UNCHANGED <<page, phase, todo, state, registry, deps, initial, threw>>
    BY DEF ApplyEnds, Running
  <1>2. PICK b \in Index : b = Top.b
    BY <1>1, TopFits DEF Sits
  <1>3. /\ Top \in CallFrame(Index) /\ Top = stack[n] /\ n \in Nat \ {0} /\ n \in 1..n
        /\ Len(stack') = n - 1 /\ (stack' = <<>> <=> n = 1)
        /\ \A i \in 1..n - 1 : stack'[i] = stack[i]
    BY <1>1, StackParts
  <1>4. /\ Top.result.ok => Def(b).kind # "calc"
        /\ painted' = IF Top.result.ok THEN [painted EXCEPT ![b] = Top.result.value] ELSE painted
    BY <1>2 DEF ApplyEnds
  <1>5. /\ \A c \in Index : c # b => painted'[c] = painted[c]
        /\ Top.result.ok => painted'[b] = Top.result.value
        /\ ~Top.result.ok => painted'[b] = painted[b]
    BY <1>4, ReactivityInvParts
  <1>6. \A i \in 1..n - 1 : i \in 1..n
    BY <1>3
  <1>7. ExecutionsHold'
    <2>1. \A i \in 1..Len(stack') : stack'[i].call = "execute" => \E j \in 1..n : stack[j] = stack'[i]
      BY <1>3, <1>6
    <2> QED
      BY <1>1, <2>1, HoldsOn DEF ConsistentFor
  <1>8. DepsFit'
    BY <1>1, DepsStay DEF ConsistentFor, Climbs
  <1>9. Carries
    BY <1>3 DEF Carries
  <1>10. TopRight'
    <2> SUFFICES ASSUME stack' # <<>> PROVE Top'.call = "notify"
      BY DEF TopRight, Running
    <2>1. n # 1 /\ n - 1 \in 1..n - 1
      BY <1>3
    <2>2. Seated(stack[n - 1], stack[n], Made)
      BY <1>3, <2>1 DEF ConsistentFor, Climbs, Shape
    <2>3. Top' = stack[n - 1]
      BY <1>3, <2>1 DEF Top
    <2> QED
      BY <1>1, <1>3, <2>2, <2>3 DEF Seated
  <1>11. ASSUME NEW c \in Index, c # b PROVE Served(c)'
    <2>1. ReadsStay(c)
      BY <1>1 DEF ReadsStay, ReadsSame
    <2> QED
      BY <1>1, <1>2, <1>5, <1>9, <1>11, <2>1, OthersServe
  <1>12. Served(b)'
    <2>1. ~initial'[b].made
      <3>1. Own(Top, Made)
        BY <1>1, TopClimbs DEF ConsistentFor, Climbs, Joins
      <3> QED
        BY <1>1, <1>2, <3>1 DEF Own, Made
    <2>2. Later(b)' <=> Later(b)
      BY <1>1 DEF Later
    <2>3. /\ Covered(b)' <=> Covered(b)
          /\ Value(b)' = Value(b) /\ Def(b)' = Def(b) /\ Writers' = Writers
      <3>1. ReadsSame(b)
        BY <1>1 DEF ReadsSame
      <3>2. /\ KeysRead(b)' = KeysRead(b) /\ (Throws(b)' <=> Throws(b)) /\ Value(b)' = Value(b)
            /\ Def(b)' = Def(b) /\ Writers' = Writers
        BY <1>1, <3>1, ValuesStay, PageStays
      <3> QED
        BY <1>1, <3>2 DEF Covered
    <2>4. Owed(b)'
      <3> SUFFICES ASSUME ~Later(b)
                   PROVE  b \in threw' \/ Settled(b)' \/ Awaited(b)' \/ Executing(b)'
        BY <2>2 DEF Owed
      <3>1. CASE Top.result.ok
        <4>1. Right(b, Top.result)
          BY <1>1, <1>2, <3>1 DEF ConsistentFor, TopRight
        <4>2. b \in Writers <=> Def(b).kind = "effect"
          BY <1>4, <3>1, BindingParts
        <4>3. Settled(b)'
          BY <1>1, <1>5, <2>3, <3>1, <4>1, <4>2 DEF Right, Settled
        <4> QED
          BY <4>3
      <3>2. CASE ~Top.result.ok
        <4>1. b \in threw \/ Settled(b) \/ Awaited(b) \/ Executing(b)
          BY <1>1, <3>2 DEF ConsistentFor, Served, Owed, Begins, Concludes
        <4>2. Settled(b) => Settled(b)'
          BY <1>1, <1>5, <2>3, <3>2 DEF Settled
        <4>3. ~AwaitedBy(b, Top)
          BY <1>1 DEF AwaitedBy
        <4>4. (Awaited(b) => Awaited(b)') /\ (Executing(b) => Executing(b)')
          BY <1>1, <1>9, <4>3, CarriedOn
        <4> QED
          BY <1>1, <4>1, <4>2, <4>4
      <3> QED
        BY <3>1, <3>2
    <2> QED
      BY <2>1, <2>4 DEF Served, KeptRight, UsedAtOnce
  <1> QED
    BY <1>7, <1>8, <1>10, <1>11, <1>12 DEF ServesOn

----------------------------------------------------------------------------
(* The mount                                                                *)

LEMMA NoCallsServe ==
    ASSUME stack = <<>>
    PROVE  \A b : ~Awaited(b) /\ ~Executing(b) /\ ~Begins(b) /\ ~Concludes(b)
  <1>1. Len(stack) = 0 /\ 1..0 = {}
    OBVIOUS
  <1> QED
    BY <1>1 DEF Awaited, Executing, Begins, Concludes, Running

\* Every binding is applied once the mount gets to it.
LEMMA NewBindingsAreAll ==
    ASSUME ReactivityInv, NEW order \in NewBindings
    PROVE  order \in Seq(Index) /\ \A b \in Index : \E i \in 1..Len(order) : order[i] = b
  <1>1. Index = 1..Len(page.bindings) /\ Len(page.bindings) \in Nat
    BY PageFits
  <1>2. order \in [Index -> Index] /\ \A i, j \in Index : i < j => Comes(order[i], order[j])
    BY DEF NewBindings
  <1>3. \A b \in Index : ~Comes(b, b)
    BY <1>1 DEF Comes
  <1>4. ASSUME NEW i \in Index, NEW j \in Index, order[i] = order[j] PROVE i = j
    <2>1. order[i] \in Index /\ ~Comes(order[i], order[j]) /\ ~Comes(order[j], order[i])
      BY <1>2, <1>3, <1>4
    <2>2. ~(i < j) /\ ~(j < i)
      BY <1>2, <2>1
    <2> QED
      BY <1>1, <2>2
  <1>5. order \in Injection(Index, Index)
    BY <1>2, <1>4 DEF Injection, IsInjective
  <1>6. IsFiniteSet(Index)
    BY <1>1, FS_Interval
  <1>7. order \in Surjection(Index, Index)
    BY <1>5, <1>6, FS_Injection
  <1>8. order \in Seq(Index) /\ Len(order) = Len(page.bindings)
    BY <1>1, <1>2, SeqDef, LenProperties
  <1> QED
    BY <1>1, <1>7, <1>8 DEF Surjection

\* Steps of the mount itself leave every binding what it is owed.
LEMMA MountGoesOn ==
    ASSUME ReactivityInv, NEW rank, ConsistentFor(rank), stack = <<>>, stack' = <<>>,
           UNCHANGED <<page, state, deps, initial, painted, threw>>,
           \A b \in Index : Later(b) => Later(b)'
    PROVE  ServesOn
  <1>1. Len(stack) = 0 /\ Len(stack') = 0 /\ 1..0 = {}
    OBVIOUS
  <1>2. ExecutionsHold' /\ TopRight'
    BY <1>1 DEF ExecutionsHold, TopRight, Running
  <1>3. DepsFit'
    BY DepsStay DEF ConsistentFor, Climbs
  <1>4. ASSUME NEW b \in Index PROVE Served(b)'
    <2>1. ReadsStay(b)
      BY DEF ReadsStay, ReadsSame
    <2>2. Undisturbed(b)
      BY <2>1, NoCallsServe DEF Undisturbed
    <2> QED
      BY <2>2, UndisturbedServes DEF ConsistentFor
  <1> QED
    BY <1>2, <1>3, <1>4 DEF ServesOn

LEMMA MountExecutesServes ==
    ASSUME ReactivityInv, NEW rank, ConsistentFor(rank), MountExecutes PROVE ServesOn
  <1>1. /\ phase = "execute" /\ stack = <<>> /\ todo # <<>>
        /\ UNCHANGED <<page, phase, painted>>
    BY DEF MountExecutes
  <1>2. PICK b \in Index : b = Head(todo)
    BY <1>1, ReactivityInvParts, HeadTailProperties
  <1>3. ExecuteBinding(b)
    BY <1>2 DEF MountExecutes
  <1>4. \A c : Later(c)'
    BY <1>1 DEF Later
  <1>5. CASE ExecuteAssigns(b)
    BY <1>1, <1>5, AssignsServes
  <1>6. ASSUME NEW result \in Results, Returns(stack, result), UNCHANGED state, DepsFit',
               result.ok => Right(b, result)', ~result.ok => b \in threw',
               \A c \in Index : c # b => deps'[c] = deps[c] /\ (c \in threw => c \in threw')
        PROVE  ServesOn
    <2>1. stack' = <<>> /\ initial' = [initial EXCEPT ![b] = result]
      BY <1>1, <1>2, <1>6 DEF Returns
    <2>2. initial'[b] = result /\ \A c \in Index : c # b => initial'[c] = initial[c]
      BY <2>1, ReactivityInvParts
    <2>3. Len(<<>>) = 0 /\ 1..0 = {}
      OBVIOUS
    <2>4. ExecutionsHold' /\ TopRight'
      BY <2>1, <2>3 DEF ExecutionsHold, TopRight, Running
    <2>5. Served(b)'
      <3>1. KeptRight(b)'
        BY <1>6, <2>2 DEF KeptRight
      <3> QED
        BY <1>4, <3>1 DEF Served, UsedAtOnce, Owed
    <2>6. ASSUME NEW c \in Index, c # b PROVE Served(c)'
      <3>1. ReadsStay(c)
        BY <1>6 DEF ReadsStay, ReadsSame
      <3>2. Undisturbed(c)
        BY <1>1, <1>4, <1>6, <2>2, <2>6, <3>1, NoCallsServe DEF Undisturbed
      <3> QED
        BY <3>2, UndisturbedServes DEF ConsistentFor
    <2> QED
      BY <1>6, <2>4, <2>5, <2>6 DEF ServesOn
  <1>7. CASE ExecuteThrows(b)
    <2> DEFINE result == Result(FALSE, 0)
    <2>1. /\ Returns(stack, result) /\ result \in Results /\ ~result.ok
          /\ threw' = threw \cup {b} /\ UNCHANGED <<state, deps>>
      BY <1>7, FramesFit DEF ExecuteThrows, Result
    <2> HIDE DEF result
    <2>2. PICK r \in Results : r = result
      BY <2>1
    <2>3. DepsFit'
      BY <1>1, <2>1, DepsStay DEF ConsistentFor, Climbs
    <2> QED
      BY <1>6, <2>1, <2>2, <2>3
  <1>8. CASE ExecuteReads(b)
    <2> DEFINE result == Result(TRUE, Value(b))
    <2>1. /\ ~Throws(b) /\ Def(b).kind # "effect" /\ Registers(b, Tracked(b, Snapshot(b)))
          /\ Returns(stack, result) /\ UNCHANGED state
      BY <1>8 DEF ExecuteReads
    <2>2. result \in Results /\ result.ok /\ result.value = Value(b)
      BY ExpressionFits, FramesFit DEF Result
    <2> HIDE DEF result
    <2>3. PICK r \in Results : r = result
      BY <2>2
    <2>4. /\ DepsFit' /\ Covered(b)' /\ Value(b)' = Value(b)
          /\ \A c \in Index : c # b => deps'[c] = deps[c] /\ (c \in threw => c \in threw')
      BY <1>1, <2>1, ExecutionCovers DEF ConsistentFor, Climbs
    <2>5. Right(b, r)'
      <3>1. Def(b)' = Def(b)
        BY <1>1, PageStays
      <3> QED
        BY <2>1, <2>2, <2>3, <2>4, <3>1 DEF Right
    <2> QED
      BY <1>6, <2>1, <2>2, <2>3, <2>4, <2>5
  <1> QED
    BY <1>3, <1>5, <1>7, <1>8 DEF ExecuteBinding

LEMMA MountAppliesServes ==
    ASSUME ReactivityInv, NEW rank, ConsistentFor(rank), MountApplies PROVE ServesOn
  <1> DEFINE call == Apply(Head(todo), FALSE)
  <1>1. /\ phase = "apply" /\ stack = <<>> /\ todo # <<>>
        /\ stack' = <<call>> /\ todo' = Tail(todo)
        /\ UNCHANGED <<page, phase, state, deps, initial, painted, threw>>
    BY DEF MountApplies
  <1>2. PICK b \in Index : b = Head(todo)
    BY <1>1, ReactivityInvParts, HeadTailProperties
  <1>3. call.call = "apply" /\ call.b = b /\ ~call.result.made /\ ~call.result.ok
    BY <1>2 DEF Apply, NoResult
  <1> HIDE DEF call
  <1>4. Len(stack') = 1 /\ stack'[1] = call /\ stack' # <<>> /\ Top' = call
    BY <1>1 DEF Top
  <1>5. ExecutionsHold' /\ TopRight'
    BY <1>3, <1>4 DEF ExecutionsHold, ExecutionHolds, TopRight
  <1>6. DepsFit'
    BY <1>1, DepsStay DEF ConsistentFor, Climbs
  <1>7. \A c : c # b /\ Later(c) => Later(c)'
    <2> SUFFICES ASSUME NEW i \in 1..Len(todo), todo[i] # b
                 PROVE  \E j \in 1..Len(todo') : todo'[j] = todo[i]
      BY <1>1 DEF Later
    <2>1. /\ Len(todo) \in Nat /\ Len(todo') = Len(todo) - 1 /\ b = todo[1]
          /\ \A j \in 1..Len(todo') : todo'[j] = todo[j + 1]
      BY <1>1, <1>2, ReactivityInvParts, HeadTailProperties, LenProperties
    <2>2. i - 1 \in 1..Len(todo') /\ (i - 1) + 1 = i
      BY <2>1
    <2> QED
      BY <2>1, <2>2
  <1>8. ASSUME NEW c \in Index, c # b PROVE Served(c)'
    <2>1. ReadsStay(c)
      BY <1>1 DEF ReadsStay, ReadsSame
    <2>2. Undisturbed(c)
      BY <1>1, <1>7, <1>8, <2>1, NoCallsServe DEF Undisturbed
    <2> QED
      BY <2>2, UndisturbedServes DEF ConsistentFor
  <1>9. Served(b)'
    <2>1. Begins(b)'
      BY <1>3, <1>4 DEF Begins, Running
    <2>2. KeptRight(b) /\ ~Awaited(b) /\ ~Begins(b)
      BY <1>1, NoCallsServe DEF ConsistentFor, Served
    <2>3. Right(b, initial[b]) => Right(b, initial[b])'
      <3>1. ReadsSame(b)
        BY <1>1 DEF ReadsSame
      <3>2. /\ KeysRead(b)' = KeysRead(b) /\ (Throws(b)' <=> Throws(b)) /\ Value(b)' = Value(b)
            /\ Def(b)' = Def(b)
        BY <1>1, <3>1, ValuesStay, PageStays
      <3> QED
        BY <1>1, <3>2 DEF Right, Covered
    <2>4. KeptRight(b)' /\ UsedAtOnce(b)' /\ Owed(b)'
      BY <1>1, <1>4, <2>1, <2>2, <2>3 DEF KeptRight, UsedAtOnce, Owed
    <2> QED
      BY <2>4 DEF Served
  <1> QED
    BY <1>5, <1>6, <1>8, <1>9 DEF ServesOn

LEMMA MountServes ==
    ASSUME ReactivityInv, NEW rank, ConsistentFor(rank),
           MountExecutes \/ MountExecuted \/ MountRestored \/ MountApplies \/ Mounted
    PROVE  ServesOn
  <1>1. CASE MountExecuted
    <2>1. \A b : Later(b)'
      BY <1>1 DEF MountExecuted, Later
    <2> QED
      BY <1>1, <2>1, MountGoesOn DEF MountExecuted
  <1>2. CASE MountRestored
    <2>1. \A b \in Index : \E i \in 1..Len(todo') : todo'[i] = b
      <3>1. \A order \in NewBindings : \A b \in Index : \E i \in 1..Len(order) : order[i] = b
        BY NewBindingsAreAll
      <3> QED
        BY <1>2, <3>1 DEF MountRestored
    <2>2. \A b \in Index : Later(b)'
      BY <1>2, <2>1 DEF MountRestored, Later
    <2> QED
      BY <1>2, <2>2, MountGoesOn DEF MountRestored
  <1>3. CASE Mounted
    <2>1. \A b : ~Later(b)
      <3>1. Len(<<>>) = 0 /\ 1..0 = {}
        OBVIOUS
      <3> QED
        BY <1>3, <3>1 DEF Mounted, Later
    <2> QED
      BY <1>3, <2>1, MountGoesOn DEF Mounted
  <1> QED
    BY <1>1, <1>2, <1>3, MountExecutesServes, MountAppliesServes

----------------------------------------------------------------------------

\* For every order that the page's definitions respect
ConsistentInv == ReactivityInv /\ \A rank \in Ranks : Ranked(rank) => ConsistentFor(rank)

LEMMA ConsistentInitSound == ReactivityInit => ConsistentInv
  <1> SUFFICES ASSUME ReactivityInit, NEW rank \in Ranks, Ranked(rank) PROVE ConsistentFor(rank)
    BY ReactivityInitSound DEF ConsistentInv
  <1>1. /\ stack = <<>> /\ applying = {} /\ phase = "execute"
        /\ deps = [b \in Index |-> {}] /\ initial = [b \in Index |-> NoResult]
    BY DEF ReactivityInit
  <1>2. Climbs(rank)
    BY <1>1, NothingClimbs DEF Climbs, DepsFit
  <1>3. Len(<<>>) = 0 /\ 1..0 = {}
    OBVIOUS
  <1>4. ExecutionsHold /\ TopRight
    BY <1>1, <1>3 DEF ExecutionsHold, TopRight, Running
  <1>5. \A b \in Index : Served(b)
    BY <1>1 DEF Served, KeptRight, UsedAtOnce, Owed, Later, NoResult
  <1> QED
    BY <1>2, <1>4, <1>5 DEF ConsistentFor

LEMMA ConsistentNextSound == ConsistentInv /\ [ReactivityNext]_reactivityVars => ConsistentInv'
  <1> SUFFICES ASSUME ConsistentInv, [ReactivityNext]_reactivityVars PROVE ConsistentInv'
    OBVIOUS
  <1>1. ReactivityInv /\ ReactivityInv'
    BY ReactivityNextSound DEF ConsistentInv
  <1>2. UNCHANGED page
    BY DEF ReactivityNext, Engine, reactivityVars, Write, RunNext, NotifyEnds, ExecuteEnds,
           ApplyExecutes, ApplyStores, ApplyEnds, MountExecutes, MountExecuted, MountRestored,
           MountApplies, Mounted
  <1>3. ASSUME NEW rank \in Ranks, ConsistentFor(rank), ReactivityNext
        PROVE  ClimbsOn(rank) /\ ServesOn
    <2>1. Climbs(rank)
      BY <1>3 DEF ConsistentFor
    <2>2. ASSUME NEW k \in Keys, NEW v \in Values, Write(k, v) PROVE ClimbsOn(rank) /\ ServesOn
      BY <1>1, <1>3, <2>1, <2>2, WriteClimbs, WriteServes
    <2>3. CASE RunNext \/ NotifyEnds \/ ExecuteEnds
      BY <1>1, <1>3, <2>1, <2>3, RunNextClimbs, RunNextServes, NotifyEndsClimbs,
         NotifyEndsServes, ExecuteEndsClimbs, ExecuteEndsServes
    <2>4. CASE ApplyExecutes \/ ApplyStores \/ ApplyEnds
      BY <1>1, <1>3, <2>1, <2>4, ApplyExecutesClimbs, ApplyExecutesServes, ApplyStoresClimbs,
         ApplyStoresServes, ApplyEndsClimbs, ApplyEndsServes
    <2>5. CASE MountExecutes \/ MountExecuted \/ MountRestored \/ MountApplies \/ Mounted
      BY <1>1, <1>3, <2>1, <2>5, MountClimbs, MountServes
    <2> QED
      BY <1>3, <2>2, <2>3, <2>4, <2>5 DEF ReactivityNext, Engine
  <1>4. ASSUME NEW rank \in Ranks, ConsistentFor(rank), UNCHANGED reactivityVars
        PROVE  ConsistentFor(rank)'
    <2>1. UNCHANGED <<page, phase, todo, state, deps, initial, painted, threw, applying, stack>>
      BY <1>4 DEF reactivityVars
    <2>2. /\ Index' = Index /\ Writers' = Writers /\ \A b : Def(b)' = Def(b)
          /\ (Ranked(rank)' <=> Ranked(rank)) /\ Made' = Made /\ Turn' = Turn
      BY <2>1, PageStays DEF Made, Turn
    <2>3. Climbs(rank)'
      BY <1>4, <2>1, <2>2, PageStays, DepsStay DEF ConsistentFor, Climbs
    <2>4. /\ \A b : /\ KeysRead(b)' = KeysRead(b) /\ (Throws(b)' <=> Throws(b))
                    /\ Value(b)' = Value(b)
          /\ \A b : (Later(b)' <=> Later(b))
          /\ (Running("apply")' <=> Running("apply")) /\ Top' = Top
      BY <2>1, <2>2 DEF KeysRead, Throws, Value, Later, Running, Top
    <2>5. \A b : /\ Snapshot(b)' = Snapshot(b) /\ (Covered(b)' <=> Covered(b))
                 /\ (Settled(b)' <=> Settled(b)) /\ (Awaited(b)' <=> Awaited(b))
                 /\ (Executing(b)' <=> Executing(b)) /\ (Begins(b)' <=> Begins(b))
                 /\ (Concludes(b)' <=> Concludes(b))
      BY <2>1, <2>2, <2>4
         DEF Snapshot, Covered, Settled, Awaited, AwaitedBy, InQueue, Executing, Begins, Concludes
    <2>6. \A b, result : Right(b, result)' <=> Right(b, result)
      BY <2>1, <2>2, <2>4, <2>5 DEF Right
    <2>7. ExecutionsHold' /\ TopRight'
      BY <1>4, <2>1, <2>2, <2>4, <2>5, <2>6
         DEF ConsistentFor, ExecutionsHold, ExecutionHolds, TopRight
    <2>8. \A b \in Index : Served(b)'
      BY <1>4, <2>1, <2>2, <2>4, <2>5, <2>6
         DEF ConsistentFor, Served, KeptRight, UsedAtOnce, Owed
    <2> QED
      BY <2>2, <2>3, <2>7, <2>8 DEF ConsistentFor
  <1>5. ASSUME NEW rank \in Ranks, Ranked(rank)' PROVE ConsistentFor(rank)'
    <2>1. Ranked(rank)
      BY <1>2, <1>5, PageStays
    <2>2. ConsistentFor(rank)
      BY <2>1 DEF ConsistentInv
    <2>3. CASE ReactivityNext
      <3>1. ClimbsOn(rank) /\ ServesOn
        BY <1>3, <2>2, <2>3
      <3>2. Shape(rank, stack, Made, Turn, applying)' <=> Shape(rank, stack', Made', Turn', applying')
        <4>1. \A frames, made, turn, busy :
                 Shape(rank, frames, made, turn, busy)' <=> Shape(rank, frames, made, turn, busy)
          BY <1>2, PageStays
        <4> QED
          BY <4>1
      <3>3. Climbs(rank)'
        BY <1>5, <3>1, <3>2 DEF Climbs, ClimbsOn, ServesOn, Ranks
      <3> QED
        BY <1>2, <3>1, <3>3, PageStays DEF ConsistentFor, ServesOn
    <2>4. CASE UNCHANGED reactivityVars
      BY <1>4, <2>2, <2>4
    <2> QED
      BY <2>3, <2>4
  <1> QED
    BY <1>1, <1>5 DEF ConsistentInv, Ranks

THEOREM ConsistentInductive == ReactivitySpec => []ConsistentInv
  BY ConsistentInitSound, ConsistentNextSound, PTL DEF ReactivitySpec

(***************************************************************************)
(* On every page whose definitions do not go in circles, with any number of *)
(* bindings and keys: once a write has returned, whatever is computed or    *)
(* shown is what the state says, unless its last execution threw.           *)
(***************************************************************************)
THEOREM EverythingIsConsistent == ReactivitySpec => []Consistent
  <1>1. ASSUME ConsistentInv PROVE Consistent
    <2> SUFFICES ASSUME phase = "mounted", stack = <<>>, NEW rank \in Ranks, Ranked(rank),
                        NEW b \in Index \ threw
                 PROVE  /\ ~Throws(b)
                        /\ IF b \in Writers THEN state[Def(b).target] = Value(b)
                                            ELSE painted[b] = Value(b)
      BY DEF Consistent, WellFounded
    <2>1. Owed(b)
      BY <1>1 DEF ConsistentInv, ConsistentFor, Served
    <2>2. Settled(b)
      BY <2>1, NoCallsServe DEF Owed, Later
    <2> QED
      BY <2>2 DEF Settled, Covered
  <1> QED
    BY <1>1, ConsistentInductive, PTL

----------------------------------------------------------------------------

(***************************************************************************)
(* Why elements are bound once, and bound when they are there. Of an element*)
(* that neither raced nor was stranded, at most one call of this generation *)
(* has it in hand; what that call has yet to do, the marks on the element   *)
(* do not show, and what no call has in hand a record announces.            *)
(***************************************************************************)

Clean == Elements \ (raced \cup stranded)

\* Held, by c
Holds(c, n) ==
    /\ calls[c].gen = generation /\ n \in calls[c].list
    /\ calls[c].pc \in {"importing", "ready", "returned"}

GenerationsFit ==
    /\ \A c \in DOMAIN calls : calls[c].gen \in 1..generation
    /\ mounted => generation > 0
    /\ ~mounted => /\ records = <<>> /\ processed = {}
                   /\ \A c \in DOMAIN calls : calls[c].gen # generation

ObserverIsCalled == records # <<>> => Queued(Observe)

MountsHaveNoRecords == \A c \in DOMAIN calls : calls[c].by = "mount" => calls[c].rest = <<>>

HandlersFit == \A n \in Elements : (Current(handlers[n]) # {}) = (n \in processed)

HeldByOne ==
    \A n \in Clean : \A c, d \in DOMAIN calls : Holds(c, n) /\ Holds(d, n) => c = d

\* What a call has in hand is where it was, and as far as it got.
HeldFits ==
    \A n \in Clean : \A c \in DOMAIN calls : Holds(c, n) =>
        /\ n \in inRoot
        /\ (n \in processed) = (calls[c].pc = "returned")
        /\ disposers[n] = {}

\* A callback of an older generation has nothing left whose inits it would run.
NothingOld ==
    \A n \in Clean : \A c \in DOMAIN calls :
        calls[c].pc = "returned" /\ calls[c].by = "observer" /\ n \in calls[c].list =>
        calls[c].gen = generation

MarkedOnce ==
    \A n \in Clean : /\ \A l, m \in Current(handlers[n]) : l = m
                     /\ \A l, m \in disposers[n] : l = m

DisposersFit ==
    \A n \in Clean :
        /\ \A m \in disposers[n] : m.gen = generation
        /\ disposers[n] # {} => n \in processed
        /\ n \in processed /\ ~Held(n) => disposers[n] # {}

\* A record not yet dealt with
Announced(what, n) ==
    LET record == [what |-> what, el |-> n]
    IN \/ \E i \in DOMAIN records : records[i] = record
       \/ \E c \in DOMAIN calls : /\ calls[c].gen = generation /\ calls[c].pc # "done"
                                  /\ \E i \in DOMAIN calls[c].rest : calls[c].rest[i] = record

ChangesAreRecorded ==
    mounted => \A n \in Clean :
        /\ n \in processed /\ n \notin inRoot => Announced("removed", n)
        /\ n \in inRoot /\ n \notin processed /\ ~Held(n) => Announced("added", n)

ElementsInv ==
    /\ ElementsTypeOK
    /\ GenerationsFit /\ ObserverIsCalled /\ MountsHaveNoRecords /\ HandlersFit
    /\ HeldByOne /\ HeldFits /\ NothingOld
    /\ MarkedOnce /\ DisposersFit /\ ChangesAreRecorded

----------------------------------------------------------------------------
(* Sequences, and the calls                                                 *)

In(x, seq) == \E i \in DOMAIN seq : seq[i] = x

LEMMA InAppended ==
    ASSUME NEW S, NEW seq \in Seq(S), NEW x \in S
    PROVE  /\ Append(seq, x) \in Seq(S) /\ Append(seq, x) # <<>>
           /\ \A y : In(y, Append(seq, x)) <=> y = x \/ In(y, seq)
  <1> DEFINE s == Append(seq, x)
             n == Len(seq)
  <1>1. s \in Seq(S) /\ n \in Nat /\ Len(s) = n + 1 /\ s[n + 1] = x
        /\ \A i \in 1..n : s[i] = seq[i]
    BY AppendProperties, LenProperties
  <1>2. DOMAIN s = 1..n + 1 /\ DOMAIN seq = 1..n /\ s # <<>>
    BY <1>1, LenProperties, EmptySeq
  <1> HIDE DEF s
  <1>3. \A i \in 1..n + 1 : i \in 1..n \/ i = n + 1
    BY <1>1
  <1>4. \A i \in 1..n : i \in 1..n + 1
    BY <1>1
  <1>5. n + 1 \in 1..n + 1
    BY <1>1
  <1>6. \A y : In(y, s) <=> y = x \/ In(y, seq)
    BY <1>1, <1>2, <1>3, <1>4, <1>5 DEF In
  <1> QED
    BY <1>1, <1>2, <1>6 DEF s

LEMMA InTail ==
    ASSUME NEW S, NEW seq \in Seq(S), seq # <<>>
    PROVE  /\ Head(seq) \in S /\ Tail(seq) \in Seq(S)
           /\ \A y : In(y, seq) <=> y = Head(seq) \/ In(y, Tail(seq))
  <1> DEFINE s == Tail(seq)
             n == Len(seq)
  <1>1. /\ Head(seq) \in S /\ s \in Seq(S) /\ Len(s) = n - 1 /\ n \in Nat \ {0}
        /\ \A i \in 1..n - 1 : s[i] = seq[i + 1]
    BY HeadTailProperties, EmptySeq
  <1>2. DOMAIN s = 1..n - 1 /\ DOMAIN seq = 1..n /\ Head(seq) = seq[1]
    BY <1>1, LenProperties
  <1> HIDE DEF s
  <1>3. \A i \in 1..n : i = 1 \/ (i - 1 \in 1..n - 1 /\ (i - 1) + 1 = i)
    BY <1>1
  <1>4. \A i \in 1..n - 1 : i + 1 \in 1..n
    BY <1>1
  <1>5. 1 \in 1..n
    BY <1>1
  <1>6. ASSUME NEW y PROVE In(y, seq) <=> y = Head(seq) \/ In(y, s)
    <2>1. ASSUME NEW i \in 1..n, seq[i] = y PROVE y = Head(seq) \/ In(y, s)
      <3>1. CASE i = 1
        BY <1>2, <2>1, <3>1
      <3>2. CASE i # 1
        <4>1. i - 1 \in 1..n - 1 /\ s[i - 1] = seq[i]
          BY <1>1, <1>3, <3>2
        <4> QED
          BY <1>2, <2>1, <4>1 DEF In
      <3> QED
        BY <3>1, <3>2
    <2>2. ASSUME NEW i \in 1..n - 1, s[i] = y PROVE In(y, seq)
      BY <1>1, <1>2, <1>4, <2>2 DEF In
    <2>3. y = Head(seq) => In(y, seq)
      BY <1>2, <1>5 DEF In
    <2> QED
      BY <1>2, <2>1, <2>2, <2>3 DEF In
  <1> QED
    BY <1>1, <1>6 DEF s

LEMMA InNothing == \A x : ~In(x, <<>>)
  BY DEF In

LEMMA ElementsFacts ==
    ASSUME ElementsInv
    PROVE  /\ inRoot \subseteq Elements /\ processed \subseteq Elements
           /\ generation \in Nat /\ mounted \in BOOLEAN
           /\ handlers \in [Elements -> SUBSET [gen : 1..generation, call : DOMAIN calls]]
           /\ disposers \in [Elements -> SUBSET [gen : 1..generation, call : DOMAIN calls]]
           /\ records \in Seq(Change) /\ jobs \in Seq({0} \cup DOMAIN calls)
           /\ calls \in Seq(Call) /\ running \in {0} \cup DOMAIN calls
           /\ changes \in 0..MaxChanges /\ mounts \in 0..MaxMounts
           /\ raced \subseteq Elements /\ stranded \subseteq Elements
           /\ DOMAIN calls = 1..Len(calls) /\ Len(calls) \in Nat
           /\ \A c \in DOMAIN calls : calls[c] \in Call
  <1>1. calls \in Seq(Call)
    BY DEF ElementsInv, ElementsTypeOK
  <1>2. DOMAIN calls = 1..Len(calls) /\ Len(calls) \in Nat
    BY <1>1, LenProperties
  <1>3. \A c \in DOMAIN calls : calls[c] \in Call
    BY <1>1, <1>2, ElementOfSeq
  <1> QED
    BY <1>1, <1>2, <1>3 DEF ElementsInv, ElementsTypeOK

LEMMA OneCallChanges ==
    ASSUME ElementsInv, NEW c \in DOMAIN calls, NEW call \in Call,
           calls' = [calls EXCEPT ![c] = call]
    PROVE  /\ calls' \in Seq(Call) /\ Len(calls') = Len(calls)
           /\ DOMAIN calls' = DOMAIN calls
           /\ calls'[c] = call
           /\ \A d \in DOMAIN calls : d # c => calls'[d] = calls[d]
  BY ElementsFacts, ExceptSeq

LEMMA OneCallMore ==
    ASSUME ElementsInv, NEW call \in Call, calls' = Append(calls, call)
    PROVE  /\ calls' \in Seq(Call) /\ Len(calls') = Len(calls) + 1
           /\ DOMAIN calls' = DOMAIN calls \cup {Len(calls) + 1}
           /\ Len(calls) + 1 \notin DOMAIN calls
           /\ calls'[Len(calls) + 1] = call
           /\ \A d \in DOMAIN calls : calls'[d] = calls[d]
  <1>1. /\ calls' \in Seq(Call) /\ Len(calls') = Len(calls) + 1
        /\ calls'[Len(calls) + 1] = call /\ \A d \in 1..Len(calls) : calls'[d] = calls[d]
    BY ElementsFacts, AppendProperties
  <1>2. DOMAIN calls' = 1..Len(calls) + 1
    BY <1>1, LenProperties
  <1>3. \A n \in Nat : 1..n + 1 = 1..n \cup {n + 1} /\ n + 1 \notin 1..n
    OBVIOUS
  <1> QED
    BY <1>1, <1>2, <1>3, ElementsFacts

----------------------------------------------------------------------------
(* The steps                                                                *)

\* Jobs come and go, and a call goes on without touching an element.
LEMMA CallGoesOn ==
    ASSUME ElementsInv,
           UNCHANGED <<inRoot, generation, mounted, processed, handlers, disposers, records,
                       changes, mounts, raced, stranded>>,
           jobs' \in Seq({0} \cup DOMAIN calls), running' \in {0} \cup DOMAIN calls,
           In(Observe, jobs) => In(Observe, jobs'),
           NEW c \in DOMAIN calls, NEW call \in Call,
           calls' = [calls EXCEPT ![c] = call],
           call.gen = calls[c].gen, call.by = calls[c].by, call.list = calls[c].list,
           call.rest = calls[c].rest,
           \/ call.pc = calls[c].pc
           \/ calls[c].pc = "importing" /\ call.pc = "ready"
           \/ calls[c].pc = "next" /\ call.pc = "done" /\ (mounted => call.rest = <<>>)
    PROVE  ElementsInv'
  <1>1. /\ calls' \in Seq(Call) /\ DOMAIN calls' = DOMAIN calls /\ calls'[c] = call
        /\ \A d \in DOMAIN calls : d # c => calls'[d] = calls[d]
    BY OneCallChanges
  <1>2. \A d \in DOMAIN calls :
            /\ calls'[d].gen = calls[d].gen /\ calls'[d].by = calls[d].by
            /\ calls'[d].list = calls[d].list /\ calls'[d].rest = calls[d].rest
            /\ calls'[d].pc = "returned" <=> calls[d].pc = "returned"
            /\ calls'[d].pc \in {"importing", "ready", "returned"} <=>
               calls[d].pc \in {"importing", "ready", "returned"}
            /\ calls'[d].pc = "done" =>
               calls[d].pc = "done" \/ (mounted => calls[d].rest = <<>>)
    BY <1>1
  <1>3. ElementsTypeOK'
    BY <1>1, ElementsFacts DEF ElementsTypeOK
  <1>4. \A n : Held(n)' <=> Held(n)
    BY <1>1, <1>2 DEF Held
  <1>5. \A n, d : d \in DOMAIN calls => (Holds(d, n)' <=> Holds(d, n))
    BY <1>2 DEF Holds
  <1>6. GenerationsFit' /\ ObserverIsCalled' /\ MountsHaveNoRecords'
    <2>1. Queued(Observe) => Queued(Observe)'
      BY DEF In, Queued
    <2> QED
      BY <1>1, <1>2, <2>1
         DEF ElementsInv, GenerationsFit, ObserverIsCalled, MountsHaveNoRecords
  <1>7. HandlersFit'
    BY DEF ElementsInv, HandlersFit, Current
  <1>8. HeldByOne' /\ HeldFits' /\ NothingOld'
    <2>1. Clean' = Clean
      BY DEF Clean
    <2> QED
      BY <1>1, <1>2, <1>5, <2>1 DEF ElementsInv, HeldByOne, HeldFits, NothingOld
  <1>9. MarkedOnce' /\ DisposersFit'
    BY <1>4 DEF ElementsInv, MarkedOnce, DisposersFit, Current, Clean
  <1>10. ChangesAreRecorded'
    <2>1. \A what, n : mounted /\ Announced(what, n) => Announced(what, n)'
      <3> SUFFICES ASSUME NEW what, NEW n, mounted, Announced(what, n)
                   PROVE  Announced(what, n)'
        OBVIOUS
      <3> DEFINE record == [what |-> what, el |-> n]
      <3>1. CASE In(record, records)
        BY <3>1 DEF Announced, In
      <3>2. CASE ~In(record, records)
        <4>1. PICK d \in DOMAIN calls : /\ calls[d].gen = generation /\ calls[d].pc # "done"
                                        /\ In(record, calls[d].rest)
          BY <3>2 DEF Announced, In
        <4>2. calls[d].rest # <<>>
          BY <4>1, InNothing
        <4>3. calls'[d].pc # "done"
          BY <1>2, <4>1, <4>2
        <4> QED
          BY <1>1, <1>2, <4>1, <4>3 DEF Announced, In
      <3> QED
        BY <3>1, <3>2
    <2> QED
      BY <1>4, <2>1 DEF ElementsInv, ChangesAreRecorded, Clean
  <1> QED
    BY <1>3, <1>6, <1>7, <1>8, <1>9, <1>10 DEF ElementsInv

LEMMA ImportsSettleSound ==
    ASSUME ElementsInv, NEW c \in DOMAIN calls, ImportsSettle(c) PROVE ElementsInv'
  <1> DEFINE call == [calls[c] EXCEPT !.pc = "ready"]
  <1>1. /\ calls[c].pc = "importing" /\ running' = running
        /\ calls' = [calls EXCEPT ![c].pc = "ready"] /\ jobs' = Append(jobs, c)
        /\ UNCHANGED <<inRoot, generation, mounted, processed, handlers, disposers, records,
                       changes, mounts, raced, stranded>>
    BY DEF ImportsSettle
  <1>2. calls[c] \in Call
    BY ElementsFacts
  <1>3. /\ call \in Call /\ call.gen = calls[c].gen /\ call.by = calls[c].by
        /\ call.list = calls[c].list /\ call.rest = calls[c].rest /\ call.pc = "ready"
    BY <1>2 DEF Call
  <1>4. calls' = [calls EXCEPT ![c] = call]
    BY <1>1
  <1>5. /\ jobs' \in Seq({0} \cup DOMAIN calls)
        /\ In(Observe, jobs) => In(Observe, jobs')
    BY <1>1, ElementsFacts, InAppended
  <1> HIDE DEF call
  <1> QED
    BY <1>1, <1>3, <1>4, <1>5, ElementsFacts, CallGoesOn

LEMMA ResumeSound ==
    ASSUME ElementsInv, NEW c \in DOMAIN calls, Resume(c) PROVE ElementsInv'
  <1>1. /\ jobs # <<>> /\ Head(jobs) = c /\ c # Observe /\ running' = c /\ jobs' = Tail(jobs)
        /\ UNCHANGED <<inRoot, generation, mounted, processed, handlers, disposers, records,
                       calls, changes, mounts, raced, stranded>>
    BY DEF Resume
  <1>2. calls[c] \in Call /\ calls' = [calls EXCEPT ![c] = calls[c]]
    BY <1>1, ElementsFacts
  <1>3. /\ jobs' \in Seq({0} \cup DOMAIN calls)
        /\ In(Observe, jobs) => In(Observe, jobs')
    BY <1>1, ElementsFacts, InTail
  <1> DEFINE call == calls[c]
  <1>4. call \in Call /\ calls' = [calls EXCEPT ![c] = call] /\ call = calls[c]
    BY <1>2
  <1> HIDE DEF call
  <1> QED
    BY <1>1, <1>3, <1>4, CallGoesOn

LEMMA RecordsEndSound ==
    ASSUME ElementsInv, NEW c \in DOMAIN calls, RecordsEnd(c) PROVE ElementsInv'
  <1> DEFINE call == [calls[c] EXCEPT !.pc = "done"]
  <1>1. /\ calls[c].pc = "next" /\ (calls[c].rest = <<>> \/ ~mounted) /\ running' = 0
        /\ calls' = [calls EXCEPT ![c].pc = "done"]
        /\ UNCHANGED <<inRoot, generation, mounted, processed, handlers, disposers, records,
                       jobs, changes, mounts, raced, stranded>>
    BY DEF RecordsEnd, AtNextRecord
  <1>2. calls[c] \in Call
    BY ElementsFacts
  <1>3. /\ call \in Call /\ call.gen = calls[c].gen /\ call.by = calls[c].by
        /\ call.list = calls[c].list /\ call.rest = calls[c].rest /\ call.pc = "done"
    BY <1>2 DEF Call
  <1>4. calls' = [calls EXCEPT ![c] = call]
    BY <1>1
  <1>5. /\ jobs' \in Seq({0} \cup DOMAIN calls)
        /\ In(Observe, jobs) => In(Observe, jobs')
    BY <1>1, ElementsFacts
  <1>6. calls[c].pc = "next" /\ call.pc = "done" /\ (mounted => call.rest = <<>>)
    BY <1>1, <1>3
  <1>7. running' \in {0} \cup DOMAIN calls
    BY <1>1
  <1> HIDE DEF call
  <1> QED
    BY <1>1, <1>3, <1>4, <1>5, <1>6, <1>7, CallGoesOn

LEMMA CleanIsElement == \A n \in Clean : n \in Elements
  BY DEF Clean

LEMMA HeldIsHeld == \A n : Held(n) <=> \E c \in DOMAIN calls : Holds(c, n)
  BY DEF Held, Holds

\* The page inserts or removes n.
LEMMA ChangesSound ==
    ASSUME ElementsInv, NEW n \in Elements, Insert(n) \/ Remove(n) PROVE ElementsInv'
  <1>1. PICK what \in {"added", "removed"} :
            /\ Changes(what, n)
            /\ \A m \in Elements : m # n => (m \in inRoot' <=> m \in inRoot)
            /\ (n \in inRoot') = (what = "added")
            /\ inRoot' \subseteq Elements
    BY ElementsFacts DEF Insert, Remove
  <1> DEFINE record == [what |-> what, el |-> n]
  <1>2. /\ changes' = changes + 1 /\ changes < MaxChanges
        /\ IF mounted THEN /\ records' = Append(records, record)
                           /\ jobs' = IF Queued(Observe) THEN jobs ELSE Append(jobs, Observe)
                      ELSE UNCHANGED <<records, jobs>>
        /\ raced' = IF Held(n) THEN raced \cup {n} ELSE raced
        /\ UNCHANGED <<generation, mounted, processed, handlers, disposers, calls, running,
                       mounts, stranded>>
    BY <1>1 DEF Changes
  <1>3. record \in Change
    BY DEF Change
  <1> HIDE DEF record
  <1>4. /\ records' \in Seq(Change)
        /\ \A r : In(r, records) => In(r, records')
        /\ mounted => In(record, records')
    <2>1. records \in Seq(Change)
      BY ElementsFacts
    <2>2. /\ Append(records, record) \in Seq(Change)
          /\ \A r : In(r, Append(records, record)) <=> r = record \/ In(r, records)
      BY <1>3, <2>1, InAppended
    <2> QED
      BY <1>2, <2>1, <2>2
  <1>5. /\ jobs' \in Seq({0} \cup DOMAIN calls)
        /\ mounted => In(Observe, jobs')
    <2>1. Queued(Observe) <=> In(Observe, jobs)
      BY DEF Queued, In
    <2>2. Observe \in {0} \cup DOMAIN calls /\ jobs \in Seq({0} \cup DOMAIN calls)
      BY ElementsFacts DEF Observe
    <2>3. /\ Append(jobs, Observe) \in Seq({0} \cup DOMAIN calls)
          /\ \A j : In(j, Append(jobs, Observe)) <=> j = Observe \/ In(j, jobs)
      BY <2>2, InAppended
    <2> QED
      BY <1>2, <2>1, <2>2, <2>3
  <1>6. ElementsTypeOK'
    <2>1. changes' \in 0..MaxChanges
      BY <1>2, ElementsFacts, ElementsAssumption
    <2> QED
      BY <1>1, <1>2, <1>4, <1>5, <2>1, ElementsFacts DEF ElementsTypeOK
  <1>7. Clean' \subseteq Clean /\ (Held(n) => n \notin Clean')
    BY <1>2 DEF Clean
  <1>8. /\ \A m : Held(m)' <=> Held(m)
        /\ \A m, c : Holds(c, m)' <=> Holds(c, m)
    BY <1>2 DEF Held, Holds
  <1>9. GenerationsFit' /\ ObserverIsCalled' /\ MountsHaveNoRecords' /\ HandlersFit'
    <2>1. In(Observe, jobs)' => Queued(Observe)'
      BY DEF In, Queued
    <2>2. ~mounted => records' = <<>>
      BY <1>2 DEF ElementsInv, GenerationsFit
    <2> QED
      BY <1>2, <1>5, <2>1, <2>2
         DEF ElementsInv, GenerationsFit, ObserverIsCalled, MountsHaveNoRecords, HandlersFit,
             Current, In
  <1>10. HeldByOne' /\ NothingOld' /\ MarkedOnce' /\ DisposersFit'
    BY <1>2, <1>7, <1>8
       DEF ElementsInv, HeldByOne, NothingOld, MarkedOnce, DisposersFit, Current
  <1>11. HeldFits'
    <2> SUFFICES ASSUME NEW m \in Clean', NEW c \in DOMAIN calls, Holds(c, m)
                 PROVE  /\ m \in inRoot' /\ (m \in processed) = (calls[c].pc = "returned")
                        /\ disposers[m] = {}
      BY <1>2, <1>8 DEF HeldFits
    <2>1. m \in Clean /\ m \in Elements /\ m # n
      BY <1>7, HeldIsHeld, CleanIsElement
    <2> QED
      BY <1>1, <2>1 DEF ElementsInv, HeldFits
  <1>12. ChangesAreRecorded'
    <2>1. \A w, m : Announced(w, m) => Announced(w, m)'
      BY <1>2, <1>4 DEF Announced, In
    <2>2. mounted => Announced(what, n)'
      BY <1>4 DEF Announced, In, record
    <2> SUFFICES ASSUME mounted, NEW m \in Clean'
                 PROVE  /\ m \in processed /\ m \notin inRoot' => Announced("removed", m)'
                        /\ m \in inRoot' /\ m \notin processed /\ ~Held(m) => Announced("added", m)'
      BY <1>2, <1>8 DEF ChangesAreRecorded
    <2>3. m \in Clean /\ m \in Elements
      BY <1>7, CleanIsElement
    <2>4. CASE m = n
      BY <1>1, <2>2, <2>4
    <2>5. CASE m # n
      BY <1>1, <2>1, <2>3, <2>5 DEF ElementsInv, ChangesAreRecorded
    <2> QED
      BY <2>4, <2>5
  <1> QED
    BY <1>6, <1>9, <1>10, <1>11, <1>12 DEF ElementsInv

LEMMA ProcessReturnsSound ==
    ASSUME ElementsInv, NEW c \in DOMAIN calls, ProcessReturns(c) PROVE ElementsInv'
  <1> DEFINE list == IF calls[c].gen = generation THEN calls[c].list ELSE {}
             call == [calls[c] EXCEPT !.pc = "returned", !.list = list]
  <1>1. /\ calls[c].pc = "ready" /\ running' = 0 /\ jobs' = Append(jobs, c)
        /\ UNCHANGED <<inRoot, generation, mounted, disposers, records, changes, mounts,
                       raced, stranded>>
    BY DEF ProcessReturns
  <1>2. calls[c] \in Call
    BY ElementsFacts
  <1>3. /\ call \in Call /\ call.gen = calls[c].gen /\ call.by = calls[c].by
        /\ call.list = list /\ call.rest = calls[c].rest /\ call.pc = "returned"
    BY <1>2 DEF Call
  <1>4. /\ calls' = [calls EXCEPT ![c] = call]
        /\ processed' = processed \cup list
        /\ handlers' = [n \in Elements |-> IF n \in list THEN handlers[n] \cup {Mark(c)}
                                                         ELSE handlers[n]]
    <2>1. CASE calls[c].gen = generation
      BY <1>2, <2>1 DEF ProcessReturns, Bind, Call
    <2>2. CASE calls[c].gen # generation
      <3>1. handlers = [n \in Elements |-> handlers[n]]
        BY ElementsFacts
      <3> QED
        BY <1>2, <2>2, <3>1 DEF ProcessReturns, Bind, Call
    <2> QED
      BY <2>1, <2>2
  <1> HIDE DEF call
  <1>5. list \subseteq Elements /\ list \subseteq calls[c].list
    BY <1>2 DEF Call
  <1>6. \A n \in list : calls[c].gen = generation /\ Holds(c, n)
    BY <1>1, <1>5 DEF Holds
  <1>7. calls[c].gen = generation => list = calls[c].list
    OBVIOUS
  <1> HIDE DEF list
  <1>8. /\ calls' \in Seq(Call) /\ DOMAIN calls' = DOMAIN calls /\ calls'[c] = call
        /\ \A d \in DOMAIN calls : d # c => calls'[d] = calls[d]
    BY <1>3, <1>4, OneCallChanges
  <1>9. \A d \in DOMAIN calls : /\ calls'[d].gen = calls[d].gen /\ calls'[d].by = calls[d].by
                                /\ calls'[d].rest = calls[d].rest
                                /\ calls'[d].pc = "done" <=> calls[d].pc = "done"
    BY <1>1, <1>3, <1>8
  <1>10. \A d \in DOMAIN calls : \A n : Holds(d, n)' <=> Holds(d, n)
    BY <1>1, <1>3, <1>7, <1>8 DEF Holds
  <1>11. Clean' = Clean /\ \A n : Held(n)' <=> Held(n)
    BY <1>1, <1>8, <1>10, HeldIsHeld DEF Clean, Held, Holds
  <1>12. Mark(c) \in [gen : 1..generation, call : DOMAIN calls] /\ Mark(c).gen = calls[c].gen
    BY DEF ElementsInv, GenerationsFit, Mark
  <1>13. ElementsTypeOK'
    <2>1. jobs' \in Seq({0} \cup DOMAIN calls)
      BY <1>1, ElementsFacts, InAppended
    <2>2. handlers' \in [Elements -> SUBSET [gen : 1..generation, call : DOMAIN calls]]
      BY <1>4, <1>12, ElementsFacts
    <2> QED
      BY <1>1, <1>4, <1>5, <1>8, <2>1, <2>2, ElementsFacts DEF ElementsTypeOK
  <1>14. GenerationsFit' /\ ObserverIsCalled' /\ MountsHaveNoRecords'
    <2>1. Queued(Observe) => Queued(Observe)'
      <3>1. In(Observe, jobs) => In(Observe, jobs')
        BY <1>1, ElementsFacts, InAppended
      <3> QED
        BY <3>1 DEF In, Queued
    <2>2. ~mounted => list = {}
      BY <1>6 DEF ElementsInv, GenerationsFit
    <2> QED
      BY <1>1, <1>4, <1>8, <1>9, <2>1, <2>2
         DEF ElementsInv, GenerationsFit, ObserverIsCalled, MountsHaveNoRecords
  <1>15. \A n \in Elements : Current(handlers[n])' =
             IF n \in list THEN Current(handlers[n]) \cup {Mark(c)} ELSE Current(handlers[n])
    BY <1>1, <1>4, <1>6, <1>12 DEF Current
  <1>16. HandlersFit'
    <2> SUFFICES ASSUME NEW n \in Elements
                 PROVE  (Current(handlers[n])' # {}) = (n \in processed')
      BY DEF HandlersFit
    <2>1. (Current(handlers[n]) # {}) = (n \in processed)
      BY DEF ElementsInv, HandlersFit
    <2>2. CASE n \in list
      BY <1>4, <1>15, <2>2
    <2>3. CASE n \notin list
      <3>1. Current(handlers[n])' = Current(handlers[n])
        BY <1>15, <2>3
      <3>2. n \in processed' <=> n \in processed
        BY <1>4, <2>3
      <3> QED
        BY <2>1, <3>1, <3>2
    <2> QED
      BY <2>2, <2>3
  <1>17. HeldByOne' /\ NothingOld'
    BY <1>1, <1>3, <1>8, <1>10, <1>11, <1>6 DEF ElementsInv, HeldByOne, NothingOld
  <1>18. HeldFits'
    <2> SUFFICES ASSUME NEW n \in Clean, NEW d \in DOMAIN calls, Holds(d, n)
                 PROVE  /\ n \in inRoot /\ (n \in processed') = (calls'[d].pc = "returned")
                        /\ disposers[n] = {}
      BY <1>1, <1>8, <1>10, <1>11 DEF HeldFits
    <2>1. n \in inRoot /\ disposers[n] = {} /\ (n \in processed) = (calls[d].pc = "returned")
      BY DEF ElementsInv, HeldFits
    <2>2. CASE d = c
      <3>1. n \in list
        BY <1>7, <2>2 DEF Holds
      <3> QED
        BY <1>3, <1>4, <1>8, <2>1, <2>2, <3>1
    <2>3. CASE d # c
      <3>1. n \notin list
        BY <1>6, <2>3 DEF ElementsInv, HeldByOne
      <3> QED
        BY <1>4, <1>8, <2>1, <2>3, <3>1
    <2> QED
      BY <2>2, <2>3
  <1>19. MarkedOnce'
    <2>1. ASSUME NEW n \in Clean, n \in list PROVE Current(handlers[n]) = {}
      <3>1. n \notin processed
        BY <1>1, <1>6, <2>1 DEF ElementsInv, HeldFits
      <3> QED
        BY <3>1, CleanIsElement DEF ElementsInv, HandlersFit
    <2> SUFFICES ASSUME NEW n \in Clean
                 PROVE  /\ \A l, m \in Current(handlers[n])' : l = m
                        /\ \A l, m \in disposers[n] : l = m
      BY <1>1, <1>11 DEF MarkedOnce
    <2>2. /\ \A l, m \in Current(handlers[n]) : l = m
          /\ \A l, m \in disposers[n] : l = m
      BY DEF ElementsInv, MarkedOnce
    <2>3. CASE n \in list
      <3>1. Current(handlers[n])' = {Mark(c)}
        BY <1>15, <2>1, <2>3, CleanIsElement
      <3> QED
        BY <2>2, <3>1
    <2>4. CASE n \notin list
      BY <1>15, <2>2, <2>4, CleanIsElement
    <2> QED
      BY <2>3, <2>4
  <1>20. DisposersFit'
    <2>1. \A n \in list : Held(n)
      BY <1>6, HeldIsHeld
    <2> QED
      BY <1>1, <1>4, <1>11, <2>1 DEF ElementsInv, DisposersFit
  <1>21. ChangesAreRecorded'
    <2>1. \A w, n : Announced(w, n) => Announced(w, n)'
      BY <1>1, <1>8, <1>9 DEF Announced
    <2>2. \A n \in list : n \in Clean => n \in inRoot
      BY <1>6 DEF ElementsInv, HeldFits
    <2> QED
      BY <1>1, <1>4, <1>11, <2>1, <2>2 DEF ElementsInv, ChangesAreRecorded
  <1> QED
    BY <1>13, <1>14, <1>16, <1>17, <1>18, <1>19, <1>20, <1>21 DEF ElementsInv

\* A call is through with its list: what it still held has its inits run.
LEMMA ReleaseSound ==
    ASSUME ElementsInv, NEW c \in DOMAIN calls, calls[c].pc = "returned",
           NEW call \in Call, calls' = [calls EXCEPT ![c] = call],
           call.gen = calls[c].gen, call.by = calls[c].by, call.list = {},
           call.rest = calls[c].rest, call.pc \in {"next", "done"},
           call.pc = "done" => call.rest = <<>>,
           disposers' \in [Elements -> SUBSET [gen : 1..generation, call : DOMAIN calls]],
           \A n \in Clean : disposers'[n] = IF Holds(c, n) THEN {[gen |-> generation, call |-> c]}
                                                           ELSE disposers[n],
           running' \in {0} \cup DOMAIN calls,
           UNCHANGED <<inRoot, generation, mounted, processed, handlers, records, jobs,
                       changes, mounts, raced, stranded>>
    PROVE  ElementsInv'
  <1>1. /\ calls' \in Seq(Call) /\ DOMAIN calls' = DOMAIN calls /\ calls'[c] = call
        /\ \A d \in DOMAIN calls : d # c => calls'[d] = calls[d]
    BY OneCallChanges
  <1>2. \A d \in DOMAIN calls : /\ calls'[d].gen = calls[d].gen /\ calls'[d].by = calls[d].by
                                /\ calls'[d].rest = calls[d].rest
    BY <1>1
  <1>3. \A d \in DOMAIN calls : \A n : Holds(d, n)' <=> d # c /\ Holds(d, n)
    BY <1>1 DEF Holds
  <1>4. Clean' = Clean
    BY DEF Clean
  <1>5. ElementsTypeOK'
    BY <1>1, ElementsFacts DEF ElementsTypeOK
  <1>6. GenerationsFit' /\ ObserverIsCalled' /\ MountsHaveNoRecords' /\ HandlersFit'
    BY <1>1, <1>2 DEF ElementsInv, GenerationsFit, ObserverIsCalled, MountsHaveNoRecords,
                      HandlersFit, Current, Queued
  <1>7. HeldByOne'
    BY <1>1, <1>3, <1>4 DEF ElementsInv, HeldByOne
  <1>8. HeldFits'
    <2> SUFFICES ASSUME NEW n \in Clean, NEW d \in DOMAIN calls, d # c, Holds(d, n)
                 PROVE  /\ n \in inRoot /\ (n \in processed) = (calls[d].pc = "returned")
                        /\ disposers'[n] = {}
      BY <1>1, <1>3, <1>4 DEF HeldFits
    <2>1. ~Holds(c, n)
      BY DEF ElementsInv, HeldByOne
    <2>2. disposers'[n] = disposers[n]
      BY <2>1
    <2> QED
      BY <2>2 DEF ElementsInv, HeldFits
  <1>9. NothingOld'
    BY <1>1, <1>4 DEF ElementsInv, NothingOld
  <1>10. MarkedOnce'
    <2> SUFFICES ASSUME NEW n \in Clean
                 PROVE  /\ \A l, m \in Current(handlers[n])' : l = m
                        /\ \A l, m \in disposers'[n] : l = m
      BY <1>4 DEF MarkedOnce
    <2>1. Current(handlers[n])' = Current(handlers[n])
      BY DEF Current
    <2>2. /\ \A l, m \in Current(handlers[n]) : l = m
          /\ \A l, m \in disposers[n] : l = m
      BY DEF ElementsInv, MarkedOnce
    <2>3. disposers'[n] = {[gen |-> generation, call |-> c]} \/ disposers'[n] = disposers[n]
      OBVIOUS
    <2>4. \A l, m \in disposers'[n] : l = m
      BY <2>2, <2>3
    <2> QED
      BY <2>1, <2>2, <2>4
  <1>11. \A n \in Clean : Holds(c, n) => n \in processed /\ Held(n)
    BY HeldIsHeld DEF ElementsInv, HeldFits
  <1>12. \A n \in Clean : Held(n)' <=> \E d \in DOMAIN calls : d # c /\ Holds(d, n)
    BY <1>1, <1>2 DEF Held, Holds
  <1>13. DisposersFit'
    <2> SUFFICES ASSUME NEW n \in Clean
                 PROVE  /\ \A m \in disposers'[n] : m.gen = generation
                        /\ disposers'[n] # {} => n \in processed
                        /\ n \in processed /\ ~Held(n)' => disposers'[n] # {}
      BY <1>4 DEF DisposersFit
    <2>1. CASE Holds(c, n)
      <3>1. disposers'[n] = {[gen |-> generation, call |-> c]}
        BY <2>1
      <3> QED
        BY <1>11, <2>1, <3>1
    <2>2. CASE ~Holds(c, n)
      <3>1. disposers'[n] = disposers[n]
        BY <2>2
      <3>2. Held(n)' <=> Held(n)
        BY <1>12, <2>2, HeldIsHeld
      <3> QED
        BY <3>1, <3>2 DEF ElementsInv, DisposersFit
    <2> QED
      BY <2>1, <2>2
  <1>14. ChangesAreRecorded'
    <2>1. \A w, n : Announced(w, n) => Announced(w, n)'
      <3> SUFFICES ASSUME NEW w, NEW n, Announced(w, n) PROVE Announced(w, n)'
        OBVIOUS
      <3> DEFINE record == [what |-> w, el |-> n]
      <3>1. CASE In(record, records)
        BY <3>1 DEF Announced, In
      <3>2. CASE ~In(record, records)
        <4>1. PICK d \in DOMAIN calls : /\ calls[d].gen = generation /\ calls[d].pc # "done"
                                        /\ In(record, calls[d].rest)
          BY <3>2 DEF Announced, In
        <4>2. calls[d].rest # <<>>
          BY <4>1, InNothing
        <4>3. calls'[d].pc # "done"
          BY <1>1, <4>1, <4>2
        <4> QED
          BY <1>1, <1>2, <4>1, <4>3 DEF Announced, In
      <3> QED
        BY <3>1, <3>2
    <2> SUFFICES ASSUME mounted, NEW n \in Clean
                 PROVE  /\ n \in processed /\ n \notin inRoot => Announced("removed", n)'
                        /\ n \in inRoot /\ n \notin processed /\ ~Held(n)' => Announced("added", n)'
      BY <1>4 DEF ChangesAreRecorded
    <2>2. n \notin processed => ~Holds(c, n)
      BY <1>11
    <2>3. n \notin processed /\ ~Held(n)' => ~Held(n)
      BY <1>12, <2>2, HeldIsHeld
    <2> QED
      BY <2>1, <2>3 DEF ElementsInv, ChangesAreRecorded
  <1> QED
    BY <1>5, <1>6, <1>7, <1>8, <1>9, <1>10, <1>13, <1>14 DEF ElementsInv

LEMMA InitsRun ==
    ASSUME ElementsInv, NEW c \in DOMAIN calls, NEW list, RunInits(c, list)
    PROVE  /\ disposers' \in [Elements -> SUBSET [gen : 1..generation, call : DOMAIN calls]]
           /\ \A n \in Elements : disposers'[n] =
                 IF n \in list /\ mounted THEN disposers[n] \cup {[gen |-> generation, call |-> c]}
                                          ELSE disposers[n]
  <1>1. mounted => generation \in 1..generation
    BY ElementsFacts DEF ElementsInv, GenerationsFit
  <1> QED
    BY <1>1, ElementsFacts DEF RunInits

LEMMA MountReturnsSound ==
    ASSUME ElementsInv, NEW c \in DOMAIN calls, MountReturns(c) PROVE ElementsInv'
  <1> DEFINE call == [calls[c] EXCEPT !.pc = "done", !.list = {}]
  <1>1. /\ calls[c].by = "mount" /\ calls[c].pc = "returned" /\ running' = 0
        /\ IF calls[c].gen = generation THEN RunInits(c, calls[c].list) ELSE UNCHANGED disposers
        /\ calls' = [calls EXCEPT ![c].pc = "done", ![c].list = {}]
        /\ UNCHANGED <<inRoot, generation, mounted, processed, handlers, records, jobs,
                       changes, mounts, raced, stranded>>
    BY DEF MountReturns
  <1>2. calls[c] \in Call /\ calls[c].rest = <<>>
    BY <1>1, ElementsFacts DEF ElementsInv, MountsHaveNoRecords
  <1>3. /\ call \in Call /\ call.gen = calls[c].gen /\ call.by = calls[c].by
        /\ call.list = {} /\ call.rest = calls[c].rest /\ call.pc = "done"
    BY <1>2 DEF Call
  <1>4. calls' = [calls EXCEPT ![c] = call]
    BY <1>1, <1>2 DEF Call
  <1> HIDE DEF call
  <1>5. disposers' \in [Elements -> SUBSET [gen : 1..generation, call : DOMAIN calls]]
    BY <1>1, ElementsFacts, InitsRun
  <1>6. ASSUME NEW n \in Clean
        PROVE  disposers'[n] = IF Holds(c, n) THEN {[gen |-> generation, call |-> c]}
                                              ELSE disposers[n]
    <2>1. CASE calls[c].gen = generation
      <3>1. mounted
        BY <2>1 DEF ElementsInv, GenerationsFit
      <3>2. Holds(c, n) <=> n \in calls[c].list
        BY <1>1, <2>1 DEF Holds
      <3>3. Holds(c, n) => disposers[n] = {}
        BY DEF ElementsInv, HeldFits
      <3>4. disposers'[n] = IF n \in calls[c].list
                            THEN disposers[n] \cup {[gen |-> generation, call |-> c]}
                            ELSE disposers[n]
        BY <1>1, <2>1, <3>1, InitsRun, CleanIsElement
      <3> QED
        BY <3>2, <3>3, <3>4
    <2>2. CASE calls[c].gen # generation
      BY <1>1, <2>2 DEF Holds
    <2> QED
      BY <2>1, <2>2
  <1>7. call.pc \in {"next", "done"} /\ call.rest = <<>> /\ running' \in {0} \cup DOMAIN calls
    BY <1>1, <1>2, <1>3
  <1> QED
    BY <1>1, <1>3, <1>4, <1>5, <1>6, <1>7, ReleaseSound

LEMMA AddedProcessedSound ==
    ASSUME ElementsInv, NEW c \in DOMAIN calls, AddedProcessed(c) PROVE ElementsInv'
  <1> DEFINE call == [calls[c] EXCEPT !.pc = "next", !.list = {}]
  <1>1. /\ calls[c].by = "observer" /\ calls[c].pc = "returned" /\ running' = running
        /\ RunInits(c, calls[c].list \cap inRoot)
        /\ calls' = [calls EXCEPT ![c].pc = "next", ![c].list = {}]
        /\ UNCHANGED <<inRoot, generation, mounted, processed, handlers, records, jobs,
                       changes, mounts, raced, stranded>>
    BY DEF AddedProcessed
  <1>2. calls[c] \in Call
    BY ElementsFacts
  <1>3. /\ call \in Call /\ call.gen = calls[c].gen /\ call.by = calls[c].by
        /\ call.list = {} /\ call.rest = calls[c].rest /\ call.pc = "next"
    BY <1>2 DEF Call
  <1>4. calls' = [calls EXCEPT ![c] = call]
    BY <1>1, <1>2 DEF Call
  <1> HIDE DEF call
  <1>5. disposers' \in [Elements -> SUBSET [gen : 1..generation, call : DOMAIN calls]]
    BY <1>1, InitsRun
  <1>6. ASSUME NEW n \in Clean
        PROVE  disposers'[n] = IF Holds(c, n) THEN {[gen |-> generation, call |-> c]}
                                              ELSE disposers[n]
    <2>1. disposers'[n] = IF n \in calls[c].list \cap inRoot /\ mounted
                          THEN disposers[n] \cup {[gen |-> generation, call |-> c]}
                          ELSE disposers[n]
      <3> DEFINE list == calls[c].list \cap inRoot
      <3>1. RunInits(c, list)
        BY <1>1
      <3> HIDE DEF list
      <3>2. disposers'[n] = IF n \in list /\ mounted
                            THEN disposers[n] \cup {[gen |-> generation, call |-> c]}
                            ELSE disposers[n]
        BY <3>1, InitsRun, CleanIsElement
      <3> QED
        BY <3>2 DEF list
    <2>2. Holds(c, n) <=> n \in calls[c].list
      BY <1>1 DEF ElementsInv, NothingOld, Holds
    <2>3. Holds(c, n) => mounted /\ n \in inRoot /\ disposers[n] = {}
      BY DEF ElementsInv, HeldFits, GenerationsFit, Holds
    <2> QED
      BY <2>1, <2>2, <2>3
  <1>7. call.pc \in {"next", "done"} /\ call.pc # "done" /\ running' \in {0} \cup DOMAIN calls
    BY <1>1, <1>3, ElementsFacts
  <1> QED
    BY <1>1, <1>3, <1>4, <1>5, <1>6, <1>7, ReleaseSound

\* What is left of the marks of one generation once it is over
LEMMA OlderMarks ==
    ASSUME ElementsInv
    PROVE  /\ \A n \in Elements : \A m \in handlers[n] \cup disposers[n] : m.gen \in 1..generation
           /\ \A n \in Elements : Current(OlderThan(handlers[n])) = {}
           /\ \A n \in Elements : OlderThan(handlers[n]) \subseteq handlers[n]
           /\ \A n \in Elements : OlderThan(disposers[n]) \subseteq disposers[n]
           /\ \A n \in Clean : OlderThan(disposers[n]) = {}
  <1>1. \A n \in Elements : \A m \in handlers[n] \cup disposers[n] : m.gen \in 1..generation
    BY ElementsFacts
  <1>2. \A n \in Elements : Current(OlderThan(handlers[n])) = {}
    BY DEF Current, OlderThan
  <1>3. /\ \A n \in Elements : OlderThan(handlers[n]) \subseteq handlers[n]
        /\ \A n \in Elements : OlderThan(disposers[n]) \subseteq disposers[n]
    BY DEF OlderThan
  <1>4. \A n \in Clean : OlderThan(disposers[n]) = {}
    BY DEF ElementsInv, DisposersFit, OlderThan
  <1> QED
    BY <1>1, <1>2, <1>3, <1>4

\* Whatever the new generation begins with, nothing is left of the old one.
LEMMA EndGenerationFits ==
    ASSUME ElementsInv, EndGeneration
    PROVE  /\ generation' = generation + 1 /\ records' = <<>> /\ processed' = {}
           /\ mounts' \in 0..MaxMounts
           /\ raced' \subseteq Elements /\ stranded' \subseteq Elements
           /\ \A n \in Elements : handlers'[n] \subseteq handlers[n]
           /\ handlers' \in [Elements -> SUBSET [gen : 1..generation, call : DOMAIN calls]]
           /\ disposers' \in [Elements -> SUBSET [gen : 1..generation, call : DOMAIN calls]]
           /\ \A n \in Elements : Current(handlers[n])' = {}
           /\ Clean' \subseteq Clean
           /\ \A n \in Clean' : disposers'[n] = {}
           /\ \A n \in Clean' : \A c \in DOMAIN calls :
                 ~(calls[c].pc = "returned" /\ calls[c].by = "observer" /\ n \in calls[c].list)
  <1>1. /\ generation' = generation + 1 /\ records' = <<>> /\ processed' = {}
        /\ mounts < MaxMounts /\ mounts' = mounts + 1
        /\ raced' = raced \cup {n \in Elements : \E c \in DOMAIN calls :
                /\ calls[c].by = "observer" /\ calls[c].pc = "returned"
                /\ n \in calls[c].list}
    BY DEF EndGeneration
  <1>2. mounts' \in 0..MaxMounts
    BY <1>1, ElementsFacts, ElementsAssumption
  <1>3. /\ raced' \subseteq Elements /\ stranded' \subseteq Elements
        /\ \A n \in Elements : handlers'[n] \subseteq handlers[n]
        /\ handlers' \in [Elements -> SUBSET [gen : 1..generation, call : DOMAIN calls]]
        /\ disposers' \in [Elements -> SUBSET [gen : 1..generation, call : DOMAIN calls]]
        /\ Clean' \subseteq Clean
        /\ \A n \in Clean' : disposers'[n] = {}
    <2>1. CASE mounted
      <3>1. /\ handlers' = [n \in Elements |-> IF n \in inRoot THEN OlderThan(handlers[n])
                                                               ELSE handlers[n]]
            /\ disposers' = [n \in Elements |-> IF n \in inRoot THEN OlderThan(disposers[n])
                                                                ELSE disposers[n]]
            /\ stranded' = stranded \cup {n \in Elements \ inRoot : disposers[n] # {}}
        BY <2>1 DEF EndGeneration
      <3>2. /\ \A n \in Elements : handlers'[n] \subseteq handlers[n]
            /\ \A n \in Elements : disposers'[n] \subseteq disposers[n]
        BY <3>1, OlderMarks
      <3>3. /\ handlers' \in [Elements -> SUBSET [gen : 1..generation, call : DOMAIN calls]]
            /\ disposers' \in [Elements -> SUBSET [gen : 1..generation, call : DOMAIN calls]]
        <4>1. /\ handlers' = [n \in Elements |-> handlers'[n]]
              /\ disposers' = [n \in Elements |-> disposers'[n]]
          BY <3>1
        <4> QED
          BY <3>2, <4>1, ElementsFacts
      <3>4. Clean' \subseteq Clean
        BY <1>1, <3>1 DEF Clean
      <3>5. \A n \in Clean' : disposers'[n] = {}
        BY <3>1, <3>4, OlderMarks DEF Clean
      <3>6. raced' \subseteq Elements /\ stranded' \subseteq Elements
        BY <1>1, <3>1, ElementsFacts
      <3> QED
        BY <3>2, <3>3, <3>4, <3>5, <3>6
    <2>2. CASE ~mounted
      <3>1. UNCHANGED <<handlers, disposers, stranded>>
        BY <2>2 DEF EndGeneration
      <3>2. Clean' \subseteq Clean
        BY <1>1, <3>1 DEF Clean
      <3>3. \A n \in Clean : disposers[n] = {}
        BY <2>2 DEF ElementsInv, GenerationsFit, DisposersFit
      <3>4. raced' \subseteq Elements /\ stranded' \subseteq Elements
        BY <1>1, <3>1, ElementsFacts
      <3> QED
        BY <3>1, <3>2, <3>3, <3>4, ElementsFacts
    <2> QED
      BY <2>1, <2>2
  <1>5. ASSUME NEW n \in Elements PROVE Current(handlers[n])' = {}
    <2>1. \A m \in handlers'[n] : m.gen \in 1..generation
      BY <1>3, OlderMarks
    <2>2. generation + 1 \notin 1..generation
      BY ElementsFacts
    <2> QED
      BY <1>1, <2>1, <2>2 DEF Current
  <1>6. \A n \in Clean' : \A c \in DOMAIN calls :
            ~(calls[c].pc = "returned" /\ calls[c].by = "observer" /\ n \in calls[c].list)
    BY <1>1 DEF Clean
  <1> QED
    BY <1>1, <1>2, <1>3, <1>5, <1>6

LEMMA TeardownSound == ASSUME ElementsInv, Teardown PROVE ElementsInv'
  <1>1. EndGeneration /\ mounted' = FALSE /\ UNCHANGED <<inRoot, jobs, calls, running, changes>>
    BY DEF Teardown
  <1>2. \A c \in DOMAIN calls : calls[c].gen \in 1..generation
    BY DEF ElementsInv, GenerationsFit
  <1>3. /\ generation' = generation + 1 /\ generation' \in Nat /\ 1..generation \subseteq 1..generation'
        /\ generation' \notin 1..generation
    BY <1>1, ElementsFacts, EndGenerationFits
  <1>4. \A c, n : c \in DOMAIN calls => ~Holds(c, n)'
    BY <1>1, <1>2, <1>3 DEF Holds
  <1>5. ElementsTypeOK'
    <2>1. /\ handlers' \in [Elements -> SUBSET [gen : 1..generation', call : DOMAIN calls]]
          /\ disposers' \in [Elements -> SUBSET [gen : 1..generation', call : DOMAIN calls]]
      BY <1>1, <1>3, EndGenerationFits
    <2>2. <<>> \in Seq(Change)
      BY EmptySeq
    <2> QED
      BY <1>1, <1>3, <2>1, <2>2, ElementsFacts, EndGenerationFits DEF ElementsTypeOK
  <1>6. GenerationsFit' /\ ObserverIsCalled' /\ MountsHaveNoRecords'
    BY <1>1, <1>2, <1>3, EndGenerationFits
       DEF ElementsInv, GenerationsFit, ObserverIsCalled, MountsHaveNoRecords
  <1>7. HandlersFit'
    BY <1>1, EndGenerationFits DEF HandlersFit
  <1>8. HeldByOne' /\ HeldFits'
    BY <1>1, <1>4 DEF HeldByOne, HeldFits
  <1>9. NothingOld'
    BY <1>1, EndGenerationFits DEF NothingOld
  <1>10. MarkedOnce' /\ DisposersFit'
    <2>1. \A n \in Clean' : n \in Elements /\ disposers'[n] = {} /\ Current(handlers[n])' = {}
      BY <1>1, EndGenerationFits, CleanIsElement
    <2>2. processed' = {}
      BY <1>1, EndGenerationFits
    <2> QED
      BY <2>1, <2>2 DEF MarkedOnce, DisposersFit
  <1>11. ChangesAreRecorded'
    BY <1>1 DEF ChangesAreRecorded
  <1> QED
    BY <1>5, <1>6, <1>7, <1>8, <1>9, <1>10, <1>11 DEF ElementsInv

LEMMA MountBegins == ASSUME ElementsInv, Mount PROVE ElementsInv'
  <1> DEFINE new == Len(calls) + 1
             waits == inRoot \cap Importing # {}
             call == [by |-> "mount", gen |-> generation + 1, list |-> inRoot,
                      pc |-> IF waits THEN "importing" ELSE "ready", rest |-> <<>>]
  <1>1. /\ EndGeneration /\ mounted' = TRUE /\ UNCHANGED <<inRoot, jobs, changes>>
        /\ calls' = Append(calls, call) /\ running' \in {0, new}
    BY DEF Mount
  <1>2. call \in Call
    <2>1. <<>> \in Seq(Change)
      BY EmptySeq
    <2> QED
      BY <2>1, ElementsFacts DEF Call
  <1>3. /\ call.by = "mount" /\ call.gen = generation + 1 /\ call.list = inRoot
        /\ call.pc \in {"importing", "ready"} /\ call.rest = <<>>
    OBVIOUS
  <1> HIDE DEF call, new
  <1>4. /\ calls' \in Seq(Call)
        /\ DOMAIN calls' = DOMAIN calls \cup {new} /\ new \notin DOMAIN calls
        /\ calls'[new] = call
        /\ \A d \in DOMAIN calls : calls'[d] = calls[d]
    BY <1>1, <1>2, OneCallMore DEF new
  <1>5. \A c \in DOMAIN calls : calls[c].gen \in 1..generation
    BY DEF ElementsInv, GenerationsFit
  <1>6. /\ generation' = generation + 1 /\ generation' \in Nat /\ generation' > 0
        /\ 1..generation \subseteq 1..generation' /\ generation' \notin 1..generation
        /\ generation' \in 1..generation'
    BY <1>1, ElementsFacts, EndGenerationFits
  <1>7. \A c \in DOMAIN calls' : \A n : Holds(c, n)' <=> c = new /\ n \in inRoot
    BY <1>3, <1>4, <1>5, <1>6 DEF Holds
  <1>8. ElementsTypeOK'
    <2>1. /\ handlers' \in [Elements -> SUBSET [gen : 1..generation', call : DOMAIN calls']]
          /\ disposers' \in [Elements -> SUBSET [gen : 1..generation', call : DOMAIN calls']]
      <3>1. [gen : 1..generation, call : DOMAIN calls] \subseteq
            [gen : 1..generation', call : DOMAIN calls']
        BY <1>4, <1>6
      <3> QED
        BY <1>1, <3>1, EndGenerationFits
    <2>2. <<>> \in Seq(Change) /\ jobs' \in Seq({0} \cup DOMAIN calls')
      BY <1>1, <1>4, EmptySeq, SeqMonotonic, ElementsFacts
    <2> QED
      BY <1>1, <1>4, <1>6, <2>1, <2>2, ElementsFacts, EndGenerationFits DEF ElementsTypeOK
  <1>9. GenerationsFit' /\ ObserverIsCalled' /\ MountsHaveNoRecords'
    BY <1>1, <1>3, <1>4, <1>5, <1>6, EndGenerationFits
       DEF ElementsInv, GenerationsFit, ObserverIsCalled, MountsHaveNoRecords
  <1>10. HandlersFit'
    BY <1>1, EndGenerationFits DEF HandlersFit
  <1>11. \A n \in Clean' : n \in Elements /\ disposers'[n] = {} /\ Current(handlers[n])' = {}
    BY <1>1, EndGenerationFits, CleanIsElement
  <1>12. processed' = {} /\ inRoot' = inRoot
    BY <1>1, EndGenerationFits
  <1>13. HeldByOne' /\ HeldFits'
    BY <1>3, <1>4, <1>7, <1>11, <1>12 DEF HeldByOne, HeldFits
  <1>14. NothingOld'
    BY <1>1, <1>3, <1>4, EndGenerationFits DEF NothingOld
  <1>15. MarkedOnce' /\ DisposersFit'
    BY <1>11, <1>12 DEF MarkedOnce, DisposersFit
  <1>16. ChangesAreRecorded'
    <2>1. \A n \in inRoot : Held(n)'
      BY <1>3, <1>4, <1>6 DEF Held
    <2> QED
      BY <1>12, <2>1 DEF ChangesAreRecorded
  <1> QED
    BY <1>8, <1>9, <1>10, <1>13, <1>14, <1>15, <1>16 DEF ElementsInv

LEMMA ObserverCalledSound == ASSUME ElementsInv, ObserverCalled PROVE ElementsInv'
  <1>1. /\ jobs # <<>> /\ jobs' = Tail(jobs) /\ records' = <<>>
        /\ UNCHANGED <<inRoot, generation, mounted, processed, handlers, disposers, changes,
                       mounts, raced, stranded>>
    BY DEF ObserverCalled
  <1>2. jobs' \in Seq({0} \cup DOMAIN calls)
    BY <1>1, ElementsFacts, InTail
  <1>3. Clean' = Clean /\ \A n : Current(handlers[n])' = Current(handlers[n])
    BY <1>1 DEF Clean, Current
  <1>4. CASE records = <<>>
    <2>1. UNCHANGED <<calls, running, records>>
      BY <1>1, <1>4 DEF ObserverCalled
    <2>2. ElementsTypeOK'
      BY <1>1, <1>2, <2>1, ElementsFacts DEF ElementsTypeOK
    <2>3. /\ \A n : Held(n)' <=> Held(n)
          /\ \A n, c : Holds(c, n)' <=> Holds(c, n)
          /\ \A w, n : Announced(w, n)' <=> Announced(w, n)
      BY <1>1, <2>1 DEF Held, Holds, Announced
    <2>4. GenerationsFit' /\ ObserverIsCalled' /\ MountsHaveNoRecords' /\ HandlersFit'
      BY <1>1, <1>3, <2>1
         DEF ElementsInv, GenerationsFit, ObserverIsCalled, MountsHaveNoRecords, HandlersFit
    <2>5. HeldByOne' /\ HeldFits' /\ NothingOld'
      BY <1>1, <1>3, <2>1, <2>3 DEF ElementsInv, HeldByOne, HeldFits, NothingOld
    <2>6. MarkedOnce' /\ DisposersFit' /\ ChangesAreRecorded'
      <3>1. MarkedOnce'
        <4> SUFFICES ASSUME NEW n \in Clean
                     PROVE  /\ \A k, l \in Current(handlers[n])' : k = l
                            /\ \A k, l \in disposers'[n] : k = l
          BY <1>3 DEF MarkedOnce
        <4> QED
          BY <1>1, <1>3 DEF ElementsInv, MarkedOnce
      <3>2. DisposersFit'
        BY <1>1, <1>3, <2>1, <2>3 DEF ElementsInv, DisposersFit
      <3>3. ChangesAreRecorded'
        BY <1>1, <1>3, <2>1, <2>3 DEF ElementsInv, ChangesAreRecorded
      <3> QED
        BY <3>1, <3>2, <3>3
    <2> QED
      BY <2>2, <2>4, <2>5, <2>6 DEF ElementsInv
  <1>5. CASE records # <<>>
    <2> DEFINE new == Len(calls) + 1
               call == [by |-> "observer", gen |-> generation, list |-> {}, pc |-> "next",
                        rest |-> records]
    <2>1. calls' = Append(calls, call) /\ running' = new
      BY <1>5 DEF ObserverCalled
    <2>2. /\ call \in Call /\ call.by = "observer" /\ call.gen = generation /\ call.list = {}
          /\ call.pc = "next" /\ call.rest = records
      BY ElementsFacts DEF Call
    <2> HIDE DEF call, new
    <2>3. /\ calls' \in Seq(Call)
          /\ DOMAIN calls' = DOMAIN calls \cup {new} /\ new \notin DOMAIN calls
          /\ calls'[new] = call
          /\ \A d \in DOMAIN calls : calls'[d] = calls[d]
      BY <2>1, <2>2, OneCallMore DEF new
    <2>4. mounted /\ generation \in 1..generation
      BY <1>5, ElementsFacts DEF ElementsInv, GenerationsFit
    <2>5. /\ \A c \in DOMAIN calls' : \A n : Holds(c, n)' <=> c \in DOMAIN calls /\ Holds(c, n)
          /\ \A n : Held(n)' <=> Held(n)
      BY <1>1, <2>2, <2>3 DEF Holds, Held
    <2>6. \A w, n : Announced(w, n) => Announced(w, n)'
      <3> SUFFICES ASSUME NEW w, NEW n, Announced(w, n) PROVE Announced(w, n)'
        OBVIOUS
      <3> DEFINE record == [what |-> w, el |-> n]
      <3>1. CASE In(record, records)
        <4>1. /\ calls'[new].gen = generation' /\ calls'[new].pc # "done"
              /\ In(record, calls'[new].rest) /\ new \in DOMAIN calls'
          BY <1>1, <2>2, <2>3, <3>1
        <4> QED
          BY <4>1 DEF Announced, In
      <3>2. CASE ~In(record, records)
        <4>1. PICK d \in DOMAIN calls : /\ calls[d].gen = generation /\ calls[d].pc # "done"
                                        /\ In(record, calls[d].rest)
          BY <3>2 DEF Announced, In
        <4> QED
          BY <1>1, <2>3, <4>1 DEF Announced, In
      <3> QED
        BY <3>1, <3>2
    <2>7. ElementsTypeOK'
      <3>1. /\ handlers' \in [Elements -> SUBSET [gen : 1..generation', call : DOMAIN calls']]
            /\ disposers' \in [Elements -> SUBSET [gen : 1..generation', call : DOMAIN calls']]
        <4>1. [gen : 1..generation, call : DOMAIN calls] \subseteq
              [gen : 1..generation', call : DOMAIN calls']
          BY <1>1, <2>3
        <4> QED
          BY <1>1, <4>1, ElementsFacts
      <3>2. <<>> \in Seq(Change) /\ jobs' \in Seq({0} \cup DOMAIN calls')
        BY <1>2, <2>3, EmptySeq, SeqMonotonic
      <3> QED
        BY <1>1, <2>1, <2>3, <3>1, <3>2, ElementsFacts DEF ElementsTypeOK
    <2>8. GenerationsFit' /\ ObserverIsCalled' /\ MountsHaveNoRecords' /\ HandlersFit'
      BY <1>1, <1>3, <2>2, <2>3, <2>4
         DEF ElementsInv, GenerationsFit, ObserverIsCalled, MountsHaveNoRecords, HandlersFit
    <2>9. HeldByOne' /\ HeldFits' /\ NothingOld'
      BY <1>1, <1>3, <2>2, <2>3, <2>5 DEF ElementsInv, HeldByOne, HeldFits, NothingOld
    <2>10. MarkedOnce' /\ DisposersFit' /\ ChangesAreRecorded'
      <3>1. MarkedOnce'
        <4> SUFFICES ASSUME NEW n \in Clean
                     PROVE  /\ \A k, l \in Current(handlers[n])' : k = l
                            /\ \A k, l \in disposers'[n] : k = l
          BY <1>3 DEF MarkedOnce
        <4> QED
          BY <1>1, <1>3 DEF ElementsInv, MarkedOnce
      <3>2. DisposersFit'
        BY <1>1, <1>3, <2>5, <2>6 DEF ElementsInv, DisposersFit
      <3>3. ChangesAreRecorded'
        BY <1>1, <1>3, <2>5, <2>6 DEF ElementsInv, ChangesAreRecorded
      <3> QED
        BY <3>1, <3>2, <3>3
    <2> QED
      BY <2>7, <2>8, <2>9, <2>10 DEF ElementsInv
  <1> QED
    BY <1>4, <1>5

\* A call takes its next record, and nothing but that record is no longer announced.
LEMMA RecordTaken ==
    ASSUME ElementsInv, NEW c \in DOMAIN calls, calls[c].pc = "next", calls[c].rest # <<>>,
           NEW call \in Call, calls' = [calls EXCEPT ![c] = call],
           call.gen = calls[c].gen, call.pc # "done", call.rest = Tail(calls[c].rest),
           UNCHANGED <<generation, records>>
    PROVE  /\ \A w, n : Announced(w, n) =>
                  \/ Announced(w, n)'
                  \/ Head(calls[c].rest) = [what |-> w, el |-> n] /\ calls[c].gen = generation
           /\ Head(calls[c].rest) \in Change /\ Head(calls[c].rest).el \in Elements
  <1>1. /\ calls' \in Seq(Call) /\ DOMAIN calls' = DOMAIN calls /\ calls'[c] = call
        /\ \A d \in DOMAIN calls : d # c => calls'[d] = calls[d]
    BY OneCallChanges
  <1>2. calls[c].rest \in Seq(Change)
    BY ElementsFacts DEF Call
  <1>3. /\ Head(calls[c].rest) \in Change
        /\ \A r : In(r, calls[c].rest) => r = Head(calls[c].rest) \/ In(r, call.rest)
    BY <1>2, InTail
  <1>4. Head(calls[c].rest).el \in Elements
    BY <1>3 DEF Change
  <1>5. ASSUME NEW w, NEW n, Announced(w, n)
        PROVE  \/ Announced(w, n)'
               \/ Head(calls[c].rest) = [what |-> w, el |-> n] /\ calls[c].gen = generation
    <2> DEFINE record == [what |-> w, el |-> n]
    <2>1. CASE In(record, records)
      BY <2>1 DEF Announced, In
    <2>2. CASE ~In(record, records)
      <3>1. PICK d \in DOMAIN calls : /\ calls[d].gen = generation /\ calls[d].pc # "done"
                                      /\ In(record, calls[d].rest)
        BY <1>5, <2>2 DEF Announced, In
      <3>2. CASE d # c
        BY <1>1, <3>1, <3>2 DEF Announced, In
      <3>3. CASE d = c
        <4>1. Head(calls[c].rest) = record \/ In(record, calls'[c].rest)
          BY <1>1, <1>3, <3>1, <3>3
        <4> QED
          BY <1>1, <3>1, <3>3, <4>1 DEF Announced, In
      <3> QED
        BY <3>2, <3>3
    <2> QED
      BY <2>1, <2>2
  <1> QED
    BY <1>3, <1>4, <1>5

LEMMA RemovedRecordSound ==
    ASSUME ElementsInv, NEW c \in DOMAIN calls, RemovedRecord(c) PROVE ElementsInv'
  <1> DEFINE n == Head(calls[c].rest).el
             call == [calls[c] EXCEPT !.rest = Tail(@)]
  <1>1. /\ calls[c].pc = "next" /\ mounted /\ calls[c].rest # <<>>
        /\ Head(calls[c].rest).what = "removed"
        /\ IF n \in inRoot THEN UNCHANGED <<handlers, disposers, processed>> ELSE CleanUp({n})
        /\ calls' = [calls EXCEPT ![c].rest = Tail(@)]
        /\ UNCHANGED <<inRoot, generation, mounted, records, jobs, running, changes, mounts,
                       raced, stranded>>
    BY DEF RemovedRecord, AtNextRecord
  <1>2. calls[c] \in Call /\ calls[c].rest \in Seq(Change)
    BY ElementsFacts DEF Call
  <1>3. Tail(calls[c].rest) \in Seq(Change)
    BY <1>1, <1>2, HeadTailProperties
  <1>4. /\ call \in Call /\ call.gen = calls[c].gen /\ call.by = calls[c].by
        /\ call.list = calls[c].list /\ call.rest = Tail(calls[c].rest)
        /\ call.pc = calls[c].pc /\ call.pc # "done"
    BY <1>1, <1>2, <1>3 DEF Call
  <1>5. calls' = [calls EXCEPT ![c] = call]
    BY <1>1
  <1> HIDE DEF call
  <1>6. /\ calls' \in Seq(Call) /\ DOMAIN calls' = DOMAIN calls /\ calls'[c] = call
        /\ \A d \in DOMAIN calls : d # c => calls'[d] = calls[d]
    BY <1>4, <1>5, OneCallChanges
  <1>7. /\ \A w, m : Announced(w, m) =>
               \/ Announced(w, m)'
               \/ Head(calls[c].rest) = [what |-> w, el |-> m] /\ calls[c].gen = generation
        /\ n \in Elements
    BY <1>1, <1>4, <1>5, RecordTaken
  <1>8. \A w, m : Announced(w, m) => Announced(w, m)' \/ (w = "removed" /\ m = n)
    <2>1. \A w, m : Head(calls[c].rest) = [what |-> w, el |-> m] => w = "removed" /\ m = n
      BY <1>1
    <2> QED
      BY <1>7, <2>1
  <1> HIDE DEF n
  <1>9. \A d \in DOMAIN calls :
            /\ calls'[d].gen = calls[d].gen /\ calls'[d].by = calls[d].by
            /\ calls'[d].list = calls[d].list /\ calls'[d].pc = calls[d].pc
    BY <1>4, <1>6
  <1>10. /\ \A d \in DOMAIN calls : \A m : Holds(d, m)' <=> Holds(d, m)
         /\ \A m : Held(m)' <=> Held(m)
    BY <1>1, <1>6, <1>9 DEF Holds, Held
  <1>11. Clean' = Clean
    BY <1>1 DEF Clean
  <1>12. \A m \in Elements :
            IF m = n /\ n \notin inRoot
            THEN /\ m \notin processed' /\ handlers'[m] = OlderThan(handlers[m])
                 /\ disposers'[m] = OlderThan(disposers[m])
            ELSE /\ m \in processed' <=> m \in processed
                 /\ handlers'[m] = handlers[m] /\ disposers'[m] = disposers[m]
    BY <1>1 DEF CleanUp
  <1>13. \A m \in Elements :
            IF m = n /\ n \notin inRoot
            THEN m \notin processed' /\ Current(handlers[m])' = {}
            ELSE /\ m \in processed' <=> m \in processed
                 /\ Current(handlers[m])' = Current(handlers[m])
    BY <1>1, <1>12 DEF Current, OlderThan
  <1>14. \A m \in Clean : /\ m \in Elements
                          /\ IF m = n /\ n \notin inRoot THEN disposers'[m] = {}
                             ELSE disposers'[m] = disposers[m]
    BY <1>12, OlderMarks, CleanIsElement
  <1>15. ElementsTypeOK'
    <2>1. /\ handlers' = [m \in Elements |-> handlers'[m]]
          /\ disposers' = [m \in Elements |-> disposers'[m]]
          /\ processed' \subseteq Elements
      BY <1>1, ElementsFacts DEF CleanUp
    <2>2. \A m \in Elements : handlers'[m] \subseteq handlers[m] /\ disposers'[m] \subseteq disposers[m]
      BY <1>12, OlderMarks
    <2>3. /\ handlers' \in [Elements -> SUBSET [gen : 1..generation, call : DOMAIN calls]]
          /\ disposers' \in [Elements -> SUBSET [gen : 1..generation, call : DOMAIN calls]]
      BY <2>1, <2>2, ElementsFacts
    <2> QED
      BY <1>1, <1>6, <2>1, <2>3, ElementsFacts DEF ElementsTypeOK
  <1>16. GenerationsFit' /\ ObserverIsCalled' /\ MountsHaveNoRecords'
    <2>1. calls[c].by # "mount"
      BY <1>1 DEF ElementsInv, MountsHaveNoRecords
    <2> QED
      BY <1>1, <1>6, <1>9, <2>1
         DEF ElementsInv, GenerationsFit, ObserverIsCalled, MountsHaveNoRecords, Queued
  <1>17. HandlersFit'
    <2> SUFFICES ASSUME NEW m \in Elements
                 PROVE  (Current(handlers[m])' # {}) = (m \in processed')
      BY DEF HandlersFit
    <2>1. (Current(handlers[m]) # {}) = (m \in processed)
      BY DEF ElementsInv, HandlersFit
    <2>2. CASE m = n /\ n \notin inRoot
      BY <1>13, <2>2
    <2>3. CASE ~(m = n /\ n \notin inRoot)
      <3>1. (m \in processed' <=> m \in processed) /\ Current(handlers[m])' = Current(handlers[m])
        BY <1>13, <2>3
      <3> QED
        BY <2>1, <3>1
    <2> QED
      BY <2>2, <2>3
  <1>18. HeldByOne' /\ NothingOld'
    BY <1>1, <1>6, <1>9, <1>10, <1>11 DEF ElementsInv, HeldByOne, NothingOld
  <1>19. HeldFits'
    <2> SUFFICES ASSUME NEW m \in Clean, NEW d \in DOMAIN calls, Holds(d, m)
                 PROVE  /\ m \in inRoot /\ (m \in processed') = (calls[d].pc = "returned")
                        /\ disposers'[m] = {}
      BY <1>1, <1>6, <1>9, <1>10, <1>11 DEF HeldFits
    <2>1. m \in inRoot /\ (m \in processed) = (calls[d].pc = "returned") /\ disposers[m] = {}
      BY DEF ElementsInv, HeldFits
    <2>2. m \in processed' <=> m \in processed
      BY <1>13, <1>14, <2>1
    <2> QED
      BY <1>14, <2>1, <2>2
  <1>20. MarkedOnce'
    <2> SUFFICES ASSUME NEW m \in Clean
                 PROVE  /\ \A k, l \in Current(handlers[m])' : k = l
                        /\ \A k, l \in disposers'[m] : k = l
      BY <1>11 DEF MarkedOnce
    <2> QED
      BY <1>13, <1>14 DEF ElementsInv, MarkedOnce
  <1>21. DisposersFit'
    <2> SUFFICES ASSUME NEW m \in Clean
                 PROVE  /\ \A k \in disposers'[m] : k.gen = generation
                        /\ disposers'[m] # {} => m \in processed'
                        /\ m \in processed' /\ ~Held(m) => disposers'[m] # {}
      BY <1>1, <1>10, <1>11 DEF DisposersFit
    <2> QED
      BY <1>13, <1>14 DEF ElementsInv, DisposersFit
  <1>22. ChangesAreRecorded'
    <2> SUFFICES ASSUME NEW m \in Clean
                 PROVE  /\ m \in processed' /\ m \notin inRoot => Announced("removed", m)'
                        /\ m \in inRoot /\ m \notin processed' /\ ~Held(m) => Announced("added", m)'
      BY <1>1, <1>10, <1>11 DEF ChangesAreRecorded
    <2> QED
      BY <1>1, <1>8, <1>13, <1>14 DEF ElementsInv, ChangesAreRecorded
  <1> QED
    BY <1>15, <1>16, <1>17, <1>18, <1>19, <1>20, <1>21, <1>22 DEF ElementsInv

LEMMA AddedRecordSound ==
    ASSUME ElementsInv, NEW c \in DOMAIN calls, AddedRecord(c) PROVE ElementsInv'
  <1> DEFINE n == Head(calls[c].rest).el
             onward == [calls[c] EXCEPT !.rest = Tail(@)]
             waits == Unprocessed({n}) \cap Importing # {}
             taken == [onward EXCEPT !.list = Unprocessed({n}),
                                     !.pc = IF waits THEN "importing" ELSE "ready"]
             call == IF ToProcess(n) THEN taken ELSE onward
  <1>1. /\ calls[c].pc = "next" /\ mounted /\ calls[c].rest # <<>>
        /\ Head(calls[c].rest).what = "added"
        /\ IF ToProcess(n)
           THEN ProcessElements(c, onward, {n})
           ELSE calls' = [calls EXCEPT ![c] = onward] /\ UNCHANGED <<running, raced>>
        /\ UNCHANGED <<inRoot, generation, mounted, processed, handlers, disposers, records,
                       jobs, changes, mounts, stranded>>
    BY DEF AddedRecord, AtNextRecord
  <1>2. calls[c] \in Call /\ calls[c].rest \in Seq(Change)
    BY ElementsFacts DEF Call
  <1>3. Tail(calls[c].rest) \in Seq(Change) /\ Head(calls[c].rest) \in Change
    BY <1>1, <1>2, HeadTailProperties
  <1>4. n \in Elements
    BY <1>3 DEF Change
  <1>5. /\ onward \in Call /\ onward.gen = calls[c].gen /\ onward.by = calls[c].by
        /\ onward.list = calls[c].list /\ onward.rest = Tail(calls[c].rest) /\ onward.pc = "next"
    BY <1>1, <1>2, <1>3 DEF Call
  <1>6. ToProcess(n) => Unprocessed({n}) = {n} /\ n \in inRoot /\ n \notin processed
    BY DEF ToProcess, Unprocessed
  <1>7. /\ calls' = [calls EXCEPT ![c] = call]
        /\ running' \in {0, c, running}
        /\ raced' = raced \cup {m \in Elements : m = n /\ ToProcess(n) /\ Held(n)}
    <2>1. CASE ToProcess(n)
      BY <1>1, <1>4, <1>6, <2>1 DEF ProcessElements
    <2>2. CASE ~ToProcess(n)
      BY <1>1, <2>2
    <2> QED
      BY <2>1, <2>2
  <1> HIDE DEF onward
  <1>8. /\ call \in Call /\ call.gen = calls[c].gen /\ call.by = calls[c].by
        /\ call.rest = Tail(calls[c].rest)
        /\ IF ToProcess(n) THEN call.list = {n} /\ call.pc \in {"importing", "ready"}
                           ELSE call.list = calls[c].list /\ call.pc = "next"
    BY <1>4, <1>5, <1>6 DEF Call
  <1> HIDE DEF call
  <1>9. /\ calls' \in Seq(Call) /\ DOMAIN calls' = DOMAIN calls /\ calls'[c] = call
        /\ \A d \in DOMAIN calls : d # c => calls'[d] = calls[d]
    BY <1>7, <1>8, OneCallChanges
  <1>10. \A w, m : Announced(w, m) =>
             \/ Announced(w, m)'
             \/ Head(calls[c].rest) = [what |-> w, el |-> m] /\ calls[c].gen = generation
    BY <1>1, <1>7, <1>8, RecordTaken
  <1>11. \A w, m : Announced(w, m) =>
             Announced(w, m)' \/ (w = "added" /\ m = n /\ calls[c].gen = generation)
    <2>1. \A w, m : Head(calls[c].rest) = [what |-> w, el |-> m] => w = "added" /\ m = n
      BY <1>1
    <2> QED
      BY <1>10, <2>1
  <1> HIDE DEF n
  <1>12. \A d \in DOMAIN calls : calls'[d].gen = calls[d].gen /\ calls'[d].by = calls[d].by
    BY <1>8, <1>9
  <1>13. \A d \in DOMAIN calls : \A m :
             Holds(d, m)' <=> \/ Holds(d, m)
                              \/ d = c /\ m = n /\ ToProcess(n) /\ calls[c].gen = generation
    BY <1>1, <1>8, <1>9 DEF Holds
  <1>14. \A m : Holds(c, m) => FALSE
    BY <1>1 DEF Holds
  <1>15. \A m : Held(m)' <=> Held(m) \/ (m = n /\ ToProcess(n) /\ calls[c].gen = generation)
    <2>1. \A m : Held(m)' <=> \E d \in DOMAIN calls : Holds(d, m)'
      BY <1>9 DEF Held, Holds
    <2> QED
      BY <1>13, <2>1, HeldIsHeld
  <1>16. /\ Clean' \subseteq Clean
         /\ n \in Clean' /\ ToProcess(n) => ~Held(n)
    BY <1>1, <1>7 DEF Clean
  <1>17. ElementsTypeOK'
    BY <1>1, <1>7, <1>9, ElementsFacts DEF ElementsTypeOK
  <1>18. GenerationsFit' /\ ObserverIsCalled' /\ MountsHaveNoRecords'
    <2>1. calls[c].by # "mount"
      BY <1>1 DEF ElementsInv, MountsHaveNoRecords
    <2> QED
      BY <1>1, <1>9, <1>12, <2>1
         DEF ElementsInv, GenerationsFit, ObserverIsCalled, MountsHaveNoRecords, Queued
  <1>19. \A m : Current(handlers[m])' = Current(handlers[m])
    BY <1>1 DEF Current
  <1>20. HandlersFit'
    BY <1>1, <1>19 DEF ElementsInv, HandlersFit
  <1>21. HeldByOne'
    <2> SUFFICES ASSUME NEW m \in Clean', NEW d \in DOMAIN calls, NEW e \in DOMAIN calls,
                        Holds(d, m)', Holds(e, m)'
                 PROVE  d = e
      BY <1>9 DEF HeldByOne
    <2>1. CASE m = n /\ ToProcess(n)
      <3>1. ~Holds(d, m) /\ ~Holds(e, m)
        BY <1>16, <2>1, HeldIsHeld
      <3> QED
        BY <1>13, <3>1
    <2>2. CASE ~(m = n /\ ToProcess(n))
      BY <1>13, <1>16, <2>2 DEF ElementsInv, HeldByOne
    <2> QED
      BY <2>1, <2>2
  <1>22. HeldFits'
    <2> SUFFICES ASSUME NEW m \in Clean', NEW d \in DOMAIN calls, Holds(d, m)'
                 PROVE  /\ m \in inRoot /\ (m \in processed) = (calls'[d].pc = "returned")
                        /\ disposers[m] = {}
      BY <1>1, <1>9 DEF HeldFits
    <2>1. CASE Holds(d, m)
      <3>1. calls'[d] = calls[d]
        BY <1>9, <1>14, <2>1
      <3> QED
        BY <1>16, <2>1, <3>1 DEF ElementsInv, HeldFits
    <2>2. CASE ~Holds(d, m)
      <3>1. d = c /\ m = n /\ ToProcess(n)
        BY <1>13, <2>2
      <3>2. m \in inRoot /\ m \notin processed /\ calls'[d].pc # "returned"
        BY <1>6, <1>8, <1>9, <3>1
      <3>3. disposers[m] = {}
        BY <1>16, <3>2 DEF ElementsInv, DisposersFit
      <3> QED
        BY <3>2, <3>3
    <2> QED
      BY <2>1, <2>2
  <1>23. NothingOld'
    <2>1. calls'[c].pc # "returned"
      BY <1>8, <1>9
    <2> QED
      BY <1>1, <1>9, <1>16, <2>1 DEF ElementsInv, NothingOld
  <1>24. MarkedOnce'
    <2> SUFFICES ASSUME NEW m \in Clean'
                 PROVE  /\ \A k, l \in Current(handlers[m])' : k = l
                        /\ \A k, l \in disposers'[m] : k = l
      BY DEF MarkedOnce
    <2>1. m \in Clean /\ disposers' = disposers
      BY <1>1, <1>16
    <2>2. Current(handlers[m])' = Current(handlers[m])
      BY <1>19
    <2> QED
      BY <2>1, <2>2 DEF ElementsInv, MarkedOnce
  <1>25. DisposersFit'
    BY <1>1, <1>15, <1>16 DEF ElementsInv, DisposersFit
  <1>26. ChangesAreRecorded'
    <2> SUFFICES ASSUME NEW m \in Clean'
                 PROVE  /\ m \in processed /\ m \notin inRoot => Announced("removed", m)'
                        /\ m \in inRoot /\ m \notin processed /\ ~Held(m)' => Announced("added", m)'
      BY <1>1 DEF ChangesAreRecorded
    <2>1. m \in processed /\ m \notin inRoot => Announced("removed", m)'
      BY <1>1, <1>11, <1>16 DEF ElementsInv, ChangesAreRecorded
    <2>2. ASSUME m \in inRoot, m \notin processed, ~Held(m)' PROVE Announced("added", m)'
      <3>1. Announced("added", m)
        BY <1>1, <1>15, <1>16, <2>2 DEF ElementsInv, ChangesAreRecorded
      <3>2. m = n => ToProcess(n)
        BY <2>2 DEF ToProcess
      <3>3. ~(m = n /\ calls[c].gen = generation)
        BY <1>15, <2>2, <3>2
      <3> QED
        BY <1>11, <3>1, <3>3
    <2> QED
      BY <2>1, <2>2
  <1> QED
    BY <1>17, <1>18, <1>20, <1>21, <1>22, <1>23, <1>24, <1>25, <1>26 DEF ElementsInv

LEMMA ElementsInitSound == ElementsInit => ElementsInv
  <1> SUFFICES ASSUME ElementsInit PROVE ElementsInv
    OBVIOUS
  <1>1. /\ inRoot \subseteq Elements /\ generation = 0 /\ mounted = FALSE /\ processed = {}
        /\ handlers = [n \in Elements |-> {}] /\ disposers = [n \in Elements |-> {}]
        /\ records = <<>> /\ jobs = <<>> /\ calls = <<>> /\ running = 0
        /\ changes = 0 /\ mounts = 0 /\ raced = {} /\ stranded = {}
    BY DEF ElementsInit
  <1>2. DOMAIN calls = {}
    BY <1>1
  <1>3. ElementsTypeOK
    <2>1. \A S : <<>> \in Seq(S)
      BY EmptySeq
    <2>2. /\ handlers \in [Elements -> SUBSET [gen : 1..generation, call : DOMAIN calls]]
          /\ disposers \in [Elements -> SUBSET [gen : 1..generation, call : DOMAIN calls]]
      BY <1>1
    <2>3. records \in Seq(Change) /\ jobs \in Seq({0} \cup DOMAIN calls) /\ calls \in Seq(Call)
      BY <1>1, <2>1
    <2>4. changes \in 0..MaxChanges /\ mounts \in 0..MaxMounts
      BY <1>1, ElementsAssumption
    <2> QED
      BY <1>1, <2>2, <2>3, <2>4 DEF ElementsTypeOK
  <1>4. /\ GenerationsFit /\ ObserverIsCalled /\ MountsHaveNoRecords
        /\ HeldByOne /\ HeldFits /\ NothingOld /\ ChangesAreRecorded
    BY <1>1, <1>2 DEF GenerationsFit, ObserverIsCalled, MountsHaveNoRecords, HeldByOne,
                      HeldFits, NothingOld, ChangesAreRecorded
  <1>5. HandlersFit /\ MarkedOnce /\ DisposersFit
    BY <1>1 DEF HandlersFit, MarkedOnce, DisposersFit, Current, Clean
  <1> QED
    BY <1>3, <1>4, <1>5 DEF ElementsInv

LEMMA ElementsStutters == ASSUME ElementsInv, UNCHANGED elementsVars PROVE ElementsInv'
  <1>1. UNCHANGED <<inRoot, generation, mounted, processed, handlers, disposers, records,
                    jobs, calls, running, changes, mounts, raced, stranded>>
    BY DEF elementsVars
  <1>2. /\ \A n : Held(n)' <=> Held(n)
        /\ \A n, c : Holds(c, n)' <=> Holds(c, n)
        /\ \A w, n : Announced(w, n)' <=> Announced(w, n)
        /\ \A n : Current(handlers[n])' = Current(handlers[n])
        /\ Clean' = Clean
    BY <1>1 DEF Held, Holds, Announced, Current, Clean
  <1>3. ElementsTypeOK' /\ GenerationsFit' /\ ObserverIsCalled' /\ MountsHaveNoRecords'
    BY <1>1 DEF ElementsInv, ElementsTypeOK, GenerationsFit, ObserverIsCalled, Queued,
                MountsHaveNoRecords
  <1>4. HandlersFit' /\ HeldByOne' /\ HeldFits' /\ NothingOld'
    BY <1>1, <1>2 DEF ElementsInv, HandlersFit, HeldByOne, HeldFits, NothingOld
  <1>5. DisposersFit' /\ ChangesAreRecorded'
    BY <1>1, <1>2 DEF ElementsInv, DisposersFit, ChangesAreRecorded
  <1>6. MarkedOnce'
    BY <1>1 DEF ElementsInv, MarkedOnce, Current, Clean
  <1> QED
    BY <1>3, <1>4, <1>5, <1>6 DEF ElementsInv

LEMMA ElementsNextSound == ElementsInv /\ [ElementsNext]_elementsVars => ElementsInv'
  BY ChangesSound, MountBegins, TeardownSound, ObserverCalledSound, ImportsSettleSound,
     ResumeSound, ProcessReturnsSound, MountReturnsSound, RecordsEndSound,
     RemovedRecordSound, AddedRecordSound, AddedProcessedSound, ElementsStutters
     DEF ElementsNext, ElementsJob

THEOREM ElementsInductive == ElementsSpec => []ElementsInv
  BY ElementsInitSound, ElementsNextSound, PTL DEF ElementsSpec

THEOREM ElementsTypes == ElementsSpec => []ElementsTypeOK
  <1>1. ElementsInv => ElementsTypeOK
    BY DEF ElementsInv
  <1> QED
    BY <1>1, ElementsInductive, PTL

(***************************************************************************)
(* With any elements, changes, imports and remounts: an element is bound and*)
(* its init is running at most once, but for what races with a call that    *)
(* waits and what is stranded when a generation ends.                       *)
(***************************************************************************)
THEOREM ElementsAreBoundOnce == ElementsSpec => []BoundOnce
  <1>1. ASSUME NEW S, \A l, m \in S : l = m PROVE Cardinality(S) <= 1
    <2>1. CASE S = {}
      BY <2>1, FS_EmptySet
    <2>2. CASE S # {}
      <3>1. PICK m : m \in S
        BY <2>2
      <3>2. S = {m}
        BY <1>1, <3>1
      <3>3. Cardinality({m}) = 1
        BY FS_Singleton
      <3> QED
        BY <3>2, <3>3
    <2> QED
      BY <2>1, <2>2
  <1>2. ElementsInv => BoundOnce
    BY <1>1 DEF ElementsInv, MarkedOnce, BoundOnce, Clean
  <1> QED
    BY <1>2, ElementsInductive, PTL

(***************************************************************************)
(* And whenever nothing waits, what is in the root of a mounted page is     *)
(* bound with its init running, and nothing else is, with the same          *)
(* exceptions.                                                              *)
(***************************************************************************)
THEOREM ElementsAreBoundIffThere == ElementsSpec => []BoundIffThere
  <1>1. ASSUME ElementsInv, AtRest, NEW n \in Clean
        PROVE  /\ (Current(handlers[n]) # {}) = (mounted /\ n \in inRoot)
               /\ (disposers[n] # {}) = (mounted /\ n \in inRoot)
               /\ (n \in processed) = (mounted /\ n \in inRoot)
    <2>1. ~Held(n)
      BY <1>1 DEF AtRest, Held
    <2>2. records = <<>>
      BY <1>1 DEF AtRest, ElementsInv, ObserverIsCalled, Queued
    <2>3. \A w : ~Announced(w, n)
      BY <1>1, <2>2 DEF AtRest, Announced
    <2>4. n \in processed <=> mounted /\ n \in inRoot
      BY <1>1, <2>1, <2>3 DEF ElementsInv, GenerationsFit, ChangesAreRecorded
    <2>5. disposers[n] # {} <=> n \in processed
      BY <1>1, <2>1 DEF ElementsInv, DisposersFit
    <2>6. Current(handlers[n]) # {} <=> n \in processed
      BY <1>1, CleanIsElement DEF ElementsInv, HandlersFit
    <2> QED
      BY <2>4, <2>5, <2>6
  <1>2. ElementsInv => BoundIffThere
    BY <1>1 DEF BoundIffThere, Clean
  <1> QED
    BY <1>2, ElementsInductive, PTL

----------------------------------------------------------------------------
(* MCBrowser: the components side by side                                   *)

(***************************************************************************)
(* A behaviour of the composition is, seen through the variables of any one *)
(* component, a behaviour of that component: what is proved of each alone   *)
(* holds of them together.                                                  *)
(***************************************************************************)
THEOREM BrowserRunsItsParts ==
    BrowserSpec => MorpheusSpec /\ ReactivitySpec /\ ElementsSpec /\ StreamSpec
  <1>1. BrowserInit => MorpheusInit /\ ReactivityInit /\ ElementsInit /\ StreamInit
    BY DEF BrowserInit
  <1>2. [BrowserNext]_browserVars => [MorpheusNext]_morpheusVars
    BY DEF BrowserNext, browserVars, InNavigation, InReactivity, InElements, InStream
  <1>3. [BrowserNext]_browserVars => [ReactivityNext]_reactivityVars
    BY DEF BrowserNext, browserVars, InNavigation, InReactivity, InElements, InStream
  <1>4. [BrowserNext]_browserVars => [ElementsNext]_elementsVars
    BY DEF BrowserNext, browserVars, InNavigation, InReactivity, InElements, InStream
  <1>5. [BrowserNext]_browserVars => [StreamNext]_streamVars
    BY DEF BrowserNext, browserVars, InNavigation, InReactivity, InElements, InStream
  <1> QED
    BY <1>1, <1>2, <1>3, <1>4, <1>5, PTL
    DEF BrowserSpec, MorpheusSpec, ReactivitySpec, ElementsSpec, StreamSpec

(***************************************************************************)
(* The four components of a browser tab keep their types side by side.      *)
(***************************************************************************)
THEOREM BrowserTypes == BrowserSpec => []BrowserTypeOK
  <1>1. StreamInv => StreamTypeOK
    BY DEF StreamInv
  <1>2. MorpheusTypeOK /\ ReactivityTypeOK /\ ElementsTypeOK /\ StreamTypeOK => BrowserTypeOK
    BY DEF BrowserTypeOK
  <1> QED
    BY <1>1, <1>2, BrowserRunsItsParts, MorpheusTypes, ReactivityTypes, ElementsTypes,
       StreamInductive, PTL

=============================================================================
