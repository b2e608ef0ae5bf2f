---------------------- MODULE TransactionEffects_proofs ----------------------
(***************************************************************************)
(* Events and jobs go with the data they are about: in every reachable      *)
(* state of Transaction the effects that are stored, performed, due or lost *)
(* are those of the committed data, each in one of these ways, and those    *)
(* performed are in order, for any nesting, delivery and order of events.   *)
(***************************************************************************)
EXTENDS Transaction_proofs

EffectsIn(callbacks) == {e \in Effect : \E j \in DOMAIN callbacks : callbacks[j] = e}

\* Those registered in the first j blocks
DueFrom(frames, j) == {e \in Effect : \E i \in 1..j : e \in EffectsIn(frames[i].hooks)}

\* What a session has written is accounted for by what it has stored and by the callbacks
\* of its open blocks; and what it had written when a block began, by the blocks before
AccountRule(posts, handoffs, frames) ==
    /\ posts = handoffs \cup DueFrom(frames, Len(frames))
    /\ \A j \in 1..Len(frames) :
          frames[j].before.posts = frames[j].before.handoffs \cup DueFrom(frames, j - 1)

Accounted(s) == AccountRule(own[s].posts, own[s].handoffs, blocks[s])

EffectInv == AllAccountedFor /\ \A s \in Sessions : Accounted(s)

----------------------------------------------------------------------------

LEMMA NoEffects == EffectsIn(<<>>) = {}
  BY DEF EffectsIn

LEMMA EffectsOfAppend ==
    ASSUME NEW h \in Seq(Callback), NEW callback \in Callback
    PROVE  EffectsIn(Append(h, callback)) = EffectsIn(h) \cup ({callback} \cap Effect)
  <1>1. /\ DOMAIN Append(h, callback) = 1..Len(h) + 1 /\ DOMAIN h = 1..Len(h)
        /\ Len(h) \in Nat /\ Append(h, callback)[Len(h) + 1] = callback
        /\ \A j \in 1..Len(h) : Append(h, callback)[j] = h[j]
    OBVIOUS
  <1>2. \A j \in 1..Len(h) + 1 : j \in 1..Len(h) \/ j = Len(h) + 1
    BY <1>1
  <1>3. 1..Len(h) \subseteq 1..Len(h) + 1 /\ Len(h) + 1 \in 1..Len(h) + 1
    BY <1>1
  <1> QED
    BY ONLY <1>1, <1>2, <1>3 DEF EffectsIn

LEMMA EffectsOfJoin ==
    ASSUME NEW h \in Seq(Callback), NEW k \in Seq(Callback)
    PROVE  EffectsIn(h \o k) = EffectsIn(h) \cup EffectsIn(k)
  <1>1. /\ DOMAIN (h \o k) = 1..Len(h) + Len(k) /\ DOMAIN h = 1..Len(h) /\ DOMAIN k = 1..Len(k)
        /\ Len(h) \in Nat /\ Len(k) \in Nat
        /\ \A j \in 1..Len(h) : (h \o k)[j] = h[j]
        /\ \A j \in 1..Len(k) : (h \o k)[Len(h) + j] = k[j]
    OBVIOUS
  <1>2. ASSUME NEW e \in EffectsIn(h \o k) PROVE e \in EffectsIn(h) \cup EffectsIn(k)
    <2>1. PICK j \in 1..Len(h) + Len(k) : (h \o k)[j] = e
      BY <1>1 DEF EffectsIn
    <2>2. CASE j \in 1..Len(h)
      BY <1>1, <2>1, <2>2 DEF EffectsIn
    <2>3. CASE j \notin 1..Len(h)
      <3>1. j - Len(h) \in 1..Len(k) /\ Len(h) + (j - Len(h)) = j
        BY ONLY <1>1, <2>3, j \in 1..Len(h) + Len(k)
      <3> QED
        BY <1>1, <2>1, <3>1 DEF EffectsIn
    <2> QED
      BY <2>2, <2>3
  <1>3. ASSUME NEW e \in EffectsIn(h) PROVE e \in EffectsIn(h \o k)
    <2>1. \A j \in 1..Len(h) : j \in 1..Len(h) + Len(k)
      BY ONLY <1>1
    <2> QED
      BY <1>1, <2>1 DEF EffectsIn
  <1>4. ASSUME NEW e \in EffectsIn(k) PROVE e \in EffectsIn(h \o k)
    <2>1. PICK j \in 1..Len(k) : k[j] = e
      BY <1>1 DEF EffectsIn
    <2>2. Len(h) + j \in 1..Len(h) + Len(k) /\ (h \o k)[Len(h) + j] = e
      BY ONLY <1>1, <2>1
    <2> QED
      BY <1>1, <2>2 DEF EffectsIn
  <1> QED
    BY <1>2, <1>3, <1>4

LEMMA EffectsOfTail ==
    ASSUME NEW h \in Seq(Callback), h # <<>>
    PROVE  EffectsIn(h) = ({Head(h)} \cap Effect) \cup EffectsIn(Tail(h))
  <1>1. /\ DOMAIN h = 1..Len(h) /\ DOMAIN Tail(h) = 1..Len(h) - 1
        /\ Len(h) \in Nat /\ Len(h) > 0 /\ Head(h) = h[1]
        /\ \A j \in 1..Len(h) - 1 : Tail(h)[j] = h[j + 1]
    OBVIOUS
  <1>2. ASSUME NEW e \in EffectsIn(h) PROVE e \in ({Head(h)} \cap Effect) \cup EffectsIn(Tail(h))
    <2>1. PICK j \in 1..Len(h) : h[j] = e
      BY <1>1 DEF EffectsIn
    <2>2. CASE j = 1
      BY <1>1, <2>1, <2>2 DEF EffectsIn
    <2>3. CASE j # 1
      <3>1. j - 1 \in 1..Len(h) - 1 /\ (j - 1) + 1 = j
        BY ONLY <1>1, <2>3, j \in 1..Len(h)
      <3> QED
        BY <1>1, <2>1, <3>1 DEF EffectsIn
    <2> QED
      BY <2>2, <2>3
  <1>3. ASSUME NEW e \in EffectsIn(Tail(h)) PROVE e \in EffectsIn(h)
    <2>1. PICK j \in 1..Len(h) - 1 : Tail(h)[j] = e
      BY <1>1 DEF EffectsIn
    <2>2. j + 1 \in 1..Len(h) /\ h[j + 1] = e
      BY ONLY <1>1, <2>1
    <2> QED
      BY <1>1, <2>2 DEF EffectsIn
  <1>4. Head(h) \in Effect => Head(h) \in EffectsIn(h)
    <2>1. 1 \in 1..Len(h)
      BY ONLY <1>1
    <2> QED
      BY <1>1, <2>1 DEF EffectsIn
  <1> QED
    BY <1>2, <1>3, <1>4

\* The effects of all callbacks still to run
Pending(callbacks) == {e \in Effect : \E s \in Sessions : e \in EffectsIn(callbacks[s])}

LEMMA PendingIs ==
    ASSUME NEW callbacks \in [Sessions -> Callbacks]
    PROVE  UNION {{callbacks[s][i] : i \in DOMAIN callbacks[s]} \ {Clean} : s \in Sessions}
               = Pending(callbacks)
  <1>1. ASSUME NEW s \in Sessions
        PROVE  {callbacks[s][i] : i \in DOMAIN callbacks[s]} \ {Clean} = EffectsIn(callbacks[s])
    <2>1. callbacks[s] \in Seq(Callback)
      BY DEF Callbacks, Callback
    <2>2. \A i \in DOMAIN callbacks[s] : callbacks[s][i] \in Effect \/ callbacks[s][i] = Clean
      BY ONLY <2>1 DEF Callback
    <2> QED
      BY <2>2, CleanIsNoEffect DEF EffectsIn
  <1>2. \A s \in Sessions : EffectsIn(callbacks[s]) \subseteq Effect
    BY DEF EffectsIn
  <1> QED
    BY ONLY <1>1, <1>2 DEF Pending

\* So the invariant speaks of what is pending, before a step and after it
LEMMA Balance ==
    /\ hooks \in [Sessions -> Callbacks] =>
          (AllAccountedFor <=>
               db.handoffs \cup Members(done) \cup Pending(hooks) \cup dropped = db.posts)
    /\ hooks' \in [Sessions -> Callbacks] =>
          (AllAccountedFor' <=>
               db'.handoffs \cup Members(done') \cup Pending(hooks') \cup dropped' = db'.posts)
  <1> DEFINE union(h) == UNION {{h[s][i] : i \in DOMAIN h[s]} \ {Clean} : s \in Sessions}
  <1>1. AllAccountedFor <=> db.handoffs \cup Members(done) \cup union(hooks) \cup dropped = db.posts
    BY Zenon DEF AllAccountedFor, Awaiting
  <1>2. AllAccountedFor' <=>
            db'.handoffs \cup Members(done') \cup union(hooks') \cup dropped' = db'.posts
    BY Zenon DEF AllAccountedFor, Awaiting
  <1>3. \A h \in [Sessions -> Callbacks] : union(h) = Pending(h)
    BY PendingIs, Zenon
  <1> HIDE DEF union
  <1> QED
    BY <1>1, <1>2, <1>3

LEMMA PendingChanges ==
    ASSUME NEW callbacks \in [Sessions -> Callbacks], NEW s \in Sessions, NEW k
    PROVE  LET next == [callbacks EXCEPT ![s] = k] IN
           /\ Pending(next) \cup EffectsIn(callbacks[s]) = Pending(callbacks) \cup EffectsIn(k)
           /\ EffectsIn(k) \subseteq Pending(next)
           /\ EffectsIn(callbacks[s]) \subseteq Pending(callbacks)
  <1> DEFINE next == [callbacks EXCEPT ![s] = k]
  <1>1. next[s] = k /\ \A t \in Sessions \ {s} : next[t] = callbacks[t]
    OBVIOUS
  <1>2. EffectsIn(callbacks[s]) \subseteq Effect /\ EffectsIn(k) \subseteq Effect
    BY DEF EffectsIn
  <1> HIDE DEF next
  <1>3. /\ Pending(next) \cup EffectsIn(callbacks[s]) = Pending(callbacks) \cup EffectsIn(k)
        /\ EffectsIn(k) \subseteq Pending(next)
        /\ EffectsIn(callbacks[s]) \subseteq Pending(callbacks)
    BY <1>1, <1>2 DEF Pending
  <1> QED
    BY <1>3 DEF next

----------------------------------------------------------------------------

LEMMA AccountOpens ==
    ASSUME NEW frames \in Seq(Block), NEW block \in Block, block.hooks = <<>>,
           AccountRule(block.before.posts, block.before.handoffs, frames)
    PROVE  AccountRule(block.before.posts, block.before.handoffs, Append(frames, block))
  <1> DEFINE n == Len(frames)
             all == Append(frames, block)
  <1>1. /\ n \in Nat /\ Len(all) = n + 1 /\ all[n + 1] = block
        /\ \A i \in 1..n : all[i] = frames[i]
    OBVIOUS
  <1> HIDE DEF all
  <1>2. \A j \in 0..n : DueFrom(all, j) = DueFrom(frames, j)
    <2> SUFFICES ASSUME NEW j \in 0..n PROVE DueFrom(all, j) = DueFrom(frames, j)
      OBVIOUS
    <2>1. \A i \in 1..j : all[i] = frames[i]
      BY ONLY <1>1, j \in 0..n
    <2> QED
      BY ONLY <2>1 DEF DueFrom
  <1>3. DueFrom(all, n + 1) = DueFrom(frames, n)
    <2>1. \A i \in 1..n + 1 : i \in 1..n \/ i = n + 1
      BY ONLY <1>1
    <2>2. EffectsIn(all[n + 1].hooks) = {} /\ 1..n \subseteq 1..n + 1
      BY <1>1, NoEffects
    <2>3. DueFrom(all, n + 1) = DueFrom(all, n)
      BY ONLY <2>1, <2>2 DEF DueFrom
    <2> QED
      BY <1>1, <1>2, <2>3
  <1>4. /\ block.before.posts = block.before.handoffs \cup DueFrom(frames, n)
        /\ \A j \in 1..n :
              frames[j].before.posts = frames[j].before.handoffs \cup DueFrom(frames, j - 1)
    BY DEF AccountRule
  <1> HIDE DEF n
  <1>5. ASSUME NEW j \in 1..n + 1
        PROVE  all[j].before.posts = all[j].before.handoffs \cup DueFrom(all, j - 1)
    <2>1. CASE j \in 1..n
      <3>1. j - 1 \in 0..n
        BY ONLY <1>1, <2>1
      <3> QED
        BY <1>1, <1>2, <1>4, <2>1, <3>1
    <2>2. CASE j = n + 1
      <3>1. j - 1 = n /\ n \in 0..n
        BY ONLY <1>1, <2>2
      <3> QED
        BY <1>1, <1>2, <1>4, <2>2, <3>1
    <2> QED
      BY <1>1, <2>1, <2>2
  <1> QED
    BY <1>1, <1>3, <1>4, <1>5 DEF AccountRule, all

LEMMA AccountShrinks ==
    ASSUME NEW frames \in Seq(Block), Len(frames) > 1, NEW posts, NEW handoffs,
           AccountRule(posts, handoffs, frames),
           NEW rest \in Seq(Block), Len(rest) = Len(frames) - 1,
           \A i \in 1..Len(rest) : rest[i].before = frames[i].before,
           \A i \in 1..Len(rest) - 1 : rest[i].hooks = frames[i].hooks,
           EffectsIn(rest[Len(rest)].hooks) =
               EffectsIn(frames[Len(rest)].hooks) \cup EffectsIn(frames[Len(frames)].hooks)
    PROVE  AccountRule(posts, handoffs, rest)
  <1> DEFINE n == Len(rest)
  <1>1. /\ n \in Nat /\ n > 0 /\ Len(frames) = n + 1
        /\ \A i \in 1..n : rest[i].before = frames[i].before
        /\ \A i \in 1..n - 1 : rest[i].hooks = frames[i].hooks
        /\ EffectsIn(rest[n].hooks) =
               EffectsIn(frames[n].hooks) \cup EffectsIn(frames[n + 1].hooks)
    OBVIOUS
  <1>2. /\ posts = handoffs \cup DueFrom(frames, n + 1)
        /\ \A j \in 1..n :
              frames[j].before.posts = frames[j].before.handoffs \cup DueFrom(frames, j - 1)
    BY <1>1 DEF AccountRule
  <1> HIDE DEF n
  <1>3. ASSUME NEW j \in 1..n PROVE DueFrom(rest, j - 1) = DueFrom(frames, j - 1)
    <2>1. \A i \in 1..j - 1 : rest[i].hooks = frames[i].hooks
      BY ONLY <1>1, j \in 1..n
    <2> QED
      BY ONLY <2>1 DEF DueFrom
  <1>4. DueFrom(rest, n) = DueFrom(frames, n + 1)
    <2>1. /\ \A i \in 1..n : i \in 1..n - 1 \/ i = n
          /\ \A i \in 1..n + 1 : i \in 1..n - 1 \/ i = n \/ i = n + 1
          /\ 1..n - 1 \subseteq 1..n /\ 1..n \subseteq 1..n + 1 /\ n \in 1..n /\ n + 1 \in 1..n + 1
      BY ONLY <1>1
    <2> QED
      BY ONLY <1>1, <2>1 DEF DueFrom
  <1>5. \A j \in 1..n :
            rest[j].before.posts = rest[j].before.handoffs \cup DueFrom(rest, j - 1)
    BY <1>1, <1>2, <1>3
  <1> QED
    BY <1>2, <1>4, <1>5 DEF AccountRule, n

LEMMA AccountRollsBack ==
    ASSUME NEW frames \in Seq(Block), Len(frames) > 0, NEW posts, NEW handoffs,
           AccountRule(posts, handoffs, frames),
           NEW rest \in Seq(Block), Len(rest) = Len(frames) - 1,
           \A i \in 1..Len(rest) : rest[i] = frames[i]
    PROVE  AccountRule(frames[Len(frames)].before.posts, frames[Len(frames)].before.handoffs, rest)
  <1> DEFINE n == Len(rest)
  <1>1. n \in Nat /\ Len(frames) = n + 1 /\ \A i \in 1..n : rest[i] = frames[i]
    OBVIOUS
  <1>2. \A j \in 1..n + 1 :
            frames[j].before.posts = frames[j].before.handoffs \cup DueFrom(frames, j - 1)
    BY <1>1 DEF AccountRule
  <1> HIDE DEF n
  <1>3. ASSUME NEW j \in 1..n + 1 PROVE DueFrom(rest, j - 1) = DueFrom(frames, j - 1)
    <2>1. \A i \in 1..j - 1 : rest[i] = frames[i]
      BY ONLY <1>1, j \in 1..n + 1
    <2> QED
      BY ONLY <2>1 DEF DueFrom
  <1>4. n + 1 \in 1..n + 1 /\ (n + 1) - 1 = n /\ \A j \in 1..n : j \in 1..n + 1
    BY ONLY <1>1
  <1>5. frames[n + 1].before.posts = frames[n + 1].before.handoffs \cup DueFrom(rest, n)
    BY <1>2, <1>3, <1>4
  <1>6. \A j \in 1..n :
            rest[j].before.posts = rest[j].before.handoffs \cup DueFrom(rest, j - 1)
    BY <1>1, <1>2, <1>3, <1>4
  <1> QED
    BY <1>1, <1>5, <1>6 DEF AccountRule, n

\* A callback with some effects is registered, and posts and handoffs are written with it
LEMMA AccountSwaps ==
    ASSUME NEW frames \in Seq(Block), Len(frames) > 0, NEW posts, NEW handoffs,
           AccountRule(posts, handoffs, frames),
           NEW more \in Seq(Block), Len(more) = Len(frames),
           \A i \in 1..Len(frames) : more[i].before = frames[i].before,
           \A i \in 1..Len(frames) - 1 : more[i].hooks = frames[i].hooks,
           NEW extra,
           EffectsIn(more[Len(frames)].hooks) = EffectsIn(frames[Len(frames)].hooks) \cup extra
    PROVE  AccountRule(posts \cup extra, handoffs, more)
  <1> DEFINE n == Len(frames)
  <1>1. /\ n \in Nat /\ n > 0 /\ Len(more) = n
        /\ \A i \in 1..n : more[i].before = frames[i].before
        /\ \A i \in 1..n - 1 : more[i].hooks = frames[i].hooks
        /\ EffectsIn(more[n].hooks) = EffectsIn(frames[n].hooks) \cup extra
    OBVIOUS
  <1>2. /\ posts = handoffs \cup DueFrom(frames, n)
        /\ \A j \in 1..n :
              frames[j].before.posts = frames[j].before.handoffs \cup DueFrom(frames, j - 1)
    BY DEF AccountRule
  <1> HIDE DEF n
  <1>3. ASSUME NEW j \in 1..n PROVE DueFrom(more, j - 1) = DueFrom(frames, j - 1)
    <2>1. \A i \in 1..j - 1 : more[i].hooks = frames[i].hooks
      BY ONLY <1>1, j \in 1..n
    <2> QED
      BY ONLY <2>1 DEF DueFrom
  <1>4. DueFrom(more, n) = DueFrom(frames, n) \cup extra
    <2>1. /\ \A i \in 1..n : i \in 1..n - 1 \/ i = n
          /\ 1..n - 1 \subseteq 1..n /\ n \in 1..n
      BY ONLY <1>1
    <2>2. extra \subseteq Effect
      BY <1>1 DEF EffectsIn
    <2> QED
      BY ONLY <1>1, <2>1, <2>2 DEF DueFrom
  <1>5. \A j \in 1..n :
            more[j].before.posts = more[j].before.handoffs \cup DueFrom(more, j - 1)
    BY <1>1, <1>2, <1>3
  <1> QED
    BY <1>1, <1>2, <1>4, <1>5 DEF AccountRule, n

----------------------------------------------------------------------------

\* What remains to be shown when a step of one session neither commits nor runs callbacks
LEMMA OneAccount ==
    ASSUME EffectInv, NEW s \in Sessions,
           UNCHANGED <<db, hooks, done, dropped>>,
           \A t \in Sessions \ {s} : /\ own'[t].posts = own[t].posts
                                    /\ own'[t].handoffs = own[t].handoffs
                                    /\ blocks'[t] = blocks[t],
           AccountRule(own'[s].posts, own'[s].handoffs, blocks'[s])
    PROVE  EffectInv'
  <1>1. AllAccountedFor'
    BY DEF EffectInv, AllAccountedFor, Awaiting
  <1>2. ASSUME NEW t \in Sessions PROVE Accounted(t)'
    <2>1. CASE t = s
      BY <2>1 DEF Accounted
    <2>2. CASE t # s
      BY <2>2 DEF EffectInv, Accounted
    <2> QED
      BY <2>1, <2>2
  <1> QED
    BY <1>1, <1>2 DEF EffectInv

LEMMA EffectInit == TransactionInit => EffectInv
  <1> SUFFICES ASSUME TransactionInit PROVE EffectInv
    OBVIOUS
  <1>1. ASSUME NEW s \in Sessions PROVE Accounted(s)
    <2>1. own[s].posts = {} /\ own[s].handoffs = {} /\ blocks[s] = <<>> /\ Len(<<>>) = 0
      BY DEF TransactionInit, Nothing
    <2>2. DueFrom(<<>>, 0) = {} /\ 1..0 = {}
      BY DEF DueFrom
    <2> QED
      BY <2>1, <2>2 DEF Accounted, AccountRule
  <1>2. AllAccountedFor
    <2>1. Members(done) = {} /\ \A s \in Sessions : Awaiting(s) = {}
      BY DEF TransactionInit, Members, Awaiting
    <2> QED
      BY <2>1 DEF TransactionInit, AllAccountedFor
  <1> QED
    BY <1>1, <1>2 DEF EffectInv

LEMMA OpenAccounts ==
    ASSUME TransactionTypeOK, EffectInv, NEW s \in Sessions, Open(s) PROVE EffectInv'
  <1> DEFINE block == [before |-> own[s], hooks |-> <<>>]
  <1>1. /\ blocks \in [Sessions -> Seq(Block)] /\ blocks[s] \in Seq(Block)
        /\ own[s] \in Written /\ AccountRule(own[s].posts, own[s].handoffs, blocks[s])
    BY Typed DEF TransactionTypeOK, EffectInv, Accounted
  <1>2. /\ UNCHANGED <<db, own, hooks, done, dropped>>
        /\ blocks' = [blocks EXCEPT ![s] = Append(blocks[s], block)]
    BY DEF Open
  <1>3. block \in Block /\ block.hooks = <<>> /\ block.before = own[s]
    BY <1>1 DEF Block, Callbacks
  <1> HIDE DEF block
  <1>4. AccountRule(own[s].posts, own[s].handoffs, Append(blocks[s], block))
    BY <1>1, <1>3, AccountOpens
  <1> QED
    BY <1>1, <1>2, <1>4, OneAccount

LEMMA ReleaseAccounts ==
    ASSUME TransactionTypeOK, EffectInv, NEW s \in Sessions, Release(s) PROVE EffectInv'
  <1> DEFINE frames == blocks[s]
             rest == blocks'[s]
             n == Depth(s) - 1
  <1>1. /\ n \in Nat /\ n > 0 /\ Len(frames) = n + 1 /\ frames \in Seq(Block)
        /\ Depth(s) = n + 1
        /\ frames[n].hooks \in Seq(Callback) /\ frames[n + 1].hooks \in Seq(Callback)
        /\ AccountRule(own[s].posts, own[s].handoffs, frames)
    <2>1. /\ Depth(s) \in Nat /\ Depth(s) > 1 /\ blocks[s] \in Seq(Block)
          /\ Depth(s) = Len(blocks[s])
          /\ \A i \in 1..Depth(s) : blocks[s][i].hooks \in Seq(Callback)
      BY Typed DEF Release, Depth
    <2>2. AccountRule(own[s].posts, own[s].handoffs, blocks[s])
      BY DEF EffectInv, Accounted
    <2>3. n \in Nat /\ n > 0 /\ Depth(s) = n + 1 /\ n \in 1..Depth(s) /\ n + 1 \in 1..Depth(s)
      BY ONLY <2>1
    <2> QED
      BY ONLY <2>1, <2>2, <2>3
  <1>2. /\ rest \in Seq(Block) /\ Len(rest) = n
        /\ \A i \in 1..n : rest[i].before = frames[i].before
        /\ \A i \in 1..n - 1 : rest[i].hooks = frames[i].hooks
        /\ rest[n].hooks = frames[n].hooks \o frames[n + 1].hooks
    <2>1. n - 1 = Depth(s) - 2
      BY <1>1
    <2> QED
      BY <1>1, <2>1, ReleaseFacts
  <1>3. /\ UNCHANGED <<db, own, hooks, done, dropped>>
        /\ \A t \in Sessions \ {s} : blocks'[t] = blocks[t]
    BY ReleaseFacts DEF Release
  <1> HIDE DEF frames, rest, n
  <1>4. EffectsIn(rest[n].hooks) = EffectsIn(frames[n].hooks) \cup EffectsIn(frames[n + 1].hooks)
    BY <1>1, <1>2, EffectsOfJoin
  <1>5. AccountRule(own[s].posts, own[s].handoffs, rest)
    <2>1. Len(frames) > 1 /\ Len(rest) = Len(frames) - 1
      BY ONLY <1>1, <1>2
    <2> QED
      BY ONLY <1>1, <1>2, <1>4, <2>1, AccountShrinks
  <1> QED
    BY <1>3, <1>5, OneAccount DEF rest

LEMMA RollBackAccounts ==
    ASSUME TransactionTypeOK, EffectInv, NEW s \in Sessions, InBlock(s), RollBack(s)
    PROVE  EffectInv'
  <1>1. /\ Depth(s) > 0 /\ Depth(s) = Len(blocks[s]) /\ blocks[s] \in Seq(Block)
        /\ AccountRule(own[s].posts, own[s].handoffs, blocks[s])
    BY Typed DEF InBlock, Depth, EffectInv, Accounted
  <1>2. /\ UNCHANGED <<db, hooks, done, dropped>>
        /\ \A t \in Sessions \ {s} : own'[t] = own[t] /\ blocks'[t] = blocks[t]
        /\ own'[s] = blocks[s][Len(blocks[s])].before /\ blocks'[s] = Outer(s)
    BY DEF RollBack, Inner, Depth, TransactionTypeOK
  <1>3. /\ Outer(s) \in Seq(Block) /\ Len(Outer(s)) = Len(blocks[s]) - 1
        /\ \A i \in 1..Len(Outer(s)) : Outer(s)[i] = blocks[s][i]
    BY <1>1, OuterFacts
  <1>4. AccountRule(own'[s].posts, own'[s].handoffs, blocks'[s])
    BY <1>1, <1>2, <1>3, AccountRollsBack
  <1> QED
    BY <1>2, <1>4, OneAccount

\* Registering a callback
LEMMA RegisterAccounts ==
    ASSUME TransactionTypeOK, NEW s \in Sessions, Accounted(s), Depth(s) > 0,
           NEW callback \in Callback
    PROVE  AccountRule(own[s].posts \cup ({callback} \cap Effect), own[s].handoffs,
                       AfterCommit(s, callback)[s])
  <1> DEFINE frames == blocks[s]
             more == AfterCommit(s, callback)[s]
             n == Len(frames)
  <1>1. /\ frames \in Seq(Block) /\ n \in Nat /\ n > 0 /\ n = Depth(s) /\ n = Len(frames)
        /\ frames[n].hooks \in Seq(Callback) /\ frames[n] = Inner(s)
        /\ AccountRule(own[s].posts, own[s].handoffs, frames)
    BY Typed DEF Depth, Accounted
  <1>2. /\ more \in Seq(Block) /\ Len(more) = n
        /\ \A i \in 1..n : more[i].before = frames[i].before
        /\ \A i \in 1..n - 1 : more[i].hooks = frames[i].hooks
        /\ more[n].hooks = Append(frames[n].hooks, callback)
    BY <1>1, AfterCommitFacts
  <1> HIDE DEF frames, more, n
  <1>3. EffectsIn(more[n].hooks) = EffectsIn(frames[n].hooks) \cup ({callback} \cap Effect)
    BY <1>1, <1>2, EffectsOfAppend
  <1>4. AccountRule(own[s].posts \cup ({callback} \cap Effect), own[s].handoffs, more)
    BY ONLY <1>1, <1>2, <1>3, AccountSwaps
  <1> QED
    BY <1>4 DEF more

LEMMA EmitAccounts ==
    ASSUME TransactionTypeOK, EffectInv, NEW s \in Sessions, NEW kind \in Kinds, Emit(s, kind)
    PROVE  EffectInv'
  <1> DEFINE effect == <<s, effects + 1>>
  <1>1. /\ own \in [Sessions -> Written] /\ own[s] \in Written
        /\ Depth(s) > 0 /\ effect \in Effect /\ effect \in Callback
        /\ UNCHANGED <<db, hooks, done, dropped>> /\ Accounted(s)
    BY Typed, EmitFacts DEF TransactionTypeOK, Emit, InBlock, Callback, EffectInv
  <1>2. CASE Delivery[kind] = "row"
    <2> DEFINE writes == [own[s] EXCEPT !.posts = @ \cup {effect}, !.handoffs = @ \cup {effect}]
    <2>1. own' = [own EXCEPT ![s] = writes] /\ blocks' = blocks
      BY <1>1, <1>2 DEF Emit, Written
    <2>2. /\ writes.posts = own[s].posts \cup {effect}
          /\ writes.handoffs = own[s].handoffs \cup {effect}
      BY <1>1 DEF Written
    <2> HIDE DEF writes, effect
    <2>3. /\ own'[s] = writes /\ \A t \in Sessions \ {s} : own'[t] = own[t]
      BY <1>1, <2>1
    <2>4. AccountRule(own'[s].posts, own'[s].handoffs, blocks'[s])
      BY <1>1, <2>1, <2>2, <2>3 DEF Accounted, AccountRule
    <2> QED
      BY <1>1, <2>1, <2>3, <2>4, OneAccount
  <1>3. CASE Delivery[kind] # "row"
    <2> DEFINE writes == [own[s] EXCEPT !.posts = @ \cup {effect}]
    <2>1. own' = [own EXCEPT ![s] = writes] /\ blocks' = AfterCommit(s, effect)
      BY <1>3 DEF Emit
    <2>2. writes.posts = own[s].posts \cup {effect} /\ writes.handoffs = own[s].handoffs
      BY <1>1 DEF Written
    <2> HIDE DEF writes, effect
    <2>3. /\ own'[s] = writes /\ \A t \in Sessions \ {s} : own'[t] = own[t]
      BY <1>1, <2>1
    <2>4. {effect} \cap Effect = {effect}
      BY <1>1
    <2>5. AccountRule(own'[s].posts, own'[s].handoffs, blocks'[s])
      BY <1>1, <2>1, <2>2, <2>3, <2>4, RegisterAccounts
    <2>6. \A t \in Sessions \ {s} : blocks'[t] = blocks[t]
      BY <1>1, <2>1, AfterCommitFacts
    <2> QED
      BY <1>1, <2>3, <2>5, <2>6, OneAccount
  <1> QED
    BY <1>2, <1>3

LEMMA SaveAccounts ==
    ASSUME TransactionTypeOK, EffectInv, NEW s \in Sessions, Save(s) PROVE EffectInv'
  <1>1. /\ own \in [Sessions -> Written] /\ own[s] \in Written
        /\ Depth(s) > 0 /\ Clean \in Callback
        /\ UNCHANGED <<db, hooks, done, dropped>> /\ Accounted(s)
        /\ blocks' = AfterCommit(s, Clean)
    BY Kinships DEF TransactionTypeOK, Save, InBlock, EffectInv
  <1>2. PICK row : own' = [own EXCEPT ![s] = [own[s] EXCEPT !.row = row]]
    BY DEF Save
  <1>3. /\ own'[s].posts = own[s].posts /\ own'[s].handoffs = own[s].handoffs
        /\ \A t \in Sessions \ {s} : own'[t] = own[t]
    BY <1>1, <1>2 DEF Written
  <1>4. {Clean} \cap Effect = {} /\ own[s].posts \cup {} = own[s].posts
    BY CleanIsNoEffect
  <1>5. AccountRule(own'[s].posts, own'[s].handoffs, blocks'[s])
    BY <1>1, <1>3, <1>4, RegisterAccounts
  <1>6. \A t \in Sessions \ {s} : blocks'[t] = blocks[t]
    BY <1>1, AfterCommitFacts
  <1> QED
    BY <1>1, <1>3, <1>5, <1>6, OneAccount

LEMMA CommitAccounts ==
    ASSUME TransactionTypeOK, EffectInv, NEW s \in Sessions, Commit(s) PROVE EffectInv'
  <1> DEFINE k == blocks[s][1].hooks
  <1>1. /\ own \in [Sessions -> Written] /\ hooks \in [Sessions -> Callbacks]
        /\ blocks \in [Sessions -> Seq(Block)] /\ hooks' \in [Sessions -> Callbacks]
    BY CommitTypes DEF TransactionTypeOK
  <1>2. /\ db'.posts = db.posts \cup own[s].posts /\ db'.handoffs = db.handoffs \cup own[s].handoffs
        /\ hooks' = [hooks EXCEPT ![s] = k] /\ hooks[s] = <<>> /\ Len(blocks[s]) = 1
        /\ own'[s] = Nothing /\ blocks'[s] = <<>>
        /\ \A t \in Sessions \ {s} : own'[t] = own[t] /\ blocks'[t] = blocks[t]
        /\ UNCHANGED <<done, dropped>>
    BY <1>1 DEF Commit, Depth, Inner, Free
  <1>3. own[s].posts = own[s].handoffs \cup EffectsIn(k)
    <2>1. AccountRule(own[s].posts, own[s].handoffs, blocks[s])
      BY DEF EffectInv, Accounted
    <2>2. own[s].posts = own[s].handoffs \cup DueFrom(blocks[s], 1)
      BY <1>2, <2>1 DEF AccountRule
    <2>3. DueFrom(blocks[s], 1) = EffectsIn(k)
      <3>1. \A i \in 1..1 : i = 1
        OBVIOUS
      <3>2. 1 \in 1..1
        OBVIOUS
      <3> QED
        BY <3>1, <3>2 DEF DueFrom, EffectsIn
    <2> QED
      BY <2>2, <2>3
  <1> HIDE DEF k
  <1>4. Pending(hooks') = Pending(hooks) \cup EffectsIn(k)
    <2>1. Pending(hooks') \cup EffectsIn(hooks[s]) = Pending(hooks) \cup EffectsIn(k)
      BY <1>1, <1>2, PendingChanges
    <2> QED
      BY <1>2, <2>1, NoEffects
  <1>5. db.handoffs \cup Members(done) \cup Pending(hooks) \cup dropped = db.posts
    BY <1>1, Balance DEF EffectInv
  <1>6. db'.handoffs \cup Members(done') \cup Pending(hooks') \cup dropped' = db'.posts
    BY <1>2, <1>3, <1>4, <1>5
  <1>7. AllAccountedFor'
    BY <1>1, <1>6, Balance
  <1>8. ASSUME NEW t \in Sessions PROVE Accounted(t)'
    <2>1. CASE t = s
      <3>1. DueFrom(<<>>, 0) = {} /\ 1..0 = {} /\ Len(<<>>) = 0
        BY DEF DueFrom
      <3> QED
        BY <1>2, <2>1, <3>1 DEF Accounted, AccountRule, Nothing
    <2>2. CASE t # s
      BY <1>2, <2>2 DEF EffectInv, Accounted
    <2> QED
      BY <2>1, <2>2
  <1> QED
    BY <1>7, <1>8 DEF EffectInv

LEMMA PublishedGrows ==
    ASSUME NEW published \in Seq(Effect), NEW e \in Effect
    PROVE  Members(Append(published, e)) = Members(published) \cup {e}
  <1>1. /\ DOMAIN Append(published, e) = 1..Len(published) + 1
        /\ DOMAIN published = 1..Len(published)
        /\ Len(published) \in Nat /\ Append(published, e)[Len(published) + 1] = e
        /\ \A j \in 1..Len(published) : Append(published, e)[j] = published[j]
    OBVIOUS
  <1>2. /\ \A j \in 1..Len(published) + 1 : j \in 1..Len(published) \/ j = Len(published) + 1
        /\ 1..Len(published) \subseteq 1..Len(published) + 1
        /\ Len(published) + 1 \in 1..Len(published) + 1
    BY ONLY <1>1
  <1> QED
    BY ONLY <1>1, <1>2 DEF Members

\* A callback that runs has its effect performed; those that never will are lost
LEMMA CallbackAccounts ==
    ASSUME TransactionTypeOK, EffectInv, NEW s \in Sessions,
           RunCallback(s) \/ CallbackRaises(s) \/ Dies(s)
    PROVE  EffectInv'
  <1>1. /\ hooks \in [Sessions -> Callbacks] /\ hooks' \in [Sessions -> Callbacks]
        /\ done \in Seq(Effect) /\ UNCHANGED <<db, own, blocks>> /\ ~Free(s)
    BY CallbackTypes DEF TransactionTypeOK, RunCallback, CallbackRaises, Dies
  <1>2. /\ hooks[s] \in Seq(Callback) /\ hooks[s] # <<>> /\ Head(hooks[s]) \in Callback
    BY <1>1, HooksTyped
  <1>3. db.handoffs \cup Members(done) \cup Pending(hooks) \cup dropped = db.posts
    BY <1>1, Balance DEF EffectInv
  <1>4. Members(done') \cup Pending(hooks') \cup dropped' = Members(done) \cup Pending(hooks) \cup dropped
    <2>1. CASE RunCallback(s)
      <3> DEFINE h == hooks[s]
                 published == {Head(h)} \cap Effect
      <3>1. hooks' = [hooks EXCEPT ![s] = Tail(h)] /\ dropped' = dropped
        BY <2>1 DEF RunCallback
      <3>2. EffectsIn(h) = published \cup EffectsIn(Tail(h))
        BY <1>2, EffectsOfTail
      <3>3. /\ Pending(hooks') \cup EffectsIn(h) = Pending(hooks) \cup EffectsIn(Tail(h))
            /\ EffectsIn(Tail(h)) \subseteq Pending(hooks')
            /\ EffectsIn(h) \subseteq Pending(hooks)
        BY ONLY <1>1, <3>1, s \in Sessions, PendingChanges DEF h
      <3>4. Members(done') = Members(done) \cup published
        <4>1. CASE Head(h) = Clean
          BY <2>1, <4>1, CleanIsNoEffect DEF RunCallback
        <4>2. CASE Head(h) # Clean
          <5>1. Head(h) \in Effect /\ done' = Append(done, Head(h))
            BY <1>2, <2>1, <4>2 DEF RunCallback, Callback
          <5> QED
            BY <1>1, <5>1, PublishedGrows
        <4> QED
          BY <4>1, <4>2
      <3> HIDE DEF published, h
      <3> QED
        BY ONLY <3>1, <3>2, <3>3, <3>4
    <2>2. CASE CallbackRaises(s) \/ Dies(s)
      <3>1. /\ hooks' = [hooks EXCEPT ![s] = <<>>] /\ done' = done
            /\ dropped' = dropped \cup Awaiting(s)
        BY <2>2 DEF CallbackRaises, Dies
      <3>2. Awaiting(s) = EffectsIn(hooks[s])
        <4>1. \A i \in DOMAIN hooks[s] : hooks[s][i] \in Effect \/ hooks[s][i] = Clean
          BY ONLY <1>2 DEF Callback
        <4> QED
          BY <4>1, CleanIsNoEffect DEF Awaiting, EffectsIn
      <3>3. /\ Pending(hooks') \cup EffectsIn(hooks[s]) = Pending(hooks) \cup EffectsIn(<<>>)
            /\ EffectsIn(hooks[s]) \subseteq Pending(hooks)
        BY ONLY <1>1, <3>1, s \in Sessions, PendingChanges
      <3>4. Pending(hooks) = Pending(hooks') \cup Awaiting(s)
        BY ONLY <3>2, <3>3, NoEffects
      <3> QED
        BY ONLY <3>1, <3>4
    <2> QED
      BY <2>1, <2>2
  <1>5. AllAccountedFor'
    BY <1>1, <1>3, <1>4, Balance
  <1>6. ASSUME NEW t \in Sessions PROVE Accounted(t)'
    BY <1>1 DEF EffectInv, Accounted
  <1> QED
    BY <1>5, <1>6 DEF EffectInv

LEMMA EffectStep ==
    TransactionTypeOK /\ EffectInv /\ [TransactionNext]_transactionVars => EffectInv'
  <1> SUFFICES ASSUME TransactionTypeOK, EffectInv, [TransactionNext]_transactionVars
               PROVE  EffectInv'
    OBVIOUS
  <1>1. ASSUME UNCHANGED <<db, own, blocks, hooks, done, dropped>> PROVE EffectInv'
    <2>1. AllAccountedFor' /\ \A s \in Sessions : Accounted(s)'
      BY <1>1 DEF EffectInv, AllAccountedFor, Awaiting, Accounted
    <2> QED
      BY <2>1 DEF EffectInv
  <1>2. CASE UNCHANGED transactionVars
    BY <1>1, <1>2 DEF transactionVars
  <1>3. CASE TransactionNext
    <2>1. PICK s \in Sessions :
            \/ Open(s) \/ Release(s) \/ Raise(s) \/ Commit(s)
            \/ \E kind \in Kinds : Emit(s, kind)
            \/ RunCallback(s) \/ CallbackRaises(s) \/ Dies(s)
            \/ Assign(s) \/ Save(s) \/ SaveStale(s) \/ Refresh(s)
      BY <1>3 DEF TransactionNext
    <2>2. CASE Raise(s) \/ SaveStale(s)
      BY <2>2, RollBackAccounts DEF Raise, SaveStale
    <2>3. CASE Assign(s) \/ Refresh(s)
      BY <1>1, <2>3 DEF Assign, Refresh
    <2> QED
      BY <2>1, <2>2, <2>3, OpenAccounts, ReleaseAccounts, CommitAccounts, EmitAccounts,
         CallbackAccounts, SaveAccounts
  <1> QED
    BY <1>2, <1>3

(***************************************************************************)
(* Events and jobs go with the data they are about (transaction.rb:27 and   *)
(* 86): in every reachable state what is stored or performed, due or lost   *)
(* with its callback is exactly what is committed.                          *)
(***************************************************************************)
THEOREM EverythingAccountedFor == TransactionSpec => []AllAccountedFor
  <1>1. EffectInv => AllAccountedFor
    BY DEF EffectInv
  <1> QED
    BY <1>1, EffectInit, EffectStep, TransactionTypes, PTL DEF TransactionSpec

----------------------------------------------------------------------------
(* Each effect is in one place, and callbacks run in the order of the code. *)
(* Effects are numbered as they come; the callbacks of a session wait in    *)
(* the order of their numbers, and are later than what it has settled.      *)

InOrder(callbacks) ==
    \A i, j \in DOMAIN callbacks :
        i < j /\ callbacks[i] \in Effect /\ callbacks[j] \in Effect =>
            callbacks[i][2] < callbacks[j][2]

Earlier(some, others) == \A e \in some, f \in others : e[2] < f[2]

InTurn(frames) ==
    /\ \A i \in 1..Len(frames) : InOrder(frames[i].hooks)
    /\ \A i, j \in 1..Len(frames) : i < j =>
          Earlier(EffectsIn(frames[i].hooks), EffectsIn(frames[j].hooks))

\* What a session has a callback for, its own or an open block's
Ahead == [s \in Sessions |-> EffectsIn(hooks[s]) \cup DueFrom(blocks[s], Len(blocks[s]))]

\* What is a row, committed, written or written before an open block began
HandedOff ==
    {e \in Effect :
        \/ e \in db.handoffs
        \/ \E s \in Sessions :
              \/ e \in own[s].handoffs
              \/ \E i \in 1..Len(blocks[s]) : e \in blocks[s][i].before.handoffs}

Settled == Members(done) \cup dropped

Numbered(settled, handed, ahead, count) ==
    /\ \A e \in settled \cup handed : e[2] <= count
    /\ settled \cap handed = {}
    /\ \A s \in Sessions : \A e \in ahead[s] :
          e[1] = s /\ e[2] <= count /\ e \notin handed
    /\ \A s \in Sessions : \A e \in settled, f \in ahead[s] : e[1] = s => e[2] < f[2]

DoneInOrder ==
    \A i, j \in DOMAIN done :
        i < j /\ done[i][1] = done[j][1] => done[i][2] < done[j][2]

OrderInv ==
    /\ \A s \in Sessions : InOrder(hooks[s]) /\ InTurn(blocks[s])
    /\ Numbered(Settled, HandedOff, Ahead, effects)
    /\ Members(done) \cap dropped = {}
    /\ DoneInOrder

----------------------------------------------------------------------------

LEMMA EffectParts == \A e \in Effect : e[1] \in Sessions /\ e[2] \in Nat
  BY TransactionAssumption DEF Effect

LEMMA OrderOfNone == InOrder(<<>>)
  BY DEF InOrder

LEMMA OrderOfAppend ==
    ASSUME NEW h \in Seq(Callback), InOrder(h), NEW callback \in Callback,
           callback \in Effect => \A e \in EffectsIn(h) : e[2] < callback[2]
    PROVE  InOrder(Append(h, callback))
  <1> DEFINE n == Len(h)
             all == Append(h, callback)
  <1>1. /\ n \in Nat /\ DOMAIN h = 1..n /\ DOMAIN all = 1..n + 1
        /\ all[n + 1] = callback /\ \A i \in 1..n : all[i] = h[i]
    OBVIOUS
  <1> HIDE DEF n, all
  <1> SUFFICES ASSUME NEW i \in 1..n + 1, NEW j \in 1..n + 1, i < j,
                      all[i] \in Effect, all[j] \in Effect
               PROVE  all[i][2] < all[j][2]
    BY <1>1 DEF InOrder, all
  <1>2. i \in 1..n
    BY ONLY <1>1, i \in 1..n + 1, j \in 1..n + 1, i < j
  <1>3. CASE j = n + 1
    <2>1. all[i] \in EffectsIn(h)
      BY <1>1, <1>2 DEF EffectsIn
    <2> QED
      BY <1>1, <1>3, <2>1
  <1>4. CASE j # n + 1
    <2>1. j \in 1..n
      BY ONLY <1>1, <1>4, j \in 1..n + 1
    <2> QED
      BY <1>1, <1>2, <2>1 DEF InOrder
  <1> QED
    BY <1>3, <1>4

LEMMA OrderOfJoin ==
    ASSUME NEW h \in Seq(Callback), NEW k \in Seq(Callback), InOrder(h), InOrder(k),
           Earlier(EffectsIn(h), EffectsIn(k))
    PROVE  InOrder(h \o k)
  <1> DEFINE m == Len(h)
             n == Len(k)
             all == h \o k
  <1>1. /\ m \in Nat /\ n \in Nat /\ DOMAIN all = 1..m + n /\ DOMAIN h = 1..m /\ DOMAIN k = 1..n
        /\ \A i \in 1..m : all[i] = h[i]
        /\ \A i \in 1..n : all[m + i] = k[i]
    OBVIOUS
  <1> HIDE DEF m, n, all
  <1>2. ASSUME NEW i \in 1..m + n, i \notin 1..m
        PROVE  /\ i - m \in 1..n /\ all[i] = k[i - m]
    <2>1. i - m \in 1..n /\ m + (i - m) = i
      BY ONLY <1>1, <1>2
    <2> QED
      BY <1>1, <2>1
  <1> SUFFICES ASSUME NEW i \in 1..m + n, NEW j \in 1..m + n, i < j,
                      all[i] \in Effect, all[j] \in Effect
               PROVE  all[i][2] < all[j][2]
    BY <1>1 DEF InOrder, all
  <1>3. CASE i \in 1..m /\ j \in 1..m
    BY <1>1, <1>3 DEF InOrder
  <1>4. CASE i \in 1..m /\ j \notin 1..m
    <2>1. all[i] \in EffectsIn(h)
      BY <1>1, <1>4 DEF EffectsIn
    <2>2. all[j] \in EffectsIn(k)
      BY <1>1, <1>2, <1>4 DEF EffectsIn
    <2> QED
      BY <2>1, <2>2 DEF Earlier
  <1>5. CASE i \notin 1..m
    <2>1. j \notin 1..m
      BY ONLY <1>1, <1>5, i < j, i \in 1..m + n, j \in 1..m + n
    <2>2. i - m < j - m
      BY ONLY <1>1, i < j, i \in 1..m + n, j \in 1..m + n
    <2> QED
      BY <1>1, <1>2, <1>5, <2>1, <2>2 DEF InOrder
  <1> QED
    BY <1>3, <1>4, <1>5

LEMMA OrderOfTail ==
    ASSUME NEW h \in Seq(Callback), h # <<>>, InOrder(h)
    PROVE  /\ InOrder(Tail(h))
           /\ Earlier({Head(h)} \cap Effect, EffectsIn(Tail(h)))
  <1> DEFINE n == Len(h) - 1
  <1>1. /\ n \in Nat /\ DOMAIN h = 1..n + 1 /\ DOMAIN Tail(h) = 1..n /\ Head(h) = h[1]
        /\ \A i \in 1..n : Tail(h)[i] = h[i + 1]
    OBVIOUS
  <1> HIDE DEF n
  <1>2. \A i \in 1..n : i + 1 \in 1..n + 1 /\ 1 < i + 1
    BY ONLY <1>1
  <1>3. 1 \in 1..n + 1
    BY ONLY <1>1
  <1>4. InOrder(Tail(h))
    <2> SUFFICES ASSUME NEW i \in 1..n, NEW j \in 1..n, i < j,
                        Tail(h)[i] \in Effect, Tail(h)[j] \in Effect
                 PROVE  Tail(h)[i][2] < Tail(h)[j][2]
      BY <1>1 DEF InOrder
    <2>1. i + 1 < j + 1
      BY ONLY <1>1, i < j, i \in 1..n, j \in 1..n
    <2> QED
      BY <1>1, <1>2, <2>1 DEF InOrder
  <1>5. ASSUME NEW f \in EffectsIn(Tail(h)), Head(h) \in Effect PROVE Head(h)[2] < f[2]
    <2>1. PICK i \in 1..n : Tail(h)[i] = f /\ f \in Effect
      BY <1>1 DEF EffectsIn
    <2> QED
      BY <1>1, <1>2, <1>3, <1>5, <2>1 DEF InOrder
  <1> QED
    BY <1>4, <1>5 DEF Earlier

----------------------------------------------------------------------------

LEMMA TurnOfOpening ==
    ASSUME NEW frames \in Seq(Block), NEW block \in Block, block.hooks = <<>>, InTurn(frames)
    PROVE  /\ InTurn(Append(frames, block))
           /\ DueFrom(Append(frames, block), Len(frames) + 1) = DueFrom(frames, Len(frames))
  <1> DEFINE n == Len(frames)
             all == Append(frames, block)
  <1>1. /\ n \in Nat /\ Len(all) = n + 1 /\ all[n + 1] = block
        /\ \A i \in 1..n : all[i] = frames[i]
    OBVIOUS
  <1> HIDE DEF n, all
  <1>2. /\ \A i \in 1..n + 1 : i \in 1..n \/ i = n + 1
        /\ 1..n \subseteq 1..n + 1
        /\ \A i, j \in 1..n + 1 : i < j => i \in 1..n
    BY ONLY <1>1
  <1>3. EffectsIn(all[n + 1].hooks) = {} /\ InOrder(all[n + 1].hooks)
    BY <1>1, NoEffects, OrderOfNone
  <1>4. DueFrom(all, n + 1) = DueFrom(frames, n)
    BY ONLY <1>1, <1>2, <1>3 DEF DueFrom
  <1>5. \A i \in 1..n + 1 : InOrder(all[i].hooks)
    BY <1>1, <1>2, <1>3 DEF InTurn, n
  <1>6. ASSUME NEW i \in 1..n + 1, NEW j \in 1..n + 1, i < j
        PROVE  Earlier(EffectsIn(all[i].hooks), EffectsIn(all[j].hooks))
    <2>1. CASE j = n + 1
      BY <1>3, <2>1 DEF Earlier
    <2>2. CASE j # n + 1
      BY <1>1, <1>2, <1>6, <2>2 DEF InTurn, n
    <2> QED
      BY <2>1, <2>2
  <1>7. InTurn(all)
    BY ONLY <1>1, <1>5, <1>6 DEF InTurn
  <1> QED
    BY <1>4, <1>7 DEF n, all

LEMMA TurnOfRelease ==
    ASSUME NEW frames \in Seq(Block), Len(frames) > 1, InTurn(frames),
           NEW rest \in Seq(Block), Len(rest) = Len(frames) - 1,
           \A i \in 1..Len(rest) - 1 : rest[i].hooks = frames[i].hooks,
           InOrder(rest[Len(rest)].hooks),
           EffectsIn(rest[Len(rest)].hooks) =
               EffectsIn(frames[Len(rest)].hooks) \cup EffectsIn(frames[Len(frames)].hooks)
    PROVE  /\ InTurn(rest)
           /\ DueFrom(rest, Len(rest)) = DueFrom(frames, Len(frames))
  <1> DEFINE n == Len(rest)
  <1>1. /\ n \in Nat /\ n > 0 /\ Len(frames) = n + 1 /\ Len(rest) = n
        /\ \A i \in 1..n - 1 : rest[i].hooks = frames[i].hooks
        /\ InOrder(rest[n].hooks)
        /\ EffectsIn(rest[n].hooks) =
               EffectsIn(frames[n].hooks) \cup EffectsIn(frames[n + 1].hooks)
    OBVIOUS
  <1> HIDE DEF n
  <1>2. /\ \A i \in 1..n : i \in 1..n - 1 \/ i = n
        /\ \A i \in 1..n + 1 : i \in 1..n - 1 \/ i = n \/ i = n + 1
        /\ 1..n - 1 \subseteq 1..n /\ 1..n \subseteq 1..n + 1 /\ n \in 1..n /\ n + 1 \in 1..n + 1
        /\ \A i, j \in 1..n : i < j => i \in 1..n - 1 /\ i < n /\ i < n + 1
    BY ONLY <1>1
  <1>3. /\ \A i \in 1..n + 1 : InOrder(frames[i].hooks)
        /\ \A i, j \in 1..n + 1 : i < j =>
              Earlier(EffectsIn(frames[i].hooks), EffectsIn(frames[j].hooks))
    BY ONLY <1>1, InTurn(frames) DEF InTurn
  <1>4. DueFrom(rest, n) = DueFrom(frames, n + 1)
    BY ONLY <1>1, <1>2 DEF DueFrom
  <1>5. \A i \in 1..n : InOrder(rest[i].hooks)
    BY ONLY <1>1, <1>2, <1>3
  <1>6. ASSUME NEW i \in 1..n, NEW j \in 1..n, i < j
        PROVE  Earlier(EffectsIn(rest[i].hooks), EffectsIn(rest[j].hooks))
    <2>1. i \in 1..n - 1 /\ i < n /\ i < n + 1 /\ i \in 1..n + 1 /\ j \in 1..n + 1
          /\ n \in 1..n + 1 /\ n + 1 \in 1..n + 1
      BY ONLY <1>2, <1>6
    <2>2. CASE j = n
      <3>1. /\ Earlier(EffectsIn(frames[i].hooks), EffectsIn(frames[n].hooks))
            /\ Earlier(EffectsIn(frames[i].hooks), EffectsIn(frames[n + 1].hooks))
        BY ONLY <1>3, <2>1
      <3> QED
        BY ONLY <1>1, <2>1, <2>2, <3>1 DEF Earlier
    <2>3. CASE j # n
      <3>1. j \in 1..n - 1
        BY ONLY <1>2, <2>3, j \in 1..n
      <3> QED
        BY ONLY <1>1, <1>3, <1>6, <2>1, <3>1
    <2> QED
      BY <2>2, <2>3
  <1> QED
    BY <1>1, <1>4, <1>5, <1>6 DEF InTurn

LEMMA TurnOfRollBack ==
    ASSUME NEW frames \in Seq(Block), Len(frames) > 0, InTurn(frames),
           NEW rest \in Seq(Block), Len(rest) = Len(frames) - 1,
           \A i \in 1..Len(rest) : rest[i] = frames[i]
    PROVE  /\ InTurn(rest)
           /\ DueFrom(rest, Len(rest)) \subseteq DueFrom(frames, Len(frames))
  <1> DEFINE n == Len(rest)
  <1>1. n \in Nat /\ Len(frames) = n + 1 /\ Len(rest) = n /\ \A i \in 1..n : rest[i] = frames[i]
    OBVIOUS
  <1> HIDE DEF n
  <1>2. 1..n \subseteq 1..n + 1
    BY ONLY <1>1
  <1>3. InTurn(rest)
    BY ONLY <1>1, <1>2, InTurn(frames) DEF InTurn
  <1>4. DueFrom(rest, n) \subseteq DueFrom(frames, n + 1)
    BY ONLY <1>1, <1>2 DEF DueFrom
  <1> QED
    BY <1>1, <1>3, <1>4

LEMMA TurnOfRegistering ==
    ASSUME NEW frames \in Seq(Block), Len(frames) > 0, InTurn(frames),
           NEW more \in Seq(Block), Len(more) = Len(frames),
           \A i \in 1..Len(frames) - 1 : more[i].hooks = frames[i].hooks,
           InOrder(more[Len(frames)].hooks),
           NEW extra,
           \A i \in 1..Len(frames) - 1 : Earlier(EffectsIn(frames[i].hooks), extra),
           EffectsIn(more[Len(frames)].hooks) = EffectsIn(frames[Len(frames)].hooks) \cup extra
    PROVE  /\ InTurn(more)
           /\ DueFrom(more, Len(more)) = DueFrom(frames, Len(frames)) \cup extra
  <1> DEFINE n == Len(frames)
  <1>1. /\ n \in Nat /\ n > 0 /\ Len(more) = n /\ Len(frames) = n
        /\ \A i \in 1..n - 1 : more[i].hooks = frames[i].hooks
        /\ InOrder(more[n].hooks)
        /\ \A i \in 1..n - 1 : Earlier(EffectsIn(frames[i].hooks), extra)
        /\ EffectsIn(more[n].hooks) = EffectsIn(frames[n].hooks) \cup extra
    OBVIOUS
  <1> HIDE DEF n
  <1>2. /\ \A i \in 1..n : i \in 1..n - 1 \/ i = n
        /\ 1..n - 1 \subseteq 1..n /\ n \in 1..n
        /\ \A i, j \in 1..n : i < j => i \in 1..n - 1
    BY ONLY <1>1
  <1>3. /\ \A i \in 1..n : InOrder(frames[i].hooks)
        /\ \A i, j \in 1..n : i < j =>
              Earlier(EffectsIn(frames[i].hooks), EffectsIn(frames[j].hooks))
    BY ONLY <1>1, InTurn(frames) DEF InTurn
  <1>4. DueFrom(more, n) = DueFrom(frames, n) \cup extra
    <2>1. extra \subseteq Effect
      BY <1>1 DEF EffectsIn
    <2> QED
      BY ONLY <1>1, <1>2, <2>1 DEF DueFrom
  <1>5. \A i \in 1..n : InOrder(more[i].hooks)
    BY ONLY <1>1, <1>2, <1>3
  <1>6. ASSUME NEW i \in 1..n, NEW j \in 1..n, i < j
        PROVE  Earlier(EffectsIn(more[i].hooks), EffectsIn(more[j].hooks))
    <2>1. i \in 1..n - 1 /\ Earlier(EffectsIn(frames[i].hooks), EffectsIn(frames[j].hooks))
      BY ONLY <1>2, <1>3, <1>6
    <2>2. CASE j = n
      BY ONLY <1>1, <2>1, <2>2 DEF Earlier
    <2>3. CASE j # n
      BY ONLY <1>1, <1>2, <2>1, <2>3, j \in 1..n
    <2> QED
      BY <2>2, <2>3
  <1> QED
    BY <1>1, <1>4, <1>5, <1>6 DEF InTurn

----------------------------------------------------------------------------

\* New effects take a number of their own, and are handed off or have a callback, not both
NewEffects(s, called, recorded, handed, ahead, count, handed2, ahead2, count2) ==
    /\ called \cup recorded \subseteq {<<s, count + 1>>} /\ called \cap recorded = {}
    /\ handed2 \subseteq handed \cup recorded
    /\ ahead2[s] \subseteq ahead[s] \cup called
    /\ \A t \in Sessions \ {s} : ahead2[t] = ahead[t]
    /\ count2 \in {count, count + 1} /\ (called \cup recorded # {} => count2 = count + 1)

LEMMA NumbersGoOn ==
    ASSUME NEW settled \in SUBSET Effect, NEW handed \in SUBSET Effect,
           NEW ahead \in [Sessions -> SUBSET Effect], NEW count \in Nat,
           Numbered(settled, handed, ahead, count),
           NEW s \in Sessions, NEW called, NEW recorded,
           NEW handed2, NEW ahead2, NEW count2,
           NewEffects(s, called, recorded, handed, ahead, count, handed2, ahead2, count2)
    PROVE  Numbered(settled, handed2, ahead2, count2)
  <1> DEFINE new == <<s, count + 1>>
  <1>1. /\ new[1] = s /\ new[2] = count + 1
        /\ \A e \in called \cup recorded : e = new /\ count2 = count + 1
        /\ count2 \in {count, count + 1} /\ called \cap recorded = {}
        /\ handed2 \subseteq handed \cup recorded /\ ahead2[s] \subseteq ahead[s] \cup called
        /\ \A t \in Sessions \ {s} : ahead2[t] = ahead[t]
    BY DEF NewEffects
  <1>2. \A e \in Effect : e[2] \in Nat
    BY EffectParts
  <1>3. /\ \A e \in settled \cup handed : e[2] <= count
        /\ settled \cap handed = {}
        /\ \A t \in Sessions : \A e \in ahead[t] :
              e[1] = t /\ e[2] <= count /\ e \notin handed
        /\ \A t \in Sessions : \A e \in settled, f \in ahead[t] : e[1] = t => e[2] < f[2]
    BY DEF Numbered
  <1> HIDE DEF new
  <1>4. \A e \in Effect : e[2] <= count => e # new /\ e[2] <= count2 /\ e[2] < new[2]
    BY ONLY <1>1, <1>2, count \in Nat
  <1>5. /\ \A e \in settled \cup handed : e \in Effect
        /\ \A t \in Sessions : \A e \in ahead[t] : e \in Effect
    OBVIOUS
  <1>6. \A e \in handed2 : e \in handed \/ (e \in recorded /\ e = new)
    BY <1>1
  <1>7. \A t \in Sessions : \A e \in ahead2[t] :
            e \in ahead[t] \/ (e \in called /\ e = new /\ t = s)
    BY <1>1
  <1>8. count \in Nat /\ (called \cup recorded # {} => new[2] <= count2)
    BY <1>1
  <1>9. \A e \in settled \cup handed2 : e[2] <= count2
    BY ONLY <1>3, <1>4, <1>5, <1>6, <1>8
  <1>10. settled \cap handed2 = {}
    BY ONLY <1>3, <1>4, <1>5, <1>6
  <1>11. ASSUME NEW t \in Sessions, NEW e \in ahead2[t]
         PROVE  e[1] = t /\ e[2] <= count2 /\ e \notin handed2
    <2>1. CASE e \in ahead[t]
      BY ONLY <1>3, <1>4, <1>5, <1>6, <2>1, t \in Sessions
    <2>2. CASE e \notin ahead[t]
      <3>1. e \in called /\ e = new /\ t = s /\ e \notin recorded
        BY ONLY <1>1, <1>7, <2>2, t \in Sessions, e \in ahead2[t]
      <3> QED
        BY ONLY <1>1, <1>3, <1>4, <1>5, <1>6, <1>8, <3>1
    <2> QED
      BY <2>1, <2>2
  <1>12. \A t \in Sessions : \A e \in settled, f \in ahead2[t] : e[1] = t => e[2] < f[2]
    BY ONLY <1>3, <1>4, <1>5, <1>7
  <1> QED
    BY ONLY <1>9, <1>10, <1>11, <1>12 DEF Numbered

\* Callbacks that are settled were ahead of those that are left
LEMMA NumbersSettle ==
    ASSUME NEW settled \in SUBSET Effect, NEW handed \in SUBSET Effect,
           NEW ahead \in [Sessions -> SUBSET Effect], NEW count \in Nat,
           Numbered(settled, handed, ahead, count),
           NEW s \in Sessions, NEW moved \in SUBSET ahead[s], NEW left \in SUBSET ahead[s],
           Earlier(moved, left)
    PROVE  /\ Numbered(settled \cup moved, handed, [ahead EXCEPT ![s] = left], count)
           /\ settled \cap ahead[s] = {}
  <1>1. /\ \A e \in settled \cup handed : e[2] <= count
        /\ settled \cap handed = {}
        /\ \A t \in Sessions : \A e \in ahead[t] :
              e[1] = t /\ e[2] <= count /\ e \notin handed
        /\ \A t \in Sessions : \A e \in settled, f \in ahead[t] : e[1] = t => e[2] < f[2]
    BY DEF Numbered
  <1> DEFINE ahead2 == [ahead EXCEPT ![s] = left]
  <1>2. ahead2[s] = left /\ \A t \in Sessions \ {s} : ahead2[t] = ahead[t]
    OBVIOUS
  <1> HIDE DEF ahead2
  <1>3. \A t \in Sessions : \A e \in ahead2[t] : e \in ahead[t]
    BY <1>2
  <1>4. \A t \in Sessions : \A e \in moved, f \in ahead2[t] : e[1] = t => e[2] < f[2]
    BY <1>1, <1>2 DEF Earlier
  <1>5. \A e \in Effect : ~(e[2] < e[2])
    BY EffectParts
  <1>6. settled \cap ahead[s] = {}
    BY <1>1, <1>5
  <1>7. Numbered(settled \cup moved, handed, ahead2, count)
    BY ONLY <1>1, <1>3, <1>4, s \in Sessions, moved \in SUBSET ahead[s] DEF Numbered
  <1> QED
    BY <1>6, <1>7 DEF ahead2

LEMMA OrderTypes ==
    /\ Ahead \in [Sessions -> SUBSET Effect] /\ HandedOff \in SUBSET Effect
    /\ Ahead' \in [Sessions -> SUBSET Effect] /\ HandedOff' \in SUBSET Effect
    /\ TransactionTypeOK => Settled \in SUBSET Effect /\ effects \in Nat
  <1>1. \A h : EffectsIn(h) \in SUBSET Effect
    BY DEF EffectsIn
  <1>2. \A frames, j : DueFrom(frames, j) \in SUBSET Effect
    BY DEF DueFrom
  <1>3. HandedOff \in SUBSET Effect /\ HandedOff' \in SUBSET Effect
    BY DEF HandedOff
  <1>4. ASSUME TransactionTypeOK PROVE Settled \in SUBSET Effect /\ effects \in Nat
    BY <1>4, TransactionAssumption DEF TransactionTypeOK, Settled, Members
  <1> QED
    BY <1>1, <1>2, <1>3, <1>4 DEF Ahead

LEMMA HandedOffGrows ==
    ASSUME NEW s \in Sessions, NEW extra,
           \A e \in db'.handoffs : e \in db.handoffs \/ e \in own[s].handoffs,
           \A t \in Sessions \ {s} : own'[t] = own[t] /\ blocks'[t] = blocks[t],
           \A e \in own'[s].handoffs \cap Effect : e \in HandedOff \/ e \in extra,
           \A i \in 1..Len(blocks'[s]) :
               blocks'[s][i].before.handoffs \cap Effect \subseteq HandedOff
    PROVE  HandedOff' \in SUBSET (HandedOff \cup extra)
  <1> SUFFICES ASSUME NEW e \in Effect, e \in HandedOff' PROVE e \in HandedOff \/ e \in extra
    BY DEF HandedOff
  <1>1. CASE e \in db'.handoffs
    BY <1>1 DEF HandedOff
  <1>2. CASE \E t \in Sessions :
                \/ e \in own'[t].handoffs
                \/ \E i \in 1..Len(blocks'[t]) : e \in blocks'[t][i].before.handoffs
    <2>1. PICK t \in Sessions :
                \/ e \in own'[t].handoffs
                \/ \E i \in 1..Len(blocks'[t]) : e \in blocks'[t][i].before.handoffs
      BY <1>2
    <2>2. CASE t = s
      BY <2>1, <2>2
    <2>3. CASE t # s
      BY <2>1, <2>3 DEF HandedOff
    <2> QED
      BY <2>2, <2>3
  <1> QED
    BY <1>1, <1>2 DEF HandedOff

\* Steps that settle nothing
OnlyAdds(s, called, recorded) ==
    /\ UNCHANGED <<done, dropped>>
    /\ \A t \in Sessions \ {s} : hooks'[t] = hooks[t] /\ blocks'[t] = blocks[t]
    /\ InOrder(hooks'[s]) /\ InTurn(blocks'[s])
    /\ called \cup recorded \subseteq {<<s, effects + 1>>} /\ called \cap recorded = {}
    /\ EffectsIn(hooks'[s]) \cup DueFrom(blocks'[s], Len(blocks'[s]))
           \subseteq EffectsIn(hooks[s]) \cup DueFrom(blocks[s], Len(blocks[s])) \cup called
    /\ HandedOff' \in SUBSET (HandedOff \cup recorded)
    /\ effects' \in {effects, effects + 1}
    /\ called \cup recorded # {} => effects' = effects + 1

LEMMA OrderGoesOn ==
    ASSUME TransactionTypeOK, OrderInv, NEW s \in Sessions,
           NEW called, NEW recorded, OnlyAdds(s, called, recorded)
    PROVE  OrderInv'
  <1>1. \A t \in Sessions : InOrder(hooks'[t]) /\ InTurn(blocks'[t])
    BY DEF OrderInv, OnlyAdds
  <1>2. /\ Ahead'[s] \subseteq Ahead[s] \cup called
        /\ \A t \in Sessions \ {s} : Ahead'[t] = Ahead[t]
    BY DEF Ahead, OnlyAdds
  <1>3. Settled' = Settled
    BY DEF Settled, OnlyAdds
  <1>4. Numbered(Settled, HandedOff, Ahead, effects)
    BY DEF OrderInv
  <1>5. Numbered(Settled, HandedOff', Ahead', effects')
    <2>1. /\ Settled \in SUBSET Effect /\ HandedOff \in SUBSET Effect /\ effects \in Nat
          /\ Ahead \in [Sessions -> SUBSET Effect] /\ Ahead' \in [Sessions -> SUBSET Effect]
      BY OrderTypes
    <2>2. NewEffects(s, called, recorded, HandedOff, Ahead, effects, HandedOff', Ahead', effects')
      BY <1>2 DEF NewEffects, OnlyAdds
    <2> QED
      BY ONLY <1>2, <1>4, <2>1, <2>2, s \in Sessions, NumbersGoOn
  <1>6. Numbered(Settled', HandedOff', Ahead', effects')
    BY <1>3, <1>5
  <1>7. Members(done') \cap dropped' = {} /\ DoneInOrder'
    BY DEF OrderInv, DoneInOrder, OnlyAdds
  <1> QED
    BY <1>1, <1>6, <1>7 DEF OrderInv

LEMMA OrderInit == TransactionInit => OrderInv
  <1> SUFFICES ASSUME TransactionInit PROVE OrderInv
    OBVIOUS
  <1>1. Len(<<>>) = 0 /\ 1..0 = {} /\ DOMAIN <<>> = {}
    OBVIOUS
  <1>2. /\ db.handoffs = {} /\ done = <<>> /\ dropped = {} /\ effects = 0
        /\ \A s \in Sessions : hooks[s] = <<>> /\ blocks[s] = <<>> /\ own[s].handoffs = {}
    BY DEF TransactionInit, Nothing
  <1>3. \A s \in Sessions : InOrder(hooks[s]) /\ InTurn(blocks[s])
    BY <1>1, <1>2, OrderOfNone DEF InTurn
  <1>4. Settled = {}
    BY <1>1, <1>2 DEF Settled, Members
  <1>5. HandedOff = {}
    BY <1>1, <1>2 DEF HandedOff
  <1>6. \A s \in Sessions : Ahead[s] = {}
    BY <1>1, <1>2, NoEffects DEF Ahead, DueFrom
  <1>7. Numbered(Settled, HandedOff, Ahead, effects)
    BY <1>4, <1>5, <1>6 DEF Numbered
  <1>8. Members(done) \cap dropped = {} /\ DoneInOrder
    BY <1>1, <1>2 DEF DoneInOrder
  <1> QED
    BY <1>3, <1>7, <1>8 DEF OrderInv

----------------------------------------------------------------------------

\* What was written before a block began is handed off already
LEMMA HandedBefore ==
    ASSUME NEW s \in Sessions
    PROVE  /\ own[s].handoffs \cap Effect \subseteq HandedOff
           /\ \A i \in 1..Len(blocks[s]) :
                 blocks[s][i].before.handoffs \cap Effect \subseteq HandedOff
  BY DEF HandedOff

LEMMA OpenOrders ==
    ASSUME TransactionTypeOK, OrderInv, NEW s \in Sessions, Open(s) PROVE OrderInv'
  <1> DEFINE block == [before |-> own[s], hooks |-> <<>>]
             n == Len(blocks[s])
  <1>1. /\ blocks \in [Sessions -> Seq(Block)] /\ blocks[s] \in Seq(Block) /\ n \in Nat
        /\ own[s] \in Written /\ InTurn(blocks[s]) /\ InOrder(hooks[s])
    BY Typed DEF TransactionTypeOK, OrderInv
  <1>2. /\ UNCHANGED <<db, own, hooks, done, dropped, effects>>
        /\ blocks' = [blocks EXCEPT ![s] = Append(blocks[s], block)]
    BY DEF Open
  <1>3. block \in Block /\ block.hooks = <<>> /\ block.before = own[s]
    BY <1>1 DEF Block, Callbacks
  <1> HIDE DEF block
  <1>4. /\ blocks'[s] = Append(blocks[s], block) /\ Len(blocks'[s]) = n + 1
        /\ blocks'[s][n + 1] = block /\ \A i \in 1..n : blocks'[s][i] = blocks[s][i]
        /\ \A t \in Sessions \ {s} : blocks'[t] = blocks[t]
    BY <1>1, <1>2, <1>3
  <1>5. InTurn(blocks'[s]) /\ DueFrom(blocks'[s], n + 1) = DueFrom(blocks[s], n)
    BY <1>1, <1>3, <1>4, TurnOfOpening
  <1>6. HandedOff' \in SUBSET (HandedOff \cup {})
    <2>1. \A i \in 1..n + 1 : i \in 1..n \/ i = n + 1
      BY ONLY <1>1
    <2>2. \A i \in 1..n + 1 : blocks'[s][i].before.handoffs \cap Effect \subseteq HandedOff
      BY <1>3, <1>4, <2>1, HandedBefore
    <2>3. own'[s].handoffs \cap Effect \subseteq HandedOff
      BY <1>2, HandedBefore
    <2> QED
      BY ONLY <1>2, <1>4, <2>2, <2>3, s \in Sessions, HandedOffGrows
  <1>7. OnlyAdds(s, {}, {})
    BY ONLY <1>1, <1>2, <1>4, <1>5, <1>6 DEF OnlyAdds
  <1> QED
    BY ONLY <1>7, TransactionTypeOK, OrderInv, s \in Sessions, OrderGoesOn

LEMMA ReleaseOrders ==
    ASSUME TransactionTypeOK, OrderInv, NEW s \in Sessions, Release(s) PROVE OrderInv'
  <1> DEFINE frames == blocks[s]
             rest == blocks'[s]
             n == Depth(s) - 1
  <1>1. /\ n \in Nat /\ n > 0 /\ Len(frames) = n + 1 /\ frames \in Seq(Block)
        /\ frames[n].hooks \in Seq(Callback) /\ frames[n + 1].hooks \in Seq(Callback)
    <2>1. /\ Depth(s) \in Nat /\ Depth(s) > 1 /\ blocks[s] \in Seq(Block)
          /\ Depth(s) = Len(blocks[s])
          /\ \A i \in 1..Depth(s) : blocks[s][i].hooks \in Seq(Callback)
      BY Typed DEF Release, Depth
    <2>2. n \in Nat /\ n > 0 /\ Depth(s) = n + 1 /\ n \in 1..Depth(s) /\ n + 1 \in 1..Depth(s)
      BY ONLY <2>1
    <2> QED
      BY ONLY <2>1, <2>2
  <1>2. /\ rest \in Seq(Block) /\ Len(rest) = n
        /\ \A i \in 1..n : rest[i].before = frames[i].before
        /\ \A i \in 1..n - 1 : rest[i].hooks = frames[i].hooks
        /\ rest[n].hooks = frames[n].hooks \o frames[n + 1].hooks
    <2>1. n - 1 = Depth(s) - 2 /\ n + 1 = Depth(s)
      BY Typed
    <2> QED
      BY <1>1, <2>1, ReleaseFacts
  <1>3. /\ UNCHANGED <<db, own, hooks, done, dropped, effects>>
        /\ \A t \in Sessions \ {s} : blocks'[t] = blocks[t]
        /\ InTurn(frames) /\ InOrder(hooks'[s])
    BY ReleaseFacts DEF Release, OrderInv
  <1>4. \A i \in 1..n + 1 : frames[i].before.handoffs \cap Effect \subseteq HandedOff
    BY <1>1, HandedBefore
  <1>5. own'[s].handoffs \cap Effect \subseteq HandedOff
    BY <1>3, HandedBefore
  <1> HIDE DEF n
  <1>6. HandedOff' \in SUBSET (HandedOff \cup {})
    <2>1. 1..n \subseteq 1..n + 1
      BY ONLY <1>1
    <2>2. \A i \in 1..Len(blocks'[s]) : blocks'[s][i].before.handoffs \cap Effect \subseteq HandedOff
      BY ONLY <1>2, <1>4, <2>1
    <2> QED
      BY ONLY <1>3, <1>5, <2>2, s \in Sessions, HandedOffGrows
  <1> HIDE DEF frames, rest
  <1>7. /\ EffectsIn(rest[n].hooks) = EffectsIn(frames[n].hooks) \cup EffectsIn(frames[n + 1].hooks)
        /\ InOrder(rest[n].hooks)
    <2>1. n \in 1..n + 1 /\ n + 1 \in 1..n + 1 /\ n < n + 1
      BY ONLY <1>1
    <2>2. /\ InOrder(frames[n].hooks) /\ InOrder(frames[n + 1].hooks)
          /\ Earlier(EffectsIn(frames[n].hooks), EffectsIn(frames[n + 1].hooks))
      BY ONLY <1>1, <1>3, <2>1 DEF InTurn
    <2> QED
      BY <1>1, <1>2, <2>2, EffectsOfJoin, OrderOfJoin
  <1>8. InTurn(rest) /\ DueFrom(rest, n) = DueFrom(frames, n + 1)
    <2>1. Len(frames) > 1 /\ Len(rest) = Len(frames) - 1
      BY ONLY <1>1, <1>2
    <2> QED
      BY ONLY <1>1, <1>2, <1>3, <1>7, <2>1, TurnOfRelease
  <1> USE DEF frames, rest
  <1>9. OnlyAdds(s, {}, {})
    BY ONLY <1>1, <1>2, <1>3, <1>6, <1>8 DEF OnlyAdds
  <1> QED
    BY ONLY <1>9, TransactionTypeOK, OrderInv, s \in Sessions, OrderGoesOn

LEMMA RollBackOrders ==
    ASSUME TransactionTypeOK, OrderInv, NEW s \in Sessions, InBlock(s), RollBack(s)
    PROVE  OrderInv'
  <1> DEFINE n == Len(blocks[s]) - 1
  <1>1. /\ Depth(s) > 0 /\ Len(blocks[s]) = n + 1 /\ n \in Nat /\ blocks[s] \in Seq(Block)
        /\ InTurn(blocks[s])
    BY Typed DEF InBlock, Depth, OrderInv
  <1>2. /\ UNCHANGED <<db, hooks, done, dropped, effects>>
        /\ \A t \in Sessions \ {s} : own'[t] = own[t] /\ blocks'[t] = blocks[t]
        /\ own'[s] = blocks[s][n + 1].before /\ blocks'[s] = Outer(s) /\ InOrder(hooks'[s])
    BY <1>1 DEF RollBack, Inner, Depth, TransactionTypeOK, OrderInv
  <1>3. /\ Outer(s) \in Seq(Block) /\ Len(Outer(s)) = n
        /\ \A i \in 1..n : Outer(s)[i] = blocks[s][i]
    BY <1>1, OuterFacts DEF Depth
  <1>4. \A i \in 1..n + 1 : blocks[s][i].before.handoffs \cap Effect \subseteq HandedOff
    BY <1>1, HandedBefore
  <1> HIDE DEF n
  <1>5. HandedOff' \in SUBSET (HandedOff \cup {})
    <2>1. n + 1 \in 1..n + 1 /\ 1..n \subseteq 1..n + 1
      BY ONLY <1>1
    <2>2. /\ own'[s].handoffs \cap Effect \subseteq HandedOff
          /\ \A i \in 1..Len(blocks'[s]) :
                blocks'[s][i].before.handoffs \cap Effect \subseteq HandedOff
      BY ONLY <1>2, <1>3, <1>4, <2>1
    <2> QED
      BY ONLY <1>2, <2>2, s \in Sessions, HandedOffGrows
  <1>6. InTurn(blocks'[s]) /\ DueFrom(blocks'[s], n) \subseteq DueFrom(blocks[s], n + 1)
    <2>1. Len(blocks[s]) > 0 /\ Len(blocks[s]) - 1 = n
      BY ONLY <1>1
    <2> QED
      BY <1>1, <1>2, <1>3, <2>1, TurnOfRollBack
  <1>7. OnlyAdds(s, {}, {})
    BY ONLY <1>1, <1>2, <1>3, <1>5, <1>6 DEF OnlyAdds
  <1> QED
    BY ONLY <1>7, TransactionTypeOK, OrderInv, s \in Sessions, OrderGoesOn

LEMMA CommitOrders ==
    ASSUME TransactionTypeOK, OrderInv, NEW s \in Sessions, Commit(s) PROVE OrderInv'
  <1> DEFINE k == blocks[s][1].hooks
  <1>1. /\ own \in [Sessions -> Written] /\ hooks \in [Sessions -> Callbacks]
        /\ blocks \in [Sessions -> Seq(Block)]
        /\ InTurn(blocks[s]) /\ Len(blocks[s]) = 1
    BY DEF TransactionTypeOK, OrderInv, Commit, Depth
  <1>2. /\ db'.handoffs = db.handoffs \cup own[s].handoffs
        /\ hooks' = [hooks EXCEPT ![s] = k]
        /\ own'[s] = Nothing /\ blocks'[s] = <<>>
        /\ \A t \in Sessions \ {s} : own'[t] = own[t] /\ blocks'[t] = blocks[t]
        /\ UNCHANGED <<done, dropped, effects>>
    BY <1>1 DEF Commit, Depth, Inner
  <1>3. hooks'[s] = k /\ \A t \in Sessions \ {s} : hooks'[t] = hooks[t]
    BY <1>1, <1>2
  <1>4. 1 \in 1..1 /\ (\A i \in 1..1 : i = 1) /\ 1..0 = {} /\ Len(<<>>) = 0
    OBVIOUS
  <1>5. InOrder(k) /\ DueFrom(blocks[s], 1) = EffectsIn(k)
    <2>1. InOrder(k)
      BY <1>1, <1>4 DEF InTurn
    <2>2. DueFrom(blocks[s], 1) = EffectsIn(k)
      BY <1>4 DEF DueFrom, EffectsIn
    <2> QED
      BY <2>1, <2>2
  <1> HIDE DEF k
  <1>6. InTurn(<<>>) /\ DueFrom(<<>>, 0) = {}
    BY <1>4 DEF InTurn, DueFrom
  <1>7. HandedOff' \in SUBSET (HandedOff \cup {})
    <2>1. /\ own'[s].handoffs \cap Effect \subseteq HandedOff
          /\ \A i \in 1..Len(blocks'[s]) :
                blocks'[s][i].before.handoffs \cap Effect \subseteq HandedOff
      BY <1>2, <1>4 DEF Nothing
    <2> QED
      BY ONLY <1>2, <2>1, s \in Sessions, HandedOffGrows
  <1>8. OnlyAdds(s, {}, {})
    BY ONLY <1>1, <1>2, <1>3, <1>4, <1>5, <1>6, <1>7 DEF OnlyAdds
  <1> QED
    BY ONLY <1>8, TransactionTypeOK, OrderInv, s \in Sessions, OrderGoesOn


\* Registering a callback for a new effect, or for none
LEMMA RegisterOrders ==
    ASSUME TransactionTypeOK, OrderInv, NEW s \in Sessions, Depth(s) > 0,
           NEW callback \in Callback, callback \in Effect => callback = <<s, effects + 1>>
    PROVE  LET more == AfterCommit(s, callback)[s] IN
           /\ InTurn(more)
           /\ DueFrom(more, Len(more)) =
                  DueFrom(blocks[s], Len(blocks[s])) \cup ({callback} \cap Effect)
  <1> DEFINE frames == blocks[s]
             more == AfterCommit(s, callback)[s]
             n == Len(frames)
             extra == {callback} \cap Effect
  <1>1. /\ frames \in Seq(Block) /\ n \in Nat /\ n > 0 /\ n = Depth(s) /\ n = Len(frames)
        /\ frames[n].hooks \in Seq(Callback) /\ frames[n] = Inner(s)
        /\ InTurn(frames)
    BY Typed DEF Depth, OrderInv
  <1>2. /\ more \in Seq(Block) /\ Len(more) = n
        /\ \A i \in 1..n - 1 : more[i].hooks = frames[i].hooks
        /\ more[n].hooks = Append(frames[n].hooks, callback)
    BY <1>1, AfterCommitFacts
  <1>3. \A i \in 1..n : Earlier(EffectsIn(frames[i].hooks), extra)
    <2> SUFFICES ASSUME NEW i \in 1..n, NEW e \in EffectsIn(frames[i].hooks), callback \in Effect
                 PROVE  e[2] < callback[2]
      BY DEF Earlier
    <2>1. e \in Effect /\ e \in DueFrom(frames, n)
      BY DEF DueFrom, EffectsIn
    <2>2. e[2] \in Nat /\ e[2] <= effects /\ effects \in Nat
      BY <2>1, OrderTypes, EffectParts DEF OrderInv, Numbered, Ahead
    <2>3. callback[2] = effects + 1
      OBVIOUS
    <2> QED
      BY ONLY <2>2, <2>3
  <1> HIDE DEF frames, more, n
  <1>4. EffectsIn(more[n].hooks) = EffectsIn(frames[n].hooks) \cup extra
    BY <1>1, <1>2, EffectsOfAppend
  <1>5. n \in 1..n /\ 1..n - 1 \subseteq 1..n
    BY ONLY <1>1
  <1>6. InOrder(more[n].hooks)
    <2>1. InOrder(frames[n].hooks)
      BY ONLY <1>1, <1>5 DEF InTurn
    <2>2. callback \in Effect => \A e \in EffectsIn(frames[n].hooks) : e[2] < callback[2]
      BY ONLY <1>3, <1>5 DEF Earlier, extra
    <2> QED
      BY ONLY <1>1, <1>2, <2>1, <2>2, callback \in Callback, OrderOfAppend
  <1> HIDE DEF extra
  <1>7. InTurn(more) /\ DueFrom(more, Len(more)) = DueFrom(frames, n) \cup extra
    <2>1. /\ Len(frames) > 0 /\ Len(more) = Len(frames)
          /\ \A i \in 1..Len(frames) - 1 : more[i].hooks = frames[i].hooks
          /\ \A i \in 1..Len(frames) - 1 : Earlier(EffectsIn(frames[i].hooks), extra)
          /\ InOrder(more[Len(frames)].hooks)
          /\ EffectsIn(more[Len(frames)].hooks) = EffectsIn(frames[Len(frames)].hooks) \cup extra
      BY ONLY <1>1, <1>2, <1>3, <1>4, <1>5, <1>6
    <2>2. InTurn(more) /\ DueFrom(more, Len(more)) = DueFrom(frames, Len(frames)) \cup extra
      BY ONLY <1>1, <1>2, <2>1, TurnOfRegistering
    <2> QED
      BY ONLY <1>1, <2>2
  <1> QED
    BY <1>7 DEF frames, more, n, extra

LEMMA EmitOrders ==
    ASSUME TransactionTypeOK, OrderInv, NEW s \in Sessions, NEW kind \in Kinds, Emit(s, kind)
    PROVE  OrderInv'
  <1> DEFINE effect == <<s, effects + 1>>
  <1>1. /\ own \in [Sessions -> Written] /\ own[s] \in Written
        /\ Depth(s) > 0 /\ effect \in Effect /\ effect \in Callback
        /\ UNCHANGED <<db, hooks, done, dropped>> /\ effects' = effects + 1
        /\ InOrder(hooks[s]) /\ InTurn(blocks[s])
    BY Typed, EmitFacts DEF TransactionTypeOK, Emit, InBlock, Callback, OrderInv
  <1>2. CASE Delivery[kind] = "row"
    <2> DEFINE writes == [own[s] EXCEPT !.posts = @ \cup {effect}, !.handoffs = @ \cup {effect}]
    <2>1. own' = [own EXCEPT ![s] = writes] /\ blocks' = blocks
      BY <1>1, <1>2 DEF Emit, Written
    <2>2. writes.handoffs = own[s].handoffs \cup {effect}
      BY <1>1 DEF Written
    <2> HIDE DEF writes
    <2>3. /\ own'[s] = writes /\ \A t \in Sessions \ {s} : own'[t] = own[t]
      BY <1>1, <2>1
    <2>4. HandedOff' \in SUBSET (HandedOff \cup {effect})
      <3>1. \A e \in own'[s].handoffs \cap Effect : e \in HandedOff \/ e \in {effect}
        BY <2>2, <2>3, HandedBefore
      <3> QED
        BY <1>1, <2>1, <2>3, <3>1, HandedBefore, HandedOffGrows
    <2>5. OnlyAdds(s, {}, {effect})
      BY <1>1, <2>1, <2>4 DEF OnlyAdds
    <2> QED
      BY ONLY <2>5, TransactionTypeOK, OrderInv, s \in Sessions, OrderGoesOn
  <1>3. CASE Delivery[kind] # "row"
    <2> DEFINE writes == [own[s] EXCEPT !.posts = @ \cup {effect}]
    <2>1. own' = [own EXCEPT ![s] = writes] /\ blocks' = AfterCommit(s, effect)
      BY <1>3 DEF Emit
    <2>2. writes.handoffs = own[s].handoffs
      BY <1>1 DEF Written
    <2> HIDE DEF writes
    <2>3. /\ own'[s].handoffs = own[s].handoffs /\ \A t \in Sessions \ {s} : own'[t] = own[t]
      BY <1>1, <2>1, <2>2
    <2>4. /\ \A t \in Sessions \ {s} : blocks'[t] = blocks[t]
          /\ Len(blocks'[s]) = Len(blocks[s])
          /\ \A i \in 1..Len(blocks[s]) : blocks'[s][i].before = blocks[s][i].before
      BY <1>1, <2>1, AfterCommitFacts DEF Depth
    <2>5. HandedOff' \in SUBSET (HandedOff \cup {})
      <3>1. /\ \A e \in own'[s].handoffs \cap Effect : e \in HandedOff \/ e \in {}
            /\ \A i \in 1..Len(blocks'[s]) :
                  blocks'[s][i].before.handoffs \cap Effect \subseteq HandedOff
        BY <2>3, <2>4, HandedBefore
      <3> QED
        BY <1>1, <2>3, <2>4, <3>1, HandedOffGrows
    <2>6. {effect} \cap Effect = {effect}
      BY <1>1
    <2>7. /\ InTurn(blocks'[s])
          /\ DueFrom(blocks'[s], Len(blocks'[s])) =
                 DueFrom(blocks[s], Len(blocks[s])) \cup {effect}
      BY <1>1, <2>1, <2>6, RegisterOrders
    <2>8. OnlyAdds(s, {effect}, {})
      BY <1>1, <2>4, <2>5, <2>7 DEF OnlyAdds
    <2> QED
      BY ONLY <2>8, TransactionTypeOK, OrderInv, s \in Sessions, OrderGoesOn
  <1> QED
    BY <1>2, <1>3

LEMMA SaveOrders ==
    ASSUME TransactionTypeOK, OrderInv, NEW s \in Sessions, Save(s) PROVE OrderInv'
  <1>1. /\ own \in [Sessions -> Written] /\ own[s] \in Written
        /\ Depth(s) > 0 /\ Clean \in Callback
        /\ UNCHANGED <<db, hooks, done, dropped, effects>>
        /\ blocks' = AfterCommit(s, Clean)
        /\ InOrder(hooks[s])
    BY Kinships DEF TransactionTypeOK, Save, InBlock, OrderInv
  <1>2. PICK row : own' = [own EXCEPT ![s] = [own[s] EXCEPT !.row = row]]
    BY DEF Save
  <1>3. /\ own'[s].handoffs = own[s].handoffs
        /\ \A t \in Sessions \ {s} : own'[t] = own[t]
    BY <1>1, <1>2 DEF Written
  <1>4. /\ \A t \in Sessions \ {s} : blocks'[t] = blocks[t]
        /\ Len(blocks'[s]) = Len(blocks[s])
        /\ \A i \in 1..Len(blocks[s]) : blocks'[s][i].before = blocks[s][i].before
    BY <1>1, AfterCommitFacts DEF Depth
  <1>5. HandedOff' \in SUBSET (HandedOff \cup {})
    <2>1. /\ \A e \in own'[s].handoffs \cap Effect : e \in HandedOff \/ e \in {}
          /\ \A i \in 1..Len(blocks'[s]) :
                blocks'[s][i].before.handoffs \cap Effect \subseteq HandedOff
      BY <1>3, <1>4, HandedBefore
    <2> QED
      BY <1>1, <1>3, <1>4, <2>1, HandedOffGrows
  <1>6. Clean \notin Effect /\ {Clean} \cap Effect = {}
    BY CleanIsNoEffect
  <1>7. /\ InTurn(blocks'[s])
        /\ DueFrom(blocks'[s], Len(blocks'[s])) = DueFrom(blocks[s], Len(blocks[s]))
    BY <1>1, <1>6, RegisterOrders
  <1>8. OnlyAdds(s, {}, {})
    BY <1>1, <1>4, <1>5, <1>7 DEF OnlyAdds
  <1> QED
    BY ONLY <1>8, TransactionTypeOK, OrderInv, s \in Sessions, OrderGoesOn


\* Between transactions a session's callbacks wait alone: its blocks are closed
LEMMA Alone ==
    ASSUME LockInv, NEW s \in Sessions, ~Free(s)
    PROVE  blocks[s] = <<>> /\ Ahead[s] = EffectsIn(hooks[s])
  <1>1. blocks[s] = <<>>
    BY DEF LockInv, Sound, Frames, FrameRule, Free
  <1>2. Len(<<>>) = 0 /\ 1..0 = {}
    OBVIOUS
  <1> QED
    BY <1>1, <1>2 DEF Ahead, DueFrom

\* Callbacks that were ahead are settled, and earlier than those that are left
LEMMA OrderSettles ==
    ASSUME TransactionTypeOK, OrderInv, NEW s \in Sessions, NEW rest \in Seq(Callback),
           UNCHANGED <<db, own, blocks, effects>>, hooks' = [hooks EXCEPT ![s] = rest],
           blocks[s] = <<>>, InOrder(rest),
           NEW moved, moved \subseteq EffectsIn(hooks[s]), Settled' = Settled \cup moved,
           EffectsIn(rest) \subseteq EffectsIn(hooks[s]), Earlier(moved, EffectsIn(rest))
    PROVE  /\ Numbered(Settled', HandedOff', Ahead', effects')
           /\ Settled \cap EffectsIn(hooks[s]) = {}
           /\ \A t \in Sessions : InOrder(hooks'[t]) /\ InTurn(blocks'[t])
  <1>1. hooks \in [Sessions -> Callbacks] /\ Len(<<>>) = 0 /\ 1..0 = {}
    BY DEF TransactionTypeOK
  <1>2. hooks'[s] = rest /\ \A t \in Sessions \ {s} : hooks'[t] = hooks[t]
    BY <1>1
  <1>3. Ahead[s] = EffectsIn(hooks[s]) /\ Ahead' = [Ahead EXCEPT ![s] = EffectsIn(rest)]
    <2>1. DueFrom(blocks[s], Len(blocks[s])) = {}
      BY <1>1 DEF DueFrom
    <2> QED
      BY <1>2, <2>1 DEF Ahead
  <1>4. HandedOff' = HandedOff
    BY DEF HandedOff
  <1>5. /\ Settled \in SUBSET Effect /\ HandedOff \in SUBSET Effect /\ effects \in Nat
        /\ Ahead \in [Sessions -> SUBSET Effect]
        /\ Numbered(Settled, HandedOff, Ahead, effects)
    BY OrderTypes DEF OrderInv
  <1>6. moved \in SUBSET Ahead[s] /\ EffectsIn(rest) \in SUBSET Ahead[s]
    BY <1>3
  <1>7. /\ Numbered(Settled \cup moved, HandedOff, [Ahead EXCEPT ![s] = EffectsIn(rest)], effects)
        /\ Settled \cap Ahead[s] = {}
    BY ONLY <1>5, <1>6, s \in Sessions, Earlier(moved, EffectsIn(rest)), NumbersSettle
  <1>8. \A t \in Sessions : InOrder(hooks'[t]) /\ InTurn(blocks'[t])
    BY <1>2 DEF OrderInv
  <1> QED
    BY <1>3, <1>4, <1>7, <1>8

LEMMA RunCallbackOrders ==
    ASSUME TransactionTypeOK, LockInv, OrderInv, NEW s \in Sessions, RunCallback(s)
    PROVE  OrderInv'
  <1> DEFINE h == hooks[s]
             moved == {Head(h)} \cap Effect
  <1>1. /\ ~Free(s) /\ h \in Seq(Callback) /\ h # <<>> /\ Tail(h) \in Seq(Callback)
        /\ Head(h) \in Callback /\ done \in Seq(Effect) /\ blocks[s] = <<>>
    BY HooksTyped, Alone DEF RunCallback, TransactionTypeOK
  <1>2. /\ UNCHANGED <<db, own, blocks, dropped, effects>>
        /\ hooks' = [hooks EXCEPT ![s] = Tail(h)]
        /\ Head(h) = Clean => done' = done
        /\ Head(h) # Clean => done' = Append(done, Head(h))
    BY DEF RunCallback
  <1>3. InOrder(h) /\ DoneInOrder /\ Members(done) \cap dropped = {}
    BY DEF OrderInv
  <1>4. /\ EffectsIn(h) = moved \cup EffectsIn(Tail(h))
        /\ InOrder(Tail(h)) /\ Earlier(moved, EffectsIn(Tail(h)))
    BY <1>1, <1>3, EffectsOfTail, OrderOfTail
  <1>5. /\ Head(h) = Clean => moved = {}
        /\ Head(h) # Clean => Head(h) \in Effect /\ moved = {Head(h)}
    BY <1>1, CleanIsNoEffect DEF Callback
  <1>6. Members(done') = Members(done) \cup moved
    BY <1>1, <1>2, <1>5, PublishedGrows
  <1>7. Settled' = Settled \cup moved
    BY <1>2, <1>6 DEF Settled
  <1> HIDE DEF moved
  <1>8. /\ Numbered(Settled', HandedOff', Ahead', effects')
        /\ Settled \cap EffectsIn(h) = {}
        /\ \A t \in Sessions : InOrder(hooks'[t]) /\ InTurn(blocks'[t])
    <2>1. moved \subseteq EffectsIn(h) /\ EffectsIn(Tail(h)) \subseteq EffectsIn(h)
      BY <1>4
    <2> QED
      BY ONLY <1>1, <1>2, <1>4, <1>7, <2>1, TransactionTypeOK, OrderInv, s \in Sessions,
         OrderSettles
  <1>9. Members(done') \cap dropped' = {}
    BY <1>2, <1>3, <1>4, <1>6, <1>8 DEF Settled
  <1>10. DoneInOrder'
    <2>1. CASE Head(h) = Clean
      BY <1>2, <1>3, <2>1 DEF DoneInOrder
    <2>2. CASE Head(h) # Clean
      <3> DEFINE e == Head(h)
                 n == Len(done)
      <3>1. /\ n \in Nat /\ DOMAIN done = 1..n /\ DOMAIN done' = 1..n + 1 /\ done'[n + 1] = e
            /\ \A i \in 1..n : done'[i] = done[i]
            /\ \A i \in 1..n : done[i] \in Effect
        BY <1>1, <1>2, <1>5, <2>2
      <3>2. \A i \in 1..n : done[i] \in Settled
        BY <3>1 DEF Settled, Members
      <3>3. e \in Ahead[s] /\ e[1] = s
        <4>1. e \in Ahead[s]
          BY <1>1, <1>4, <1>5, <2>2, Alone
        <4> QED
          BY <4>1 DEF OrderInv, Numbered
      <3>4. \A i \in 1..n : done[i][1] = e[1] => done[i][2] < e[2]
        BY <3>2, <3>3 DEF OrderInv, Numbered
      <3> HIDE DEF n, e
      <3> SUFFICES ASSUME NEW i \in 1..n + 1, NEW j \in 1..n + 1, i < j, done'[i][1] = done'[j][1]
                   PROVE  done'[i][2] < done'[j][2]
        BY <3>1 DEF DoneInOrder
      <3>5. i \in 1..n
        BY ONLY <3>1, i \in 1..n + 1, j \in 1..n + 1, i < j
      <3>6. CASE j = n + 1
        BY <3>1, <3>4, <3>5, <3>6
      <3>7. CASE j # n + 1
        <4>1. j \in 1..n
          BY ONLY <3>1, <3>7, j \in 1..n + 1
        <4> QED
          BY <1>3, <3>1, <3>5, <4>1 DEF DoneInOrder
      <3> QED
        BY <3>6, <3>7
    <2> QED
      BY <2>1, <2>2
  <1> QED
    BY <1>8, <1>9, <1>10 DEF OrderInv

\* Callbacks that are lost
LEMMA LossOrders ==
    ASSUME TransactionTypeOK, LockInv, OrderInv, NEW s \in Sessions,
           CallbackRaises(s) \/ Dies(s)
    PROVE  OrderInv'
  <1> DEFINE h == hooks[s]
  <1>1. ~Free(s) /\ h \in Seq(Callback) /\ blocks[s] = <<>> /\ <<>> \in Seq(Callback)
    BY HooksTyped, Alone DEF CallbackRaises, Dies
  <1>2. /\ UNCHANGED <<db, own, blocks, done, effects>>
        /\ hooks' = [hooks EXCEPT ![s] = <<>>]
        /\ dropped' = dropped \cup Awaiting(s)
    BY DEF CallbackRaises, Dies
  <1>3. Awaiting(s) = EffectsIn(h)
    <2>1. \A i \in DOMAIN h : h[i] \in Effect \/ h[i] = Clean
      BY ONLY <1>1 DEF Callback
    <2> QED
      BY <2>1, CleanIsNoEffect DEF Awaiting, EffectsIn
  <1>4. Settled' = Settled \cup EffectsIn(h)
    BY <1>2, <1>3 DEF Settled
  <1>5. /\ Numbered(Settled', HandedOff', Ahead', effects')
        /\ Settled \cap EffectsIn(h) = {}
        /\ \A t \in Sessions : InOrder(hooks'[t]) /\ InTurn(blocks'[t])
    <2>1. EffectsIn(<<>>) = {} /\ InOrder(<<>>) /\ Earlier(EffectsIn(h), {})
      BY NoEffects, OrderOfNone DEF Earlier
    <2>2. EffectsIn(<<>>) \subseteq EffectsIn(h) /\ Earlier(EffectsIn(h), EffectsIn(<<>>))
      BY <2>1
    <2> QED
      BY ONLY <1>1, <1>2, <1>4, <2>1, <2>2, TransactionTypeOK, OrderInv, s \in Sessions,
         OrderSettles
  <1>6. Members(done') \cap dropped' = {} /\ DoneInOrder'
    BY <1>2, <1>3, <1>5 DEF OrderInv, DoneInOrder, Settled
  <1> QED
    BY <1>5, <1>6 DEF OrderInv

LEMMA OrderStep ==
    TransactionTypeOK /\ LockInv /\ OrderInv /\ [TransactionNext]_transactionVars => OrderInv'
  <1> SUFFICES ASSUME TransactionTypeOK, LockInv, OrderInv, [TransactionNext]_transactionVars
               PROVE  OrderInv'
    OBVIOUS
  <1>1. ASSUME UNCHANGED <<db, own, blocks, hooks, done, dropped, effects>> PROVE OrderInv'
    <2>1. Settled' = Settled /\ HandedOff' = HandedOff /\ Ahead' = Ahead
      BY <1>1 DEF Settled, HandedOff, Ahead
    <2> QED
      BY <1>1, <2>1 DEF OrderInv, DoneInOrder
  <1>2. CASE UNCHANGED transactionVars
    BY <1>1, <1>2 DEF transactionVars
  <1>3. CASE TransactionNext
    <2>1. PICK s \in Sessions :
            \/ Open(s) \/ Release(s) \/ Raise(s) \/ Commit(s)
            \/ \E kind \in Kinds : Emit(s, kind)
            \/ RunCallback(s) \/ CallbackRaises(s) \/ Dies(s)
            \/ Assign(s) \/ Save(s) \/ SaveStale(s) \/ Refresh(s)
      BY <1>3 DEF TransactionNext
    <2>2. CASE Raise(s) \/ SaveStale(s)
      BY <2>2, RollBackOrders DEF Raise, SaveStale
    <2>3. CASE Assign(s) \/ Refresh(s)
      BY <1>1, <2>3 DEF Assign, Refresh
    <2> QED
      BY <2>1, <2>2, <2>3, OpenOrders, ReleaseOrders, CommitOrders, EmitOrders, SaveOrders,
         RunCallbackOrders, LossOrders
  <1> QED
    BY <1>2, <1>3

\* In such a state each effect is in one place
LEMMA OnePlaceEach ==
    TransactionTypeOK /\ AllAccountedFor /\ OrderInv => EffectsFollowTheData
  <1> SUFFICES ASSUME TransactionTypeOK, AllAccountedFor, OrderInv PROVE EffectsFollowTheData
    OBVIOUS
  <1> DEFINE due == UNION {Awaiting(s) : s \in Sessions}
  <1>1. ASSUME NEW e \in due
        PROVE  e \notin HandedOff /\ e \notin Settled
    <2>1. PICK s \in Sessions : e \in Awaiting(s)
      OBVIOUS
    <2>2. hooks[s] \in Seq(Callback)
      BY Typed
    <2>3. \A i \in DOMAIN hooks[s] : hooks[s][i] \in Effect \/ hooks[s][i] = Clean
      BY ONLY <2>2 DEF Callback
    <2>4. e \in Ahead[s] /\ e \in Effect
      BY <2>1, <2>3 DEF Awaiting, EffectsIn, Ahead
    <2>5. ~(e[2] < e[2])
      BY <2>4, EffectParts
    <2> QED
      BY <2>4, <2>5 DEF OrderInv, Numbered
  <1>2. ASSUME NEW e \in db.handoffs PROVE e \notin Settled
    <2>1. e \in HandedOff
      BY DEF HandedOff, TransactionTypeOK
    <2> QED
      BY <2>1 DEF OrderInv, Numbered
  <1>3. \A e \in db.handoffs : e \in HandedOff
    BY DEF HandedOff, TransactionTypeOK
  <1>4. Settled = Members(done) \cup dropped /\ Members(done) \cap dropped = {} /\ DoneInOrder
    BY DEF OrderInv, Settled
  <1>5. \A e \in db.posts :
          /\ e \in db.handoffs => e \notin Members(done) \cup due \cup dropped
          /\ e \in Members(done) => e \notin due \cup dropped
          /\ e \in due => e \notin dropped
    BY <1>1, <1>2, <1>3, <1>4
  <1> QED
    BY <1>4, <1>5 DEF EffectsFollowTheData, DoneInOrder

(***************************************************************************)
(* Events and jobs go with the data they are about, whatever blocks that    *)
(* data went through (transaction.rb:27 and 86): what is stored or performed*)
(* was committed, what was committed is stored, performed or due to be, in  *)
(* one of these ways only, or was lost with its callback; and a session's   *)
(* callbacks are performed in the order of the code.                        *)
(***************************************************************************)
THEOREM EffectsGoWithTheData == TransactionSpec => []EffectsFollowTheData
  <1> QED
    BY EverythingAccountedFor, TransactionTypes, LockingIsSound, OrderInit, OrderStep,
       OnePlaceEach, PTL DEF TransactionSpec

=============================================================================
