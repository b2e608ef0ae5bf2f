-------------------------- MODULE Transaction_proofs --------------------------
(***************************************************************************)
(* Optimistic locking under transactions, savepoints and after_commit       *)
(* callbacks: no committed edit is overwritten, for any number of sessions, *)
(* edits and levels of nesting.                                             *)
(***************************************************************************)
EXTENDS Transaction, TLAPS

Callback == Effect \cup {Clean}

\* What the type invariant says of one session
LEMMA Typed ==
    ASSUME TransactionTypeOK, NEW s \in Sessions
    PROVE  /\ blocks[s] \in Seq(Block) /\ Depth(s) \in Nat
           /\ hooks[s] \in Seq(Callback)
           /\ own[s] \in Written /\ own[s].row \in Row \cup {NoRow}
           /\ record[s] \in Record /\ db.row \in Row /\ Seen(s) \in Row
           /\ \A i \in 1..Depth(s) :
                 /\ blocks[s][i] \in Block
                 /\ blocks[s][i].before \in Written
                 /\ blocks[s][i].hooks \in Seq(Callback)
           /\ Depth(s) > 0 => Inner(s) \in Block /\ Inner(s) = blocks[s][Depth(s)]
  <1>1. /\ blocks[s] \in Seq(Block) /\ hooks[s] \in Seq(Callback)
        /\ own[s] \in Written /\ record[s] \in Record /\ db.row \in Row
    BY DEF TransactionTypeOK, Callbacks, Callback
  <1>2. Depth(s) \in Nat /\ \A i \in 1..Depth(s) : blocks[s][i] \in Block
    BY <1>1 DEF Depth
  <1>3. \A b \in Block : b.before \in Written /\ b.hooks \in Seq(Callback)
    BY DEF Block, Callbacks, Callback
  <1>4. own[s].row \in Row \cup {NoRow}
    BY <1>1 DEF Written
  <1>5. Seen(s) \in Row
    BY <1>1, <1>4 DEF Seen, SeenWith
  <1> QED
    BY <1>1, <1>2, <1>3, <1>4, <1>5 DEF Inner

LEMMA BlockWith ==
    ASSUME NEW b \in Block, NEW h \in Seq(Callback)
    PROVE  /\ [b EXCEPT !.hooks = h] \in Block
           /\ [b EXCEPT !.hooks = h].before = b.before
           /\ [b EXCEPT !.hooks = h].hooks = h
  BY DEF Block, Callbacks, Callback

\* Registering a callback changes the hooks of the innermost block and nothing else
LEMMA AfterCommitFacts ==
    ASSUME TransactionTypeOK, NEW s \in Sessions, Depth(s) > 0, NEW callback \in Callback
    PROVE  /\ AfterCommit(s, callback) \in [Sessions -> Seq(Block)]
           /\ \A t \in Sessions \ {s} : AfterCommit(s, callback)[t] = blocks[t]
           /\ Len(AfterCommit(s, callback)[s]) = Depth(s)
           /\ \A i \in 1..Depth(s) :
                 AfterCommit(s, callback)[s][i].before = blocks[s][i].before
           /\ \A i \in 1..Depth(s) - 1 :
                 AfterCommit(s, callback)[s][i].hooks = blocks[s][i].hooks
           /\ AfterCommit(s, callback)[s][Depth(s)].hooks = Append(Inner(s).hooks, callback)
  <1> DEFINE n == Depth(s)
             block == [Inner(s) EXCEPT !.hooks = Append(@, callback)]
             frames == [blocks[s] EXCEPT ![n] = block]
  <1>1. /\ blocks[s] \in Seq(Block) /\ n \in Nat \ {0} /\ n = Len(blocks[s])
        /\ Inner(s) \in Block /\ Inner(s) = blocks[s][n]
    BY Typed DEF Depth
  <1>2. AfterCommit(s, callback) = [blocks EXCEPT ![s] = frames]
    BY DEF AfterCommit, Inner
  <1>3. /\ block \in Block /\ block.before = Inner(s).before
        /\ block.hooks = Append(Inner(s).hooks, callback)
    <2>1. Inner(s).hooks \in Seq(Callback)
      BY ONLY <1>1 DEF Block, Callbacks, Callback
    <2>2. Append(Inner(s).hooks, callback) \in Seq(Callback)
      BY ONLY <2>1, callback \in Callback
    <2> QED
      BY ONLY <1>1, <2>2, BlockWith DEF block
  <1> HIDE DEF block, n
  <1>4. frames \in Seq(Block) /\ Len(frames) = n /\ frames[n] = block
        /\ \A i \in 1..n - 1 : frames[i] = blocks[s][i]
    BY <1>1, <1>3
  <1>5. blocks \in [Sessions -> Seq(Block)]
    BY DEF TransactionTypeOK
  <1> HIDE DEF frames
  <1>6. /\ AfterCommit(s, callback) \in [Sessions -> Seq(Block)]
        /\ AfterCommit(s, callback)[s] = frames
        /\ \A t \in Sessions \ {s} : AfterCommit(s, callback)[t] = blocks[t]
    BY <1>2, <1>4, <1>5
  <1>7. \A i \in 1..n : i = n \/ i \in 1..n - 1
    BY <1>1
  <1>8. \A i \in 1..n : frames[i].before = blocks[s][i].before
    BY <1>1, <1>3, <1>4, <1>7
  <1> QED
    BY <1>3, <1>4, <1>6, <1>8 DEF n

\* What is left of the blocks when the innermost ends
LEMMA OuterFacts ==
    ASSUME TransactionTypeOK, NEW s \in Sessions, Depth(s) > 0
    PROVE  /\ Outer(s) \in Seq(Block) /\ Len(Outer(s)) = Depth(s) - 1
           /\ \A i \in 1..Depth(s) - 1 : Outer(s)[i] = blocks[s][i]
  BY Typed DEF Outer, Depth

\* A released savepoint hands its callbacks to the block around it
LEMMA ReleaseFacts ==
    ASSUME TransactionTypeOK, NEW s \in Sessions, Release(s)
    PROVE  /\ blocks' \in [Sessions -> Seq(Block)]
           /\ \A t \in Sessions \ {s} : blocks'[t] = blocks[t]
           /\ Len(blocks'[s]) = Depth(s) - 1
           /\ \A i \in 1..Depth(s) - 1 : blocks'[s][i].before = blocks[s][i].before
           /\ \A i \in 1..Depth(s) - 2 : blocks'[s][i].hooks = blocks[s][i].hooks
           /\ blocks'[s][Depth(s) - 1].hooks =
                  blocks[s][Depth(s) - 1].hooks \o blocks[s][Depth(s)].hooks
  <1> DEFINE n == Depth(s) - 1
             joined == Outer(s)[n].hooks \o Inner(s).hooks
             block == [Outer(s)[n] EXCEPT !.hooks = joined]
             frames == [Outer(s) EXCEPT ![n] = block]
  <1>1. /\ Depth(s) \in Nat /\ Depth(s) > 1 /\ n \in Nat \ {0}
        /\ Inner(s) \in Block /\ Inner(s) = blocks[s][Depth(s)]
        /\ Outer(s) \in Seq(Block) /\ Len(Outer(s)) = n
        /\ \A i \in 1..n : Outer(s)[i] = blocks[s][i]
    BY Typed, OuterFacts DEF Release
  <1>2. blocks' = [blocks EXCEPT ![s] = frames]
    BY DEF Release
  <1>3. Outer(s)[n] \in Block /\ Outer(s)[n] = blocks[s][n]
    BY <1>1
  <1>4. /\ block \in Block /\ block.before = blocks[s][n].before
        /\ block.hooks = blocks[s][n].hooks \o blocks[s][Depth(s)].hooks
    <2>1. Outer(s)[n].hooks \in Seq(Callback) /\ Inner(s).hooks \in Seq(Callback)
      BY ONLY <1>1, <1>3 DEF Block, Callbacks, Callback
    <2>2. joined \in Seq(Callback)
      BY ONLY <2>1
    <2>3. joined = blocks[s][n].hooks \o blocks[s][Depth(s)].hooks
      BY ONLY <1>1, <1>3
    <2> HIDE DEF joined
    <2>4. block \in Block /\ block.before = Outer(s)[n].before /\ block.hooks = joined
      BY ONLY <1>3, <2>2, BlockWith DEF block
    <2> QED
      BY ONLY <1>3, <2>3, <2>4
  <1> HIDE DEF block, n
  <1>5. frames \in Seq(Block) /\ Len(frames) = n /\ frames[n] = block
        /\ \A i \in 1..n - 1 : frames[i] = blocks[s][i]
    BY <1>1, <1>4
  <1>6. blocks \in [Sessions -> Seq(Block)]
    BY DEF TransactionTypeOK
  <1> HIDE DEF frames
  <1>7. /\ blocks' \in [Sessions -> Seq(Block)] /\ blocks'[s] = frames
        /\ \A t \in Sessions \ {s} : blocks'[t] = blocks[t]
    BY <1>2, <1>5, <1>6
  <1>8. \A i \in 1..n : i = n \/ i \in 1..n - 1
    BY <1>1
  <1>9. \A i \in 1..n : frames[i].before = blocks[s][i].before
    BY <1>1, <1>4, <1>5, <1>8
  <1>10. n - 1 = Depth(s) - 2
    BY <1>1 DEF n
  <1> QED
    BY <1>4, <1>5, <1>7, <1>9, <1>10 DEF n

----------------------------------------------------------------------------

LEMMA Kinships ==
    /\ FirstRow \in Row /\ Nothing \in Written /\ Clean \in Callback
    /\ \A row \in Row : Loaded(row) \in Record
    /\ \A row \in Row : row # NoRow /\ row.lock \in Nat /\ row.lock # -1
    /\ \A r \in Record : r.value \subseteq 1..MaxEdits /\ r.lock \in Nat /\ r.was \in Row
  BY DEF FirstRow, Row, NoRow, Nothing, Written, Callback, Loaded, Record

LEMMA TransactionTypeInit == TransactionInit => TransactionTypeOK
  BY Kinships, TransactionAssumption DEF TransactionInit, TransactionTypeOK, FirstRow, Callbacks

\* Sequel's transactions
LEMMA OpenTypes ==
    ASSUME TransactionTypeOK, NEW s \in Sessions, Open(s) PROVE TransactionTypeOK'
  <1>1. blocks \in [Sessions -> Seq(Block)] /\ own[s] \in Written
    BY DEF TransactionTypeOK
  <1>2. [before |-> own[s], hooks |-> <<>>] \in Block
    BY <1>1 DEF Block, Callbacks
  <1>3. blocks' \in [Sessions -> Seq(Block)]
    BY <1>1, <1>2 DEF Open
  <1> QED
    BY <1>3 DEF Open, TransactionTypeOK

LEMMA ReleaseTypes ==
    ASSUME TransactionTypeOK, NEW s \in Sessions, Release(s) PROVE TransactionTypeOK'
  <1>1. blocks' \in [Sessions -> Seq(Block)]
    BY ReleaseFacts
  <1> QED
    BY <1>1 DEF Release, TransactionTypeOK

LEMMA RollBackTypes ==
    ASSUME TransactionTypeOK, NEW s \in Sessions, Depth(s) > 0, RollBack(s)
    PROVE  TransactionTypeOK'
  <1>1. blocks \in [Sessions -> Seq(Block)] /\ own \in [Sessions -> Written]
    BY DEF TransactionTypeOK
  <1>2. Inner(s).before \in Written /\ Outer(s) \in Seq(Block)
    BY Typed, OuterFacts DEF Block
  <1>3. blocks' \in [Sessions -> Seq(Block)] /\ own' \in [Sessions -> Written]
    BY <1>1, <1>2 DEF RollBack
  <1>4. misled' \subseteq Sessions
    BY DEF RollBack, TransactionTypeOK
  <1> QED
    BY <1>3, <1>4 DEF RollBack, TransactionTypeOK

LEMMA CommitTypes ==
    ASSUME TransactionTypeOK, NEW s \in Sessions, Commit(s) PROVE TransactionTypeOK'
  <1>1. /\ blocks \in [Sessions -> Seq(Block)] /\ own \in [Sessions -> Written]
        /\ hooks \in [Sessions -> Callbacks]
        /\ db \in [row : Row, posts : SUBSET Effect, handoffs : SUBSET Effect]
    BY DEF TransactionTypeOK
  <1>2. /\ Inner(s).hooks \in Callbacks
        /\ own[s].row \in Row \cup {NoRow}
        /\ own[s].posts \subseteq Effect /\ own[s].handoffs \subseteq Effect
    BY Typed DEF Block, Commit, Written
  <1>3. db' \in [row : Row, posts : SUBSET Effect, handoffs : SUBSET Effect]
    BY <1>1, <1>2 DEF Commit
  <1>4. /\ own' \in [Sessions -> Written] /\ blocks' \in [Sessions -> Seq(Block)]
        /\ hooks' \in [Sessions -> Callbacks]
    BY <1>1, <1>2, Kinships DEF Commit
  <1>5. own[s].row.value \subseteq 1..MaxEdits
    BY <1>2 DEF Row, NoRow
  <1>6. stored' \subseteq 1..MaxEdits /\ misled' \subseteq Sessions
    BY <1>5 DEF Commit, TransactionTypeOK
  <1> QED
    BY <1>3, <1>4, <1>6 DEF Commit, TransactionTypeOK

\* What a session writes of posts and handoffs does not touch its row
LEMMA EmitFacts ==
    ASSUME TransactionTypeOK, NEW s \in Sessions, NEW kind \in Kinds, Emit(s, kind)
    PROVE  /\ own' \in [Sessions -> Written]
           /\ \A t \in Sessions : own'[t].row = own[t].row
           /\ <<s, effects + 1>> \in Effect /\ effects' \in 0..MaxEffects
           /\ blocks' = blocks \/ blocks' = AfterCommit(s, <<s, effects + 1>>)
           /\ UNCHANGED <<db, hooks, record, done, dropped, edits, late, stored, misled>>
  <1> DEFINE effect == <<s, effects + 1>>
  <1>1. effects \in 0..MaxEffects /\ effects < MaxEffects /\ own \in [Sessions -> Written]
    BY DEF TransactionTypeOK, Emit
  <1>2. effect \in Effect /\ effects' \in 0..MaxEffects
    BY <1>1, TransactionAssumption DEF Emit, Effect
  <1> HIDE DEF effect
  <1>3. own[s] \in Written
    BY <1>1
  <1>4. /\ [own[s] EXCEPT !.posts = @ \cup {effect}] \in Written
        /\ [own[s] EXCEPT !.posts = @ \cup {effect}].row = own[s].row
    BY <1>2, <1>3 DEF Written
  <1>5. /\ [own[s] EXCEPT !.posts = @ \cup {effect}, !.handoffs = @ \cup {effect}] \in Written
        /\ [own[s] EXCEPT !.posts = @ \cup {effect},
                          !.handoffs = @ \cup {effect}].row = own[s].row
    BY <1>2, <1>3 DEF Written
  <1>6. \E w \in Written : w.row = own[s].row /\ own' = [own EXCEPT ![s] = w]
    <2>1. CASE Delivery[kind] = "row"
      <3>1. own' = [own EXCEPT ![s] = [own[s] EXCEPT !.posts = @ \cup {effect},
                                                     !.handoffs = @ \cup {effect}]]
        BY <1>1, <1>3, <2>1 DEF Emit, effect, Written
      <3> QED
        BY <1>5, <3>1
    <2>2. CASE Delivery[kind] # "row"
      <3>1. own' = [own EXCEPT ![s] = [own[s] EXCEPT !.posts = @ \cup {effect}]]
        BY <2>2 DEF Emit, effect
      <3> QED
        BY <1>4, <3>1
    <2> QED
      BY <2>1, <2>2
  <1>7. own' \in [Sessions -> Written] /\ \A t \in Sessions : own'[t].row = own[t].row
    BY <1>1, <1>6
  <1> QED
    BY <1>2, <1>7 DEF Emit, effect

LEMMA EmitTypes ==
    ASSUME TransactionTypeOK, NEW s \in Sessions, NEW kind \in Kinds, Emit(s, kind)
    PROVE  TransactionTypeOK'
  <1>1. blocks' \in [Sessions -> Seq(Block)]
    <2>1. Depth(s) > 0 /\ <<s, effects + 1>> \in Callback
      BY EmitFacts DEF Emit, InBlock, Callback
    <2>2. AfterCommit(s, <<s, effects + 1>>) \in [Sessions -> Seq(Block)]
      BY ONLY <2>1, TransactionTypeOK, s \in Sessions, AfterCommitFacts
    <2>3. blocks \in [Sessions -> Seq(Block)]
      BY DEF TransactionTypeOK
    <2> QED
      BY <2>2, <2>3, EmitFacts
  <1> QED
    BY <1>1, EmitFacts DEF TransactionTypeOK

\* The callbacks
LEMMA HooksTyped ==
    ASSUME TransactionTypeOK, NEW s \in Sessions, ~Free(s)
    PROVE  /\ hooks[s] \in Seq(Callback) /\ hooks[s] # <<>>
           /\ Head(hooks[s]) \in Callback /\ Tail(hooks[s]) \in Seq(Callback)
           /\ Awaiting(s) \subseteq Effect
  <1>1. hooks[s] \in Seq(Callback) /\ hooks[s] # <<>>
    BY Typed DEF Free
  <1>2. Head(hooks[s]) \in Callback /\ Tail(hooks[s]) \in Seq(Callback)
    BY ONLY <1>1
  <1>3. Awaiting(s) \subseteq Effect
    BY ONLY <1>1 DEF Awaiting, Callback
  <1> QED
    BY <1>1, <1>2, <1>3

LEMMA RunCallbackFacts ==
    ASSUME TransactionTypeOK, NEW s \in Sessions, RunCallback(s)
    PROVE  /\ done' \in Seq(Effect) /\ record' \in [Sessions -> Record]
           /\ \A t \in Sessions \ {s} : record'[t] = record[t]
           /\ record'[s].value = record[s].value /\ record'[s].lock = record[s].lock
           /\ \/ record'[s] = record[s]
              \/ /\ Head(hooks[s]) = Clean
                 /\ record'[s].was.value = record[s].value
                 /\ record'[s].was.lock = record[s].lock
  <1> DEFINE persisted == [value |-> record[s].value, lock |-> record[s].lock]
             clean == [record[s] EXCEPT !.was = persisted]
  <1>1. /\ done \in Seq(Effect) /\ record \in [Sessions -> Record] /\ record[s] \in Record
        /\ Head(hooks[s]) \in Callback
    BY HooksTyped DEF TransactionTypeOK, RunCallback
  <1>2. CASE Head(hooks[s]) = Clean
    <2>1. record' = [record EXCEPT ![s] = clean] /\ done' = done
      BY <1>2 DEF RunCallback
    <2>2. /\ persisted \in Row
          /\ persisted.value = record[s].value /\ persisted.lock = record[s].lock
      BY <1>1 DEF Record, Row
    <2> HIDE DEF persisted
    <2>3. /\ clean \in Record /\ clean.was = persisted
          /\ clean.value = record[s].value /\ clean.lock = record[s].lock
      BY <1>1, <2>2 DEF Record
    <2> HIDE DEF clean
    <2> QED
      BY <1>1, <1>2, <2>1, <2>2, <2>3
  <1>3. CASE Head(hooks[s]) # Clean
    <2>1. Head(hooks[s]) \in Effect
      BY <1>1, <1>3 DEF Callback
    <2>2. done' = Append(done, Head(hooks[s])) /\ record' = record
      BY <1>3 DEF RunCallback
    <2>3. Append(done, Head(hooks[s])) \in Seq(Effect)
      BY ONLY <1>1, <2>1
    <2> QED
      BY <1>1, <2>2, <2>3
  <1> QED
    BY <1>2, <1>3

LEMMA CallbackTypes ==
    ASSUME TransactionTypeOK, NEW s \in Sessions,
           RunCallback(s) \/ CallbackRaises(s) \/ Dies(s)
    PROVE  TransactionTypeOK'
  <1>1. ~Free(s)
    BY DEF RunCallback, CallbackRaises, Dies
  <1>2. /\ hooks \in [Sessions -> Callbacks] /\ dropped \subseteq Effect
        /\ Tail(hooks[s]) \in Callbacks /\ <<>> \in Callbacks
        /\ Awaiting(s) \subseteq Effect
    BY <1>1, HooksTyped DEF TransactionTypeOK, Callbacks, Callback
  <1>3. hooks' \in [Sessions -> Callbacks]
    BY <1>2 DEF RunCallback, CallbackRaises, Dies
  <1>4. CASE RunCallback(s)
    BY <1>3, <1>4, RunCallbackFacts DEF RunCallback, TransactionTypeOK
  <1>5. CASE CallbackRaises(s)
    BY <1>2, <1>3, <1>5 DEF CallbackRaises, TransactionTypeOK
  <1>6. CASE Dies(s)
    <2>1. record' \in [Sessions -> Record]
      BY <1>6, Typed, Kinships DEF Dies, TransactionTypeOK
    <2> QED
      BY <1>2, <1>3, <1>6, <2>1 DEF Dies, TransactionTypeOK
  <1> QED
    BY <1>4, <1>5, <1>6

\* The record
LEMMA AssignFacts ==
    ASSUME TransactionTypeOK, NEW s \in Sessions, Assign(s)
    PROVE  /\ edits + 1 \in 1..MaxEdits /\ edits' \in 0..MaxEdits
           /\ record' \in [Sessions -> Record]
           /\ \A t \in Sessions \ {s} : record'[t] = record[t]
           /\ record'[s].value = record[s].value \cup {edits + 1}
           /\ record'[s].lock = record[s].lock /\ record'[s].was = record[s].was
  <1> DEFINE next == [record[s] EXCEPT !.value = @ \cup {edits + 1}]
  <1>1. /\ edits + 1 \in 1..MaxEdits /\ edits' \in 0..MaxEdits
        /\ record \in [Sessions -> Record] /\ record[s] \in Record
    BY TransactionAssumption DEF TransactionTypeOK, Assign
  <1>2. /\ next \in Record /\ next.value = record[s].value \cup {edits + 1}
        /\ next.lock = record[s].lock /\ next.was = record[s].was
    BY <1>1 DEF Record
  <1>3. record' = [record EXCEPT ![s] = next]
    BY DEF Assign
  <1> HIDE DEF next
  <1> QED
    BY <1>1, <1>2, <1>3

LEMMA SaveFacts ==
    ASSUME TransactionTypeOK, NEW s \in Sessions, Save(s)
    PROVE  /\ own' \in [Sessions -> Written]
           /\ \A t \in Sessions \ {s} : own'[t] = own[t]
           /\ own'[s].row.value = record[s].value
           /\ own'[s].row.lock = record[s].was.lock + 1
           /\ own'[s].row \in Row
           /\ record' \in [Sessions -> Record]
           /\ \A t \in Sessions \ {s} : record'[t] = record[t]
           /\ record'[s].value = record[s].value /\ record'[s].was = record[s].was
           /\ record'[s].lock = record[s].was.lock + 1
           /\ Depth(s) > 0 /\ blocks' = AfterCommit(s, Clean)
  <1> DEFINE next == record[s].was.lock + 1
             row == [value |-> record[s].value, lock |-> next]
             writes == [own[s] EXCEPT !.row = row]
             saved == [record[s] EXCEPT !.lock = next]
  <1>1. /\ record \in [Sessions -> Record] /\ record[s] \in Record
        /\ own \in [Sessions -> Written] /\ own[s] \in Written
    BY DEF TransactionTypeOK
  <1>2. next \in Nat
    BY <1>1 DEF Record, Row
  <1>3. own' = [own EXCEPT ![s] = writes] /\ record' = [record EXCEPT ![s] = saved]
    BY DEF Save, PreviousLock
  <1> HIDE DEF next
  <1>4. row \in Row /\ row.value = record[s].value /\ row.lock = next
    BY <1>1, <1>2 DEF Record, Row
  <1>5. /\ saved \in Record /\ saved.lock = next
        /\ saved.value = record[s].value /\ saved.was = record[s].was
    BY <1>1, <1>2 DEF Record
  <1> HIDE DEF row
  <1>6. writes \in Written /\ writes.row = row
    BY <1>1, <1>4 DEF Written
  <1> HIDE DEF writes, saved
  <1>7. /\ own' \in [Sessions -> Written] /\ own'[s] = writes
        /\ \A t \in Sessions \ {s} : own'[t] = own[t]
    BY <1>1, <1>3, <1>6
  <1>8. /\ record' \in [Sessions -> Record] /\ record'[s] = saved
        /\ \A t \in Sessions \ {s} : record'[t] = record[t]
    BY <1>1, <1>3, <1>5
  <1>9. Depth(s) > 0 /\ blocks' = AfterCommit(s, Clean)
    BY DEF Save, InBlock
  <1> QED
    BY <1>4, <1>5, <1>6, <1>7, <1>8, <1>9 DEF next

LEMMA RecordTypes ==
    ASSUME TransactionTypeOK, NEW s \in Sessions, Assign(s) \/ Save(s) \/ Refresh(s)
    PROVE  TransactionTypeOK'
  <1>1. CASE Assign(s)
    BY <1>1, AssignFacts DEF Assign, TransactionTypeOK
  <1>2. CASE Save(s)
    <2>1. blocks' \in [Sessions -> Seq(Block)]
      BY <1>2, SaveFacts, AfterCommitFacts, Kinships
    <2> QED
      BY <1>2, <2>1, SaveFacts DEF Save, TransactionTypeOK
  <1>3. CASE Refresh(s)
    <2>1. record' \in [Sessions -> Record]
      BY <1>3, Typed, Kinships DEF Refresh, TransactionTypeOK
    <2> QED
      BY <1>3, <2>1 DEF Refresh, TransactionTypeOK
  <1> QED
    BY <1>1, <1>2, <1>3

LEMMA TransactionTypeStep ==
    TransactionTypeOK /\ [TransactionNext]_transactionVars => TransactionTypeOK'
  <1> SUFFICES ASSUME TransactionTypeOK, [TransactionNext]_transactionVars
               PROVE  TransactionTypeOK'
    OBVIOUS
  <1>1. CASE UNCHANGED transactionVars
    BY <1>1 DEF transactionVars, TransactionTypeOK
  <1>2. CASE TransactionNext
    <2>1. PICK s \in Sessions :
            \/ Open(s) \/ Release(s) \/ Raise(s) \/ Commit(s)
            \/ \E kind \in Kinds : Emit(s, kind)
            \/ RunCallback(s) \/ CallbackRaises(s) \/ Dies(s)
            \/ Assign(s) \/ Save(s) \/ SaveStale(s) \/ Refresh(s)
      BY <1>2 DEF TransactionNext
    <2>2. CASE Raise(s) \/ SaveStale(s)
      BY <2>2, RollBackTypes DEF Raise, SaveStale, InBlock
    <2> QED
      BY <2>1, <2>2, OpenTypes, ReleaseTypes, CommitTypes, EmitTypes, CallbackTypes, RecordTypes
  <1> QED
    BY <1>1, <1>2

(***************************************************************************)
(* The row, the open blocks, the callbacks and the records keep their types.*)
(***************************************************************************)
THEOREM TransactionTypes == TransactionSpec => []TransactionTypeOK
  BY TransactionTypeInit, TransactionTypeStep, PTL DEF TransactionSpec

----------------------------------------------------------------------------
(* The inductive invariant. What a record knows of the row, it knows by the *)
(* lock value: a snapshot with a row's lock value has the row's edits. That *)
(* has to hold of the committed row, of the row as its session has written  *)
(* it, and of the rows its open blocks began with, because a rollback makes *)
(* any of these current again; and mark_persisted! takes the record as it   *)
(* is, which is sound only if the save it goes with is the last one         *)
(* committed to the row. A session whose snapshot is of a save that was     *)
(* rolled back knows nothing.                                               *)

Informed(s) == s \notin misled

\* A row is written again under a higher lock value, and by the informed without loss
Follows(informed, row, later) ==
    /\ row.lock <= later.lock
    /\ row.lock = later.lock => row = later
    /\ informed => row.value \subseteq later.value

\* Each block began with a row that was written before what is written now, and a block
\* with a mark_persisted! to run has its save behind it
FrameRule(informed, row, frames) ==
    /\ Len(frames) = 0 => row = NoRow
    /\ Len(frames) > 0 => frames[1].before.row = NoRow
    /\ \A i \in 1..Len(frames) : Follows(informed, frames[i].before.row, row)
    /\ \A i, j \in 1..Len(frames) :
          i < j => Follows(informed, frames[i].before.row, frames[j].before.row)
    /\ \A i \in 1..Len(frames) : HasClean(frames[i].hooks) =>
          row # NoRow /\ \A j \in i + 1..Len(frames) : frames[j].before.row # NoRow

Frames(s) ==
    /\ FrameRule(Informed(s), own[s].row, blocks[s])
    /\ hooks[s] # <<>> => blocks[s] = <<>>

\* The uncommitted rows that are current or become it by a rollback
Versions(row, frames) ==
    ({row} \cup {frames[i].before.row : i \in 1..Len(frames)}) \ {NoRow}

\* Such a row follows what is committed, and the record has it if it has its lock value
Aware(s, row) ==
    /\ row.lock > db.row.lock
    /\ Informed(s) =>
          /\ db.row.value \subseteq row.value
          /\ record[s].was.lock = row.lock => row.value \subseteq record[s].was.value
          /\ record[s].lock = row.lock => row.value \subseteq record[s].value

Watches(s) == \A row \in Versions(own[s].row, blocks[s]) : Aware(s, row)

\* A snapshot as recent as the committed row has that row's edits
Knows(s) ==
    /\ record[s].was.value \subseteq record[s].value
    /\ Informed(s) =>
          /\ record[s].was.lock <= Seen(s).lock
          /\ record[s].was.lock = db.row.lock => db.row.value \subseteq record[s].was.value

\* The snapshot a mark_persisted! is about to take will be a sound one
WillKnow(s) == Informed(s) /\ HasClean(hooks[s]) =>
    /\ record[s].lock <= db.row.lock
    /\ record[s].lock = db.row.lock => db.row.value \subseteq record[s].value

\* The row's lock
OneWriter == \A s, t \in Sessions : own[s].row # NoRow /\ own[t].row # NoRow => s = t

Sound(s) == Frames(s) /\ Watches(s) /\ Knows(s) /\ WillKnow(s)
LockInv == OneWriter /\ \A s \in Sessions : Sound(s)

LEMMA NoneClean == ~HasClean(<<>>)
  BY DEF HasClean

LEMMA CleanOfAppend ==
    ASSUME NEW h \in Seq(Callback), NEW callback \in Callback, HasClean(Append(h, callback))
    PROVE  HasClean(h) \/ callback = Clean
  <1>1. PICK j \in DOMAIN Append(h, callback) : Append(h, callback)[j] = Clean
    BY DEF HasClean
  <1>2. j = Len(h) + 1 \/ j \in DOMAIN h
    BY <1>1
  <1> QED
    BY <1>1, <1>2 DEF HasClean

LEMMA CleanOfJoin ==
    ASSUME NEW h \in Seq(Callback), NEW k \in Seq(Callback), HasClean(h \o k)
    PROVE  HasClean(h) \/ HasClean(k)
  <1>1. PICK j \in 1..Len(h) + Len(k) : (h \o k)[j] = Clean
    BY DEF HasClean
  <1>2. CASE j \in 1..Len(h)
    BY <1>1, <1>2 DEF HasClean
  <1>3. CASE j \notin 1..Len(h)
    <2>1. j - Len(h) \in 1..Len(k) /\ k[j - Len(h)] = Clean
      BY <1>1, <1>3
    <2> QED
      BY <2>1 DEF HasClean
  <1> QED
    BY <1>2, <1>3

LEMMA CleanOfTail ==
    ASSUME NEW h \in Seq(Callback), h # <<>>, HasClean(Tail(h))
    PROVE  HasClean(h)
  <1>1. PICK j \in DOMAIN Tail(h) : Tail(h)[j] = Clean
    BY DEF HasClean
  <1>2. j + 1 \in DOMAIN h /\ h[j + 1] = Clean
    BY <1>1
  <1> QED
    BY <1>2 DEF HasClean

LEMMA CleanIsNoEffect == \A e \in Effect : e # Clean
  BY DEF Effect, Clean

\* What the order of rows is like
LEMMA Locks ==
    /\ NoRow.lock = -1 /\ NoRow.value = {} /\ NoRow \in Row \cup {NoRow}
    /\ \A row \in Row \cup {NoRow} : row.lock \in Int /\ row.lock >= -1
    /\ \A row \in Row \cup {NoRow} : row.lock = -1 => row = NoRow
  BY DEF Row, NoRow

LEMMA FollowsItself ==
    ASSUME NEW informed, NEW row \in Row \cup {NoRow}
    PROVE  Follows(informed, row, row)
  BY Locks DEF Follows

LEMMA FollowsOn ==
    ASSUME NEW informed, NEW row \in Row \cup {NoRow}, NEW later \in Row \cup {NoRow},
           NEW latest \in Row \cup {NoRow},
           Follows(informed, row, later), Follows(informed, later, latest)
    PROVE  Follows(informed, row, latest)
  <1>1. row.lock \in Int /\ later.lock \in Int /\ latest.lock \in Int
    BY Locks
  <1> QED
    BY <1>1 DEF Follows

LEMMA NoneBeforeNone ==
    ASSUME NEW informed, NEW row \in Row \cup {NoRow}, Follows(informed, row, NoRow)
    PROVE  row = NoRow
  <1>1. row.lock \in Int /\ row.lock >= -1 /\ row.lock <= -1
    BY Locks DEF Follows
  <1>2. row.lock = -1
    BY <1>1
  <1> QED
    BY <1>2, Locks

LEMMA WrittenStays ==
    ASSUME NEW informed, NEW row \in Row \cup {NoRow}, NEW later \in Row \cup {NoRow},
           Follows(informed, row, later), row # NoRow
    PROVE  later # NoRow
  BY NoneBeforeNone

LEMMA BeforeTyped == \A b \in Block : b.before.row \in Row \cup {NoRow}
  BY DEF Block, Written

\* The rule, as blocks open, release, roll back, gain a callback or see the row written
LEMMA RuleOpens ==
    ASSUME NEW informed, NEW frames \in Seq(Block), NEW row \in Row \cup {NoRow},
           FrameRule(informed, row, frames),
           NEW block \in Block, block.before.row = row, ~HasClean(block.hooks)
    PROVE  FrameRule(informed, row, Append(frames, block))
  <1> DEFINE n == Len(frames)
             all == Append(frames, block)
  <1>1. /\ n \in Nat /\ Len(all) = n + 1 /\ all[n + 1] = block
        /\ \A i \in 1..n : all[i] = frames[i]
    OBVIOUS
  <1>2. \A i \in 1..n + 1 : i \in 1..n \/ i = n + 1
    BY <1>1
  <1> HIDE DEF all
  <1>3. /\ n = 0 => row = NoRow
        /\ n > 0 => frames[1].before.row = NoRow
        /\ \A i \in 1..n : Follows(informed, frames[i].before.row, row)
        /\ \A i, j \in 1..n :
              i < j => Follows(informed, frames[i].before.row, frames[j].before.row)
        /\ \A i \in 1..n : HasClean(frames[i].hooks) =>
              row # NoRow /\ \A j \in i + 1..n : frames[j].before.row # NoRow
    BY DEF FrameRule
  <1> HIDE DEF n
  <1>4. all[1].before.row = NoRow
    BY <1>1, <1>3
  <1>5. \A i \in 1..n + 1 : Follows(informed, all[i].before.row, row)
    BY <1>1, <1>2, <1>3, FollowsItself
  <1>6. \A i, j \in 1..n + 1 :
            i < j => Follows(informed, all[i].before.row, all[j].before.row)
    <2> SUFFICES ASSUME NEW i \in 1..n + 1, NEW j \in 1..n + 1, i < j
                 PROVE  Follows(informed, all[i].before.row, all[j].before.row)
      OBVIOUS
    <2>1. i \in 1..n /\ all[i] = frames[i]
      BY ONLY <1>1, i \in 1..n + 1, j \in 1..n + 1, i < j
    <2>2. CASE j = n + 1
      BY <1>1, <1>3, <2>1, <2>2
    <2>3. CASE j \in 1..n
      BY <1>1, <1>3, <2>1, <2>3
    <2> QED
      BY <1>2, <2>2, <2>3
  <1>7. ASSUME NEW i \in 1..n + 1, HasClean(all[i].hooks)
        PROVE  row # NoRow /\ \A j \in i + 1..n + 1 : all[j].before.row # NoRow
    <2>1. i \in 1..n /\ HasClean(frames[i].hooks)
      BY ONLY <1>1, <1>2, <1>7, ~HasClean(block.hooks)
    <2>2. row # NoRow /\ \A j \in i + 1..n : frames[j].before.row # NoRow
      BY ONLY <1>3, <2>1
    <2>3. \A j \in i + 1..n + 1 : j = n + 1 \/ (j \in i + 1..n /\ j \in 1..n)
      BY ONLY <1>1, <2>1
    <2> QED
      BY ONLY <1>1, <2>2, <2>3, block.before.row = row
  <1> QED
    BY <1>1, <1>4, <1>5, <1>6, <1>7 DEF FrameRule, all

LEMMA RuleShrinks ==
    ASSUME NEW informed, NEW frames \in Seq(Block), NEW row,
           FrameRule(informed, row, frames), Len(frames) > 1,
           NEW rest \in Seq(Block), Len(rest) = Len(frames) - 1,
           \A i \in 1..Len(rest) : rest[i].before = frames[i].before,
           \A i \in 1..Len(rest) : HasClean(rest[i].hooks) =>
               \/ HasClean(frames[i].hooks)
               \/ i = Len(rest) /\ HasClean(frames[i + 1].hooks)
    PROVE  FrameRule(informed, row, rest)
  <1> DEFINE n == Len(rest)
  <1>1. n \in Nat /\ n > 0 /\ Len(frames) = n + 1
    OBVIOUS
  <1>2. /\ frames[1].before.row = NoRow
        /\ \A i \in 1..n : Follows(informed, frames[i].before.row, row)
        /\ \A i, j \in 1..n :
              i < j => Follows(informed, frames[i].before.row, frames[j].before.row)
        /\ \A i \in 1..n + 1 : HasClean(frames[i].hooks) =>
              row # NoRow /\ \A j \in i + 1..n + 1 : frames[j].before.row # NoRow
    BY <1>1 DEF FrameRule
  <1> HIDE DEF n
  <1>3. \A i \in 1..n : HasClean(rest[i].hooks) =>
            row # NoRow /\ \A j \in i + 1..n : frames[j].before.row # NoRow
    BY <1>1, <1>2 DEF n
  <1>4. \A i \in 1..n : rest[i].before.row = frames[i].before.row
    BY DEF n
  <1>5. /\ rest[1].before.row = NoRow
        /\ \A i \in 1..n : Follows(informed, rest[i].before.row, row)
        /\ \A i, j \in 1..n :
              i < j => Follows(informed, rest[i].before.row, rest[j].before.row)
    BY <1>1, <1>2, <1>4
  <1>6. \A i \in 1..n : HasClean(rest[i].hooks) =>
            row # NoRow /\ \A j \in i + 1..n : rest[j].before.row # NoRow
    BY <1>1, <1>3, <1>4
  <1> QED
    BY <1>1, <1>5, <1>6 DEF FrameRule, n

LEMMA RuleRollsBack ==
    ASSUME NEW informed, NEW frames \in Seq(Block), NEW row,
           FrameRule(informed, row, frames), Len(frames) > 0,
           NEW rest \in Seq(Block), Len(rest) = Len(frames) - 1,
           \A i \in 1..Len(rest) : rest[i] = frames[i]
    PROVE  FrameRule(informed, frames[Len(frames)].before.row, rest)
  <1> DEFINE n == Len(rest)
             was == frames[n + 1].before.row
  <1>1. n \in Nat /\ Len(frames) = n + 1
    OBVIOUS
  <1>2. /\ frames[1].before.row = NoRow
        /\ \A i, j \in 1..n + 1 :
              i < j => Follows(informed, frames[i].before.row, frames[j].before.row)
        /\ \A i \in 1..n + 1 : HasClean(frames[i].hooks) =>
              row # NoRow /\ \A j \in i + 1..n + 1 : frames[j].before.row # NoRow
    BY <1>1 DEF FrameRule
  <1> HIDE DEF n
  <1>3. n = 0 => was = NoRow
    BY <1>1, <1>2
  <1>4. /\ \A i \in 1..n : Follows(informed, frames[i].before.row, was)
        /\ \A i, j \in 1..n :
              i < j => Follows(informed, frames[i].before.row, frames[j].before.row)
    BY <1>1, <1>2
  <1>5. \A i \in 1..n : HasClean(frames[i].hooks) =>
            was # NoRow /\ \A j \in i + 1..n : frames[j].before.row # NoRow
    BY <1>1, <1>2
  <1> HIDE DEF was
  <1>6. FrameRule(informed, was, rest)
    BY <1>1, <1>2, <1>3, <1>4, <1>5 DEF FrameRule, n
  <1> QED
    BY <1>1, <1>6 DEF was

LEMMA RuleSwaps ==
    ASSUME NEW informed, NEW frames \in Seq(Block),
           NEW row \in Row \cup {NoRow}, NEW to \in Row \cup {NoRow},
           FrameRule(informed, row, frames), Follows(informed, row, to), Len(frames) > 0,
           NEW more \in Seq(Block), Len(more) = Len(frames),
           \A i \in 1..Len(frames) : more[i].before = frames[i].before,
           \A i \in 1..Len(frames) : HasClean(more[i].hooks) =>
               HasClean(frames[i].hooks) \/ (i = Len(frames) /\ to # NoRow)
    PROVE  FrameRule(informed, to, more)
  <1> DEFINE n == Len(frames)
  <1>1. n \in Nat /\ n > 0 /\ Len(more) = n
    OBVIOUS
  <1>2. /\ frames[1].before.row = NoRow
        /\ \A i \in 1..n : Follows(informed, frames[i].before.row, row)
        /\ \A i, j \in 1..n :
              i < j => Follows(informed, frames[i].before.row, frames[j].before.row)
        /\ \A i \in 1..n : HasClean(frames[i].hooks) =>
              row # NoRow /\ \A j \in i + 1..n : frames[j].before.row # NoRow
    BY <1>1 DEF FrameRule
  <1>3. \A i \in 1..n : frames[i].before.row \in Row \cup {NoRow}
    BY BeforeTyped
  <1>4. \A i \in 1..n : more[i].before.row = frames[i].before.row
    OBVIOUS
  <1>5. row # NoRow => to # NoRow
    BY WrittenStays
  <1> HIDE DEF n
  <1>6. ASSUME NEW i \in 1..n PROVE Follows(informed, frames[i].before.row, to)
    BY <1>2, <1>3, FollowsOn
  <1>7. \A i \in 1..n : HasClean(more[i].hooks) =>
            to # NoRow /\ \A j \in i + 1..n : frames[j].before.row # NoRow
    BY <1>1, <1>2, <1>5 DEF n
  <1>8. /\ more[1].before.row = NoRow
        /\ \A i \in 1..n : Follows(informed, more[i].before.row, to)
        /\ \A i, j \in 1..n :
              i < j => Follows(informed, more[i].before.row, more[j].before.row)
    BY <1>1, <1>2, <1>4, <1>6
  <1>9. \A i \in 1..n : HasClean(more[i].hooks) =>
            to # NoRow /\ \A j \in i + 1..n : more[j].before.row # NoRow
    BY <1>1, <1>4, <1>7
  <1> QED
    BY <1>1, <1>8, <1>9 DEF FrameRule, n

\* Whoever is not informed any more keeps the order of the rows
LEMMA RuleWeakens ==
    ASSUME NEW informed, NEW less, less => informed, NEW row, NEW frames,
           FrameRule(informed, row, frames)
    PROVE  FrameRule(less, row, frames)
  <1>1. \A a, b : Follows(informed, a, b) => Follows(less, a, b)
    BY DEF Follows
  <1> QED
    BY <1>1 DEF FrameRule

\* While nothing is written, no block began with a row and no save is to be marked
LEMMA RuleOfNone ==
    ASSUME NEW informed, NEW frames \in Seq(Block), FrameRule(informed, NoRow, frames)
    PROVE  /\ FrameRule(TRUE, NoRow, frames) /\ Versions(NoRow, frames) = {}
           /\ \A i \in 1..Len(frames) : ~HasClean(frames[i].hooks)
  <1>1. ASSUME NEW i \in 1..Len(frames) PROVE frames[i].before.row = NoRow
    <2>1. frames[i].before.row \in Row \cup {NoRow}
      BY BeforeTyped
    <2>2. Follows(informed, frames[i].before.row, NoRow)
      BY DEF FrameRule
    <2> QED
      BY <2>1, <2>2, NoneBeforeNone
  <1>2. Follows(TRUE, NoRow, NoRow)
    BY Locks, FollowsItself
  <1>3. FrameRule(TRUE, NoRow, frames)
    BY <1>1, <1>2 DEF FrameRule
  <1> QED
    BY <1>1, <1>3 DEF FrameRule, Versions

LEMMA VersionsFollow ==
    ASSUME NEW informed, NEW frames \in Seq(Block), NEW row \in Row \cup {NoRow},
           FrameRule(informed, row, frames), NEW version \in Versions(row, frames)
    PROVE  version \in Row /\ row \in Row /\ Follows(informed, version, row)
  <1>1. version = row \/ \E i \in 1..Len(frames) : version = frames[i].before.row
    BY DEF Versions
  <1>2. version \in Row \cup {NoRow} /\ version # NoRow
    BY <1>1, BeforeTyped DEF Versions
  <1>3. Follows(informed, version, row)
    BY <1>1, FollowsItself DEF FrameRule
  <1> QED
    BY <1>2, <1>3, WrittenStays

LEMMA FewerVersions ==
    ASSUME NEW row, NEW frames, NEW to, NEW rest, NEW new,
           to \in Versions(row, frames) \cup {NoRow, new},
           \A i \in 1..Len(rest) : rest[i].before.row \in Versions(row, frames) \cup {NoRow, new}
    PROVE  Versions(to, rest) \subseteq Versions(row, frames) \cup {new}
  BY DEF Versions

LEMMA LockInvInit == TransactionInit => LockInv
  <1> SUFFICES ASSUME TransactionInit PROVE LockInv
    OBVIOUS
  <1>1. ASSUME NEW s \in Sessions
        PROVE  /\ own[s].row = NoRow /\ blocks[s] = <<>> /\ hooks[s] = <<>>
               /\ record[s].was = FirstRow /\ record[s].value = FirstRow.value
               /\ db.row = FirstRow
    BY DEF TransactionInit, Nothing, Loaded
  <1>2. ASSUME NEW s \in Sessions PROVE Sound(s)
    <2>1. Frames(s)
      BY <1>1 DEF Frames, FrameRule
    <2>2. Watches(s)
      BY <1>1 DEF Watches, Versions
    <2>3. Knows(s)
      BY <1>1 DEF Knows, FirstRow, Seen, SeenWith
    <2>4. WillKnow(s)
      BY <1>1, NoneClean DEF WillKnow
    <2> QED
      BY <2>1, <2>2, <2>3, <2>4 DEF Sound
  <1> QED
    BY <1>1, <1>2 DEF LockInv, OneWriter

\* A session nothing happens to, and no commit with it
LEMMA Untouched ==
    ASSUME NEW t \in Sessions, Sound(t), db'.row = db.row,
           blocks'[t] = blocks[t], own'[t].row = own[t].row,
           hooks'[t] = hooks[t], record'[t] = record[t], t \in misled' <=> t \in misled
    PROVE  Sound(t)'
  <1>1. Informed(t)' <=> Informed(t)
    BY DEF Informed
  <1>2. Frames(t)'
    BY <1>1, RuleWeakens DEF Sound, Frames
  <1>3. Watches(t)'
    BY <1>1 DEF Sound, Watches, Aware
  <1>4. Knows(t)' /\ WillKnow(t)'
    BY <1>1 DEF Sound, Knows, WillKnow, Seen, SeenWith
  <1> QED
    BY <1>2, <1>3, <1>4 DEF Sound

\* So a step of one session that commits nothing has to be looked at there only
LEMMA OneSession ==
    ASSUME LockInv, NEW s \in Sessions, db'.row = db.row,
           \A t \in Sessions \ {s} :
               /\ blocks'[t] = blocks[t] /\ own'[t].row = own[t].row
               /\ hooks'[t] = hooks[t] /\ record'[t] = record[t]
               /\ t \in misled' <=> t \in misled,
           own'[s].row # NoRow =>
               own[s].row # NoRow \/ \A t \in Sessions \ {s} : own[t].row = NoRow,
           Sound(s)'
    PROVE  LockInv'
  <1>1. \A t \in Sessions : Sound(t)'
    BY Untouched DEF LockInv
  <1>2. OneWriter'
    BY DEF OneWriter, LockInv
  <1> QED
    BY <1>1, <1>2 DEF LockInv

\* Where the record, the committed row and the callbacks stay as they are and no row is
\* written, it is enough that the blocks keep their rule and the session sees no older row
LEMMA SoundStays ==
    ASSUME NEW s \in Sessions, Sound(s), db'.row = db.row, record'[s] = record[s],
           hooks'[s] = hooks[s], hooks[s] = <<>>, s \in misled => s \in misled',
           FrameRule(Informed(s), own'[s].row, blocks'[s]),
           Versions(own'[s].row, blocks'[s]) \subseteq Versions(own[s].row, blocks[s]),
           Informed(s)' => record[s].was.lock <= Seen(s)'.lock
    PROVE  Sound(s)'
  <1>1. Informed(s)' => Informed(s)
    BY DEF Informed
  <1>2. Frames(s)'
    BY <1>1, RuleWeakens DEF Frames
  <1>3. Watches(s)'
    BY <1>1 DEF Sound, Watches, Aware
  <1>4. Knows(s)'
    BY <1>1 DEF Sound, Knows
  <1>5. WillKnow(s)'
    BY NoneClean DEF WillKnow
  <1> QED
    BY <1>2, <1>3, <1>4, <1>5 DEF Sound

\* A block that opens or is released brings no row that was not there
LEMMA OpenVersions ==
    ASSUME TransactionTypeOK, NEW s \in Sessions, Open(s)
    PROVE  Versions(own'[s].row, blocks'[s]) \subseteq Versions(own[s].row, blocks[s])
  <1> DEFINE block == [before |-> own[s], hooks |-> <<>>]
             all == Append(blocks[s], block)
  <1>1. /\ blocks[s] \in Seq(Block) /\ own' = own /\ blocks'[s] = all
        /\ block.before.row = own[s].row
    BY Typed DEF Open, TransactionTypeOK
  <1>2. \A i \in 1..Len(all) :
            (i \in 1..Len(blocks[s]) /\ all[i] = blocks[s][i]) \/ all[i] = block
    BY <1>1
  <1> HIDE DEF all, block
  <1> QED
    BY <1>1, <1>2 DEF Versions

LEMMA ReleaseVersions ==
    ASSUME TransactionTypeOK, NEW s \in Sessions, Release(s)
    PROVE  Versions(own'[s].row, blocks'[s]) \subseteq Versions(own[s].row, blocks[s])
  <1>1. Depth(s) \in Nat /\ Depth(s) = Len(blocks[s]) /\ own' = own
    BY Typed DEF Depth, Release
  <1>2. /\ Len(blocks'[s]) = Depth(s) - 1
        /\ \A i \in 1..Depth(s) - 1 : blocks'[s][i].before = blocks[s][i].before
    BY ReleaseFacts
  <1>3. \A i \in 1..Len(blocks'[s]) :
            i \in 1..Len(blocks[s]) /\ blocks'[s][i].before = blocks[s][i].before
    BY ONLY <1>1, <1>2
  <1> QED
    BY <1>1, <1>3 DEF Versions

LEMMA OpenSound ==
    ASSUME TransactionTypeOK, LockInv, NEW s \in Sessions, Open(s) PROVE LockInv'
  <1> DEFINE block == [before |-> own[s], hooks |-> <<>>]
  <1>1. /\ blocks \in [Sessions -> Seq(Block)] /\ blocks[s] \in Seq(Block)
        /\ own[s] \in Written /\ own[s].row \in Row \cup {NoRow}
        /\ Sound(s) /\ hooks[s] = <<>>
    BY Typed DEF TransactionTypeOK, LockInv, Open, Free
  <1>2. /\ UNCHANGED <<db, own, hooks, record, misled>>
        /\ blocks' = [blocks EXCEPT ![s] = Append(blocks[s], block)]
    BY DEF Open
  <1>3. block \in Block /\ block.before.row = own[s].row /\ ~HasClean(block.hooks)
    BY <1>1, NoneClean DEF Block, Callbacks
  <1> HIDE DEF block
  <1>4. FrameRule(Informed(s), own[s].row, Append(blocks[s], block))
    BY <1>1, <1>3, RuleOpens DEF Sound, Frames
  <1>5. /\ blocks'[s] = Append(blocks[s], block)
        /\ \A t \in Sessions \ {s} : blocks'[t] = blocks[t]
    BY <1>1, <1>2
  <1>6. Versions(own'[s].row, blocks'[s]) \subseteq Versions(own[s].row, blocks[s])
    BY OpenVersions
  <1>7. Informed(s)' => record[s].was.lock <= Seen(s)'.lock
    BY <1>1, <1>2 DEF Sound, Knows, Informed, Seen, SeenWith
  <1>8. Sound(s)'
    BY <1>1, <1>2, <1>4, <1>5, <1>6, <1>7, SoundStays
  <1> QED
    BY <1>2, <1>5, <1>8, OneSession

LEMMA ReleaseSound ==
    ASSUME TransactionTypeOK, LockInv, NEW s \in Sessions, Release(s) PROVE LockInv'
  <1>1. /\ Depth(s) \in Nat /\ Depth(s) > 1 /\ Depth(s) = Len(blocks[s])
        /\ blocks[s] \in Seq(Block) /\ Sound(s) /\ hooks[s] = <<>>
        /\ \A i \in 1..Depth(s) : blocks[s][i].hooks \in Seq(Callback)
    BY Typed DEF LockInv, Release, Free, Depth
  <1>2. UNCHANGED <<db, own, hooks, record, misled>>
    BY DEF Release
  <1>3. /\ blocks' \in [Sessions -> Seq(Block)]
        /\ \A t \in Sessions \ {s} : blocks'[t] = blocks[t]
        /\ Len(blocks'[s]) = Depth(s) - 1
        /\ \A i \in 1..Depth(s) - 1 : blocks'[s][i].before = blocks[s][i].before
        /\ \A i \in 1..Depth(s) - 2 : blocks'[s][i].hooks = blocks[s][i].hooks
        /\ blocks'[s][Depth(s) - 1].hooks =
               blocks[s][Depth(s) - 1].hooks \o blocks[s][Depth(s)].hooks
    BY ReleaseFacts
  <1>4. FrameRule(Informed(s), own[s].row, blocks'[s])
    <2> DEFINE n == Depth(s) - 1
               rest == blocks'[s]
               frames == blocks[s]
    <2>1. /\ n \in Nat \ {0} /\ Len(rest) = n /\ Len(frames) = n + 1
          /\ rest \in Seq(Block) /\ frames \in Seq(Block)
          /\ \A i \in 1..n : rest[i].before = frames[i].before
          /\ \A i \in 1..n - 1 : rest[i].hooks = frames[i].hooks
          /\ rest[n].hooks = frames[n].hooks \o frames[n + 1].hooks
          /\ frames[n].hooks \in Seq(Callback) /\ frames[n + 1].hooks \in Seq(Callback)
      <3>1. /\ n \in Nat \ {0} /\ Depth(s) = n + 1 /\ Depth(s) - 2 = n - 1
            /\ n \in 1..Depth(s) /\ n + 1 \in 1..Depth(s)
        BY ONLY <1>1
      <3> QED
        BY ONLY <1>1, <1>3, <3>1, s \in Sessions
    <2>2. FrameRule(Informed(s), own[s].row, frames)
      BY <1>1 DEF Sound, Frames
    <2> HIDE DEF n, rest, frames
    <2>3. ASSUME NEW i \in 1..n, HasClean(rest[i].hooks)
          PROVE  HasClean(frames[i].hooks) \/ (i = n /\ HasClean(frames[i + 1].hooks))
      <3>1. CASE i \in 1..n - 1
        BY <2>1, <2>3, <3>1
      <3>2. CASE i = n
        <4>1. HasClean(frames[n].hooks \o frames[n + 1].hooks)
          BY <2>1, <2>3, <3>2
        <4> QED
          BY <2>1, <3>2, <4>1, CleanOfJoin
      <3> QED
        BY <2>1, <3>1, <3>2
    <2>4. /\ Len(frames) > 1 /\ Len(rest) = Len(frames) - 1
          /\ \A i \in 1..Len(rest) : rest[i].before = frames[i].before
          /\ \A i \in 1..Len(rest) : HasClean(rest[i].hooks) =>
                 HasClean(frames[i].hooks) \/ (i = Len(rest) /\ HasClean(frames[i + 1].hooks))
      BY <2>1, <2>3
    <2>5. FrameRule(Informed(s), own[s].row, rest)
      BY ONLY <2>1, <2>2, <2>4, RuleShrinks
    <2> QED
      BY <2>5 DEF rest
  <1>5. Versions(own'[s].row, blocks'[s]) \subseteq Versions(own[s].row, blocks[s])
    BY ReleaseVersions
  <1>6. Informed(s)' => record[s].was.lock <= Seen(s)'.lock
    BY <1>1, <1>2 DEF Sound, Knows, Informed, Seen, SeenWith
  <1>7. Sound(s)'
    BY <1>1, <1>2, <1>4, <1>5, <1>6, SoundStays
  <1> QED
    BY <1>2, <1>3, <1>7, OneSession

LEMMA RollBackFacts ==
    ASSUME TransactionTypeOK, NEW s \in Sessions, InBlock(s), RollBack(s)
    PROVE  /\ Len(blocks[s]) \in Nat /\ Len(blocks[s]) > 0
           /\ own'[s] = blocks[s][Len(blocks[s])].before /\ own'[s].row \in Row \cup {NoRow}
           /\ blocks'[s] = Outer(s) /\ Outer(s) \in Seq(Block)
           /\ Len(Outer(s)) = Len(blocks[s]) - 1
           /\ \A i \in 1..Len(Outer(s)) : Outer(s)[i] = blocks[s][i]
           /\ \A t \in Sessions \ {s} :
                 own'[t] = own[t] /\ blocks'[t] = blocks[t] /\ (t \in misled' <=> t \in misled)
           /\ s \in misled => s \in misled'
           /\ s \notin misled' => record[s].was.lock <= Seen(s)'.lock
  <1>1. /\ Depth(s) \in Nat /\ Depth(s) > 0 /\ Depth(s) = Len(blocks[s])
        /\ blocks[s] \in Seq(Block)
    BY Typed DEF InBlock, Depth
  <1>2. /\ own'[s] = blocks[s][Len(blocks[s])].before /\ blocks'[s] = Outer(s)
        /\ \A t \in Sessions \ {s} : own'[t] = own[t] /\ blocks'[t] = blocks[t]
    BY DEF RollBack, Inner, Depth, TransactionTypeOK
  <1>3. /\ Outer(s) \in Seq(Block) /\ Len(Outer(s)) = Len(blocks[s]) - 1
        /\ \A i \in 1..Len(Outer(s)) : Outer(s)[i] = blocks[s][i]
    BY <1>1, OuterFacts
  <1>4. own'[s].row \in Row \cup {NoRow}
    BY <1>1, <1>2, BeforeTyped
  <1>5. Seen(s)' = SeenWith(Inner(s).before)
    BY <1>2 DEF RollBack, Seen, SeenWith, Inner, Depth
  <1>6. record[s].was.lock \in Nat /\ Seen(s)'.lock \in Nat
    BY <1>2, <1>4, <1>5, Typed, Kinships DEF SeenWith, Inner, Depth
  <1>7. s \notin misled' => ~(record[s].was.lock > Seen(s)'.lock)
    BY <1>5 DEF RollBack
  <1>8. s \notin misled' => record[s].was.lock <= Seen(s)'.lock
    BY ONLY <1>6, <1>7
  <1>9. /\ \A t \in Sessions \ {s} : t \in misled' <=> t \in misled
        /\ s \in misled => s \in misled'
    BY DEF RollBack
  <1> QED
    BY <1>1, <1>2, <1>3, <1>4, <1>8, <1>9

LEMMA RollBackVersions ==
    ASSUME TransactionTypeOK, NEW s \in Sessions, InBlock(s), RollBack(s)
    PROVE  Versions(own'[s].row, blocks'[s]) \subseteq Versions(own[s].row, blocks[s])
  <1>1. \A i \in 1..Len(blocks'[s]) : i \in 1..Len(blocks[s]) /\ blocks'[s][i] = blocks[s][i]
    BY RollBackFacts
  <1>2. /\ Len(blocks[s]) \in 1..Len(blocks[s])
        /\ own'[s].row = blocks[s][Len(blocks[s])].before.row
    BY RollBackFacts
  <1> QED
    BY <1>1, <1>2 DEF Versions

LEMMA RollBackSound ==
    ASSUME TransactionTypeOK, LockInv, NEW s \in Sessions, InBlock(s), RollBack(s)
    PROVE  LockInv'
  <1>1. /\ blocks[s] \in Seq(Block) /\ own[s].row \in Row \cup {NoRow}
        /\ Sound(s) /\ hooks[s] = <<>> /\ UNCHANGED <<db, hooks, record>>
    BY Typed DEF LockInv, InBlock, Free, RollBack
  <1>2. FrameRule(Informed(s), own[s].row, blocks[s])
    BY <1>1 DEF Sound, Frames
  <1>3. FrameRule(Informed(s), own'[s].row, blocks'[s])
    <2> DEFINE n == Len(blocks[s])
    <2>1. FrameRule(Informed(s), blocks[s][n].before.row, Outer(s))
      BY <1>1, <1>2, RollBackFacts, RuleRollsBack
    <2> QED
      BY <2>1, RollBackFacts
  <1>4. Versions(own'[s].row, blocks'[s]) \subseteq Versions(own[s].row, blocks[s])
    BY RollBackVersions
  <1>5. own'[s].row # NoRow => own[s].row # NoRow
    <2>1. Follows(Informed(s), own'[s].row, own[s].row)
      BY <1>2, RollBackFacts DEF FrameRule
    <2> QED
      BY <1>1, <2>1, RollBackFacts, WrittenStays
  <1>6. Sound(s)'
    BY <1>1, <1>3, <1>4, RollBackFacts, SoundStays DEF Informed
  <1> QED
    BY <1>1, <1>5, <1>6, RollBackFacts, OneSession

\* Registering a callback; one that is a mark_persisted! goes with a row that is written
LEMMA RegisterSound ==
    ASSUME TransactionTypeOK, NEW s \in Sessions, Frames(s), Depth(s) > 0,
           NEW callback \in Callback, NEW to \in Row \cup {NoRow},
           Follows(Informed(s), own[s].row, to), callback = Clean => to # NoRow
    PROVE  /\ FrameRule(Informed(s), to, AfterCommit(s, callback)[s])
           /\ Versions(to, AfterCommit(s, callback)[s]) \subseteq
                  Versions(own[s].row, blocks[s]) \cup {to}
  <1> DEFINE frames == blocks[s]
             more == AfterCommit(s, callback)[s]
             n == Len(frames)
  <1>1. /\ frames \in Seq(Block) /\ n \in Nat /\ n > 0 /\ n = Depth(s)
        /\ frames[n].hooks \in Seq(Callback) /\ frames[n] = Inner(s)
    BY Typed DEF Depth
  <1>2. /\ more \in Seq(Block) /\ Len(more) = n
        /\ \A i \in 1..n : more[i].before = frames[i].before
        /\ \A i \in 1..n - 1 : more[i].hooks = frames[i].hooks
        /\ more[n].hooks = Append(frames[n].hooks, callback)
    BY <1>1, AfterCommitFacts
  <1>3. FrameRule(Informed(s), own[s].row, frames)
    BY DEF Frames
  <1>4. own[s].row \in Row \cup {NoRow}
    BY Typed
  <1>5. Versions(to, more) \subseteq Versions(own[s].row, frames) \cup {to}
    BY <1>2 DEF Versions
  <1> HIDE DEF frames, more, n
  <1>6. ASSUME NEW i \in 1..n, HasClean(more[i].hooks)
        PROVE  HasClean(frames[i].hooks) \/ (i = n /\ to # NoRow)
    <2>1. CASE i \in 1..n - 1
      BY <1>2, <1>6, <2>1
    <2>2. CASE i = n
      <3>1. HasClean(Append(frames[n].hooks, callback))
        BY <1>2, <1>6, <2>2
      <3> QED
        BY <1>1, <2>2, <3>1, CleanOfAppend
    <2> QED
      BY <1>1, <2>1, <2>2
  <1>7. FrameRule(Informed(s), to, more)
    BY <1>1, <1>2, <1>3, <1>6, <1>4, RuleSwaps DEF n
  <1> QED
    BY <1>5, <1>7 DEF frames, more

LEMMA EmitSound ==
    ASSUME TransactionTypeOK, LockInv, NEW s \in Sessions, NEW kind \in Kinds, Emit(s, kind)
    PROVE  LockInv'
  <1> DEFINE effect == <<s, effects + 1>>
  <1>1. /\ Sound(s) /\ Frames(s) /\ Depth(s) > 0 /\ hooks[s] = <<>>
        /\ effect \in Callback /\ effect # Clean /\ own[s].row \in Row \cup {NoRow}
        /\ UNCHANGED <<db, hooks, record, misled>>
        /\ \A t \in Sessions : own'[t].row = own[t].row
        /\ blocks' = blocks \/ blocks' = AfterCommit(s, effect)
    BY EmitFacts, CleanIsNoEffect, Typed DEF LockInv, Sound, Emit, InBlock, Free, Callback
  <1> HIDE DEF effect
  <1>2. Follows(Informed(s), own[s].row, own[s].row)
    BY <1>1, FollowsItself
  <1>3. /\ FrameRule(Informed(s), own[s].row, AfterCommit(s, effect)[s])
        /\ Versions(own[s].row, AfterCommit(s, effect)[s]) \subseteq
               Versions(own[s].row, blocks[s]) \cup {own[s].row}
    BY <1>1, <1>2, RegisterSound
  <1>4. Versions(own[s].row, AfterCommit(s, effect)[s]) \subseteq
            Versions(own[s].row, blocks[s])
    BY <1>3 DEF Versions
  <1>5. /\ FrameRule(Informed(s), own'[s].row, blocks'[s])
        /\ Versions(own'[s].row, blocks'[s]) \subseteq Versions(own[s].row, blocks[s])
    BY <1>1, <1>3, <1>4 DEF Frames
  <1>6. \A t \in Sessions \ {s} : blocks'[t] = blocks[t]
    BY <1>1, AfterCommitFacts
  <1>7. Informed(s)' => record[s].was.lock <= Seen(s)'.lock
    BY <1>1 DEF Sound, Knows, Informed, Seen, SeenWith
  <1>8. Sound(s)'
    BY <1>1, <1>5, <1>7, SoundStays
  <1> QED
    BY <1>1, <1>6, <1>8, OneSession

LEMMA SaveSound ==
    ASSUME TransactionTypeOK, LockInv, NEW s \in Sessions, Save(s) PROVE LockInv'
  <1>1. /\ Sound(s) /\ hooks[s] = <<>> /\ db.row \in Row
        /\ own[s].row \in Row \cup {NoRow} /\ record[s] \in Record
        /\ record[s].was \in Row /\ record[s].was.lock \in Nat /\ db.row.lock \in Nat
        /\ Seen(s).lock = record[s].was.lock
        /\ \A t \in Sessions \ {s} : own[t].row = NoRow
        /\ blocks[s] \in Seq(Block) /\ UNCHANGED <<db, hooks, misled>>
    BY Typed, Kinships DEF LockInv, Save, InBlock, Free, PreviousLock
  <1>2. PICK to : to = own'[s].row
    OBVIOUS
  <1>3. /\ to \in Row /\ to # NoRow /\ to.value = record[s].value
        /\ to.lock = record[s].was.lock + 1
        /\ record'[s].value = record[s].value /\ record'[s].was = record[s].was
        /\ record'[s].lock = record[s].was.lock + 1
    BY <1>2, SaveFacts, Kinships
  <1>4. Informed(s)' <=> Informed(s)
    BY <1>1 DEF Informed
  <1>5. own[s].row # NoRow => own[s].row.lock = record[s].was.lock /\ Aware(s, own[s].row)
    BY <1>1 DEF Seen, SeenWith, Sound, Watches, Versions
  <1>6. own[s].row = NoRow => db.row.lock = record[s].was.lock
    BY <1>1 DEF Seen, SeenWith
  <1>7. record[s].was.value \subseteq record[s].value
    BY <1>1 DEF Sound, Knows
  <1>8. Follows(Informed(s), own[s].row, to)
    <2>1. CASE own[s].row = NoRow
      BY <1>1, <1>3, <2>1, Locks DEF Follows
    <2>2. CASE own[s].row # NoRow
      BY <1>1, <1>3, <1>5, <1>7, <2>2 DEF Follows, Aware
    <2> QED
      BY <2>1, <2>2
  <1>9. to.lock > db.row.lock /\ (Informed(s) => db.row.value \subseteq to.value)
    <2>1. CASE own[s].row = NoRow
      BY <1>1, <1>3, <1>6, <1>7, <2>1 DEF Sound, Knows
    <2>2. CASE own[s].row # NoRow
      <3>1. own[s].row.lock \in Int
        BY <1>1, Locks
      <3> QED
        BY <1>1, <1>3, <1>5, <1>7, <2>2, <3>1 DEF Aware
    <2> QED
      BY <2>1, <2>2
  <1>10. /\ FrameRule(Informed(s), to, blocks'[s])
         /\ Versions(to, blocks'[s]) \subseteq Versions(own[s].row, blocks[s]) \cup {to}
         /\ \A t \in Sessions \ {s} : blocks'[t] = blocks[t]
    <2>1. /\ Depth(s) > 0 /\ blocks' = AfterCommit(s, Clean)
          /\ Clean \in Callback /\ Frames(s)
      BY <1>1, SaveFacts, Kinships DEF Sound
    <2>2. to \in Row \cup {NoRow}
      BY <1>3
    <2>3. /\ FrameRule(Informed(s), to, AfterCommit(s, Clean)[s])
          /\ Versions(to, AfterCommit(s, Clean)[s]) \subseteq
                 Versions(own[s].row, blocks[s]) \cup {to}
      BY <1>3, <1>8, <2>1, <2>2, RegisterSound
    <2>4. \A t \in Sessions \ {s} : AfterCommit(s, Clean)[t] = blocks[t]
      BY <2>1, AfterCommitFacts
    <2> QED
      BY <2>1, <2>3, <2>4
  <1>11. Frames(s)'
    BY <1>1, <1>2, <1>4, <1>10, RuleWeakens DEF Frames
  <1>12. Aware(s, to)'
    BY <1>1, <1>3, <1>4, <1>9 DEF Aware
  <1>13. ASSUME NEW row \in Versions(own[s].row, blocks[s]) PROVE Aware(s, row)'
    <2>1. /\ row \in Row /\ own[s].row \in Row /\ row.lock <= own[s].row.lock
          /\ row.lock \in Nat /\ own[s].row.lock \in Nat
      BY <1>1, VersionsFollow, Kinships DEF Sound, Frames, Follows
    <2>2. own[s].row.lock = record[s].was.lock
      BY <1>5, <2>1, Kinships
    <2>3. record'[s].lock # row.lock
      BY <1>1, <1>3, <2>1, <2>2
    <2>4. Aware(s, row)
      BY <1>1 DEF Sound, Watches
    <2> QED
      BY <1>1, <1>3, <1>4, <2>3, <2>4 DEF Aware
  <1>14. Watches(s)'
    <2>1. \A row \in Versions(to, blocks'[s]) : Aware(s, row)'
      BY <1>10, <1>12, <1>13
    <2> QED
      BY <1>2, <2>1 DEF Watches
  <1>15. Knows(s)'
    <2>1. Seen(s)'.lock = record[s].was.lock + 1
      BY <1>2, <1>3 DEF Seen, SeenWith
    <2> QED
      BY <1>1, <1>3, <1>4, <2>1 DEF Knows, Sound
  <1>16. WillKnow(s)'
    BY <1>1, NoneClean DEF WillKnow
  <1>17. \A t \in Sessions \ {s} : own'[t].row = own[t].row /\ record'[t] = record[t]
    BY SaveFacts
  <1> QED
    BY <1>1, <1>10, <1>11, <1>14, <1>15, <1>16, <1>17, OneSession DEF Sound

LEMMA AssignSound ==
    ASSUME TransactionTypeOK, LockInv, NEW s \in Sessions, Assign(s) PROVE LockInv'
  <1>1. /\ Sound(s) /\ hooks[s] = <<>> /\ (Informed(s)' <=> Informed(s))
        /\ UNCHANGED <<db, own, blocks, hooks, misled>>
    BY DEF LockInv, Assign, Free, Informed
  <1>2. Frames(s)'
    BY <1>1, RuleWeakens DEF Sound, Frames
  <1>3. Watches(s)'
    <2>1. ASSUME NEW row \in Versions(own[s].row, blocks[s]) PROVE Aware(s, row)'
      <3>1. Aware(s, row)
        BY <1>1 DEF Sound, Watches
      <3> QED
        BY <1>1, <3>1, AssignFacts DEF Aware
    <2> QED
      BY <1>1, <2>1 DEF Watches
  <1>4. Knows(s)'
    BY <1>1, AssignFacts DEF Sound, Knows, Seen, SeenWith
  <1>5. WillKnow(s)'
    BY <1>1, NoneClean DEF WillKnow
  <1> QED
    BY <1>1, <1>2, <1>3, <1>4, <1>5, AssignFacts, OneSession DEF Sound

LEMMA RefreshFacts ==
    ASSUME TransactionTypeOK, NEW s \in Sessions, Refresh(s)
    PROVE  /\ hooks[s] = <<>>
           /\ UNCHANGED <<db, own, blocks, hooks, late, stored>>
           /\ record'[s] = Loaded(Seen(s)) /\ record'[s].was = Seen(s)
           /\ record'[s].value = Seen(s).value /\ record'[s].lock = Seen(s).lock
           /\ \A t \in Sessions \ {s} : record'[t] = record[t] /\ (t \in misled' <=> t \in misled)
           /\ own[s].row # NoRow => misled' = misled
  BY DEF Refresh, TransactionTypeOK, Loaded, Free

LEMMA RefreshSound ==
    ASSUME TransactionTypeOK, LockInv, NEW s \in Sessions, Refresh(s) PROVE LockInv'
  <1>1. /\ Sound(s) /\ db.row.lock \in Nat /\ Seen(s).lock \in Nat
        /\ blocks[s] \in Seq(Block) /\ own[s].row \in Row \cup {NoRow}
        /\ FrameRule(Informed(s), own[s].row, blocks[s])
    BY Typed, Kinships DEF LockInv, Sound, Frames
  <1>2. Frames(s)' /\ Watches(s)' /\ Knows(s)'
    <2>1. CASE own[s].row = NoRow
      <3>1. FrameRule(TRUE, NoRow, blocks[s]) /\ Versions(NoRow, blocks[s]) = {}
        BY <1>1, <2>1, RuleOfNone
      <3>2. Frames(s)'
        BY <2>1, <3>1, RefreshFacts, RuleWeakens DEF Frames
      <3>3. Watches(s)'
        BY <2>1, <3>1, RefreshFacts DEF Watches
      <3>4. Seen(s) = db.row
        BY <2>1 DEF Seen, SeenWith
      <3>5. Knows(s)'
        BY <1>1, <2>1, <3>4, RefreshFacts DEF Knows, Seen, SeenWith
      <3> QED
        BY <3>2, <3>3, <3>5
    <2>2. CASE own[s].row # NoRow
      <3>1. Seen(s) = own[s].row /\ (Informed(s)' <=> Informed(s))
        BY <2>2, RefreshFacts DEF Seen, SeenWith, Informed
      <3>2. Aware(s, own[s].row)
        BY <1>1, <2>2 DEF Sound, Watches, Versions
      <3>3. Frames(s)'
        BY <1>1, <3>1, RefreshFacts, RuleWeakens DEF Frames
      <3>4. ASSUME NEW row \in Versions(own[s].row, blocks[s]) PROVE Aware(s, row)'
        <4>1. Follows(Informed(s), row, own[s].row) /\ Aware(s, row)
          BY <1>1, VersionsFollow DEF Sound, Watches
        <4>2. row.lock = own[s].row.lock => row = own[s].row
          BY <4>1 DEF Follows
        <4> QED
          BY <3>1, <4>1, <4>2, RefreshFacts DEF Aware
      <3>5. Watches(s)'
        BY <3>4, RefreshFacts DEF Watches
      <3>6. Knows(s)'
        BY <1>1, <3>1, <3>2, RefreshFacts DEF Knows, Aware, Seen, SeenWith
      <3> QED
        BY <3>3, <3>5, <3>6
    <2> QED
      BY <2>1, <2>2
  <1>3. WillKnow(s)'
    BY RefreshFacts, NoneClean DEF WillKnow
  <1> QED
    BY <1>2, <1>3, RefreshFacts, OneSession DEF Sound

\* A session whose callbacks run has no block open, and so nothing written
LEMMA CallbackSound ==
    ASSUME TransactionTypeOK, LockInv, NEW s \in Sessions,
           RunCallback(s) \/ CallbackRaises(s) \/ Dies(s)
    PROVE  LockInv'
  <1>1. /\ Sound(s) /\ hooks[s] # <<>> /\ hooks[s] \in Seq(Callback)
        /\ db.row.lock \in Nat /\ hooks \in [Sessions -> Callbacks]
        /\ UNCHANGED <<db, own, blocks>> /\ Len(<<>>) = 0
        /\ \A t \in Sessions \ {s} : t \in misled' <=> t \in misled
    BY Typed, Kinships DEF LockInv, RunCallback, CallbackRaises, Dies, Free, TransactionTypeOK
  <1>2. own[s].row = NoRow /\ blocks[s] = <<>>
    BY <1>1 DEF Sound, Frames, FrameRule
  <1>3. Frames(s)' /\ Watches(s)'
    BY <1>1, <1>2 DEF Frames, FrameRule, Watches, Versions
  <1>4. Seen(s) = db.row /\ Seen(s)' = db.row
    BY <1>1, <1>2 DEF Seen, SeenWith
  <1>5. CASE RunCallback(s)
    <2>1. /\ hooks'[s] = Tail(hooks[s]) /\ misled' = misled
          /\ \A t \in Sessions \ {s} : hooks'[t] = hooks[t]
      BY <1>1, <1>5 DEF RunCallback
    <2>2. HasClean(hooks'[s]) => HasClean(hooks[s])
      BY <1>1, <2>1, CleanOfTail
    <2>3. WillKnow(s)'
      BY <1>1, <1>5, <2>1, <2>2, RunCallbackFacts DEF Sound, WillKnow, Informed
    <2>4. Knows(s)'
      <3>1. CASE record'[s] = record[s]
        BY <1>1, <1>4, <2>1, <3>1 DEF Sound, Knows, Informed
      <3>2. CASE record'[s] # record[s]
        <4>1. Head(hooks[s]) = Clean
          BY <1>5, <3>2, RunCallbackFacts
        <4>2. HasClean(hooks[s])
          BY <1>1, <4>1 DEF HasClean
        <4>3. /\ record'[s].value = record[s].value
              /\ record'[s].was.value = record[s].value
              /\ record'[s].was.lock = record[s].lock
          BY <1>5, <3>2, RunCallbackFacts
        <4> QED
          BY <1>1, <1>4, <2>1, <4>2, <4>3 DEF Sound, WillKnow, Knows, Informed
      <3> QED
        BY <3>1, <3>2
    <2> QED
      BY <1>1, <1>2, <1>3, <1>5, <2>1, <2>3, <2>4, RunCallbackFacts, OneSession DEF Sound
  <1>6. CASE CallbackRaises(s)
    <2>1. /\ hooks'[s] = <<>> /\ UNCHANGED <<record, misled>>
          /\ \A t \in Sessions \ {s} : hooks'[t] = hooks[t]
      BY <1>1, <1>6 DEF CallbackRaises
    <2>2. Knows(s)' /\ WillKnow(s)'
      BY <1>1, <1>4, <2>1, NoneClean DEF Sound, Knows, WillKnow, Informed
    <2> QED
      BY <1>1, <1>2, <1>3, <2>1, <2>2, OneSession DEF Sound
  <1>7. CASE Dies(s)
    <2>1. /\ hooks'[s] = <<>> /\ record'[s] = Loaded(db.row)
          /\ \A t \in Sessions \ {s} : hooks'[t] = hooks[t] /\ record'[t] = record[t]
      BY <1>1, <1>7 DEF Dies, TransactionTypeOK
    <2>2. Knows(s)' /\ WillKnow(s)'
      BY <1>1, <1>4, <2>1, NoneClean DEF Knows, Loaded, WillKnow
    <2> QED
      BY <1>1, <1>2, <1>3, <2>1, <2>2, OneSession DEF Sound
  <1> QED
    BY <1>5, <1>6, <1>7

LEMMA CommitFacts ==
    ASSUME TransactionTypeOK, NEW s \in Sessions, Commit(s)
    PROVE  /\ Len(blocks[s]) = 1 /\ hooks[s] = <<>>
           /\ db'.row = IF own[s].row = NoRow THEN db.row ELSE own[s].row
           /\ own'[s].row = NoRow /\ blocks'[s] = <<>> /\ hooks'[s] = blocks[s][1].hooks
           /\ \A t \in Sessions \ {s} :
                 /\ own'[t] = own[t] /\ blocks'[t] = blocks[t] /\ hooks'[t] = hooks[t]
                 /\ t \in misled' <=> t \in misled
           /\ record' = record /\ stored' = stored \cup own[s].row.value /\ late' = late
           /\ s \in misled => s \in misled'
           /\ s \notin misled' /\ own[s].row # NoRow => ~(record[s].lock > own[s].row.lock)
  BY DEF Commit, TransactionTypeOK, Nothing, Depth, Inner, Free

LEMMA CommitSound ==
    ASSUME TransactionTypeOK, LockInv, NEW s \in Sessions, Commit(s) PROVE LockInv'
  <1>1. /\ Sound(s) /\ FrameRule(Informed(s), own[s].row, blocks[s])
        /\ Len(blocks[s]) = 1 /\ Len(<<>>) = 0 /\ blocks[s] \in Seq(Block)
        /\ own[s].row \in Row \cup {NoRow} /\ db.row.lock \in Nat /\ record[s].lock \in Nat
    BY CommitFacts, Typed, Kinships DEF LockInv, Sound, Frames
  <1>2. Frames(s)' /\ Watches(s)'
    BY <1>1, CommitFacts DEF Frames, FrameRule, Watches, Versions
  <1>3. HasClean(hooks'[s]) => own[s].row # NoRow
    BY <1>1, CommitFacts DEF FrameRule
  <1>4. Informed(s)' => Informed(s)
    BY CommitFacts DEF Informed
  <1>5. CASE own[s].row = NoRow
    <2>1. db'.row = db.row /\ Seen(s) = db.row /\ Seen(s)' = db.row
      BY <1>5, CommitFacts DEF Seen, SeenWith
    <2>2. Knows(s)' /\ WillKnow(s)'
      BY <1>1, <1>3, <1>4, <1>5, <2>1, CommitFacts DEF Sound, Knows, WillKnow
    <2> QED
      BY <1>2, <1>5, <2>1, <2>2, CommitFacts, OneSession DEF Sound
  <1>6. CASE own[s].row # NoRow
    <2>1. /\ db'.row = own[s].row /\ Seen(s) = own[s].row /\ Seen(s)' = own[s].row
          /\ Aware(s, own[s].row) /\ own[s].row \in Row /\ own[s].row.lock \in Nat
      BY <1>1, <1>6, CommitFacts, Kinships
         DEF Seen, SeenWith, Sound, Watches, Versions
    <2>2. db'.row.lock > db.row.lock
      BY <2>1 DEF Aware
    <2>3. Knows(s)'
      BY <1>1, <1>4, <2>1, CommitFacts DEF Sound, Knows, Aware
    <2>4. WillKnow(s)'
      <3>1. Informed(s)' => record[s].lock <= own[s].row.lock
        BY <1>1, <1>6, <2>1, CommitFacts DEF Informed
      <3> QED
        BY <1>4, <2>1, <3>1, CommitFacts DEF WillKnow, Aware
    <2>5. ASSUME NEW t \in Sessions \ {s} PROVE Sound(t)'
      <3>1. /\ Sound(t) /\ own[t].row = NoRow /\ own'[t].row = NoRow
            /\ (Informed(t)' <=> Informed(t))
            /\ blocks[t] \in Seq(Block) /\ FrameRule(Informed(t), NoRow, blocks[t])
            /\ record[t].was.lock \in Nat /\ record[t].lock \in Nat
        BY <1>6, CommitFacts, Typed, Kinships DEF LockInv, OneWriter, Sound, Frames, Informed
      <3>2. Frames(t)'
        BY <3>1, CommitFacts, RuleWeakens DEF Sound, Frames
      <3>3. Watches(t)'
        BY <3>1, CommitFacts, RuleOfNone DEF Watches
      <3>4. Seen(t) = db.row /\ Seen(t)' = db'.row
        BY <3>1 DEF Seen, SeenWith
      <3>5. Knows(t)'
        BY <1>1, <2>1, <2>2, <3>1, <3>4, CommitFacts DEF Sound, Knows
      <3>6. WillKnow(t)'
        BY <1>1, <2>1, <2>2, <3>1, CommitFacts DEF Sound, WillKnow
      <3> QED
        BY <3>2, <3>3, <3>5, <3>6 DEF Sound
    <2>6. OneWriter'
      BY <1>6, CommitFacts DEF LockInv, OneWriter
    <2> QED
      BY <1>2, <2>3, <2>4, <2>5, <2>6 DEF LockInv, Sound
  <1> QED
    BY <1>5, <1>6

LEMMA LockInvStep ==
    TransactionTypeOK /\ LockInv /\ [TransactionNext]_transactionVars => LockInv'
  <1> SUFFICES ASSUME TransactionTypeOK, LockInv, [TransactionNext]_transactionVars
               PROVE  LockInv'
    OBVIOUS
  <1>1. CASE UNCHANGED transactionVars
    <2>1. UNCHANGED <<db, own, blocks, hooks, record, misled>>
      BY <1>1 DEF transactionVars
    <2>2. \A t \in Sessions : Sound(t)'
      BY <2>1, Untouched DEF LockInv
    <2> QED
      BY <2>1, <2>2 DEF LockInv, OneWriter
  <1>2. CASE TransactionNext
    <2>1. PICK s \in Sessions :
            \/ Open(s) \/ Release(s) \/ Raise(s) \/ Commit(s)
            \/ \E kind \in Kinds : Emit(s, kind)
            \/ RunCallback(s) \/ CallbackRaises(s) \/ Dies(s)
            \/ Assign(s) \/ Save(s) \/ SaveStale(s) \/ Refresh(s)
      BY <1>2 DEF TransactionNext
    <2>2. CASE Raise(s) \/ SaveStale(s)
      BY <2>2, RollBackSound DEF Raise, SaveStale
    <2> QED
      BY <2>1, <2>2, OpenSound, ReleaseSound, CommitSound, EmitSound, CallbackSound,
         AssignSound, SaveSound, RefreshSound
  <1> QED
    BY <1>1, <1>2

(***************************************************************************)
(* The lock value identifies the edits: in every reachable state a snapshot *)
(* with the lock value of the row, as it is committed or as its session has *)
(* written it, has all of that row's edits, through savepoints, rollbacks,  *)
(* refreshes in a transaction and callbacks that run late; save for a       *)
(* snapshot of a save that was rolled back, which a refresh may leave.      *)
(***************************************************************************)
THEOREM LockingIsSound == TransactionSpec => []LockInv
  BY LockInvInit, LockInvStep, TransactionTypes, PTL DEF TransactionSpec

(***************************************************************************)
(* No committed edit is overwritten by a record that had not seen it, but by*)
(* one with a snapshot of a save that was rolled back (store.rb:66).        *)
(***************************************************************************)
THEOREM NoLostUpdate == TransactionSpec => NothingOverwritten
  <1> DEFINE kept == \/ db.row.value \subseteq db'.row.value
                     \/ \E s \in misled : own[s].row # NoRow /\ own'[s].row = NoRow
  <1>1. TransactionTypeOK /\ LockInv /\ [TransactionNext]_transactionVars =>
            [kept]_transactionVars
    <2> SUFFICES ASSUME TransactionTypeOK, LockInv, TransactionNext
                 PROVE  kept
      OBVIOUS
    <2>1. PICK s \in Sessions :
            \/ Open(s) \/ Release(s) \/ Raise(s) \/ Commit(s)
            \/ \E kind \in Kinds : Emit(s, kind)
            \/ RunCallback(s) \/ CallbackRaises(s) \/ Dies(s)
            \/ Assign(s) \/ Save(s) \/ SaveStale(s) \/ Refresh(s)
      BY DEF TransactionNext
    <2>2. CASE Commit(s)
      <3>1. CASE own[s].row = NoRow
        BY <2>2, <3>1, CommitFacts
      <3>2. CASE own[s].row # NoRow
        <4>1. db'.row = own[s].row /\ own'[s].row = NoRow /\ Aware(s, own[s].row)
          BY <2>2, <3>2, CommitFacts DEF LockInv, Sound, Watches, Versions
        <4> QED
          BY <3>2, <4>1 DEF Aware, Informed
      <3> QED
        BY <3>1, <3>2
    <2>3. CASE ~Commit(s)
      <3>1. db' = db
        BY <2>1, <2>3 DEF Open, Release, Raise, SaveStale, RollBack, Emit, RunCallback,
           CallbackRaises, Dies, Assign, Save, Refresh
      <3> QED
        BY <3>1
    <2> QED
      BY <2>2, <2>3
  <1> QED
    BY <1>1, TransactionTypes, LockingIsSound, PTL DEF TransactionSpec, NothingOverwritten

----------------------------------------------------------------------------
(* A clean record is stored. The snapshot holds what was loaded, or what    *)
(* the save of a committed transaction wrote and was assigned after it; so  *)
(* while a save is not committed, what is written and every row a block     *)
(* began with after it has the record's edits. What was loaded may itself   *)
(* be uncommitted, and then every row written since has it.                 *)

\* Some of the first j blocks holds a save
SavedIn(frames, j) == \E i \in 1..j : HasClean(frames[i].hooks)

StoredRule(value, row, frames) ==
    /\ SavedIn(frames, Len(frames)) => value \subseteq row.value
    /\ \A j \in 1..Len(frames) : SavedIn(frames, j - 1) =>
          value \subseteq frames[j].before.row.value

\* The edits of the record and of what is written, but for those made after a save
Mine(s) == (record[s].value \cup own[s].row.value) \ late

\* What was loaded is stored, or in a row that is not committed yet
Loading(s) ==
    /\ record[s].was.lock <= db.row.lock => record[s].was.value \ late \subseteq stored
    /\ \A row \in Versions(own[s].row, blocks[s]) :
          record[s].was.lock <= row.lock =>
              record[s].was.value \ late \subseteq stored \cup row.value

Storing(s) == Informed(s) =>
    /\ StoredRule(Mine(s), own[s].row, blocks[s])
    /\ HasClean(hooks[s]) => Mine(s) \subseteq stored
    /\ Loading(s)

StoredInv == db.row.value \subseteq stored /\ \A s \in Sessions : Storing(s)

LEMMA StoredOpens ==
    ASSUME NEW frames \in Seq(Block), NEW value, NEW row, StoredRule(value, row, frames),
           NEW block \in Block, block.before.row = row, ~HasClean(block.hooks)
    PROVE  StoredRule(value, row, Append(frames, block))
  <1> DEFINE n == Len(frames)
             all == Append(frames, block)
  <1>1. /\ n \in Nat /\ Len(all) = n + 1 /\ all[n + 1] = block
        /\ \A i \in 1..n : all[i] = frames[i]
    OBVIOUS
  <1> HIDE DEF all
  <1>2. /\ SavedIn(frames, n) => value \subseteq row.value
        /\ \A j \in 1..n : SavedIn(frames, j - 1) => value \subseteq frames[j].before.row.value
    BY DEF StoredRule
  <1> HIDE DEF n
  <1>3. ASSUME NEW j \in 0..n, SavedIn(all, j) PROVE SavedIn(frames, j)
    <2>1. \A i \in 1..j : all[i] = frames[i]
      BY ONLY <1>1, j \in 0..n
    <2> QED
      BY ONLY <2>1, <1>3 DEF SavedIn
  <1>4. ASSUME SavedIn(all, n + 1) PROVE SavedIn(frames, n)
    <2>1. \A i \in 1..n + 1 : i \in 1..n \/ i = n + 1
      BY ONLY <1>1
    <2> QED
      BY ONLY <1>1, <1>4, <2>1, ~HasClean(block.hooks) DEF SavedIn
  <1>5. ASSUME NEW j \in 1..n + 1, SavedIn(all, j - 1)
        PROVE  value \subseteq all[j].before.row.value
    <2>1. j - 1 \in 0..n
      BY ONLY <1>1, j \in 1..n + 1
    <2>2. SavedIn(frames, j - 1)
      BY <1>3, <1>5, <2>1
    <2>3. CASE j = n + 1
      <3>1. j - 1 = n
        BY ONLY <1>1, <2>3
      <3> QED
        BY <1>1, <1>2, <2>2, <2>3, <3>1
    <2>4. CASE j # n + 1
      <3>1. j \in 1..n
        BY ONLY <1>1, <2>4, j \in 1..n + 1
      <3> QED
        BY <1>1, <1>2, <2>2, <3>1
    <2> QED
      BY <2>3, <2>4
  <1> QED
    BY <1>1, <1>2, <1>4, <1>5 DEF StoredRule, all

LEMMA StoredShrinks ==
    ASSUME NEW frames \in Seq(Block), NEW value, NEW row, StoredRule(value, row, frames),
           Len(frames) > 1, NEW rest \in Seq(Block), Len(rest) = Len(frames) - 1,
           \A i \in 1..Len(rest) : rest[i].before = frames[i].before,
           \A i \in 1..Len(rest) : HasClean(rest[i].hooks) =>
               \/ HasClean(frames[i].hooks)
               \/ i = Len(rest) /\ HasClean(frames[i + 1].hooks)
    PROVE  StoredRule(value, row, rest)
  <1> DEFINE n == Len(rest)
  <1>1. n \in Nat /\ n > 0 /\ Len(frames) = n + 1
    OBVIOUS
  <1>2. /\ SavedIn(frames, n + 1) => value \subseteq row.value
        /\ \A j \in 1..n : SavedIn(frames, j - 1) => value \subseteq frames[j].before.row.value
    BY <1>1 DEF StoredRule
  <1>3. /\ \A i \in 1..n : HasClean(rest[i].hooks) =>
               HasClean(frames[i].hooks) \/ (i = n /\ HasClean(frames[i + 1].hooks))
        /\ \A i \in 1..n : rest[i].before = frames[i].before
    OBVIOUS
  <1> HIDE DEF n
  <1>4. ASSUME SavedIn(rest, n) PROVE SavedIn(frames, n + 1)
    <2>1. \A i \in 1..n : i \in 1..n + 1 /\ i + 1 \in 1..n + 1
      BY ONLY <1>1
    <2> QED
      BY ONLY <1>3, <1>4, <2>1 DEF SavedIn
  <1>5. ASSUME NEW j \in 1..n, SavedIn(rest, j - 1)
        PROVE  value \subseteq rest[j].before.row.value
    <2>1. \A i \in 1..j - 1 : i \in 1..n /\ i # n
      BY ONLY <1>1, j \in 1..n
    <2>2. SavedIn(frames, j - 1)
      BY ONLY <1>3, <1>5, <2>1 DEF SavedIn
    <2> QED
      BY <1>2, <1>3, <2>2
  <1> QED
    BY <1>2, <1>4, <1>5 DEF StoredRule, n

LEMMA StoredRollsBack ==
    ASSUME NEW frames \in Seq(Block), NEW value, NEW row, StoredRule(value, row, frames),
           Len(frames) > 0, NEW rest \in Seq(Block), Len(rest) = Len(frames) - 1,
           \A i \in 1..Len(rest) : rest[i] = frames[i]
    PROVE  StoredRule(value, frames[Len(frames)].before.row, rest)
  <1> DEFINE n == Len(rest)
  <1>1. n \in Nat /\ Len(frames) = n + 1 /\ \A i \in 1..n : rest[i] = frames[i]
    OBVIOUS
  <1>2. \A j \in 1..n + 1 : SavedIn(frames, j - 1) => value \subseteq frames[j].before.row.value
    BY <1>1 DEF StoredRule
  <1> HIDE DEF n
  <1>3. ASSUME NEW j \in 0..n, SavedIn(rest, j) PROVE SavedIn(frames, j)
    <2>1. \A i \in 1..j : rest[i] = frames[i]
      BY ONLY <1>1, j \in 0..n
    <2> QED
      BY ONLY <2>1, <1>3 DEF SavedIn
  <1>4. SavedIn(rest, n) => value \subseteq frames[n + 1].before.row.value
    <2>1. n + 1 \in 1..n + 1 /\ n + 1 - 1 = n /\ n \in 0..n
      BY ONLY <1>1
    <2> QED
      BY <1>2, <1>3, <2>1
  <1>5. ASSUME NEW j \in 1..n, SavedIn(rest, j - 1)
        PROVE  value \subseteq rest[j].before.row.value
    <2>1. j \in 1..n + 1 /\ j - 1 \in 0..n
      BY ONLY <1>1, j \in 1..n
    <2> QED
      BY <1>1, <1>2, <1>3, <1>5, <2>1
  <1> QED
    BY <1>1, <1>4, <1>5 DEF StoredRule, n

LEMMA StoredSwaps ==
    ASSUME NEW frames \in Seq(Block), NEW value, NEW row, NEW to,
           StoredRule(value, row, frames), to = row \/ value \subseteq to.value,
           Len(frames) > 0, NEW more \in Seq(Block), Len(more) = Len(frames),
           \A i \in 1..Len(frames) : more[i].before = frames[i].before,
           \A i \in 1..Len(frames) : HasClean(more[i].hooks) =>
               HasClean(frames[i].hooks) \/ (i = Len(frames) /\ value \subseteq to.value)
    PROVE  StoredRule(value, to, more)
  <1> DEFINE n == Len(frames)
  <1>1. n \in Nat /\ n > 0 /\ Len(more) = n
    OBVIOUS
  <1>2. /\ SavedIn(frames, n) => value \subseteq row.value
        /\ \A j \in 1..n : SavedIn(frames, j - 1) => value \subseteq frames[j].before.row.value
    BY DEF StoredRule
  <1>3. /\ \A i \in 1..n : HasClean(more[i].hooks) =>
               HasClean(frames[i].hooks) \/ (i = n /\ value \subseteq to.value)
        /\ \A i \in 1..n : more[i].before = frames[i].before
    OBVIOUS
  <1> HIDE DEF n
  <1>4. SavedIn(more, n) => value \subseteq to.value
    BY ONLY <1>2, <1>3, to = row \/ value \subseteq to.value DEF SavedIn
  <1>5. ASSUME NEW j \in 1..n, SavedIn(more, j - 1)
        PROVE  value \subseteq more[j].before.row.value
    <2>1. \A i \in 1..j - 1 : i \in 1..n /\ i # n
      BY ONLY <1>1, j \in 1..n
    <2>2. SavedIn(frames, j - 1)
      BY ONLY <1>3, <1>5, <2>1 DEF SavedIn
    <2> QED
      BY <1>2, <1>3, <2>2
  <1> QED
    BY <1>1, <1>4, <1>5 DEF StoredRule, n

\* Fewer edits, or none to be saved yet
LEMMA StoredLess ==
    ASSUME NEW frames, NEW value, NEW row, StoredRule(value, row, frames), NEW less,
           Len(frames) \in Nat, less \subseteq value \/ ~SavedIn(frames, Len(frames))
    PROVE  StoredRule(less, row, frames)
  <1>1. \A j \in 1..Len(frames) : SavedIn(frames, j - 1) => SavedIn(frames, Len(frames))
    BY DEF SavedIn
  <1> QED
    BY <1>1 DEF StoredRule

LEMMA SavedIs ==
    ASSUME NEW s \in Sessions
    PROVE  Saved(s) <=> SavedIn(blocks[s], Len(blocks[s]))
  BY DEF Saved, SavedIn, HasClean, Depth

LEMMA StoredInit == TransactionInit => StoredInv
  <1> SUFFICES ASSUME TransactionInit PROVE StoredInv
    OBVIOUS
  <1>1. ASSUME NEW s \in Sessions PROVE Storing(s)
    <2>1. /\ blocks[s] = <<>> /\ hooks[s] = <<>> /\ record[s].was.value = {} /\ Len(<<>>) = 0
      BY DEF TransactionInit, Loaded, FirstRow
    <2>2. StoredRule(Mine(s), own[s].row, <<>>)
      BY <2>1 DEF StoredRule, SavedIn
    <2> QED
      BY <2>1, <2>2, NoneClean DEF Storing, Loading
  <1> QED
    BY <1>1 DEF StoredInv, TransactionInit, FirstRow

\* A session nothing happens to, and no commit with it
LEMMA OthersStore ==
    ASSUME NEW t \in Sessions, Storing(t), db'.row = db.row, stored' = stored,
           late \subseteq late', own'[t] = own[t], blocks'[t] = blocks[t], hooks'[t] = hooks[t],
           record'[t] = record[t], Len(blocks[t]) \in Nat, t \in misled' <=> t \in misled
    PROVE  Storing(t)'
  <1>1. Mine(t)' \subseteq Mine(t)
    BY DEF Mine
  <1>2. CASE ~Informed(t)
    BY <1>2 DEF Storing, Informed
  <1>3. CASE Informed(t)
    <2>1. StoredRule(Mine(t)', own[t].row, blocks[t])
      BY <1>1, <1>3, StoredLess DEF Storing
    <2>2. StoredRule(Mine(t), own[t].row, blocks[t])'
      BY <2>1
    <2>3. Loading(t)'
      BY <1>3 DEF Storing, Loading
    <2> QED
      BY <1>1, <1>3, <2>2, <2>3 DEF Storing
  <1> QED
    BY <1>2, <1>3

\* Where the record and what is committed stay as they are, the rule has to be looked at,
\* and no row may be new
LEMMA LoadingStays ==
    ASSUME NEW s \in Sessions, Loading(s), db'.row = db.row, UNCHANGED <<stored, late>>,
           record'[s].was = record[s].was,
           Versions(own'[s].row, blocks'[s]) \subseteq Versions(own[s].row, blocks[s])
    PROVE  Loading(s)'
  BY DEF Loading

\* A step of a session changes nothing that is another's
LEMMA Elsewhere ==
    ASSUME TransactionTypeOK, NEW s \in Sessions, NEW t \in Sessions, t # s,
           \/ Open(s) \/ Release(s) \/ Raise(s) \/ Commit(s)
           \/ \E kind \in Kinds : Emit(s, kind)
           \/ RunCallback(s) \/ CallbackRaises(s) \/ Dies(s)
           \/ Assign(s) \/ Save(s) \/ SaveStale(s) \/ Refresh(s)
    PROVE  /\ own'[t] = own[t] /\ blocks'[t] = blocks[t] /\ hooks'[t] = hooks[t]
           /\ record'[t] = record[t] /\ (t \in misled' <=> t \in misled)
  <1>1. /\ own \in [Sessions -> Written] /\ blocks \in [Sessions -> Seq(Block)]
        /\ hooks \in [Sessions -> Callbacks] /\ record \in [Sessions -> Record]
    BY DEF TransactionTypeOK
  <1>2. /\ own'[t] = own[t] /\ blocks'[t] = blocks[t] /\ hooks'[t] = hooks[t]
        /\ record'[t] = record[t]
    BY <1>1 DEF Open, Release, Raise, SaveStale, RollBack, Commit, Emit, RunCallback,
       CallbackRaises, Dies, Assign, Save, Refresh, AfterCommit
  <1>3. t \in misled' <=> t \in misled
    BY DEF Open, Release, Raise, SaveStale, RollBack, Commit, Emit, RunCallback,
       CallbackRaises, Dies, Assign, Save, Refresh
  <1> QED
    BY <1>2, <1>3

LEMMA BlocksStore ==
    ASSUME TransactionTypeOK, LockInv, StoredInv, NEW s \in Sessions,
           \/ Open(s) \/ Release(s) \/ (InBlock(s) /\ RollBack(s))
    PROVE  Storing(s)'
  <1>1. /\ blocks \in [Sessions -> Seq(Block)] /\ blocks[s] \in Seq(Block)
        /\ own[s] \in Written /\ Storing(s) /\ own \in [Sessions -> Written]
        /\ own[s].row \in Row \cup {NoRow} /\ FrameRule(Informed(s), own[s].row, blocks[s])
        /\ Depth(s) \in Nat /\ Depth(s) = Len(blocks[s])
        /\ \A i \in 1..Depth(s) : blocks[s][i].hooks \in Seq(Callback)
    BY Typed DEF TransactionTypeOK, StoredInv, Depth, LockInv, Sound, Frames
  <1>2. UNCHANGED <<db, hooks, record, late, stored>> /\ (s \in misled => s \in misled')
    BY DEF Open, Release, RollBack
  <1>3. SUFFICES ASSUME Informed(s)'
                 PROVE  /\ StoredRule(Mine(s), own[s].row, blocks[s])'
                        /\ HasClean(hooks'[s]) => Mine(s)' \subseteq stored'
                        /\ Loading(s)'
    BY DEF Storing
  <1>4. Informed(s) /\ StoredRule(Mine(s), own[s].row, blocks[s]) /\ Loading(s)
    BY <1>1, <1>2, <1>3 DEF Storing, Informed
  <1>5. StoredRule(Mine(s), own'[s].row, blocks'[s])
    <2>1. CASE Open(s)
      <3> DEFINE block == [before |-> own[s], hooks |-> <<>>]
      <3>1. own' = own /\ blocks'[s] = Append(blocks[s], block)
        BY <1>1, <2>1 DEF Open
      <3>2. block \in Block /\ block.before.row = own[s].row /\ ~HasClean(block.hooks)
        BY <1>1, NoneClean DEF Block, Callbacks
      <3> HIDE DEF block
      <3> QED
        BY <1>1, <1>4, <3>1, <3>2, StoredOpens
    <2>2. CASE Release(s)
      <3> DEFINE n == Depth(s) - 1
                 rest == blocks'[s]
                 frames == blocks[s]
      <3>1. Depth(s) > 1 /\ own' = own
        BY <2>2 DEF Release
      <3>2. /\ blocks' \in [Sessions -> Seq(Block)] /\ Len(rest) = n
            /\ \A i \in 1..n : rest[i].before = frames[i].before
            /\ \A i \in 1..Depth(s) - 2 : rest[i].hooks = frames[i].hooks
            /\ rest[n].hooks = frames[n].hooks \o frames[Depth(s)].hooks
        BY <2>2, ReleaseFacts
      <3>3. /\ n \in Nat \ {0} /\ Len(rest) = n /\ Len(frames) = n + 1
            /\ rest \in Seq(Block) /\ frames \in Seq(Block)
            /\ \A i \in 1..n : rest[i].before = frames[i].before
            /\ \A i \in 1..n - 1 : rest[i].hooks = frames[i].hooks
            /\ rest[n].hooks = frames[n].hooks \o frames[n + 1].hooks
            /\ frames[n].hooks \in Seq(Callback) /\ frames[n + 1].hooks \in Seq(Callback)
        <4>1. /\ n \in Nat \ {0} /\ Depth(s) = n + 1 /\ Depth(s) - 2 = n - 1
              /\ n \in 1..Depth(s) /\ n + 1 \in 1..Depth(s)
          BY ONLY <1>1, <3>1
        <4> QED
          BY ONLY <1>1, <3>2, <4>1, s \in Sessions
      <3> HIDE DEF n, rest
      <3>4. ASSUME NEW i \in 1..n, HasClean(rest[i].hooks)
            PROVE  HasClean(frames[i].hooks) \/ (i = n /\ HasClean(frames[i + 1].hooks))
        <4>1. CASE i \in 1..n - 1
          BY <3>3, <3>4, <4>1
        <4>2. CASE i = n
          <5>1. HasClean(frames[n].hooks \o frames[n + 1].hooks)
            BY <3>3, <3>4, <4>2
          <5> QED
            BY <3>3, <4>2, <5>1, CleanOfJoin
        <4> QED
          BY <3>3, <4>1, <4>2
      <3>5. Len(frames) > 1 /\ Len(rest) = Len(frames) - 1
        BY <3>3
      <3>6. StoredRule(Mine(s), own[s].row, rest)
        BY <1>4, <3>3, <3>4, <3>5, StoredShrinks
      <3> QED
        BY <3>1, <3>6 DEF rest
    <2>3. CASE InBlock(s) /\ RollBack(s)
      <3>1. /\ Depth(s) > 0 /\ own'[s].row = blocks[s][Len(blocks[s])].before.row
            /\ blocks'[s] = Outer(s)
        BY <1>1, <2>3 DEF InBlock, RollBack, Inner, Depth
      <3>2. /\ Outer(s) \in Seq(Block) /\ Len(Outer(s)) = Len(blocks[s]) - 1
            /\ \A i \in 1..Len(Outer(s)) : Outer(s)[i] = blocks[s][i]
        BY <1>1, <3>1, OuterFacts
      <3>3. StoredRule(Mine(s), blocks[s][Len(blocks[s])].before.row, Outer(s))
        BY <1>1, <1>4, <3>1, <3>2, StoredRollsBack
      <3> QED
        BY <3>1, <3>3
    <2> QED
      BY <2>1, <2>2, <2>3
  <1>6. Mine(s)' \subseteq Mine(s) /\ Len(blocks'[s]) \in Nat
    <2>1. CASE Open(s) \/ Release(s)
      <3>1. own' = own
        BY <2>1 DEF Open, Release
      <3>2. Len(blocks'[s]) \in Nat
        BY <1>1, <2>1, OpenTypes, ReleaseTypes DEF TransactionTypeOK
      <3> QED
        BY <1>2, <3>1, <3>2 DEF Mine
    <2>2. CASE InBlock(s) /\ RollBack(s)
      <3>1. /\ Follows(Informed(s), own'[s].row, own[s].row)
            /\ Len(blocks'[s]) \in Nat
        BY <1>1, <2>2, RollBackFacts DEF FrameRule
      <3> QED
        BY <1>2, <1>4, <3>1 DEF Mine, Follows
    <2> QED
      BY <2>1, <2>2
  <1>7. StoredRule(Mine(s)', own'[s].row, blocks'[s])
    BY <1>5, <1>6, StoredLess
  <1>8. Versions(own'[s].row, blocks'[s]) \subseteq Versions(own[s].row, blocks[s])
    BY OpenVersions, ReleaseVersions, RollBackVersions
  <1>9. Loading(s)'
    BY <1>2, <1>4, <1>8, LoadingStays
  <1> QED
    BY <1>1, <1>2, <1>4, <1>6, <1>7, <1>9 DEF Storing

\* Registering a callback; one that is a mark_persisted! goes with a row that has all
LEMMA RegisterStores ==
    ASSUME TransactionTypeOK, NEW s \in Sessions, NEW value, NEW row, NEW to,
           StoredRule(value, row, blocks[s]), Depth(s) > 0,
           NEW callback \in Callback, to = row \/ value \subseteq to.value,
           callback = Clean => value \subseteq to.value
    PROVE  StoredRule(value, to, AfterCommit(s, callback)[s])
  <1> DEFINE frames == blocks[s]
             more == AfterCommit(s, callback)[s]
             n == Len(frames)
  <1>1. /\ frames \in Seq(Block) /\ n \in Nat /\ n > 0 /\ n = Depth(s)
        /\ frames[n].hooks \in Seq(Callback) /\ frames[n] = Inner(s)
    BY Typed DEF Depth
  <1>2. /\ more \in Seq(Block) /\ Len(more) = n
        /\ \A i \in 1..n : more[i].before = frames[i].before
        /\ \A i \in 1..n - 1 : more[i].hooks = frames[i].hooks
        /\ more[n].hooks = Append(frames[n].hooks, callback)
    BY <1>1, AfterCommitFacts
  <1> HIDE DEF frames, more, n
  <1>3. ASSUME NEW i \in 1..n, HasClean(more[i].hooks)
        PROVE  HasClean(frames[i].hooks) \/ (i = n /\ value \subseteq to.value)
    <2>1. CASE i \in 1..n - 1
      BY <1>2, <1>3, <2>1
    <2>2. CASE i = n
      <3>1. HasClean(Append(frames[n].hooks, callback))
        BY <1>2, <1>3, <2>2
      <3> QED
        BY <1>1, <2>2, <3>1, CleanOfAppend
    <2> QED
      BY <1>1, <2>1, <2>2
  <1>4. StoredRule(value, row, frames)
    BY DEF frames
  <1>5. StoredRule(value, to, more)
    BY <1>1, <1>2, <1>3, <1>4, StoredSwaps DEF n
  <1> QED
    BY <1>5 DEF more

LEMMA EmitStores ==
    ASSUME TransactionTypeOK, LockInv, StoredInv, NEW s \in Sessions, NEW kind \in Kinds,
           Emit(s, kind)
    PROVE  Storing(s)'
  <1> DEFINE effect == <<s, effects + 1>>
  <1>1. /\ Storing(s) /\ Depth(s) > 0 /\ hooks[s] = <<>> /\ Frames(s)
        /\ UNCHANGED <<db, hooks, late, stored, record, misled>>
        /\ effect \in Callback /\ effect # Clean /\ own'[s].row = own[s].row
        /\ own[s].row \in Row \cup {NoRow}
        /\ blocks' = blocks \/ blocks' = AfterCommit(s, effect)
    BY EmitFacts, CleanIsNoEffect, Typed
       DEF StoredInv, Emit, InBlock, Free, Callback, LockInv, Sound
  <1> HIDE DEF effect
  <1>2. SUFFICES ASSUME Informed(s)
                 PROVE  /\ StoredRule(Mine(s), own[s].row, blocks[s])'
                        /\ HasClean(hooks'[s]) => Mine(s)' \subseteq stored'
                        /\ Loading(s)'
    BY <1>1 DEF Storing, Informed
  <1>3. StoredRule(Mine(s), own[s].row, blocks[s]) /\ Loading(s)
    BY <1>1, <1>2 DEF Storing
  <1>4. StoredRule(Mine(s), own[s].row, AfterCommit(s, effect)[s])
    BY <1>1, <1>3, RegisterStores
  <1>5. Mine(s)' = Mine(s)
    BY <1>1 DEF Mine
  <1>6. StoredRule(Mine(s), own'[s].row, blocks'[s])
    BY <1>1, <1>3, <1>4
  <1>7. Versions(own'[s].row, blocks'[s]) \subseteq Versions(own[s].row, blocks[s])
    <2>1. Follows(Informed(s), own[s].row, own[s].row)
      BY <1>1, FollowsItself
    <2>2. Versions(own[s].row, AfterCommit(s, effect)[s]) \subseteq
              Versions(own[s].row, blocks[s]) \cup {own[s].row}
      BY <1>1, <2>1, RegisterSound
    <2>3. Versions(own[s].row, AfterCommit(s, effect)[s]) \subseteq
              Versions(own[s].row, blocks[s])
      BY <2>2 DEF Versions
    <2> QED
      BY <1>1, <2>3
  <1>8. Loading(s)'
    BY <1>1, <1>3, <1>7, LoadingStays
  <1> QED
    BY <1>1, <1>5, <1>6, <1>8, NoneClean

LEMMA SaveStores ==
    ASSUME TransactionTypeOK, LockInv, StoredInv, NEW s \in Sessions, Save(s)
    PROVE  Storing(s)'
  <1>1. /\ Storing(s) /\ hooks[s] = <<>> /\ Clean \in Callback /\ Depth(s) > 0
        /\ UNCHANGED <<db, hooks, late, stored, misled>> /\ Len(blocks[s]) \in Nat
        /\ record[s].was.value \subseteq record[s].value
    BY Kinships, Typed DEF StoredInv, Save, InBlock, Free, Depth, LockInv, Sound, Knows
  <1>2. PICK to : to = own'[s].row
    OBVIOUS
  <1>3. /\ to.value = record[s].value /\ blocks' = AfterCommit(s, Clean)
        /\ record'[s].value = record[s].value /\ record'[s].was = record[s].was
    BY <1>2, SaveFacts
  <1>4. SUFFICES ASSUME Informed(s)
                 PROVE  /\ StoredRule(Mine(s), own[s].row, blocks[s])'
                        /\ HasClean(hooks'[s]) => Mine(s)' \subseteq stored'
                        /\ Loading(s)'
    BY <1>1 DEF Storing, Informed
  <1>5. StoredRule(Mine(s), own[s].row, blocks[s]) /\ Loading(s)
    BY <1>1, <1>4 DEF Storing
  <1>6. Mine(s)' \subseteq Mine(s) /\ Mine(s)' \subseteq to.value
    BY <1>1, <1>2, <1>3 DEF Mine
  <1>7. StoredRule(Mine(s)', own[s].row, blocks[s])
    BY <1>1, <1>5, <1>6, StoredLess
  <1>8. StoredRule(Mine(s)', to, AfterCommit(s, Clean)[s])
    BY <1>1, <1>6, <1>7, RegisterStores
  <1>9. StoredRule(Mine(s)', own'[s].row, blocks'[s])
    BY <1>2, <1>3, <1>8
  <1>10. Loading(s)'
    <2>1. Versions(to, blocks'[s]) \subseteq Versions(own[s].row, blocks[s]) \cup {to}
      <3>1. /\ Len(blocks'[s]) = Len(blocks[s])
            /\ \A i \in 1..Len(blocks[s]) : blocks'[s][i].before = blocks[s][i].before
        BY <1>1, <1>3, AfterCommitFacts DEF Depth
      <3> QED
        BY <3>1 DEF Versions
    <2> QED
      BY <1>1, <1>2, <1>3, <1>5, <2>1 DEF Loading
  <1> QED
    BY <1>1, <1>9, <1>10, NoneClean

LEMMA AssignStores ==
    ASSUME TransactionTypeOK, LockInv, StoredInv, NEW s \in Sessions, Assign(s)
    PROVE  Storing(s)'
  <1>1. /\ Storing(s) /\ hooks[s] = <<>> /\ Len(blocks[s]) \in Nat
        /\ UNCHANGED <<db, own, blocks, hooks, stored, misled>>
        /\ record'[s].was = record[s].was
        /\ record'[s].value = record[s].value \cup {edits + 1}
        /\ late' = IF Saved(s) THEN late \cup {edits + 1} ELSE late
    BY Typed, AssignFacts DEF StoredInv, Assign, Free, Depth
  <1>2. SUFFICES ASSUME Informed(s)
                 PROVE  /\ StoredRule(Mine(s), own[s].row, blocks[s])'
                        /\ HasClean(hooks'[s]) => Mine(s)' \subseteq stored'
                        /\ Loading(s)'
    BY <1>1 DEF Storing, Informed
  <1>3. StoredRule(Mine(s), own[s].row, blocks[s]) /\ Loading(s)
    BY <1>1, <1>2 DEF Storing
  <1>4. Mine(s)' \subseteq Mine(s) \/ ~SavedIn(blocks[s], Len(blocks[s]))
    BY <1>1, SavedIs DEF Mine
  <1>5. StoredRule(Mine(s)', own[s].row, blocks[s])
    BY <1>1, <1>3, <1>4, StoredLess
  <1>6. StoredRule(Mine(s), own[s].row, blocks[s])'
    BY <1>1, <1>5
  <1>7. late \subseteq late'
    BY <1>1
  <1>8. Loading(s)'
    BY <1>1, <1>3, <1>7 DEF Loading
  <1> QED
    BY <1>1, <1>6, <1>8, NoneClean

LEMMA RefreshStores ==
    ASSUME TransactionTypeOK, LockInv, StoredInv, NEW s \in Sessions, Refresh(s)
    PROVE  Storing(s)'
  <1>1. /\ Storing(s) /\ Len(blocks[s]) \in Nat /\ blocks[s] \in Seq(Block)
        /\ own[s].row \in Row \cup {NoRow} /\ db.row.value \subseteq stored
        /\ FrameRule(Informed(s), own[s].row, blocks[s]) /\ Watches(s)
        /\ db.row.lock \in Nat
    BY Typed, Kinships DEF StoredInv, Depth, LockInv, Sound, Frames
  <1>2. /\ hooks[s] = <<>> /\ UNCHANGED <<db, own, blocks, hooks, late, stored>>
        /\ record'[s].was = Seen(s) /\ record'[s].value = Seen(s).value
    BY RefreshFacts
  <1>3. CASE own[s].row = NoRow
    <2>1. /\ \A i \in 1..Len(blocks[s]) : ~HasClean(blocks[s][i].hooks)
          /\ Versions(own[s].row, blocks[s]) = {}
      BY <1>1, <1>3, RuleOfNone
    <2>2. StoredRule(Mine(s)', own[s].row, blocks[s])
      BY <2>1, <1>1 DEF StoredRule, SavedIn
    <2>3. StoredRule(Mine(s), own[s].row, blocks[s])'
      BY <1>2, <2>2
    <2>4. record'[s].was = db.row
      BY <1>2, <1>3 DEF Seen, SeenWith
    <2>5. Loading(s)'
      BY <1>1, <1>2, <2>1, <2>4 DEF Loading
    <2> QED
      BY <1>2, <2>3, <2>5, NoneClean DEF Storing
  <1>4. CASE own[s].row # NoRow
    <2>1. SUFFICES ASSUME Informed(s)
                   PROVE  /\ StoredRule(Mine(s), own[s].row, blocks[s])'
                          /\ HasClean(hooks'[s]) => Mine(s)' \subseteq stored'
                          /\ Loading(s)'
      BY <1>4, RefreshFacts DEF Storing, Informed
    <2>2. Seen(s) = own[s].row /\ record'[s].was = own[s].row
      BY <1>2, <1>4 DEF Seen, SeenWith
    <2>3. Mine(s)' \subseteq Mine(s)
      BY <1>2, <2>2 DEF Mine
    <2>4. StoredRule(Mine(s)', own[s].row, blocks[s])
      BY <1>1, <2>1, <2>3, StoredLess DEF Storing
    <2>5. StoredRule(Mine(s), own[s].row, blocks[s])'
      BY <1>2, <2>4
    <2>6. ASSUME NEW row \in Versions(own[s].row, blocks[s]), own[s].row.lock <= row.lock
          PROVE  row = own[s].row
      <3>1. /\ Follows(Informed(s), row, own[s].row)
            /\ row.lock \in Int /\ own[s].row.lock \in Int
        BY <1>1, VersionsFollow, Locks
      <3>2. row.lock = own[s].row.lock
        BY <2>6, <3>1 DEF Follows
      <3> QED
        BY <3>1, <3>2 DEF Follows
    <2>7. ~(own[s].row.lock <= db.row.lock)
      <3>1. own[s].row.lock > db.row.lock /\ own[s].row.lock \in Int
        BY <1>1, <1>4, Locks DEF Watches, Versions, Aware
      <3> QED
        BY <1>1, <3>1
    <2>8. Loading(s)'
      BY <1>2, <2>2, <2>6, <2>7 DEF Loading
    <2> QED
      BY <1>2, <2>5, <2>8, NoneClean
  <1> QED
    BY <1>3, <1>4

LEMMA CallbackStores ==
    ASSUME TransactionTypeOK, LockInv, StoredInv, NEW s \in Sessions,
           RunCallback(s) \/ CallbackRaises(s) \/ Dies(s)
    PROVE  Storing(s)'
  <1>1. /\ Storing(s) /\ ~Free(s) /\ blocks[s] = <<>> /\ own[s].row = NoRow
        /\ UNCHANGED <<db, own, blocks, late, stored>> /\ Len(<<>>) = 0
        /\ hooks \in [Sessions -> Callbacks] /\ db.row.value \subseteq stored
    BY DEF StoredInv, LockInv, Sound, Frames, FrameRule, RunCallback, CallbackRaises, Dies,
           Free, TransactionTypeOK
  <1>2. StoredRule(Mine(s), own[s].row, blocks[s])'
    BY <1>1 DEF StoredRule, SavedIn
  <1>3. hooks[s] \in Seq(Callback) /\ hooks[s] # <<>>
    BY <1>1, HooksTyped
  <1>4. Versions(own[s].row, blocks[s])' = {}
    BY <1>1 DEF Versions
  <1>5. CASE RunCallback(s)
    <2>1. hooks'[s] = Tail(hooks[s]) /\ misled' = misled
      BY <1>1, <1>5 DEF RunCallback
    <2>2. HasClean(hooks'[s]) => HasClean(hooks[s])
      BY <1>3, <2>1, CleanOfTail
    <2>3. record'[s].value = record[s].value /\ Mine(s)' = Mine(s)
      BY <1>1, <1>5, RunCallbackFacts DEF Mine
    <2>4. CASE record'[s] = record[s]
      BY <1>1, <1>2, <1>4, <2>1, <2>2, <2>3, <2>4 DEF Storing, Informed, Loading
    <2>5. CASE Head(hooks[s]) = Clean /\ record'[s].was.value = record[s].value
      <3>1. HasClean(hooks[s])
        BY <1>3, <2>5 DEF HasClean
      <3>2. record[s].value \ late \subseteq Mine(s)
        BY DEF Mine
      <3>3. Informed(s) => Loading(s)'
        BY <1>1, <1>4, <2>5, <3>1, <3>2 DEF Storing, Loading
      <3> QED
        BY <1>1, <1>2, <2>1, <2>2, <2>3, <3>3 DEF Storing, Informed
    <2> QED
      BY <1>5, <2>4, <2>5, RunCallbackFacts
  <1>6. CASE CallbackRaises(s)
    <2>1. hooks'[s] = <<>> /\ record' = record /\ misled' = misled
      BY <1>1, <1>6 DEF CallbackRaises
    <2> QED
      BY <1>1, <1>2, <1>4, <2>1, NoneClean DEF Storing, Informed, Loading
  <1>7. CASE Dies(s)
    <2>1. hooks'[s] = <<>> /\ record'[s] = Loaded(db.row)
      BY <1>1, <1>7 DEF Dies, TransactionTypeOK
    <2>2. record'[s].was = db.row
      BY <2>1 DEF Loaded
    <2> QED
      BY <1>1, <1>2, <1>4, <2>1, <2>2, NoneClean DEF Storing, Loading
  <1> QED
    BY <1>5, <1>6, <1>7

LEMMA CommitStores ==
    ASSUME TransactionTypeOK, LockInv, StoredInv, NEW s \in Sessions, Commit(s)
    PROVE  StoredInv'
  <1>1. /\ Len(blocks[s]) = 1 /\ hooks[s] = <<>> /\ own'[s].row = NoRow
        /\ db'.row = IF own[s].row = NoRow THEN db.row ELSE own[s].row
        /\ blocks'[s] = <<>> /\ hooks'[s] = blocks[s][1].hooks /\ record' = record
        /\ Len(<<>>) = 0 /\ late' = late /\ stored' = stored \cup own[s].row.value
        /\ (s \in misled => s \in misled') /\ NoRow.value = {}
    BY CommitFacts, Locks
  <1>2. Storing(s) /\ db.row.value \subseteq stored
    BY DEF StoredInv
  <1>3. db'.row.value \subseteq stored'
    BY <1>1, <1>2
  <1>4. Storing(s)'
    <2>1. SUFFICES ASSUME Informed(s)
                   PROVE  /\ StoredRule(Mine(s), own[s].row, blocks[s])'
                          /\ HasClean(hooks'[s]) => Mine(s)' \subseteq stored'
                          /\ Loading(s)'
      BY <1>1 DEF Storing, Informed
    <2>2. StoredRule(Mine(s), own[s].row, blocks[s])'
      BY <1>1 DEF StoredRule, SavedIn
    <2>3. Mine(s)' \subseteq Mine(s)
      BY <1>1 DEF Mine
    <2>4. ASSUME HasClean(hooks'[s]) PROVE Mine(s) \subseteq stored'
      <3>1. SavedIn(blocks[s], Len(blocks[s]))
        BY <1>1, <2>4 DEF SavedIn
      <3>2. Mine(s) \subseteq own[s].row.value
        BY <1>2, <2>1, <3>1 DEF Storing, StoredRule
      <3> QED
        BY <1>1, <3>2
    <2>5. Loading(s)'
      <3>1. Versions(own[s].row, blocks[s])' = {}
        BY <1>1 DEF Versions
      <3>2. record[s].was.lock <= db'.row.lock => record[s].was.value \ late \subseteq stored'
        <4>1. CASE own[s].row = NoRow
          BY <1>1, <1>2, <2>1, <4>1 DEF Storing, Loading
        <4>2. CASE own[s].row # NoRow
          BY <1>1, <1>2, <2>1, <4>2 DEF Storing, Loading, Versions
        <4> QED
          BY <4>1, <4>2
      <3> QED
        BY <1>1, <3>1, <3>2 DEF Loading
    <2> QED
      BY <2>2, <2>3, <2>4, <2>5
  <1>5. ASSUME NEW t \in Sessions, t # s PROVE Storing(t)'
    <2>1. /\ Storing(t) /\ own'[t] = own[t] /\ blocks'[t] = blocks[t] /\ hooks'[t] = hooks[t]
          /\ record'[t] = record[t] /\ (t \in misled' <=> t \in misled)
          /\ Len(blocks[t]) \in Nat
      BY <1>5, Elsewhere, Typed DEF StoredInv, Depth
    <2>2. CASE own[s].row = NoRow
      <3>1. db'.row = db.row /\ stored' = stored
        BY <1>1, <2>2
      <3> QED
        BY <1>1, <2>1, <3>1, OthersStore
    <2>3. CASE own[s].row # NoRow
      <3>1. SUFFICES ASSUME Informed(t)
                     PROVE  /\ StoredRule(Mine(t), own[t].row, blocks[t])'
                            /\ HasClean(hooks'[t]) => Mine(t)' \subseteq stored'
                            /\ Loading(t)'
        BY <2>1 DEF Storing, Informed
      <3>2. own[t].row = NoRow
        BY <1>5, <2>3 DEF LockInv, OneWriter
      <3>3. record[t].was.lock <= db.row.lock
        BY <3>1, <3>2 DEF LockInv, Sound, Knows, Seen, SeenWith
      <3>4. Mine(t)' = Mine(t) /\ stored \subseteq stored'
        BY <1>1, <2>1 DEF Mine
      <3>5. StoredRule(Mine(t), own[t].row, blocks[t])'
        BY <2>1, <3>1, <3>4 DEF Storing
      <3>6. Loading(t)'
        BY <1>1, <2>1, <3>1, <3>3, <3>4 DEF Storing, Loading
      <3> QED
        BY <2>1, <3>1, <3>4, <3>5, <3>6 DEF Storing
    <2> QED
      BY <2>2, <2>3
  <1> QED
    BY <1>3, <1>4, <1>5 DEF StoredInv

LEMMA StoredStep ==
    TransactionTypeOK /\ LockInv /\ StoredInv /\ [TransactionNext]_transactionVars => StoredInv'
  <1> SUFFICES ASSUME TransactionTypeOK, LockInv, StoredInv,
                      [TransactionNext]_transactionVars
               PROVE  StoredInv'
    OBVIOUS
  <1>1. \A t \in Sessions : Storing(t) /\ Len(blocks[t]) \in Nat
    BY Typed DEF StoredInv, Depth
  <1>2. CASE UNCHANGED transactionVars
    <2>1. UNCHANGED <<db, own, blocks, hooks, record, late, stored, misled>>
      BY <1>2 DEF transactionVars
    <2>2. \A t \in Sessions : Storing(t)'
      BY <1>1, <2>1, OthersStore
    <2> QED
      BY <2>1, <2>2 DEF StoredInv
  <1>3. CASE TransactionNext
    <2>1. PICK s \in Sessions :
            \/ Open(s) \/ Release(s) \/ Raise(s) \/ Commit(s)
            \/ \E kind \in Kinds : Emit(s, kind)
            \/ RunCallback(s) \/ CallbackRaises(s) \/ Dies(s)
            \/ Assign(s) \/ Save(s) \/ SaveStale(s) \/ Refresh(s)
      BY <1>3 DEF TransactionNext
    <2>2. CASE Commit(s)
      BY <2>2, CommitStores
    <2>3. CASE ~Commit(s)
      <3>1. Storing(s)'
        BY <2>1, <2>3, BlocksStore, EmitStores, SaveStores, AssignStores, RefreshStores,
           CallbackStores DEF Raise, SaveStale
      <3>2. db' = db /\ late \subseteq late' /\ stored' = stored
        BY <2>1, <2>3 DEF Open, Release, Raise, SaveStale, RollBack, Emit, RunCallback,
           CallbackRaises, Dies, Assign, Save, Refresh
      <3>3. ASSUME NEW t \in Sessions, t # s
            PROVE  /\ own'[t] = own[t] /\ blocks'[t] = blocks[t] /\ hooks'[t] = hooks[t]
                   /\ record'[t] = record[t] /\ (t \in misled' <=> t \in misled)
        BY <2>1, <3>3, Elsewhere
      <3>4. \A t \in Sessions : Storing(t)'
        BY <1>1, <3>1, <3>2, <3>3, OthersStore
      <3> QED
        BY <3>2, <3>4 DEF StoredInv
    <2> QED
      BY <2>2, <2>3
  <1> QED
    BY <1>2, <1>3

(***************************************************************************)
(* A record that passes for unchanged outside transactions has no edit the  *)
(* database never got (store.rb:171), but for one made after a save of its  *)
(* transaction, and unless it was refreshed from what was then rolled back. *)
(***************************************************************************)
THEOREM CleanRecordsAreStored == TransactionSpec => []CleanMeansStored
  <1>1. TransactionTypeOK /\ LockInv /\ StoredInv => CleanMeansStored
    <2> SUFFICES ASSUME TransactionTypeOK, LockInv, StoredInv,
                        NEW s \in Sessions \ misled, Free(s), Depth(s) = 0,
                        record[s].value = record[s].was.value
                 PROVE  record[s].value \ late \subseteq stored
      BY DEF CleanMeansStored
    <2>1. Informed(s) /\ own[s].row = NoRow
      BY DEF Informed, LockInv, Sound, Frames, FrameRule, Depth
    <2>2. record[s].was.lock <= db.row.lock
      BY <2>1 DEF LockInv, Sound, Knows, Seen, SeenWith
    <2> QED
      BY <2>1, <2>2 DEF StoredInv, Storing, Loading
  <1> QED
    BY <1>1, StoredInit, StoredStep, TransactionTypes, LockingIsSound, PTL DEF TransactionSpec

=============================================================================
