---------------------------- MODULE Transaction ----------------------------
(***************************************************************************)
(* Application#transaction, Lunula::Transaction and Lunula::Store           *)
(* (lib/lunula/transaction.rb, store.rb, attributes.rb): what happens to    *)
(* records, emitted events and enqueued jobs in transaction blocks that     *)
(* nest as savepoints, roll back, commit and then run their after_commit    *)
(* callbacks. Each session is a thread with a connection of its own and its *)
(* own copy of one record, whose row the sessions share. The record has one *)
(* attribute besides its lock; what that holds is the edits made to it.     *)
(***************************************************************************)
EXTENDS Integers, Sequences

CONSTANTS
    Sessions,
    MaxNesting,   \* bound: blocks inside one another
    MaxEdits,     \* bound: assignments
    MaxEffects,   \* bound: events and jobs
    MaxChanges,   \* bound: assignments, events and jobs together
    Delivery      \* how the application delivers each kind

Kinds == {"event", "job"}

\* "row": an outbox, or a job adapter on this database. "callback": neither
Deliveries == {"row", "callback"}

ASSUME TransactionAssumption ==
    /\ MaxNesting \in Nat /\ MaxEdits \in Nat /\ MaxEffects \in Nat
    /\ MaxChanges \in Nat
    /\ Delivery \in [Kinds -> Deliveries]

VARIABLES
    db,         \* what is committed: the row; business rows; jobs and outbox messages
    own,        \* what a session has written and not committed
    blocks,     \* a session's open blocks, the outermost first
    hooks,      \* after_commit callbacks it still has to run
    record,     \* its record: attribute values, and those of the last snapshot
    done,       \* effects published or enqueued by a callback, in order
    dropped,    \* effects whose callback was lost: one before it raised, or a death
    edits,      \* how much of MaxEdits is used
    effects,    \* how much of MaxEffects is used
    late,       \* history: edits made after a save of the transaction under way
    stored,     \* history: edits that ever were in the committed row
    misled      \* history: sessions whose snapshot is of a save that was rolled back

transactionVars ==
    <<db, own, blocks, hooks, record, done, dropped, edits, effects, late, stored, misled>>

Row == [value : SUBSET (1..MaxEdits), lock : Nat]
NoRow == [value |-> {}, lock |-> -1]
Effect == Sessions \X (1..MaxEffects)
\* mark_persisted!, among the callbacks
Clean == <<"mark_persisted!">>

Written == [row : Row \cup {NoRow}, posts : SUBSET Effect, handoffs : SUBSET Effect]
Nothing == [row |-> NoRow, posts |-> {}, handoffs |-> {}]
Callbacks == Seq(Effect \cup {Clean})
Block == [before : Written, hooks : Callbacks]
Record == [value : SUBSET (1..MaxEdits), lock : Nat, was : Row]

TransactionTypeOK ==
    /\ db \in [row : Row, posts : SUBSET Effect, handoffs : SUBSET Effect]
    /\ own \in [Sessions -> Written]
    /\ blocks \in [Sessions -> Seq(Block)]
    /\ hooks \in [Sessions -> Callbacks]
    /\ record \in [Sessions -> Record]
    /\ done \in Seq(Effect) /\ dropped \subseteq Effect
    /\ edits \in 0..MaxEdits
    /\ effects \in 0..MaxEffects
    /\ late \subseteq 1..MaxEdits /\ stored \subseteq 1..MaxEdits
    /\ misled \subseteq Sessions

FirstRow == [value |-> {}, lock |-> 0]
Loaded(row) == [value |-> row.value, lock |-> row.lock, was |-> row]

TransactionInit ==
    /\ db = [row |-> FirstRow, posts |-> {}, handoffs |-> {}]
    /\ own = [s \in Sessions |-> Nothing]
    /\ blocks = [s \in Sessions |-> <<>>]
    /\ hooks = [s \in Sessions |-> <<>>]
    /\ record = [s \in Sessions |-> Loaded(FirstRow)]
    /\ done = <<>> /\ dropped = {}
    /\ edits = 0 /\ effects = 0
    /\ late = {} /\ stored = {} /\ misled = {}

----------------------------------------------------------------------------
(* Sequel's transactions, as the code uses them                             *)

Depth(s) == Len(blocks[s])
Inner(s) == blocks[s][Depth(s)]
\* Callbacks run on the session's thread: until they are done it does nothing else
Free(s) == hooks[s] = <<>>
InBlock(s) == Free(s) /\ Depth(s) > 0

\* database.after_commit without savepoint: true
AfterCommit_Outermost(s, callback) ==
    [blocks EXCEPT ![s][1].hooks = Append(@, callback)]

\* database.after_commit(savepoint: true)
AfterCommit(s, callback) ==
    [blocks EXCEPT ![s][Depth(s)].hooks = Append(@, callback)]

Outer(s) == SubSeq(blocks[s], 1, Depth(s) - 1)

Open(s) ==
    /\ Free(s) /\ Depth(s) < MaxNesting
    /\ blocks' = [blocks EXCEPT ![s] = Append(@, [before |-> own[s], hooks |-> <<>>])]
    /\ UNCHANGED <<db, own, hooks, record, done, dropped, edits, effects, late, stored, misled>>

\* A savepoint ends well: its callbacks are those of the block around it
Release(s) ==
    /\ Free(s) /\ Depth(s) > 1
    /\ blocks' = [blocks EXCEPT
          ![s] = [Outer(s) EXCEPT ![Depth(s) - 1].hooks = @ \o Inner(s).hooks]]
    /\ UNCHANGED <<db, own, hooks, record, done, dropped, edits, effects, late, stored, misled>>

SeenWith(written) == IF written.row = NoRow THEN db.row ELSE written.row

\* The row as the session's queries find it, what it has not committed included
Seen(s) == SeenWith(own[s])

\* An exception leaves a block: what was written and registered in it is gone, and the
\* snapshot of a record that was read back from it is ahead of the row
RollBack(s) ==
    /\ own' = [own EXCEPT ![s] = Inner(s).before]
    /\ blocks' = [blocks EXCEPT ![s] = Outer(s)]
    /\ misled' = IF record[s].was.lock > SeenWith(Inner(s).before).lock
                 THEN misled \cup {s} ELSE misled
    /\ UNCHANGED <<db, hooks, record, done, dropped, edits, effects, late, stored>>

Raise(s) == InBlock(s) /\ RollBack(s)

\* The mark_persisted! of what is committed takes the record's lock as it will be, and
\* that may be of a later save which was rolled back
Commit(s) ==
    /\ Free(s) /\ Depth(s) = 1
    /\ db' = [row |-> IF own[s].row = NoRow THEN db.row ELSE own[s].row,
              posts |-> db.posts \cup own[s].posts,
              handoffs |-> db.handoffs \cup own[s].handoffs]
    /\ own' = [own EXCEPT ![s] = Nothing]
    /\ blocks' = [blocks EXCEPT ![s] = <<>>]
    /\ hooks' = [hooks EXCEPT ![s] = Inner(s).hooks]
    /\ stored' = stored \cup own[s].row.value
    /\ misled' = IF own[s].row # NoRow /\ record[s].lock > own[s].row.lock
                 THEN misled \cup {s} ELSE misled
    /\ UNCHANGED <<record, done, dropped, edits, effects, late>>

----------------------------------------------------------------------------
(* Lunula::Transaction                                                      *)

\* A business row is written, and an event emitted or a job enqueued about it
Emit(s, kind) ==
    LET effect == <<s, effects + 1>> IN
    /\ InBlock(s) /\ effects < MaxEffects /\ edits + effects < MaxChanges
    /\ effects' = effects + 1
    /\ IF Delivery[kind] = "row"
       THEN /\ own' = [own EXCEPT ![s].posts = @ \cup {effect},
                                  ![s].handoffs = @ \cup {effect}]
            /\ UNCHANGED blocks
       ELSE /\ own' = [own EXCEPT ![s].posts = @ \cup {effect}]
            /\ blocks' = AfterCommit(s, effect)
    /\ UNCHANGED <<db, hooks, record, done, dropped, edits, late, stored, misled>>

Awaiting(s) == {hooks[s][i] : i \in DOMAIN hooks[s]} \ {Clean}

\* events.publish or Jobs.enqueue; mark_persisted!
RunCallback(s) ==
    /\ ~Free(s)
    /\ hooks' = [hooks EXCEPT ![s] = Tail(@)]
    /\ IF Head(hooks[s]) = Clean
       THEN /\ record' = [record EXCEPT
                  ![s].was = [value |-> record[s].value, lock |-> record[s].lock]]
            /\ UNCHANGED done
       ELSE /\ done' = Append(done, Head(hooks[s]))
            /\ UNCHANGED record
    /\ UNCHANGED <<db, own, blocks, dropped, edits, effects, late, stored, misled>>

\* A subscriber or the adapter raises: the callbacks after it are not called
CallbackRaises(s) ==
    /\ ~Free(s) /\ Head(hooks[s]) # Clean
    /\ dropped' = dropped \cup Awaiting(s)
    /\ hooks' = [hooks EXCEPT ![s] = <<>>]
    /\ UNCHANGED <<db, own, blocks, record, done, edits, effects, late, stored, misled>>

\* Its process is killed before they have run. (Killed in a block, it only loses that
\* and its record: Raise and Refresh)
Dies(s) ==
    /\ ~Free(s)
    /\ dropped' = dropped \cup Awaiting(s)
    /\ hooks' = [hooks EXCEPT ![s] = <<>>]
    /\ record' = [record EXCEPT ![s] = Loaded(db.row)]
    /\ misled' = misled \ {s}
    /\ UNCHANGED <<db, own, blocks, done, edits, effects, late, stored>>

----------------------------------------------------------------------------
(* Lunula::Store and Lunula::Attributes                                     *)

HasClean(callbacks) == \E j \in DOMAIN callbacks : callbacks[j] = Clean

Saved(s) == \E i \in 1..Depth(s) : HasClean(blocks[s][i].hooks)

Assign(s) ==
    /\ Free(s) /\ edits < MaxEdits /\ edits + effects < MaxChanges
    /\ edits' = edits + 1
    /\ record' = [record EXCEPT ![s].value = @ \cup {edits + 1}]
    /\ late' = IF Saved(s) THEN late \cup {edits + 1} ELSE late
    /\ UNCHANGED <<db, own, blocks, hooks, done, dropped, effects, stored, misled>>

\* The record's own value, which a save that was rolled back has moved on
PreviousLock_OfRecord(s) == record[s].lock

\* attribute_was(lock_attribute): the value of the snapshot
PreviousLock(s) == record[s].was.lock

\* Saving a changed record. The UPDATE waits for whoever else has the row locked
Save(s) ==
    /\ InBlock(s)
    /\ record[s].value # record[s].was.value
    /\ \A t \in Sessions \ {s} : own[t].row = NoRow
    /\ Seen(s).lock = PreviousLock(s)
    /\ LET next == PreviousLock(s) + 1 IN
       /\ own' = [own EXCEPT ![s].row = [value |-> record[s].value, lock |-> next]]
       /\ record' = [record EXCEPT ![s].lock = next]
    /\ blocks' = AfterCommit(s, Clean)
    /\ UNCHANGED <<db, hooks, done, dropped, edits, effects, late, stored, misled>>

\* StaleObject: no row has the lock value
SaveStale(s) ==
    /\ InBlock(s)
    /\ record[s].value # record[s].was.value
    /\ \A t \in Sessions \ {s} : own[t].row = NoRow
    /\ Seen(s).lock # PreviousLock(s)
    /\ RollBack(s)

\* refresh, and find where nothing of the session's is uncommitted. It takes the row as the
\* session sees it and marks the record persisted at once, not when that row is committed
Refresh(s) ==
    /\ Free(s)
    /\ record' = [record EXCEPT ![s] = Loaded(Seen(s))]
    /\ misled' = IF own[s].row = NoRow THEN misled \ {s} ELSE misled
    /\ UNCHANGED <<db, own, blocks, hooks, done, dropped, edits, effects, late, stored>>

TransactionNext ==
    \E s \in Sessions :
        \/ Open(s) \/ Release(s) \/ Raise(s) \/ Commit(s)
        \/ \E kind \in Kinds : Emit(s, kind)
        \/ RunCallback(s) \/ CallbackRaises(s) \/ Dies(s)
        \/ Assign(s) \/ Save(s) \/ SaveStale(s) \/ Refresh(s)

TransactionSpec == TransactionInit /\ [][TransactionNext]_transactionVars

----------------------------------------------------------------------------

Members(seq) == {seq[i] : i \in DOMAIN seq}

\* What is committed is stored, performed, due to be, or was lost with its callback, and
\* nothing else is
AllAccountedFor ==
    db.handoffs \cup Members(done) \cup (UNION {Awaiting(s) : s \in Sessions}) \cup dropped
        = db.posts

(***************************************************************************)
(* An event or job goes with the data it is about, whatever blocks that     *)
(* data went through (transaction.rb:27 and 86): what is stored or performed*)
(* was committed, and what was committed is stored, performed or due to be, *)
(* once, unless its callback was lost; callbacks keep the order of the code.*)
(***************************************************************************)
EffectsFollowTheData ==
    LET due == UNION {Awaiting(s) : s \in Sessions} IN
    /\ AllAccountedFor
    /\ \A e \in db.posts :
          /\ e \in db.handoffs => e \notin Members(done) \cup due \cup dropped
          /\ e \in Members(done) => e \notin due \cup dropped
          /\ e \in due => e \notin dropped
    /\ \A i, j \in DOMAIN done :
          i < j /\ done[i][1] = done[j][1] => done[i][2] < done[j][2]

(***************************************************************************)
(* With optimistic locking no committed edit is ever overwritten by a record*)
(* that had not seen it (store.rb:103): not by one that was loaded earlier, *)
(* nor by one whose own save was rolled back. The exception is a record that*)
(* was refreshed in the transaction that saved it (store.rb:66): when the   *)
(* save is rolled back, its snapshot keeps a lock value no committed row    *)
(* had, and a commit of another session may come to have it.                *)
(***************************************************************************)
NothingOverwritten ==
    [][\/ db.row.value \subseteq db'.row.value
       \/ \E s \in misled : own[s].row # NoRow /\ own'[s].row = NoRow]_transactionVars

(***************************************************************************)
(* Outside transactions, a record that passes for unchanged holds no edit   *)
(* of its owner the database never got (store.rb:171). Two exceptions: an   *)
(* edit made after a save of the same transaction, which the snapshot at    *)
(* commit takes in whether it was written or not; and a record that was     *)
(* refreshed in a transaction from what that then rolled back (store.rb:66).*)
(***************************************************************************)
CleanMeansStored ==
    \A s \in Sessions \ misled :
        /\ Free(s) /\ Depth(s) = 0
        /\ record[s].value = record[s].was.value
        => record[s].value \ late \subseteq stored

=============================================================================
