---------------------------- MODULE LeasedWork ----------------------------
(***************************************************************************)
(* What Durable::Queue promises of each piece of work, without rows, clocks *)
(* or SQL. Work is granted to one holder at a time, under a name no earlier *)
(* grant had; it is granted at most MaxStarts times between revivals; only  *)
(* work that is held becomes done or is buried; done is for ever; and only  *)
(* buried work is revived. What a consumer does with work it no longer      *)
(* holds has no effect: there is no action for it.                          *)
(***************************************************************************)
EXTENDS Integers

CONSTANTS
    Work,      \* pieces of work
    MaxStarts  \* grants between revivals

VARIABLES
    item,      \* where each piece of work stands
    granted    \* grants so far, which names the next holder

workVars == <<item, granted>>

Nobody == 0

State == [status : {"absent", "ready", "held", "done", "dead"},
          holder : Nat,
          starts : Nat]

WorkInit ==
    /\ item = [w \in Work |-> [status |-> "absent", holder |-> Nobody, starts |-> 0]]
    /\ granted = 0

Put(w) ==
    /\ item[w].status = "absent"
    /\ item' = [item EXCEPT ![w].status = "ready"]
    /\ UNCHANGED granted

\* To a first holder, or over the head of one that let it lapse.
Grant(w) ==
    /\ item[w].status \in {"ready", "held"}
    /\ item[w].starts < MaxStarts
    /\ item' = [item EXCEPT ![w] = [status |-> "held", holder |-> granted + 1,
                                    starts |-> item[w].starts + 1]]
    /\ granted' = granted + 1

GiveBack(w) ==
    /\ item[w].status = "held"
    /\ item[w].starts < MaxStarts
    /\ item' = [item EXCEPT ![w] = [status |-> "ready", holder |-> Nobody,
                                    starts |-> item[w].starts]]
    /\ UNCHANGED granted

Finish(w) ==
    /\ item[w].status = "held"
    /\ item' = [item EXCEPT ![w] = [status |-> "done", holder |-> Nobody,
                                    starts |-> item[w].starts]]
    /\ UNCHANGED granted

\* Several at once: the queue gives up on all lapsed last attempts together.
Bury(S) ==
    /\ \A w \in S : item[w].status = "held"
    /\ item' = [w \in Work |-> IF w \in S
                               THEN [status |-> "dead", holder |-> Nobody,
                                     starts |-> item[w].starts]
                               ELSE item[w]]
    /\ UNCHANGED granted

Revive(w) ==
    /\ item[w].status = "dead"
    /\ item' = [item EXCEPT ![w] = [status |-> "ready", holder |-> Nobody, starts |-> 0]]
    /\ UNCHANGED granted

WorkNext ==
    \/ \E w \in Work : Put(w) \/ Grant(w) \/ GiveBack(w) \/ Finish(w) \/ Revive(w)
    \/ \E S \in SUBSET Work : Bury(S)

WorkSpec == WorkInit /\ [][WorkNext]_workVars

=============================================================================
