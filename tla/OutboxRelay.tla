---------------------------- MODULE OutboxRelay ----------------------------
(***************************************************************************)
(* The relays on top of an outbox: Events::Outbox#dispatch_once with        *)
(* Events#publish (lib/lunula/events.rb) and Jobs::Outbox#dispatch_once     *)
(* (lib/lunula/jobs/outbox.rb). A relay is a consumer of the outbox's queue *)
(* (DurableQueue) that calls the row's subscribers one after the other and  *)
(* then completes the row, or fails it for a retry if any of them raised. A *)
(* hand-off of a job is the case of one subscriber, the target adapter.     *)
(* What a subscriber does happens outside the table: it stays done, whether *)
(* the row is completed, retried, taken by another relay or failed.         *)
(***************************************************************************)
EXTENDS DurableQueue

CONSTANT Subscribers   \* how many subscribers a row's message has

ASSUME RelayAssumption ==
    /\ Subscribers \in Nat \ {0}
    /\ ~Lifecycle          \* an outbox's queue has no lifecycle columns
    /\ Limit = 1           \* dispatch_once calls claim

VARIABLES
    relay,     \* what each consumer knows of the dispatch it is in
    called,    \* how often each subscriber was called with each message
    handled    \* how often it returned from that, having dealt with it

relayVars == <<vars, relay, called, handled>>

\* next is the subscriber publish calls next; raised says that something did.
Dispatch == [next : 1..(Subscribers + 1), raised : BOOLEAN]

Fresh == [next |-> 1, raised |-> FALSE]

RelayTypeOK ==
    /\ TypeOK
    /\ relay \in [Consumers -> Dispatch]
    /\ called \in [Ids -> [1..Subscribers -> Nat]]
    /\ handled \in [Ids -> [1..Subscribers -> Nat]]

RelayInit ==
    /\ Init
    /\ relay = [c \in Consumers |-> Fresh]
    /\ called = [i \in Ids |-> [s \in 1..Subscribers |-> 0]]
    /\ handled = called

AllCalled(c) == relay[c].next > Subscribers

----------------------------------------------------------------------------
(* publish: the rescue is inside the loop, so each subscriber is called     *)

Called(c, k) == called' = [called EXCEPT ![k.id][relay[c].next] = @ + 1]

Call(c, k) ==
    /\ Working(c, k) /\ ~AllCalled(c)
    /\ Called(c, k)
    /\ handled' = [handled EXCEPT ![k.id][relay[c].next] = @ + 1]
    /\ relay' = [relay EXCEPT ![c].next = @ + 1]
    /\ UNCHANGED vars

\* A publish that ends with the subscriber that raises.
CallRaises_Stops(c, k) ==
    /\ Working(c, k) /\ ~AllCalled(c)
    /\ Called(c, k)
    /\ relay' = [relay EXCEPT ![c] = [next |-> Subscribers + 1, raised |-> TRUE]]
    /\ UNCHANGED <<vars, handled>>

CallRaises(c, k) ==
    /\ Working(c, k) /\ ~AllCalled(c)
    /\ Called(c, k)
    /\ relay' = [relay EXCEPT ![c].next = @ + 1, ![c].raised = TRUE]
    /\ UNCHANGED <<vars, handled>>

\* deserialize raises, before anybody is called
Rejected(c, k) ==
    /\ Working(c, k) /\ relay[c] = Fresh
    /\ relay' = [relay EXCEPT ![c] = [next |-> Subscribers + 1, raised |-> TRUE]]
    /\ UNCHANGED <<vars, called, handled>>

----------------------------------------------------------------------------
(* The rest of dispatch_once                                                *)

\* A dispatch_once that does not look at the report of publish.
Finish_AnyReport(c, k) ==
    /\ AllCalled(c)
    /\ Complete(c, k)
    /\ relay' = [relay EXCEPT ![c] = Fresh]
    /\ UNCHANGED <<called, handled>>

\* A dispatch_once that deletes its row whoever has it.
Finish_ById(c, k) ==
    /\ AllCalled(c) /\ ~relay[c].raised
    /\ Complete_ById(c, k)
    /\ relay' = [relay EXCEPT ![c] = Fresh]
    /\ UNCHANGED <<called, handled>>

\* complete; LeaseLost is caught and ends the dispatch as well
Finish(c, k) ==
    /\ AllCalled(c) /\ ~relay[c].raised
    /\ Complete(c, k)
    /\ relay' = [relay EXCEPT ![c] = Fresh]
    /\ UNCHANGED <<called, handled>>

\* complete meets a database error: caught with the others, the row is failed
FinishErrs(c, k) ==
    /\ Working(c, k)
    /\ AllCalled(c) /\ ~relay[c].raised
    /\ relay' = [relay EXCEPT ![c].raised = TRUE]
    /\ UNCHANGED <<vars, called, handled>>

\* fail_claim, in its two statements; false from the first ends the dispatch
Fail(c, k) ==
    /\ AllCalled(c) /\ relay[c].raised
    /\ FailRead(c, k) \/ FailWrite(c, k)
    /\ relay' = IF con'[c].held = {} THEN [relay EXCEPT ![c] = Fresh] ELSE relay
    /\ UNCHANGED <<called, handled>>

\* The relay dies, or a database error leaves claim or fail_claim and ends the
\* loop's turn (Worker#run): to the table it is the same.
Abandon(c) ==
    /\ Crash(c)
    /\ relay' = [relay EXCEPT ![c] = Fresh]
    /\ UNCHANGED <<called, handled>>

DispatchOnce(c) ==
    \E k \in con[c].held :
        \/ Call(c, k) \/ CallRaises(c, k) \/ Rejected(c, k)
        \/ Finish(c, k) \/ FinishErrs(c, k) \/ Fail(c, k)

RelayNext ==
    \/ /\ \/ \E i \in Ids : Insert(i) \/ RetryFailed(i)
          \/ \E c \in Consumers : Scan(c)
          \/ Tick
       /\ UNCHANGED <<relay, called, handled>>
    \/ \E c \in Consumers : DispatchOnce(c) \/ Abandon(c)

RelaySpec == RelayInit /\ [][RelayNext]_relayVars

\* As for the queue: the worker polls for ever and subscribers return or raise
RelayFairness ==
    /\ \A c \in Consumers :
          /\ WF_relayVars(Scan(c) /\ UNCHANGED <<relay, called, handled>>)
          /\ WF_relayVars(DispatchOnce(c))
    /\ WF_relayVars(Tick /\ UNCHANGED <<relay, called, handled>>)

FairRelaySpec == RelaySpec /\ RelayFairness

----------------------------------------------------------------------------
(* Properties                                                               *)

Delivered(i) == \A s \in 1..Subscribers : handled[i][s] > 0

\* At least once: a message leaves the outbox only when each of its
\* subscribers has dealt with it, in whatever dispatches, of whatever relays.
NothingLost == \A i \in Ids : rows[i].stage = "gone" => Delivered(i)

\* Not more often than there were dispatches: every time a subscriber deals
\* with a message is paid for by an attempt that the row still counts or that
\* an operator's retry_failed has written off (MaxAttempts at most each time).
RedeliveryIsPaidFor ==
    \A i \in Ids : \A s \in 1..Subscribers :
        handled[i][s] <= rows[i].attempts + MaxAttempts * revivals

\* A subscriber that raises takes nothing from those after it: two subscribers
\* of a message were called as often, but for the dispatches that are under way
\* and those that were cut off half-way by a relay's death.
NobodyIsSkipped ==
    \A i \in Ids : \A s, t \in 1..Subscribers :
        s < t => called[i][s] - called[i][t] \in 0..(crashes +
                    Cardinality({c \in Consumers : \E k \in con[c].held : k.id = i}))

\* Whatever raises and whoever dies, a message written to the outbox is
\* delivered to every subscriber, or is listed as failed.
DeliveredOrFailed ==
    \A i \in Ids : rows[i].stage = "live" ~>
        (rows[i].stage = "gone" /\ Delivered(i)) \/ rows[i].failed

\* Relays are consumers of the queue: all that is true of DurableQueue is true
\* of its rows, leases and tokens under a relay.
RelaysAreConsumers == Spec

=============================================================================
