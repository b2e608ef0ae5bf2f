------------------------------ MODULE MCProcess ------------------------------
(***************************************************************************)
(* Small instances of the components of a server process that stand by      *)
(* themselves. They share no variables, so that one run explores them side  *)
(* by side and not their product: the first state says whose the behaviour  *)
(* is.                                                                      *)
(***************************************************************************)
EXTENDS Transaction, AsyncAdapter, SessionStore, RecurringScheduler, MemoryCache

VARIABLE focus

processVars == <<focus, transactionVars, asyncVars, sessionVars, recurringVars, cacheVars>>

\* An event outbox, and a job adapter that keeps its jobs in memory
OutboxOfEvents == [kind \in Kinds |-> IF kind = "event" THEN "row" ELSE "callback"]

ThirdIsBroken == <<"hourly", "often", "broken">>
Intervals == [task \in Tasks |-> IF task = "hourly" THEN 2 ELSE 1]

----------------------------------------------------------------------------

ProcessInit ==
    /\ focus \in {"transaction", "async", "sessions", "recurring", "cache"}
    /\ TransactionInit /\ AsyncInit /\ SessionInit /\ RecurringInit /\ CacheInit
    /\ focus # "recurring" => transactional
    /\ focus # "cache" => \A c \in Clients : client[c].key = CHOOSE key \in CacheKeys : TRUE

InTransactions(A) ==
    /\ focus = "transaction" /\ A
    /\ UNCHANGED <<focus, asyncVars, sessionVars, recurringVars, cacheVars>>

InAsync(A) ==
    /\ focus = "async" /\ A
    /\ UNCHANGED <<focus, transactionVars, sessionVars, recurringVars, cacheVars>>

InSessions(A) ==
    /\ focus = "sessions" /\ A
    /\ UNCHANGED <<focus, transactionVars, asyncVars, recurringVars, cacheVars>>

InRecurring(A) ==
    /\ focus = "recurring" /\ A
    /\ UNCHANGED <<focus, transactionVars, asyncVars, sessionVars, cacheVars>>

InCache(A) ==
    /\ focus = "cache" /\ A
    /\ UNCHANGED <<focus, transactionVars, asyncVars, sessionVars, recurringVars>>

ProcessNext ==
    \/ InTransactions(TransactionNext)
    \/ InAsync(AsyncNext)
    \/ InSessions(SessionNext)
    \/ InRecurring(RecurringNext)
    \/ InCache(CacheNext)

\* AsyncFairness, where the adapter moves
ProcessFairness ==
    /\ \A w \in Threads : WF_processVars(InAsync(Runs(w)))
    /\ WF_processVars(InAsync(TimePasses))

ProcessSpec == ProcessInit /\ [][ProcessNext]_processVars /\ ProcessFairness

(***************************************************************************)
(* Every variable of the five components has a value of its kind.           *)
(***************************************************************************)
ProcessTypeOK ==
    /\ TransactionTypeOK /\ AsyncTypeOK /\ SessionTypeOK /\ RecurringTypeOK /\ CacheTypeOK

=============================================================================
