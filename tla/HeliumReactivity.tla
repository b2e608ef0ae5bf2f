--------------------------- MODULE HeliumReactivity ---------------------------
(***************************************************************************)
(* State and bindings of Helium (lib/lunula/assets/helium.js): a write to   *)
(* the state proxy runs, before it returns, every binding registered under  *)
(* the key; a binding that writes starts another round inside its own; and  *)
(* the keys a binding is registered under are those its last execution read.*)
(* All of it is one JavaScript call stack, and a step of this module is     *)
(* what happens between two calls. The page is mounted first: every binding *)
(* is executed in document order, then every result is applied.             *)
(*                                                                          *)
(* An expression is `test ? yes : no` over state keys, which may assign its *)
(* value (effect); the three keys may be one. A strict one reads a property *)
(* of `yes`, and throws where that is null (0).                             *)
(***************************************************************************)
EXTENDS Integers, Sequences, FiniteSets

CONSTANTS
    Keys,        \* top-level state properties (and the tokens of local scopes)
    Pages,       \* the pages considered: the bindings in document order, the keys
                 \* the page's handlers write and the keys localStorage may restore
    MaxWrites,   \* bound: writes by handlers
    MaxDepth     \* bound: the JavaScript call stack, in frames of this module

Values == 0..1
ALL == "*"
Registered == Keys \cup {ALL}

\* Only an effect names keys itself.
Binding ==
    {b \in [kind : {"show", "calc", "effect"}, test : Keys, yes : Keys, no : Keys,
            strict : BOOLEAN, target : Keys, keys : SUBSET Registered] :
        b.kind # "effect" => b.keys = {}}

ASSUME ReactivityAssumption ==
    /\ IsFiniteSet(Keys) /\ ALL \notin Keys
    /\ \A p \in Pages : /\ p.bindings \in Seq(Binding)
                        /\ p.inputs \subseteq Keys /\ p.saved \subseteq Keys
    /\ MaxWrites \in Nat /\ MaxDepth \in Nat \ {0}

VARIABLES
    page,       \* the page that is mounted
    phase,      \* "execute", "restore", "apply" (helium()), then "mounted"
    todo,       \* bindings the mount has yet to execute or apply
    state,      \* the state proxy's target
    registry,   \* HELIUM.bindings: key -> bindings in the order they are run
    deps,       \* b.dependencies of each binding
    initial,    \* b.initialExecution of each binding
    painted,    \* what each binding put on the page
    threw,      \* bindings whose last execution threw
    applying,   \* applyingBindings
    stack,      \* the calls in progress, innermost last
    writes      \* how much of MaxWrites is used

reactivityVars == <<page, phase, todo, state, registry, deps, initial, painted, threw,
                    applying, stack, writes>>

Index == DOMAIN page.bindings
Def(b) == page.bindings[b]

NoResult == [made |-> FALSE, ok |-> FALSE, value |-> 0]
Result(ok, v) == [made |-> TRUE, ok |-> ok, value |-> v]
Results == [made : BOOLEAN, ok : BOOLEAN, value : Values]

(***************************************************************************)
(* A call in progress. notify: the set trap, the bindings left to run and   *)
(* whether those under ALL are still to come. apply: applyBinding of b,     *)
(* through safeApplyBinding or not, with its result once it has one. execute*)
(* is executeBinding of an effect whose assignment is running, with what it *)
(* read; its result goes to the call below it.                              *)
(***************************************************************************)
Notify(k) == [call |-> "notify", b |-> 0, queue |-> registry[k], all |-> TRUE,
              safe |-> FALSE, result |-> NoResult, read |-> <<>>]
Apply(b, safe) == [call |-> "apply", b |-> b, queue |-> <<>>, all |-> FALSE,
                   safe |-> safe, result |-> NoResult, read |-> <<>>]
Execute(b, read) == [call |-> "execute", b |-> b, queue |-> <<>>, all |-> FALSE,
                     safe |-> FALSE, result |-> NoResult, read |-> read]

Top == stack[Len(stack)]
Below == SubSeq(stack, 1, Len(stack) - 1)
Running(call) == stack # <<>> /\ Top.call = call
OnTop(frame) == Append(Below, frame)

ReactivityTypeOK ==
    /\ page \in Pages
    /\ phase \in {"execute", "restore", "apply", "mounted"}
    /\ todo \in Seq(Index)
    /\ state \in [Keys -> Values]
    /\ registry \in [Registered -> Seq(Index)]
    /\ deps \in [Index -> SUBSET Registered]
    /\ initial \in [Index -> Results]
    /\ painted \in [Index -> Values]
    /\ threw \subseteq Index /\ applying \subseteq Index
    /\ Len(stack) <= MaxDepth
    /\ writes \in 0..MaxWrites

ReactivityInit ==
    /\ page \in Pages
    /\ phase = "execute"
    /\ todo = [i \in Index |-> i]
    /\ state \in [Keys -> Values]
    /\ registry = [k \in Registered |-> <<>>]
    /\ deps = [b \in Index |-> {}]
    /\ initial = [b \in Index |-> NoResult]
    /\ painted = [b \in Index |-> 0]
    /\ threw = {} /\ applying = {}
    /\ stack = <<>> /\ writes = 0

----------------------------------------------------------------------------
(* Expressions                                                              *)

KeysRead(b) == {Def(b).test} \cup {IF state[Def(b).test] # 0 THEN Def(b).yes ELSE Def(b).no}

Throws(b) == Def(b).strict /\ state[Def(b).test] # 0 /\ state[Def(b).yes] = 0

Value(b) == IF state[Def(b).test] # 0 THEN state[Def(b).yes] ELSE state[Def(b).no]

----------------------------------------------------------------------------
(* Dependencies                                                             *)

First(b) == Def(b).kind = "calc"

\* updateBindingDependencies: a calculation goes before what it feeds.
Added(b, queue) == IF First(b) THEN <<b>> \o queue ELSE Append(queue, b)

\* What is kept of a queue b is in (once: RegistryAgrees)
Kept(b, queue) ==
    LET at == CHOOSE i \in DOMAIN queue : queue[i] = b
    IN [i \in 1..Len(queue) - 1 |-> queue[IF i < at THEN i ELSE i + 1]]

Reregistered_Grows(b, next) ==
    [k \in Registered |->
        IF k \in deps[b] \ next THEN Kept(b, registry[k])
        ELSE IF k \in next THEN Added(b, registry[k])
        ELSE registry[k]]

Reregistered(b, next) ==
    [k \in Registered |->
        IF k \in deps[b] \ next THEN Kept(b, registry[k])
        ELSE IF k \in next \ deps[b] THEN Added(b, registry[k])
        ELSE registry[k]]

\* What an execution that read `read` registers b under: the keys that still have
\* the value it read, and the named ones; ALL alone if it asked for all.
Tracked(b, read) ==
    IF ALL \in Def(b).keys THEN {ALL}
    ELSE {k \in DOMAIN read : state[k] = read[k]} \cup Def(b).keys

Registers(b, next) ==
    /\ registry' = Reregistered(b, next)
    /\ deps' = [deps EXCEPT ![b] = next]
    /\ threw' = threw \ {b}

Snapshot(b) == [k \in KeysRead(b) |-> state[k]]

----------------------------------------------------------------------------
(* The set trap                                                             *)

\* state[k] = v, called from the frames below
Sets(k, v, below) ==
    /\ Len(below) < MaxDepth
    /\ state' = [state EXCEPT ![k] = v]
    /\ stack' = Append(below, Notify(k))

\* The page's own code writes: an event handler, a response, an init. Or, between
\* executing and applying, a saved value is restored or another microtask runs.
Write(k, v) ==
    /\ stack = <<>> /\ phase \in {"restore", "mounted"}
    /\ writes < MaxWrites
    /\ k \in IF phase = "restore" THEN page.saved ELSE page.inputs
    /\ Sets(k, v, <<>>)
    /\ writes' = writes + 1
    /\ UNCHANGED <<page, phase, todo, registry, deps, initial, painted, threw, applying>>

\* safeApplyBinding of the next one; a binding being applied is passed over.
RunsNext_Reenters(b) ==
    /\ Len(stack) < MaxDepth
    /\ applying' = applying \cup {b}
    /\ stack' = Append(OnTop([Top EXCEPT !.queue = Tail(@)]), Apply(b, TRUE))

RunsNext(b) ==
    IF b \in applying
    THEN /\ stack' = OnTop([Top EXCEPT !.queue = Tail(@)])
         /\ UNCHANGED applying
    ELSE /\ Len(stack) < MaxDepth
         /\ applying' = applying \cup {b}
         /\ stack' = Append(OnTop([Top EXCEPT !.queue = Tail(@)]), Apply(b, TRUE))

RunNext ==
    /\ Running("notify") /\ Top.queue # <<>>
    /\ RunsNext(Head(Top.queue))
    /\ UNCHANGED <<page, phase, todo, state, registry, deps, initial, painted, threw, writes>>

\* The key's own bindings are done: those under ALL follow, then the write returns.
NotifyEnds ==
    /\ Running("notify") /\ Top.queue = <<>>
    /\ stack' = IF Top.all THEN OnTop([Top EXCEPT !.queue = registry[ALL], !.all = FALSE])
                           ELSE Below
    /\ UNCHANGED <<page, phase, todo, state, registry, deps, initial, painted, threw,
                   applying, writes>>

----------------------------------------------------------------------------
(* executeBinding                                                           *)

Returns(below, result) ==
    IF below # <<>> /\ below[Len(below)].call = "apply"
    THEN /\ stack' = [below EXCEPT ![Len(below)].result = result]
         /\ UNCHANGED <<initial, todo>>
    ELSE /\ stack' = below     \* processElements keeps it for the first application
         /\ initial' = [initial EXCEPT ![Head(todo)] = result]
         /\ todo' = Tail(todo)

\* A throw leaves the dependencies as they were.
ExecuteThrows(b) ==
    /\ Throws(b)
    /\ threw' = threw \cup {b}
    /\ Returns(stack, Result(FALSE, 0))
    /\ UNCHANGED <<state, registry, deps>>

ExecuteReads(b) ==
    /\ ~Throws(b) /\ Def(b).kind # "effect"
    /\ Registers(b, Tracked(b, Snapshot(b)))
    /\ Returns(stack, Result(TRUE, Value(b)))
    /\ UNCHANGED state

\* The assignment of an effect, its notifications before the expression is over
ExecuteAssigns(b) ==
    /\ ~Throws(b) /\ Def(b).kind = "effect"
    /\ Sets(Def(b).target, Value(b), Append(stack, Execute(b, Snapshot(b))))
    /\ UNCHANGED <<registry, deps, threw, initial, todo>>

ExecuteBinding(b) ==
    ExecuteThrows(b) \/ ExecuteReads(b) \/ ExecuteAssigns(b)

\* The assignment has returned.
ExecuteEnds ==
    /\ Running("execute")
    /\ Registers(Top.b, Tracked(Top.b, Top.read))
    /\ Returns(Below, Result(TRUE, 0))
    /\ UNCHANGED <<page, phase, state, painted, applying, writes>>

----------------------------------------------------------------------------
(* applyBinding                                                             *)

\* It executes the binding, unless the mount has done so and kept the result.
ApplyExecutes ==
    /\ Running("apply") /\ ~Top.result.made
    /\ IF initial[Top.b].made
       THEN /\ stack' = OnTop([Top EXCEPT !.result = initial[Top.b]])
            /\ initial' = [initial EXCEPT ![Top.b] = NoResult]
            /\ UNCHANGED <<state, registry, deps, threw, todo>>
       ELSE ExecuteBinding(Top.b)
    /\ UNCHANGED <<page, phase, painted, applying, writes>>

Leaves_Marked(frame) == UNCHANGED applying

Leaves(frame) == applying' = IF frame.safe THEN applying \ {frame.b} ELSE applying

\* What is left once a calculation has stored its value: safeApplyBinding's finally
Spent(frame) == [frame EXCEPT !.result = Result(FALSE, 0)]

ApplyStores ==
    /\ Running("apply") /\ Top.result.ok /\ Def(Top.b).kind = "calc"
    /\ Sets(Def(Top.b).target, Top.result.value, OnTop(Spent(Top)))
    /\ UNCHANGED <<page, phase, todo, registry, deps, initial, painted, threw, applying, writes>>

ApplyEnds ==
    /\ Running("apply") /\ Top.result.made
    /\ Top.result.ok => Def(Top.b).kind # "calc"
    /\ painted' = IF Top.result.ok THEN [painted EXCEPT ![Top.b] = Top.result.value]
                                   ELSE painted
    /\ Leaves(Top)
    /\ stack' = Below
    /\ UNCHANGED <<page, phase, todo, state, registry, deps, initial, threw, writes>>

----------------------------------------------------------------------------
(* helium(): the mount                                                      *)

MountExecutes ==
    /\ phase = "execute" /\ stack = <<>> /\ todo # <<>>
    /\ ExecuteBinding(Head(todo))
    /\ UNCHANGED <<page, phase, painted, applying, writes>>

\* newBindings: each calculation is put in front, the others at the end.
Comes(b, c) == IF First(b) THEN First(c) => b > c ELSE ~First(c) /\ b < c

NewBindings == {order \in [Index -> Index] :
                    \A i, j \in Index : i < j => Comes(order[i], order[j])}

MountExecuted ==
    /\ phase = "execute" /\ stack = <<>> /\ todo = <<>>
    /\ phase' = "restore"
    /\ UNCHANGED <<page, todo, state, registry, deps, initial, painted, threw, applying,
                   stack, writes>>

MountRestored ==
    /\ phase = "restore" /\ stack = <<>>
    /\ phase' = "apply"
    /\ todo' \in NewBindings
    /\ UNCHANGED <<page, state, registry, deps, initial, painted, threw, applying, stack, writes>>

MountApplies ==
    /\ phase = "apply" /\ stack = <<>> /\ todo # <<>>
    /\ stack' = <<Apply(Head(todo), FALSE)>>
    /\ todo' = Tail(todo)
    /\ UNCHANGED <<page, phase, state, registry, deps, initial, painted, threw, applying, writes>>

Mounted ==
    /\ phase = "apply" /\ stack = <<>> /\ todo = <<>>
    /\ phase' = "mounted"
    /\ UNCHANGED <<page, todo, state, registry, deps, initial, painted, threw, applying,
                   stack, writes>>

----------------------------------------------------------------------------

Engine == \/ RunNext \/ NotifyEnds \/ ExecuteEnds
          \/ ApplyExecutes \/ ApplyStores \/ ApplyEnds
          \/ MountExecutes \/ MountExecuted \/ MountRestored \/ MountApplies \/ Mounted

ReactivityNext == Engine \/ \E k \in Keys, v \in Values : Write(k, v)

ReactivitySpec == ReactivityInit /\ [][ReactivityNext]_reactivityVars

\* JavaScript runs to completion.
ReactivityFairness == WF_reactivityVars(Engine)

----------------------------------------------------------------------------

Writers == {b \in Index : Def(b).kind # "show"}
Computed == {Def(b).target : b \in Writers}

\* Run at every write
Alls == {b \in Writers : ALL \in Def(b).keys}

\* The keys a binding may be run for
Feeds(b) == {Def(b).test, Def(b).yes, Def(b).no} \cup (Def(b).keys \ {ALL})

Ranks == [Keys -> 1..Cardinality(Keys)]

\* A page whose computed keys each come from one binding, and from keys that do not
\* come from them; what is computed at every write is only shown
Ranked(rank) ==
    /\ \A b, c \in Writers : b # c => Def(b).target # Def(c).target
    /\ Computed \cap (page.inputs \cup page.saved) = {}
    /\ \A b \in Writers : \A k \in Feeds(b) : rank[k] < rank[Def(b).target]
    /\ \A b \in Alls, c \in Writers : Def(b).target \notin Feeds(c)

WellFounded == \E rank \in Ranks : Ranked(rank)

(***************************************************************************)
(* When a write has returned, everything computed and everything on a page  *)
(* without circular definitions is what the state says now, although keys   *)
(* are tracked anew at every execution, results of the mount are kept for   *)
(* later and bindings run inside one another. Not so for a binding whose    *)
(* last execution threw: it stays under the keys of the one before, and a   *)
(* repair through a key it had not read by then does not reach it           *)
(* (executeBinding's catch). Nor for an effect that reads what an effect run*)
(* at every write computes: the latter runs again inside the assignment of  *)
(* the former, and a key that changed since it was read is not tracked.     *)
(* WellFounded leaves such pages out.                                       *)
(***************************************************************************)
Consistent ==
    phase = "mounted" /\ stack = <<>> /\ WellFounded =>
        \A b \in Index \ threw :
            /\ ~Throws(b)
            /\ IF b \in Writers THEN state[Def(b).target] = Value(b)
                                ELSE painted[b] = Value(b)

(***************************************************************************)
(* The registry and the bindings' own dependencies agree, no binding is     *)
(* registered twice under a key, and calculations run before what shows     *)
(* their results (updateBindingDependencies).                               *)
(***************************************************************************)
RegistryAgrees ==
    \A k \in Registered :
        /\ {registry[k][i] : i \in DOMAIN registry[k]} = {b \in Index : k \in deps[b]}
        /\ \A i, j \in DOMAIN registry[k] : i < j =>
              /\ registry[k][i] # registry[k][j]
              /\ First(registry[k][j]) => First(registry[k][i])

(***************************************************************************)
(* A write returns, also where bindings write each other's keys: the set of *)
(* bindings being applied cuts every circle, and the call stack does not    *)
(* overflow (safeApplyBinding).                                             *)
(***************************************************************************)
WritesReturn == stack # <<>> ~> stack = <<>>

=============================================================================
