------------------------------ MODULE MCBrowser ------------------------------
(***************************************************************************)
(* The code of a browser tab on small instances. Its components share no    *)
(* variables, so that one run explores them side by side and not their      *)
(* product: the first state says whose the behaviour is.                    *)
(***************************************************************************)
EXTENDS Morpheus, HeliumReactivity, HeliumElements, HeliumStream

VARIABLE focus

browserVars == <<focus, morpheusVars, reactivityVars, elementsVars, streamVars>>

TwoEntries == {<<"a", "b">>}

----------------------------------------------------------------------------
(* Pages over the keys a, b (inputs) and c, d (computed)                    *)

Reads(kind, test, yes, no, target) ==
    [kind |-> kind, test |-> test, yes |-> yes, no |-> no, strict |-> FALSE,
     target |-> target, keys |-> {}]

Show(test, yes, no) == Reads("show", test, yes, no, test)
Calc(target, test, yes, no) == Reads("calc", test, yes, no, target)
Effect(target, test, yes, no, keys) ==
    [Reads("effect", test, yes, no, target) EXCEPT !.keys = keys]
Strict(binding) == [binding EXCEPT !.strict = TRUE]

\* A calculation of a calculation, in either order, shown before and after
Chain == [bindings |-> <<Show("c", "c", "c"), Calc("d", "c", "c", "b"),
                         Calc("c", "a", "b", "a"), Show("a", "d", "b")>>,
          inputs |-> {"a", "b"}, saved |-> {"a", "b"}]

\* An effect feeding a calculation
Effects == [bindings |-> <<Show("d", "d", "d"), Effect("c", "a", "b", "a", {}),
                           Calc("d", "c", "c", "b")>>,
            inputs |-> {"a", "b"}, saved |-> {"a"}]

\* An effect that names a key it need not read, and reads what is computed
Named == [bindings |-> <<Effect("d", "c", "a", "c", {"b"}), Calc("c", "a", "b", "a"),
                         Show("a", "d", "a")>>,
          inputs |-> {"a", "b"}, saved |-> {"b"}]

\* Expressions that throw, and an effect that runs at every write
Throwing == [bindings |-> <<Strict(Show("a", "b", "a")), Effect("c", "a", "b", "a", {ALL}),
                            Strict(Show("b", "c", "b"))>>,
             inputs |-> {"a", "b"}, saved |-> {"b"}]

\* Everything computed from everything else
Circle == [bindings |-> <<Calc("c", "a", "b", "a"), Calc("b", "c", "c", "d"),
                          Effect("a", "b", "d", "c", {"d"}), Effect("d", "d", "a", "b", {ALL})>>,
           inputs |-> {"a", "d"}, saved |-> {"b"}]

SmallPages == {Chain, Effects, Named, Throwing, Circle}

----------------------------------------------------------------------------

BrowserInit ==
    /\ focus \in {"navigation", "reactivity", "elements", "stream"}
    /\ MorpheusInit /\ ReactivityInit /\ ElementsInit /\ StreamInit
    /\ focus # "navigation" => at = 1
    /\ focus # "reactivity" => page = Chain /\ \A k \in Keys : state[k] = 0
    /\ focus # "elements" => inRoot = {}
    /\ focus # "stream" => retryMode = "never" /\ produced = 0

InNavigation(A) ==
    /\ focus = "navigation" /\ A
    /\ UNCHANGED <<focus, reactivityVars, elementsVars, streamVars>>

InReactivity(A) ==
    /\ focus = "reactivity" /\ A
    /\ UNCHANGED <<focus, morpheusVars, elementsVars, streamVars>>

InElements(A) ==
    /\ focus = "elements" /\ A
    /\ UNCHANGED <<focus, morpheusVars, reactivityVars, streamVars>>

InStream(A) ==
    /\ focus = "stream" /\ A
    /\ UNCHANGED <<focus, morpheusVars, reactivityVars, elementsVars>>

BrowserNext ==
    \/ InNavigation(MorpheusNext)
    \/ InReactivity(ReactivityNext)
    \/ InElements(ElementsNext)
    \/ InStream(StreamNext)

\* MorpheusFairness and ReactivityFairness, each where its component moves
BrowserFairness ==
    /\ \A n \in 1..MaxEvents : WF_browserVars(InNavigation(Progress(n)))
    /\ \A p \in 1..MaxEvents :
          WF_browserVars(InNavigation(\E o \in Outcomes : PrefetchSettles(p, o)))
    /\ WF_browserVars(InReactivity(Engine))

BrowserSpec == BrowserInit /\ [][BrowserNext]_browserVars /\ BrowserFairness

(***************************************************************************)
(* Every variable of the four components has a value of its kind.           *)
(***************************************************************************)
BrowserTypeOK == MorpheusTypeOK /\ ReactivityTypeOK /\ ElementsTypeOK /\ StreamTypeOK

=============================================================================
