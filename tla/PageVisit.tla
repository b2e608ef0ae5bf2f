----------------------------- MODULE PageVisit -----------------------------
(***************************************************************************)
(* What a navigation client promises, without requests, prefetches or      *)
(* controllers: the visit asked for last is the only one that may be       *)
(* shown, unless the browser, which may be given an address to load, has   *)
(* that document first; a document is shown under its own address, and     *)
(* going through the history changes the address first.                    *)
(***************************************************************************)
EXTENDS Naturals

CONSTANT Urls

VARIABLES
    wanted,    \* the visit asked for and not yet shown, if there is one
    address,   \* what the address bar says
    document,  \* the address of the document on the screen
    given,     \* what the browser was given to load and has not yet, if anything
    loads      \* how many documents the browser has loaded

visitVars == <<wanted, address, document, given, loads>>

VisitInit ==
    /\ wanted = {} /\ given = {} /\ loads = 1
    /\ \E u \in Urls : address = u /\ document = u

\* A link: the address changes only when the document does.
Follow(u) ==
    /\ wanted' = {[url |-> u, back |-> FALSE]}
    /\ UNCHANGED <<address, document, given, loads>>

\* Back or forward: the address has already changed, and the browser may have
\* dropped what it was loading.
Return(u) ==
    /\ wanted' = {[url |-> u, back |-> TRUE]}
    /\ address' = u
    /\ given' \in {given, {}}
    /\ UNCHANGED <<document, loads>>

\* The wanted visit, wherever its redirects led.
Show(u) ==
    /\ wanted # {}
    /\ document' = u /\ address' = u
    /\ wanted' = {}
    /\ UNCHANGED <<given, loads>>

\* The wanted visit is left to the browser.
Leave(u) ==
    /\ wanted # {}
    /\ given' = {u}
    /\ wanted' = {}
    /\ UNCHANGED <<address, document, loads>>

\* The browser follows a link, or loads the entry it has gone to, by itself.
Native(u) ==
    /\ given' = {u}
    /\ address' \in {address, u}
    /\ UNCHANGED <<wanted, document, loads>>

\* The browser has the document it was given last.
Load(u) ==
    /\ u \in given
    /\ document' = u /\ address' = u
    /\ wanted' = {} /\ given' = {}
    /\ loads' = loads + 1

\* The client was stopped: what it was about to show is not wanted any more.
Forget ==
    /\ wanted' = {}
    /\ UNCHANGED <<address, document, given, loads>>

VisitNext ==
    \/ \E u \in Urls : \/ Follow(u) \/ Return(u) \/ Show(u)
                       \/ Leave(u) \/ Native(u) \/ Load(u)
    \/ Forget

VisitSpec == VisitInit /\ [][VisitNext]_visitVars

=============================================================================
