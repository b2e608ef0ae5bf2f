---------------------------- MODULE SessionStore ----------------------------
(***************************************************************************)
(* The database sessions of lib/lunula/session_store.rb: requests find the  *)
(* row of the id their cookie carries, and at their end write it back, drop *)
(* it or move it to a new id, in statements of their own with no transaction*)
(* around them, while sessions are revoked, expire and are pruned. What a   *)
(* session holds is left out; id 0 stands for ids the server never gave out.*)
(***************************************************************************)
EXTENDS Integers

CONSTANTS
    Requests,
    ExpireAfter,   \* expire_after or max_age
    MaxSids,       \* bound: ids generated
    MaxTime        \* bound: the clock

ASSUME SessionAssumption == ExpireAfter \in Nat \ {0} /\ MaxSids \in Nat /\ MaxTime \in Nat

VARIABLES
    hour,       \* the store's clock
    expires,    \* the table: by id, expires_at, or that there is no row
    issued,     \* ids generated so far
    request     \* by request, where it is, and the id of its session

sessionVars == <<hour, expires, issued, request>>

Sids == 0..MaxSids
NoSession == -1
Stages == {"idle", "handling", "writing", "inserting"}

SessionTypeOK ==
    /\ hour \in 0..MaxTime
    /\ expires \in [Sids -> {NoSession} \cup 0..MaxTime + ExpireAfter]
    /\ issued \in 0..MaxSids
    /\ request \in [Requests -> [stage : Stages, sid : Sids]]

Idle == [stage |-> "idle", sid |-> 0]

SessionInit ==
    /\ hour = 0
    /\ expires = [sid \in Sids |-> NoSession]
    /\ issued = 0
    /\ request = [r \in Requests |-> Idle]

----------------------------------------------------------------------------

Stored(sid) == expires[sid] # NoSession
Live(sid) == Stored(sid) /\ expires[sid] > hour
NewSid == issued + 1

\* Without asking the table
Keeps_AnyIssued(sid) == sid # 0

\* find_session: is the id that was submitted kept
Keeps(sid) == Live(sid)

Find(r, sid) ==
    /\ request[r].stage = "idle"
    /\ Keeps(sid)
    /\ request' = [request EXCEPT ![r] = [stage |-> "handling", sid |-> sid]]
    /\ UNCHANGED <<hour, expires, issued>>

FindNone(r, sid) ==
    /\ request[r].stage = "idle"
    /\ ~Keeps(sid) /\ issued < MaxSids
    /\ request' = [request EXCEPT ![r] = [stage |-> "handling", sid |-> NewSid]]
    /\ issued' = NewSid
    /\ UNCHANGED <<hour, expires>>

\* Rack: an empty session, or one that was only read under skip, is not written
Leave(r) ==
    /\ request[r].stage = "handling"
    /\ request' = [request EXCEPT ![r] = Idle]
    /\ UNCHANGED <<hour, expires, issued>>

\* write_session, its UPDATE; a busy database makes it return false
UpdateRow(r) ==
    /\ request[r].stage \in {"handling", "writing"}
    /\ IF Stored(request[r].sid)
       THEN /\ expires' = [expires EXCEPT ![request[r].sid] = hour + ExpireAfter]
            /\ request' = [request EXCEPT ![r] = Idle]
       ELSE /\ request' = [request EXCEPT ![r].stage = "inserting"]
            /\ UNCHANGED expires
    /\ UNCHANGED <<hour, issued>>

\* Its INSERT, when no row was updated: that of another request is not overwritten
InsertRow(r) ==
    /\ request[r].stage = "inserting"
    /\ expires' = IF Stored(request[r].sid) THEN expires
                  ELSE [expires EXCEPT ![request[r].sid] = hour + ExpireAfter]
    /\ request' = [request EXCEPT ![r] = Idle]
    /\ UNCHANGED <<hour, issued>>

Busy(r) ==
    /\ request[r].stage \in {"writing", "inserting"}
    /\ request' = [request EXCEPT ![r] = Idle]
    /\ UNCHANGED <<hour, expires, issued>>

\* delete_session with drop; when the database is busy the row stays
Drop(r) ==
    /\ request[r].stage = "handling"
    /\ expires' \in {expires, [expires EXCEPT ![request[r].sid] = NoSession]}
    /\ request' = [request EXCEPT ![r] = Idle]
    /\ UNCHANGED <<hour, issued>>

\* delete_session with renew: the session goes on under a new id
Renew(r) ==
    /\ request[r].stage = "handling" /\ issued < MaxSids
    /\ expires' \in {expires, [expires EXCEPT ![request[r].sid] = NoSession]}
    /\ request' = [request EXCEPT ![r] = [stage |-> "writing", sid |-> NewSid]]
    /\ issued' = NewSid
    /\ UNCHANGED hour

Revoke(sid) ==
    /\ Stored(sid)
    /\ expires' = [expires EXCEPT ![sid] = NoSession]
    /\ UNCHANGED <<hour, issued, request>>

PruneExpired ==
    /\ \E sid \in Sids : Stored(sid) /\ expires[sid] <= hour
    /\ expires' = [sid \in Sids |-> IF expires[sid] <= hour THEN NoSession ELSE expires[sid]]
    /\ UNCHANGED <<hour, issued, request>>

HourPasses ==
    /\ hour < MaxTime
    /\ hour' = hour + 1
    /\ UNCHANGED <<expires, issued, request>>

SessionNext ==
    \/ \E r \in Requests :
          \/ \E sid \in 0..issued : Find(r, sid) \/ FindNone(r, sid)
          \/ Leave(r) \/ UpdateRow(r) \/ InsertRow(r) \/ Busy(r) \/ Drop(r) \/ Renew(r)
    \/ \E sid \in 0..issued : Revoke(sid)
    \/ PruneExpired
    \/ HourPasses

SessionSpec == SessionInit /\ [][SessionNext]_sessionVars

----------------------------------------------------------------------------

UnderWay(sid) == \E r \in Requests : request[r].stage # "idle" /\ request[r].sid = sid

Gone(sid) == ~Live(sid) /\ ~UnderWay(sid)

(***************************************************************************)
(* A session that was revoked, dropped or has expired never comes back      *)
(* (session_store.rb:58), but by the hand of a request that was under way   *)
(* then: once that has ended, its id is not taken up again by whoever still *)
(* submits it, and an id the server never gave out never becomes a session. *)
(***************************************************************************)
GoneForGood ==
    [][\A sid \in 0..issued : Gone(sid) => Gone(sid)']_sessionVars

=============================================================================
