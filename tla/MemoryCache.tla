---------------------------- MODULE MemoryCache ----------------------------
(***************************************************************************)
(* Cache#fetch over Cache::MemoryStore (lib/lunula/cache.rb): a fetch that  *)
(* finds nothing computes the value from its source, outside the store's    *)
(* mutex, and writes it; whoever changes the source deletes the key after   *)
(* that. Entries expire, and the store drops the least recently used ones   *)
(* when it holds more than max_size. A value is the version of its source.  *)
(***************************************************************************)
EXTENDS Integers, FiniteSets

CONSTANTS
    CacheKeys, Clients,
    MaxSize,         \* max_size
    ExpiresIn,       \* expires_in
    MaxVersion,      \* bound: changes of a source
    MaxMoment,       \* bound: the clock
    MaxAccesses      \* bound: reads and writes that count as a use of an entry

ASSUME CacheAssumption ==
    /\ MaxSize \in Nat \ {0} /\ ExpiresIn \in Nat \ {0}
    /\ MaxVersion \in Nat /\ MaxMoment \in Nat /\ MaxAccesses \in Nat

VARIABLES
    moment,    \* the store's clock
    source,    \* by key, the version a value is computed from now
    entries,   \* @entries
    accesses,  \* @sequence, the last accessed_at
    client,    \* by client, where it is, its key and the version it has computed
    raced      \* keys whose entry was computed before a delete and written after it

cacheVars == <<moment, source, entries, accesses, client, raced>>

CacheEntry ==
    [key : CacheKeys, version : 0..MaxVersion, expires_at : Nat, accessed_at : Nat]
Client == [stage : {"idle", "computing", "writing", "changed"}, key : CacheKeys,
           version : 0..MaxVersion, overtaken : BOOLEAN]

CacheTypeOK ==
    /\ moment \in 0..MaxMoment
    /\ source \in [CacheKeys -> 0..MaxVersion]
    /\ entries \subseteq CacheEntry /\ Cardinality(entries) <= MaxSize
    /\ accesses \in 0..MaxAccesses
    /\ client \in [Clients -> Client]
    /\ raced \subseteq CacheKeys

CacheInit ==
    /\ moment = 0
    /\ source = [key \in CacheKeys |-> 0]
    /\ entries = {} /\ accesses = 0
    /\ client \in [Clients -> {[stage |-> "idle", key |-> key, version |-> 0,
                                overtaken |-> FALSE] : key \in CacheKeys}]
    /\ raced = {}

----------------------------------------------------------------------------

IsIdle(c) == client[c].stage = "idle"
Goes(c, to) == [client EXCEPT ![c] = to]
Done(c) == Goes(c, [client[c] EXCEPT !.stage = "idle", !.version = 0, !.overtaken = FALSE])

Without(key) == {entry \in entries : entry.key # key}
Unexpired(all) == {entry \in all : entry.expires_at > moment}
Has(key) == \E entry \in entries : entry.key = key /\ entry.expires_at > moment

\* trim_to_max_size, off by one
Trimmed_Late(all) ==
    {entry \in all :
        Cardinality({later \in all : later.accessed_at > entry.accessed_at}) < MaxSize + 1}

\* trim_to_max_size: the least recently used go while there are too many
Trimmed(all) ==
    {entry \in all :
        Cardinality({later \in all : later.accessed_at > entry.accessed_at}) < MaxSize}

\* read of an entry that has not expired makes it the last to go
FetchHit(c, key) ==
    /\ IsIdle(c) /\ Has(key) /\ accesses < MaxAccesses
    /\ accesses' = accesses + 1
    /\ entries' = {IF entry.key = key THEN [entry EXCEPT !.accessed_at = accesses + 1]
                   ELSE entry : entry \in entries}
    /\ UNCHANGED <<moment, source, client, raced>>

\* read of one that has deletes it
FetchMiss(c, key) ==
    /\ IsIdle(c) /\ ~Has(key)
    /\ entries' = Without(key)
    /\ client' = Goes(c, [client[c] EXCEPT !.stage = "computing", !.key = key])
    /\ UNCHANGED <<moment, source, accesses, raced>>

\* The block of fetch
Compute(c) ==
    /\ client[c].stage = "computing"
    /\ client' = Goes(c, [client[c] EXCEPT !.stage = "writing",
                                           !.version = source[client[c].key]])
    /\ UNCHANGED <<moment, source, entries, accesses, raced>>

\* write: what has expired is swept, and the store trimmed
WriteValue(c) ==
    /\ client[c].stage = "writing" /\ accesses < MaxAccesses
    /\ accesses' = accesses + 1
    /\ LET key == client[c].key
           entry == [key |-> key, version |-> client[c].version,
                     expires_at |-> moment + ExpiresIn, accessed_at |-> accesses + 1] IN
       /\ entries' = Trimmed(Unexpired(Without(key)) \cup {entry})
       /\ raced' = IF client[c].overtaken THEN raced \cup {key} ELSE raced \ {key}
    /\ client' = Done(c)
    /\ UNCHANGED <<moment, source>>

\* The block raises, or returns nil
WritesNothing(c) ==
    /\ client[c].stage = "computing"
    /\ client' = Done(c)
    /\ UNCHANGED <<moment, source, entries, accesses, raced>>

\* An application that changes what a value is computed from
ChangeSource(c, key) ==
    /\ IsIdle(c) /\ source[key] < MaxVersion
    /\ source' = [source EXCEPT ![key] = @ + 1]
    /\ client' = Goes(c, [client[c] EXCEPT !.stage = "changed", !.key = key])
    /\ UNCHANGED <<moment, entries, accesses, raced>>

\* As if only what can still be read had to go
Deleted_IfExpired(key) ==
    {entry \in entries : entry.key # key \/ entry.expires_at > moment}

\* What is left of the store when a key is deleted from it
Deleted(key) == Without(key)
\* and deletes its key. Fetches under way are overtaken
Delete(c) ==
    LET key == client[c].key IN
    /\ client[c].stage = "changed"
    /\ entries' = Deleted(key)
    /\ client' = [other \in Clients |->
          IF other = c THEN Done(c)[c]
          ELSE IF client[other].stage = "writing" /\ client[other].key = key
               THEN [client[other] EXCEPT !.overtaken = TRUE]
          ELSE client[other]]
    /\ UNCHANGED <<moment, source, accesses, raced>>

\* Cache#clear
Clear ==
    /\ entries # {}
    /\ entries' = {}
    /\ UNCHANGED <<moment, source, accesses, client, raced>>

MomentPasses ==
    /\ moment < MaxMoment
    /\ moment' = moment + 1
    /\ UNCHANGED <<source, entries, accesses, client, raced>>

CacheNext ==
    \/ \E c \in Clients :
          \/ \E key \in CacheKeys : FetchHit(c, key) \/ FetchMiss(c, key) \/ ChangeSource(c, key)
          \/ Compute(c) \/ WriteValue(c) \/ WritesNothing(c) \/ Delete(c)
    \/ Clear
    \/ MomentPasses

CacheSpec == CacheInit /\ [][CacheNext]_cacheVars

----------------------------------------------------------------------------

(***************************************************************************)
(* An old value is in the cache only until whoever changed its source has   *)
(* deleted the key, or because a fetch computed it before that delete and   *)
(* wrote it after (cache.rb:211): no older entry survives a sweep, a trim,  *)
(* an expiry or a second writer.                                            *)
(***************************************************************************)
StaleIsExplained ==
    \A entry \in entries :
        entry.version < source[entry.key] =>
            \/ entry.key \in raced
            \/ \E c \in Clients : client[c].stage = "changed" /\ client[c].key = entry.key

=============================================================================
