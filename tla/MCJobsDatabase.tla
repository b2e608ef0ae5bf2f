-------------------------- MODULE MCJobsDatabase --------------------------
(* Instances of JobsDatabase small enough for TLC. *)
EXTENDS JobsDatabase

CONSTANTS queue, key

\* Workers differ in nothing but their id; only safety runs use this.
WorkerSymmetry == Permutations(Workers)

\* The code's default, [2**(attempt - 1), 300].min
DefaultDelay == [n \in 1..MaxAttempts |-> IF n > 9 THEN 300 ELSE 2^(n - 1)]

SamePriority == [i \in Ids |-> 0]

OneQueue == [i \in Ids |-> queue]

\* All jobs share a key
SharedKey == [i \in Ids |-> key]

NoKeys == [i \in Ids |-> NoKey]

LimitOne == [i \in Ids |-> 1]

=============================================================================
