--------------------------- MODULE MCOutboxRelay ---------------------------
(* Instances of OutboxRelay small enough for TLC. *)
EXTENDS OutboxRelay

\* Consumers differ in nothing but their name; only the safety run uses this.
ConsumerSymmetry == Permutations(Consumers)

\* The code's default, [2**(attempt - 1), 300].min
DefaultDelay == [n \in 1..MaxAttempts |-> IF n > 9 THEN 300 ELSE 2^(n - 1)]

SamePriority == [i \in Ids |-> 0]

=============================================================================
