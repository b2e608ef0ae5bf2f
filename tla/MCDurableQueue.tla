-------------------------- MODULE MCDurableQueue --------------------------
(* Instances of DurableQueue small enough for TLC. *)
EXTENDS DurableQueue

\* Consumers differ in nothing but their name; only safety runs use this.
ConsumerSymmetry == Permutations(Consumers)

\* The code's default, [2**(attempt - 1), 300].min
DefaultDelay == [n \in 1..MaxAttempts |-> IF n > 9 THEN 300 ELSE 2^(n - 1)]

\* The row with the larger id comes first
LaterFirst == [i \in Ids |-> -i]

SamePriority == [i \in Ids |-> 0]

=============================================================================
