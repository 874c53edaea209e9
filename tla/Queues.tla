------------------------------- MODULE Queues -------------------------------
(***************************************************************************)
(* What stays of a queue when some of it is dropped (retain), in its order *)
(* and by positions: the queue at those of the positions that stay.        *)
(***************************************************************************)
EXTENDS Naturals, FiniteSets

(* The k-th of some positions. *)
Kth(K, k) == CHOOSE n \in K : Cardinality({m \in K : m <= n}) = k

AtThose(queue, K) == [k \in 1..Cardinality(K) |-> queue[Kth(K, k)]]
=============================================================================
