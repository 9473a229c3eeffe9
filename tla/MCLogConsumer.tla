--------------------------- MODULE MCLogConsumer ---------------------------
(***************************************************************************)
(* LogConsumer with the partitions of one topic, of which CreateProject-  *)
(* Topic makes two: they share the batch of the topic's service.           *)
(***************************************************************************)
EXTENDS LogConsumer, TLC

CONSTANT s1

\* Every partition belongs to the topic of s1.
OneTopic == [p \in Partition |-> s1]

\* The partitions of one topic are interchangeable.
Symmetry == Permutations(Partition)
=============================================================================
