-------------------------- MODULE MCQueueConsumers --------------------------
(* Symmetry for an instance of QueueConsumers: records are                 *)
(* interchangeable, and so are clients with the same rights.               *)
EXTENDS QueueConsumers, TLC

Symmetry ==
  Permutations(Record) \cup Permutations(Consumer \ Publisher)
    \cup Permutations(Publisher \ Consumer)
=============================================================================
