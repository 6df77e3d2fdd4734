---------------------------- MODULE MCConvSingle ----------------------------
(* Instances of ConvSingle for TLC. *)
EXTENDS ConvSingle, TLC

\* Connections, objects, workers and descriptors are interchangeable.
Symmetry == Permutations(Clients) \cup Permutations(Objs)
              \cup Permutations(Workers) \cup Permutations(Fds)
=============================================================================
