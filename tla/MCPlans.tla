--------------------------------- MODULE MCPlans ---------------------------------
\* Requests, keys and connections are interchangeable.
EXTENDS Plans, TLC

Symmetry == Permutations(Requests) \cup Permutations(Keys) \cup Permutations(Conns)
=============================================================================
