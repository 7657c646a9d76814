-------------------------- MODULE MCPolicyApproval --------------------------
(***************************************************************************)
(* Instances of PolicyApproval for TLC.                                    *)
(***************************************************************************)
EXTENDS PolicyApproval, TLC

CONSTANTS d1, d2, plain, reordered, redacted, patch, p1, p2, r1, r2, q1, q2

\* Processes of one kind are interchangeable.
Interchangeable ==
  Permutations(Plugins) \union Permutations(Resolvers) \union Permutations(Runners)
=============================================================================
