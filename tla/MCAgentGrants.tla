--------------------------- MODULE MCAgentGrants ---------------------------
(* Identical requests, grants and sessions for TLC. *)
EXTENDS AgentGrants, TLC

Symmetry == Permutations(Requests) \cup Permutations(Grants)
                \cup Permutations(Sessions) \cup Permutations(Auths)
                \cup Permutations(Addresses) \cup Permutations(Persons)
=============================================================================
