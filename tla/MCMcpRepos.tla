----------------------------- MODULE MCMcpRepos -----------------------------
EXTENDS McpRepos, TLC

CONSTANT theName

CallSymmetry == Permutations(Calls)

(* Repositories of one name, under directories that differ early on. *)
SameName == [p \in Paths |-> theName]
OwnSuffix == [p \in Paths |-> p]

(* All below one directory: the first four bytes of their paths agree. *)
OneSuffix == [p \in Paths |-> theName]
=============================================================================
