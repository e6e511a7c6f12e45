-------------------------- MODULE MCConnectionPool --------------------------
(***************************************************************************)
(* Instances of ConnectionPool for TLC.                                    *)
(***************************************************************************)
EXTENDS ConnectionPool, TLC

\* Every repository id has a path of its own, as registry entries have: the
\* configurations take Paths = Repos.
OwnPath == [r \in Repos |-> r]

\* All repository ids are initialised with one path.
OnePath == [r \in Repos |-> CHOOSE p \in Paths : TRUE]

\* Model values of these sets are interchangeable in safety runs.
Symmetry == Permutations(Entries) \cup Permutations(Conns) \cup
            Permutations(Queries) \cup Permutations(Dbs) \cup Permutations(Repos)
=============================================================================
