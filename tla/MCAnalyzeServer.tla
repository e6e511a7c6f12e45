-------------------------- MODULE MCAnalyzeServer --------------------------
(***************************************************************************)
(* Instances of AnalyzeServer for TLC.                                     *)
(***************************************************************************)
EXTENDS AnalyzeServer, TLC

Symmetry == Permutations(Jobs) \union Permutations(Embeds) \union Permutations(Repos)

(* All jobs and deletions are asked for one repository; any other is only asked
   for by embedding requests that are refused because the first is embedded. *)
Home == CHOOSE r \in Repos : TRUE

OneBusyRepo ==
    /\ \A j \in Jobs : repo[j] = Home
    /\ \A e \in Embeds : erepo[e] = Home
    /\ deleting \subseteq {Home}
=============================================================================
