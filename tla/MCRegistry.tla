----------------------------- MODULE MCRegistry -----------------------------
EXTENDS Registry, TLC

CONSTANTS common, alias

(* Two checkouts with the same directory name, and an alias. *)
BothCommon == [p \in Repositories |-> common]
RegistryNames == {common, alias}
ProcSymmetry == Permutations(Procs)
PathSymmetry == Permutations(Repositories)
BothSymmetry == ProcSymmetry \union PathSymmetry
=============================================================================
