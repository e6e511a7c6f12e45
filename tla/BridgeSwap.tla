----------------------------- MODULE BridgeSwap -----------------------------
(***************************************************************************)
(* The bridge database of a repository group (gitnexus/src/core/group/     *)
(* sync.ts, bridge-db.ts, cross-impact.ts): every `group sync` writes      *)
(* contracts.json, builds a new database in a staging directory of its own *)
(* and swaps it in, old file to .bak, new file to its place, .bak removed; *)
(* the group-wide impact query opens the database and puts the .bak back   *)
(* when the file is not there.                                             *)
(*                                                                         *)
(* A database is a main file and sidecars (.wal, .shadow) that the engine  *)
(* refuses when they belong to another database.  The two sidecars are     *)
(* handled alike, one after the other, and are one file here.  A file is   *)
(* told apart by the number of the sync that made it; 0 means no file.     *)
(* The code looks with access() before each rename and swallows the error  *)
(* of either: the pair behaves as the rename alone.                        *)
(***************************************************************************)
EXTENDS Naturals

CONSTANTS
    Writers,    \* processes that may run `group sync` (the CLI, an MCP server)
    Readers,    \* processes that may run group-wide impact
    MaxSyncs,   \* bound: syncs started
    MaxFaults   \* bound: crashes, thrown errors, and renames refused as busy

ASSUME BridgeAssumption ==
    /\ Writers \intersect Readers = {}
    /\ MaxSyncs \in Nat
    /\ MaxFaults \in Nat

Procs == Writers \union Readers
Syncs == 0 .. MaxSyncs

VARIABLES
    final,      \* bridge.lbug, by the sync that wrote it
    finalSide,  \* bridge.lbug.wal and bridge.lbug.shadow
    bak,        \* bridge.lbug.bak
    bakSide,    \* bridge.lbug.bak.wal and bridge.lbug.bak.shadow
    staged,     \* the main file in each writer's staging directory
    stagedSide, \* its sidecars
    contracts,  \* contracts.json
    meta,       \* the group's meta.json
    syncs,      \* syncs started so far
    sync,       \* the number of each writer's own
    pc,         \* where each process is
    faults,     \* faults so far
    raced       \* history: a reader put a .bak back into a swap in progress

files == <<final, finalSide, bak, bakSide>>
staging == <<staged, stagedSide>>
vars == <<files, staging, contracts, meta, syncs, sync, pc, faults, raced>>

WriterPhases == {"idle", "contracts", "build", "aside", "aside_side", "publish",
                 "publish_side", "remove", "remove_side", "meta"}
ReaderPhases == {"idle", "ensure", "recover", "recover_side", "open"}

TypeOK ==
    /\ final \in Syncs /\ finalSide \in Syncs
    /\ bak \in Syncs /\ bakSide \in Syncs
    /\ staged \in [Writers -> Syncs] /\ stagedSide \in [Writers -> Syncs]
    /\ contracts \in Syncs /\ meta \in Syncs
    /\ syncs \in Syncs
    /\ sync \in [Writers -> Syncs]
    /\ pc \in [Procs -> WriterPhases \union ReaderPhases]
    /\ faults \in 0 .. MaxFaults
    /\ raced \in BOOLEAN

Init ==
    /\ final = 0 /\ finalSide = 0 /\ bak = 0 /\ bakSide = 0
    /\ staged = [w \in Writers |-> 0] /\ stagedSide = [w \in Writers |-> 0]
    /\ contracts = 0 /\ meta = 0
    /\ syncs = 0
    /\ sync = [w \in Writers |-> 0]
    /\ pc = [p \in Procs |-> "idle"]
    /\ faults = 0
    /\ raced = FALSE

Goto(p, from, to) == pc[p] = from /\ pc' = [pc EXCEPT ![p] = to]

(* One more fault, if the bound allows. *)
Fault == faults < MaxFaults /\ faults' = faults + 1

Swapping == \E w \in Writers :
                pc[w] \in {"aside_side", "publish", "publish_side", "remove", "remove_side"}

----------------------------------------------------------------------------
(* syncGroup and writeBridge                                                *)

(* The contracts are extracted from the repositories. *)
Start(w) ==
    /\ Goto(w, "idle", "contracts")
    /\ syncs < MaxSyncs
    /\ syncs' = syncs + 1
    /\ sync' = [sync EXCEPT ![w] = syncs + 1]
    /\ UNCHANGED <<files, staging, contracts, meta, faults, raced>>

WriteContracts(w) ==
    /\ Goto(w, "contracts", "build")
    /\ contracts' = sync[w]
    /\ UNCHANGED <<files, staging, meta, syncs, sync, faults, raced>>

(* The database may keep sidecars when it is closed. *)
Build(w) ==
    /\ Goto(w, "build", "aside")
    /\ staged' = [staged EXCEPT ![w] = sync[w]]
    /\ \E s \in {0, sync[w]} : stagedSide' = [stagedSide EXCEPT ![w] = s]
    /\ UNCHANGED <<files, contracts, meta, syncs, sync, faults, raced>>

\* Mutant: the old database is removed, not kept until the swap is over.
RemoveOld(w) ==
    /\ Goto(w, "aside", "aside_side")
    /\ final' = 0
    /\ UNCHANGED <<bak, finalSide, bakSide, staging, contracts, meta, syncs, sync, faults, raced>>

\* Mutant: only the main file is moved aside.
MoveMainAside(w) ==
    /\ Goto(w, "aside", "publish")
    /\ IF final = 0 THEN UNCHANGED <<bak, final>> ELSE bak' = final /\ final' = 0
    /\ UNCHANGED <<finalSide, bakSide, staging, contracts, meta, syncs, sync, faults, raced>>

(* No file to move aside, or one that cannot be moved: the sidecars are left
   alone as well. *)
MoveAside(w) ==
    /\ \/ /\ final # 0
          /\ Goto(w, "aside", "aside_side")
          /\ bak' = final /\ final' = 0
          /\ UNCHANGED faults
       \/ /\ Goto(w, "aside", "publish")
          /\ IF final = 0 THEN UNCHANGED faults ELSE Fault
          /\ UNCHANGED <<bak, final>>
    /\ UNCHANGED <<finalSide, bakSide, staging, contracts, meta, syncs, sync, raced>>

MoveAsideSide(w) ==
    /\ Goto(w, "aside_side", "publish")
    /\ \/ /\ finalSide # 0
          /\ bakSide' = finalSide /\ finalSide' = 0
          /\ UNCHANGED faults
       \/ /\ IF finalSide = 0 THEN UNCHANGED faults ELSE Fault
          /\ UNCHANGED <<bakSide, finalSide>>
    /\ UNCHANGED <<final, bak, staging, contracts, meta, syncs, sync, raced>>

\* Mutant: a database that could not be moved aside stays.
PublishIfAbsent(w) ==
    /\ Goto(w, "publish", "publish_side")
    /\ final' = IF final = 0 THEN staged[w] ELSE final
    /\ staged' = [staged EXCEPT ![w] = 0]
    /\ UNCHANGED <<finalSide, bak, bakSide, stagedSide, contracts, meta, syncs, sync,
                   faults, raced>>

Publish(w) ==
    /\ Goto(w, "publish", "publish_side")
    /\ final' = staged[w]
    /\ staged' = [staged EXCEPT ![w] = 0]
    /\ UNCHANGED <<finalSide, bak, bakSide, stagedSide, contracts, meta, syncs, sync,
                   faults, raced>>

PublishSide(w) ==
    /\ Goto(w, "publish_side", "remove")
    /\ \/ /\ stagedSide[w] # 0
          /\ finalSide' = stagedSide[w]
          /\ UNCHANGED faults
       \/ /\ IF stagedSide[w] = 0 THEN UNCHANGED faults ELSE Fault
          /\ UNCHANGED finalSide
    /\ stagedSide' = [stagedSide EXCEPT ![w] = 0]
    /\ UNCHANGED <<final, bak, bakSide, staged, contracts, meta, syncs, sync, raced>>

(* removeLbugFile *)
RemoveBak(w) ==
    /\ Goto(w, "remove", "remove_side")
    /\ bak' = 0
    /\ UNCHANGED <<final, finalSide, bakSide, staging, contracts, meta, syncs, sync,
                   faults, raced>>

RemoveBakSide(w) ==
    /\ Goto(w, "remove_side", "meta")
    /\ bakSide' = 0
    /\ UNCHANGED <<final, finalSide, bak, staging, contracts, meta, syncs, sync,
                   faults, raced>>

WriteMeta(w) ==
    /\ Goto(w, "meta", "idle")
    /\ meta' = sync[w]
    /\ UNCHANGED <<files, staging, contracts, syncs, sync, faults, raced>>

(* The process ends, or throws out of writeBridge: the staging directory is
   removed, or is left behind where nobody looks. *)
Abort(w) ==
    /\ pc[w] # "idle"
    /\ Fault
    /\ pc' = [pc EXCEPT ![w] = "idle"]
    /\ staged' = [staged EXCEPT ![w] = 0]
    /\ stagedSide' = [stagedSide EXCEPT ![w] = 0]
    /\ UNCHANGED <<files, contracts, meta, syncs, sync, raced>>

----------------------------------------------------------------------------
(* ensureBridgeReady and openBridgeDbReadOnly                               *)

(* Without a bridge.lbug the query reports that there is none. *)
Ask(r) ==
    /\ final # 0
    /\ Goto(r, "idle", "ensure")
    /\ UNCHANGED <<files, staging, contracts, meta, syncs, sync, faults, raced>>

EnsureAvailable(r) ==
    /\ Goto(r, "ensure", IF final # 0 THEN "open" ELSE "recover")
    /\ UNCHANGED <<files, staging, contracts, meta, syncs, sync, faults, raced>>

Recover(r) ==
    /\ Goto(r, "recover", IF bak # 0 THEN "recover_side" ELSE "idle")
    /\ IF bak = 0
       THEN UNCHANGED <<files, raced>>
       ELSE /\ final' = bak /\ bak' = 0
            /\ raced' = (raced \/ Swapping \/ final # 0)
            /\ UNCHANGED <<finalSide, bakSide>>
    /\ UNCHANGED <<staging, contracts, meta, syncs, sync, faults>>

RecoverSide(r) ==
    /\ Goto(r, "recover_side", "open")
    /\ IF bakSide = 0
       THEN UNCHANGED <<files, raced>>
       ELSE /\ finalSide' = bakSide /\ bakSide' = 0
            /\ raced' = (raced \/ Swapping)
            /\ UNCHANGED <<final, bak>>
    /\ UNCHANGED <<staging, contracts, meta, syncs, sync, faults>>

(* The engine opens the files, or the query reports that it could not. *)
Open(r) ==
    /\ Goto(r, "open", "idle")
    /\ UNCHANGED <<files, staging, contracts, meta, syncs, sync, faults, raced>>

----------------------------------------------------------------------------
WriterStep(w) ==
    \/ WriteContracts(w) \/ Build(w)
    \/ MoveAside(w) \/ MoveAsideSide(w)
    \/ Publish(w) \/ PublishSide(w)
    \/ RemoveBak(w) \/ RemoveBakSide(w)
    \/ WriteMeta(w)

ReaderStep(r) ==
    \/ Ask(r) \/ EnsureAvailable(r) \/ Recover(r) \/ RecoverSide(r) \/ Open(r)

Next ==
    \/ \E w \in Writers : Start(w) \/ WriterStep(w) \/ Abort(w)
    \/ \E r \in Readers : ReaderStep(r)

Spec == Init /\ [][Next]_vars

(* A sync that was started goes on, and the group is queried again and again;
   nobody has to sync again. *)
LiveSpec ==
    /\ Spec
    /\ \A w \in Writers : WF_vars(WriterStep(w))
    /\ \A r \in Readers : WF_vars(ReaderStep(r))

----------------------------------------------------------------------------
(* Properties                                                               *)

(* Once a bridge has been published there is one on disk at every moment,
   whatever step of a swap a crash interrupts. *)
NeverLost == meta # 0 => final # 0 \/ bak # 0

(* The database a query can get at: the file, or the one that would be put
   back in its place. *)
Newest == IF final # 0 THEN final ELSE bak

(* The swap is atomic: nothing takes the place of a newer bridge, unless a
   reader puts a .bak back into a swap that is in progress. *)
NeverOlder == [][~raced' => Newest' >= Newest]_vars

(* A sync that reports success has left its own database in place. *)
Published == \A w \in Writers : (pc[w] = "meta" /\ ~raced) => final = sync[w]

(* Between syncs the sidecars found next to the database are its own, as long
   as nothing failed: the engine refuses any others. *)
Paired ==
    ((\A p \in Procs : pc[p] = "idle") /\ faults = 0 /\ ~raced)
        => finalSide \in {0, final}

(* A bridge left in the .bak by a crash is found again by a query. *)
Recovered == (\A w \in Writers : pc[w] = "idle") /\ final = 0 /\ bak # 0 ~> final # 0

(* The same without the exception. *)
AlwaysPublished == \A w \in Writers : pc[w] = "meta" => final = sync[w]

(* A sync that reports success leaves a database the engine can open. *)
AlwaysPaired == \A w \in Writers : pc[w] = "meta" => finalSide \in {0, final}
=============================================================================
