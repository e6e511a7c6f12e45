--------------------------- MODULE BridgeSwapProofs ---------------------------
(***************************************************************************)
(* Proofs about the swap of a group's bridge database, for any number of   *)
(* readers, syncs and faults: the types, and, where no two processes sync  *)
(* the group at once, that a bridge is never lost (NeverLost), that the    *)
(* swap never brings an older one back (NeverOlder), that a sync that      *)
(* reports success has published its own (Published) and that sidecars lie *)
(* beside their own database (Paired).                                     *)
(***************************************************************************)
EXTENDS BridgeSwap, TLAPS

LEMMA Facts == Writers \intersect Readers = {} /\ MaxSyncs \in Nat /\ MaxFaults \in Nat
  BY BridgeAssumption DEF BridgeAssumption

LEMMA Moved ==
    ASSUME TypeOK, NEW p \in Procs, NEW from, NEW to, Goto(p, from, to)
    PROVE  /\ pc[p] = from /\ pc'[p] = to
           /\ \A q \in Procs : q # p => pc'[q] = pc[q]
  BY DEF TypeOK, Goto

LEMMA MovedType ==
    ASSUME TypeOK, NEW p \in Procs, NEW from,
           NEW to \in WriterPhases \union ReaderPhases, Goto(p, from, to)
    PROVE  pc' \in [Procs -> WriterPhases \union ReaderPhases]
  BY DEF TypeOK, Goto

LEMMA FaultType ==
    ASSUME TypeOK, Fault \/ UNCHANGED faults
    PROVE  faults' \in 0 .. MaxFaults
  BY Facts, SMT DEF TypeOK, Fault

LEMMA InitType == Init => TypeOK
  <1> SUFFICES ASSUME Init PROVE TypeOK
    OBVIOUS
  <1>1. 0 \in Syncs /\ faults \in 0 .. MaxFaults
    BY Facts, SMT DEF Init, Syncs
  <1>2. "idle" \in WriterPhases \union ReaderPhases
    BY DEF WriterPhases
  <1> QED BY <1>1, <1>2 DEF Init, TypeOK

LEMMA TypeStep ==
    ASSUME TypeOK, [Next]_vars
    PROVE  TypeOK'
  <1> USE DEF files, staging
  <1>0. 0 \in Syncs
    BY Facts, SMT DEF Syncs
  <1>1. ASSUME NEW w \in Writers, Start(w) PROVE TypeOK'
    <2>1. syncs' \in Syncs /\ sync' \in [Writers -> Syncs]
      BY <1>1, Facts, SMT DEF Start, TypeOK, Syncs
    <2>2. pc' \in [Procs -> WriterPhases \union ReaderPhases]
      BY <1>1, MovedType DEF Start, Procs, WriterPhases
    <2> QED BY <1>1, <2>1, <2>2 DEF Start, TypeOK
  <1>2. ASSUME NEW w \in Writers, WriterStep(w) PROVE TypeOK'
    <2>0. w \in Procs
      BY DEF Procs
    <2>1. pc' \in [Procs -> WriterPhases \union ReaderPhases]
      BY <1>2, <2>0, MovedType
         DEF WriterStep, WriteContracts, Build, MoveAside, MoveAsideSide, Publish, PublishSide,
             RemoveBak, RemoveBakSide, WriteMeta, WriterPhases
    <2>2. faults' \in 0 .. MaxFaults
      <3>1. Fault \/ UNCHANGED faults
        BY <1>2 DEF WriterStep, WriteContracts, Build, MoveAside, MoveAsideSide, Publish,
                    PublishSide, RemoveBak, RemoveBakSide, WriteMeta
      <3> QED BY <3>1, FaultType
    <2>3. CASE WriteContracts(w)
      BY <2>3, <2>1, <2>2 DEF WriteContracts, TypeOK
    <2>4. CASE Build(w)
      BY <2>4, <2>1, <2>2, <1>0 DEF Build, TypeOK
    <2>5. CASE MoveAside(w)
      BY <2>5, <2>1, <2>2, <1>0 DEF MoveAside, TypeOK
    <2>6. CASE MoveAsideSide(w)
      BY <2>6, <2>1, <2>2, <1>0 DEF MoveAsideSide, TypeOK
    <2>7. CASE Publish(w)
      BY <2>7, <2>1, <2>2, <1>0 DEF Publish, TypeOK
    <2>8. CASE PublishSide(w)
      BY <2>8, <2>1, <2>2, <1>0 DEF PublishSide, TypeOK
    <2>9. CASE RemoveBak(w)
      BY <2>9, <2>1, <2>2, <1>0 DEF RemoveBak, TypeOK
    <2>10. CASE RemoveBakSide(w)
      BY <2>10, <2>1, <2>2, <1>0 DEF RemoveBakSide, TypeOK
    <2>11. CASE WriteMeta(w)
      BY <2>11, <2>1, <2>2 DEF WriteMeta, TypeOK
    <2> QED BY <1>2, <2>3, <2>4, <2>5, <2>6, <2>7, <2>8, <2>9, <2>10, <2>11 DEF WriterStep
  <1>3. ASSUME NEW w \in Writers, Abort(w) PROVE TypeOK'
    BY <1>0, <1>3, FaultType DEF Abort, TypeOK, Procs, WriterPhases
  <1>4. ASSUME NEW r \in Readers, ReaderStep(r) PROVE TypeOK'
    <2>0. r \in Procs
      BY DEF Procs
    <2>1. pc' \in [Procs -> WriterPhases \union ReaderPhases]
      BY <1>4, <2>0, MovedType
         DEF ReaderStep, Ask, EnsureAvailable, Recover, RecoverSide, Open, ReaderPhases
    <2>2. raced' \in BOOLEAN
      BY <1>4 DEF ReaderStep, Ask, EnsureAvailable, Recover, RecoverSide, Open, TypeOK
    <2>3. /\ final' \in Syncs /\ finalSide' \in Syncs /\ bak' \in Syncs /\ bakSide' \in Syncs
          /\ UNCHANGED <<staging, contracts, meta, syncs, sync, faults>>
      BY <1>0, <1>4 DEF ReaderStep, Ask, EnsureAvailable, Recover, RecoverSide, Open, TypeOK
    <2> QED BY <2>1, <2>2, <2>3 DEF TypeOK
  <1>5. CASE UNCHANGED vars
    BY <1>5 DEF vars, TypeOK
  <1> QED BY <1>1, <1>2, <1>3, <1>4, <1>5 DEF Next

(* Every variable keeps its type, for any number of writers. *)
THEOREM TypeCorrect == Spec => []TypeOK
  BY InitType, TypeStep, PTL DEF Spec

----------------------------------------------------------------------------
(* The swap, with one process at a time syncing the group                   *)

OneWriter == \A v, w \in Writers : v = w

(* The writer's number is the newest; files carry no newer one. *)
Numbered ==
    /\ \A w \in Writers : sync[w] = syncs
    /\ final <= syncs /\ bak <= syncs
    /\ \A w \in Writers : pc[w] # "idle" => sync[w] # 0

(* What is about to be published has been built. *)
Staged == \A w \in Writers : pc[w] \in {"aside", "aside_side", "publish"} => staged[w] = sync[w]

After == {"publish_side", "remove", "remove_side", "meta"}

(* From its publication on the file is there, and is the writer's unless a
   reader interfered. *)
Placed == \A w \in Writers : pc[w] \in After => final # 0 /\ (~raced => final = sync[w])

SwapInv == TypeOK /\ Numbered /\ Staged /\ Placed /\ NeverLost

LEMMA InitSwap == Init => SwapInv
  BY InitType, SMT DEF Init, SwapInv, Numbered, Staged, Placed, After, NeverLost, Procs

(* One step preserves the invariant, and what a query gets at grows no older. *)
LEMMA SwapStep ==
    ASSUME OneWriter, SwapInv, [Next]_vars
    PROVE  SwapInv' /\ (~raced' => Newest' >= Newest)
  <1>0. TypeOK'
    BY TypeStep DEF SwapInv
  <1> DEFINE Kept == /\ Numbered' /\ Staged' /\ Placed' /\ NeverLost'
                     /\ (~raced' => Newest' >= Newest)
  <1> SUFFICES Kept
    BY <1>0 DEF SwapInv
  <1> USE DEF files, staging, SwapInv
  <1>a. /\ final \in Nat /\ bak \in Nat /\ syncs \in Nat /\ meta \in Nat
        /\ \A w \in Writers : sync[w] \in Nat
    BY Facts, SMT DEF TypeOK, Syncs
  <1>b. Newest >= Newest
    BY <1>a, SMT DEF Newest
  <1>c. \A w \in Writers : w \in Procs /\ w \notin Readers
    BY Facts DEF Procs
  <1>1. ASSUME NEW w \in Writers, Start(w) PROVE Kept
    <2>1. /\ pc[w] = "idle" /\ pc'[w] = "contracts"
          /\ sync' = [sync EXCEPT ![w] = syncs + 1] /\ syncs' = syncs + 1
          /\ UNCHANGED <<final, bak, staged, meta, raced>>
      BY <1>1, <1>c, Moved DEF Start
    <2>2. \A v \in Writers : v = w
      BY DEF OneWriter
    <2>3. sync'[w] = syncs + 1
      BY <2>1 DEF TypeOK
    <2>4. Numbered'
      BY <2>1, <2>2, <2>3, <1>a, SMT DEF Numbered
    <2>5. Staged' /\ Placed'
      BY <2>1, <2>2 DEF Staged, Placed, After
    <2>6. NeverLost' /\ Newest' = Newest
      BY <2>1 DEF NeverLost, Newest
    <2> QED BY <2>4, <2>5, <2>6, <1>b
  <1>2. ASSUME NEW w \in Writers, WriterStep(w) PROVE Kept
    <2>1. \A v \in Writers : v = w
      BY DEF OneWriter
    <2>2. sync' = sync /\ syncs' = syncs /\ raced' = raced /\ pc[w] # "idle"
      BY <1>2, <1>c, Moved
         DEF WriterStep, WriteContracts, Build, MoveAside, MoveAsideSide, Publish, PublishSide,
             RemoveBak, RemoveBakSide, WriteMeta
    <2>3. CASE WriteContracts(w)
      <3>1. pc'[w] = "build" /\ UNCHANGED <<final, bak, staged, meta>>
        BY <2>3, <1>c, Moved DEF WriteContracts
      <3> QED BY <3>1, <2>1, <2>2, <1>b
              DEF Numbered, Staged, Placed, After, NeverLost, Newest
    <2>4. CASE Build(w)
      <3>1. pc'[w] = "aside" /\ staged'[w] = sync[w] /\ UNCHANGED <<final, bak, meta>>
        BY <2>4, <1>c, Moved DEF Build, TypeOK
      <3> QED BY <3>1, <2>1, <2>2, <1>b
              DEF Numbered, Staged, Placed, After, NeverLost, Newest
    <2>5. CASE MoveAside(w)
      <3>1. /\ pc[w] = "aside" /\ pc'[w] \in {"aside_side", "publish"}
            /\ UNCHANGED <<staged, meta>>
        BY <2>5, <1>c, Moved DEF MoveAside
      <3>2. \/ final # 0 /\ bak' = final /\ final' = 0
            \/ UNCHANGED <<bak, final>>
        BY <2>5 DEF MoveAside
      <3>3. Numbered'
        BY <2>1, <2>2, <3>1, <3>2, <1>a, SMT DEF Numbered
      <3>4. Staged' /\ Placed'
        BY <2>1, <2>2, <3>1 DEF Staged, Placed, After
      <3>5. NeverLost' /\ Newest' = Newest
        BY <3>1, <3>2 DEF NeverLost, Newest
      <3> QED BY <3>3, <3>4, <3>5, <1>b
    <2>6. CASE MoveAsideSide(w)
      <3>1. /\ pc[w] = "aside_side" /\ pc'[w] = "publish"
            /\ UNCHANGED <<final, bak, staged, meta>>
        BY <2>6, <1>c, Moved DEF MoveAsideSide
      <3> QED BY <3>1, <2>1, <2>2, <1>b
              DEF Numbered, Staged, Placed, After, NeverLost, Newest
    <2>7. CASE Publish(w)
      <3>1. /\ pc[w] = "publish" /\ pc'[w] = "publish_side"
            /\ final' = staged[w] /\ UNCHANGED <<bak, meta>>
        BY <2>7, <1>c, Moved DEF Publish
      <3>2. final' = syncs /\ syncs # 0 /\ sync[w] = syncs
        BY <3>1 DEF Numbered, Staged
      <3>3. Numbered'
        BY <3>2, <2>1, <2>2, <3>1, <1>a, SMT DEF Numbered
      <3>4. Staged' /\ Placed'
        BY <3>1, <3>2, <2>1, <2>2 DEF Staged, Placed, After
      <3>5. NeverLost'
        BY <3>2 DEF NeverLost
      <3>6. Newest' >= Newest
        BY <3>2, <1>a, SMT DEF Newest, Numbered
      <3> QED BY <3>3, <3>4, <3>5, <3>6
    <2>8. CASE PublishSide(w)
      <3>1. /\ pc[w] = "publish_side" /\ pc'[w] = "remove"
            /\ UNCHANGED <<final, bak, staged, meta>>
        BY <2>8, <1>c, Moved DEF PublishSide
      <3> QED BY <3>1, <2>1, <2>2, <1>b
              DEF Numbered, Staged, Placed, After, NeverLost, Newest
    <2>9. CASE RemoveBak(w)
      <3>1. /\ pc[w] = "remove" /\ pc'[w] = "remove_side"
            /\ bak' = 0 /\ UNCHANGED <<final, staged, meta>>
        BY <2>9, <1>c, Moved DEF RemoveBak
      <3>2. final # 0
        BY <3>1 DEF Placed, After
      <3>3. Numbered'
        BY <2>1, <2>2, <3>1, <1>a, SMT DEF Numbered
      <3>4. Staged' /\ Placed'
        BY <2>1, <2>2, <3>1 DEF Staged, Placed, After
      <3>5. NeverLost' /\ Newest' = Newest
        BY <3>1, <3>2 DEF NeverLost, Newest
      <3> QED BY <3>3, <3>4, <3>5, <1>b
    <2>10. CASE RemoveBakSide(w)
      <3>1. /\ pc[w] = "remove_side" /\ pc'[w] = "meta"
            /\ UNCHANGED <<final, bak, staged, meta>>
        BY <2>10, <1>c, Moved DEF RemoveBakSide
      <3> QED BY <3>1, <2>1, <2>2, <1>b
              DEF Numbered, Staged, Placed, After, NeverLost, Newest
    <2>11. CASE WriteMeta(w)
      <3>1. /\ pc[w] = "meta" /\ pc'[w] = "idle" /\ UNCHANGED <<final, bak, staged>>
        BY <2>11, <1>c, Moved DEF WriteMeta
      <3>2. final # 0
        BY <3>1 DEF Placed, After
      <3> QED BY <3>1, <3>2, <2>1, <2>2, <1>b
              DEF Numbered, Staged, Placed, After, NeverLost, Newest
    <2> QED BY <1>2, <2>3, <2>4, <2>5, <2>6, <2>7, <2>8, <2>9, <2>10, <2>11 DEF WriterStep
  <1>3. ASSUME NEW w \in Writers, Abort(w) PROVE Kept
    <2>1. \A v \in Writers : v = w
      BY DEF OneWriter
    <2>2. pc'[w] = "idle" /\ UNCHANGED <<final, bak, meta, syncs, sync, raced>>
      BY <1>3, <1>c DEF Abort, TypeOK
    <2> QED BY <2>1, <2>2, <1>b DEF Numbered, Staged, Placed, After, NeverLost, Newest
  <1>4. ASSUME NEW r \in Readers, ReaderStep(r) PROVE Kept
    <2>1. \A w \in Writers : pc'[w] = pc[w]
      BY <1>4, <1>c, Moved
         DEF ReaderStep, Ask, EnsureAvailable, Recover, RecoverSide, Open, Procs
    <2>2. UNCHANGED <<staged, meta, syncs, sync>> /\ (raced => raced')
      <3>1. CASE Ask(r) \/ EnsureAvailable(r) \/ Open(r)
        BY <3>1 DEF Ask, EnsureAvailable, Open
      <3>2. CASE Recover(r)
        BY <3>2 DEF Recover
      <3>3. CASE RecoverSide(r)
        BY <3>3 DEF RecoverSide
      <3> QED BY <1>4, <3>1, <3>2, <3>3 DEF ReaderStep
    <2>3. CASE UNCHANGED <<final, bak>>
      BY <2>1, <2>2, <2>3, <1>b DEF Numbered, Staged, Placed, After, NeverLost, Newest
    <2>4. CASE ~UNCHANGED <<final, bak>>
      <3>1. /\ bak # 0 /\ final' = bak /\ bak' = 0
            /\ raced' = (raced \/ Swapping \/ final # 0)
        BY <1>4, <2>4 DEF ReaderStep, Ask, EnsureAvailable, Recover, RecoverSide, Open
      <3>2. Numbered'
        BY <2>1, <2>2, <3>1, <1>a, SMT DEF Numbered
      <3>3. Staged'
        BY <2>1, <2>2 DEF Staged
      <3>4. Placed'
        BY <2>1, <2>2, <3>1 DEF Placed, After
      <3>5. NeverLost' /\ (~raced' => Newest' = Newest)
        BY <3>1 DEF NeverLost, Newest
      <3> QED BY <3>2, <3>3, <3>4, <3>5, <1>b
    <2> QED BY <2>3, <2>4
  <1>5. CASE UNCHANGED vars
    BY <1>5, <1>b DEF vars, Numbered, Staged, Placed, After, NeverLost, Newest
  <1> QED BY <1>1, <1>2, <1>3, <1>4, <1>5 DEF Next

(* With one process syncing, whatever step of the swap a crash interrupts and
   whatever readers do, a bridge that was published is on disk, as the file
   or as its .bak. *)
THEOREM BridgeNeverLost == OneWriter => (Spec => []NeverLost)
  <1> SUFFICES ASSUME OneWriter PROVE Spec => []NeverLost
    OBVIOUS
  <1>1. Init => SwapInv
    BY InitSwap
  <1>2. SwapInv /\ [Next]_vars => SwapInv'
    BY SwapStep
  <1>3. SwapInv => NeverLost
    BY DEF SwapInv
  <1> QED BY <1>1, <1>2, <1>3, PTL DEF Spec

(* With one process syncing, what a query can get at grows no older, unless a
   reader put a .bak back into a swap in progress. *)
THEOREM SwapNeverOlder == OneWriter => (Spec => NeverOlder)
  <1> SUFFICES ASSUME OneWriter PROVE Spec => NeverOlder
    OBVIOUS
  <1>1. Init => SwapInv
    BY InitSwap
  <1>2. SwapInv /\ [Next]_vars => SwapInv' /\ [~raced' => Newest' >= Newest]_vars
    BY SwapStep
  <1> QED BY <1>1, <1>2, PTL DEF Spec, NeverOlder

(* With one process syncing, a sync that reports success has left its own
   database in place, unless a reader put a .bak back into it. *)
THEOREM SyncPublished == OneWriter => (Spec => []Published)
  <1> SUFFICES ASSUME OneWriter PROVE Spec => []Published
    OBVIOUS
  <1>1. Init => SwapInv
    BY InitSwap
  <1>2. SwapInv /\ [Next]_vars => SwapInv'
    BY SwapStep
  <1>3. SwapInv => Published
    BY DEF SwapInv, Placed, After, Published
  <1> QED BY <1>1, <1>2, <1>3, PTL DEF Spec

----------------------------------------------------------------------------
(* The sidecars, where nothing fails                                         *)

(* Nothing has failed and no reader has interfered. *)
Smooth == faults = 0 /\ ~raced

(* The sidecars move one step behind their database, and a database whose
   sidecars are still to come has none. *)
PairInv ==
    Smooth =>
        /\ ~Swapping => bak = 0 /\ bakSide = 0 /\ finalSide \in {0, final}
        /\ \A w \in Writers :
              /\ pc[w] \in {"aside", "aside_side", "publish", "publish_side"}
                    => stagedSide[w] \in {0, sync[w]}
              /\ pc[w] = "aside_side" => finalSide \in {0, bak}
              /\ pc[w] \in {"publish", "publish_side"} => finalSide = 0
              /\ pc[w] \in {"remove", "remove_side"} => finalSide \in {0, final}
              /\ pc[w] = "remove_side" => bak = 0

LEMMA InitPair == Init => PairInv
  BY DEF Init, PairInv, Swapping, Procs

LEMMA SmoothStep == ASSUME TypeOK, Fault \/ UNCHANGED faults, raced => raced', Smooth'
                    PROVE  Smooth /\ UNCHANGED faults /\ ~Fault
  BY Facts, SMT DEF TypeOK, Fault, Smooth

LEMMA PairStep == ASSUME OneWriter, SwapInv, PairInv, [Next]_vars PROVE PairInv'
  <1> USE DEF files, staging
  <1>0. TypeOK /\ Placed
    BY DEF SwapInv
  <1>c. \A w \in Writers : w \in Procs /\ w \notin Readers
    BY Facts DEF Procs
  <1>o. \A v, w \in Writers : v = w
    BY DEF OneWriter
  <1>s. \A w \in Writers : Swapping <=>
            pc[w] \in {"aside_side", "publish", "publish_side", "remove", "remove_side"}
    BY <1>o DEF Swapping
  <1>t. \A w \in Writers : Swapping' <=>
            pc'[w] \in {"aside_side", "publish", "publish_side", "remove", "remove_side"}
    BY <1>o DEF Swapping
  <1> SUFFICES ASSUME Smooth' PROVE PairInv'
    BY DEF PairInv
  <1>1. ASSUME NEW w \in Writers, Start(w) PROVE PairInv'
    <2>1. /\ pc[w] = "idle" /\ pc'[w] = "contracts"
          /\ UNCHANGED <<files, staging, faults, raced>>
      BY <1>0, <1>1, <1>c, Moved DEF Start
    <2> QED BY <1>o, <1>s, <1>t, <2>1 DEF PairInv, Smooth
  <1>2. ASSUME NEW w \in Writers, WriterStep(w) PROVE PairInv'
    <2>1. UNCHANGED <<sync, raced>> /\ (Fault \/ UNCHANGED faults)
      BY <1>2 DEF WriterStep, WriteContracts, Build, MoveAside, MoveAsideSide, Publish,
                  PublishSide, RemoveBak, RemoveBakSide, WriteMeta
    <2>2. Smooth /\ UNCHANGED faults /\ ~Fault
      BY <1>0, <2>1, SmoothStep
    <2>3. CASE WriteContracts(w)
      <3>1. pc[w] = "contracts" /\ pc'[w] = "build" /\ UNCHANGED <<files, staging>>
        BY <1>0, <1>c, <2>3, Moved DEF WriteContracts
      <3> QED BY <1>o, <1>s, <1>t, <2>2, <3>1 DEF PairInv
    <2>4. CASE Build(w)
      <3>1. /\ pc[w] = "build" /\ pc'[w] = "aside" /\ UNCHANGED files
            /\ stagedSide'[w] \in {0, sync[w]}
        BY <1>0, <1>c, <2>4, Moved DEF Build, TypeOK
      <3> QED BY <1>o, <1>s, <1>t, <2>1, <2>2, <3>1 DEF PairInv
    <2>5. CASE MoveAside(w)
      <3>1. /\ pc[w] = "aside" /\ pc'[w] \in {"aside_side", "publish"}
            /\ UNCHANGED <<finalSide, bakSide, staging>>
        BY <1>0, <1>c, <2>5, Moved DEF MoveAside
      <3>2. \/ pc'[w] = "aside_side" /\ bak' = final
            \/ pc'[w] = "publish" /\ final = 0 /\ UNCHANGED <<bak, final>>
        BY <1>0, <1>c, <2>2, <2>5, Moved DEF MoveAside
      <3> QED BY <1>o, <1>s, <1>t, <2>1, <2>2, <3>1, <3>2 DEF PairInv
    <2>6. CASE MoveAsideSide(w)
      <3>1. /\ pc[w] = "aside_side" /\ pc'[w] = "publish" /\ finalSide' = 0
            /\ UNCHANGED <<final, bak, staging>>
        BY <1>0, <1>c, <2>2, <2>6, Moved DEF MoveAsideSide
      <3> QED BY <1>o, <1>s, <1>t, <2>1, <2>2, <3>1 DEF PairInv
    <2>7. CASE Publish(w)
      <3>1. /\ pc[w] = "publish" /\ pc'[w] = "publish_side"
            /\ UNCHANGED <<finalSide, bak, bakSide, stagedSide>>
        BY <1>0, <1>c, <2>7, Moved DEF Publish
      <3> QED BY <1>o, <1>s, <1>t, <2>1, <2>2, <3>1 DEF PairInv
    <2>8. CASE PublishSide(w)
      <3>1. /\ pc[w] = "publish_side" /\ pc'[w] = "remove"
            /\ finalSide' \in {finalSide, stagedSide[w]} /\ UNCHANGED <<final, bak, bakSide>>
        BY <1>0, <1>c, <2>8, Moved DEF PublishSide
      <3>2. final = sync[w]
        BY <1>0, <2>2, <3>1 DEF Placed, After, Smooth
      <3> QED BY <1>o, <1>s, <1>t, <2>1, <2>2, <3>1, <3>2 DEF PairInv
    <2>9. CASE RemoveBak(w)
      <3>1. /\ pc[w] = "remove" /\ pc'[w] = "remove_side" /\ bak' = 0
            /\ UNCHANGED <<final, finalSide, bakSide, staging>>
        BY <1>0, <1>c, <2>9, Moved DEF RemoveBak
      <3> QED BY <1>o, <1>s, <1>t, <2>1, <2>2, <3>1 DEF PairInv
    <2>10. CASE RemoveBakSide(w)
      <3>1. /\ pc[w] = "remove_side" /\ pc'[w] = "meta" /\ bakSide' = 0
            /\ UNCHANGED <<final, finalSide, bak, staging>>
        BY <1>0, <1>c, <2>10, Moved DEF RemoveBakSide
      <3> QED BY <1>o, <1>s, <1>t, <2>1, <2>2, <3>1 DEF PairInv
    <2>11. CASE WriteMeta(w)
      <3>1. pc[w] = "meta" /\ pc'[w] = "idle" /\ UNCHANGED <<files, staging>>
        BY <1>0, <1>c, <2>11, Moved DEF WriteMeta
      <3> QED BY <1>o, <1>s, <1>t, <2>1, <2>2, <3>1 DEF PairInv
    <2> QED BY <1>2, <2>3, <2>4, <2>5, <2>6, <2>7, <2>8, <2>9, <2>10, <2>11 DEF WriterStep
  <1>3. ASSUME NEW w \in Writers, Abort(w) PROVE PairInv'
    BY <1>0, <1>3, SmoothStep DEF Abort
  <1>4. ASSUME NEW r \in Readers, ReaderStep(r) PROVE PairInv'
    <2>1. \A w \in Writers : pc'[w] = pc[w]
      BY <1>0, <1>4, <1>c, Moved
         DEF ReaderStep, Ask, EnsureAvailable, Recover, RecoverSide, Open, Procs
    <2>2. UNCHANGED <<staging, sync, faults>> /\ (raced => raced')
      <3>1. CASE Recover(r)
        BY <3>1 DEF Recover
      <3>2. CASE RecoverSide(r)
        BY <3>2 DEF RecoverSide
      <3> QED BY <1>4, <3>1, <3>2 DEF ReaderStep, Ask, EnsureAvailable, Open
    <2>3. Smooth
      BY <1>0, <2>2, SmoothStep
    <2>4. UNCHANGED files
      <3>1. CASE Recover(r)
        BY <2>3, <3>1 DEF Recover, PairInv, Smooth
      <3>2. CASE RecoverSide(r)
        BY <2>3, <3>2 DEF RecoverSide, PairInv, Smooth
      <3> QED BY <1>4, <3>1, <3>2 DEF ReaderStep, Ask, EnsureAvailable, Open
    <2>5. Swapping' <=> Swapping
      BY <2>1 DEF Swapping
    <2> QED BY <2>1, <2>2, <2>3, <2>4, <2>5 DEF PairInv
  <1>5. CASE UNCHANGED vars
    BY <1>5 DEF vars, PairInv, Smooth, Swapping
  <1> QED BY <1>1, <1>2, <1>3, <1>4, <1>5 DEF Next

(* With one process syncing, the sidecars next to the database are its own
   between syncs that nothing went wrong in. *)
THEOREM SidecarsPaired == OneWriter => (Spec => []Paired)
  <1> SUFFICES ASSUME OneWriter PROVE Spec => []Paired
    OBVIOUS
  <1>1. Init => SwapInv /\ PairInv
    BY InitSwap, InitPair
  <1>2. (SwapInv /\ PairInv) /\ [Next]_vars => (SwapInv /\ PairInv)'
    BY SwapStep, PairStep
  <1>3. PairInv => Paired
    BY DEF PairInv, Paired, Smooth, Swapping, Procs
  <1> QED BY <1>1, <1>2, <1>3, PTL DEF Spec
=============================================================================
