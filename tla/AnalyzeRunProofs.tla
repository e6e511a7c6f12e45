-------------------------- MODULE AnalyzeRunProofs --------------------------
(***************************************************************************)
(* Proofs about one run of analyze: the types, that metadata without the   *)
(* dirty flag describes the database (TrustedMeta), which files embedding  *)
(* reaches (GeneratedAll) and which vectors a run keeps (EmbeddingsKept),  *)
(* for any number of files, versions, edits and aborts.                    *)
(* Then, for every graph, what the incremental write of a run leaves in    *)
(* the database and what its importer search finds (Writeback).            *)
(***************************************************************************)
EXTENDS AnalyzeRun, Writeback, TLAPS

----------------------------------------------------------------------------
(* Types                                                                    *)

LEMMA Facts ==
    /\ 0 \in Versions /\ 0 # Blank /\ Blank \notin Versions
    /\ Versions \subseteq 0 .. Blank
    /\ Nothing \in Snapshot
    /\ MaxVersion \in Nat /\ MaxEdits \in Nat /\ MaxAborts \in Nat
    /\ Options \subseteq OptionSet
  BY AnalyzeAssumption, SMT DEF AnalyzeAssumption, Versions, Blank, Nothing, Snapshot

LEMMA MetaFields ==
    ASSUME NEW m \in Meta
    PROVE  /\ m.commit \in Snapshot /\ m.hashes \in [Files -> 0 .. Blank]
           /\ m.dirty \in BOOLEAN /\ m.embedded \in BOOLEAN
           /\ MarkDirty(m) \in Meta
           /\ MarkDirty(m).dirty
           /\ MarkDirty(m).hashes = m.hashes
  <1>1. /\ m.commit \in Snapshot /\ m.hashes \in [Files -> 0 .. Blank]
        /\ m.dirty \in BOOLEAN /\ m.embedded \in BOOLEAN
    BY DEF Meta
  <1>2. MarkDirty(m) \in Meta
    BY DEF Meta, MarkDirty
  <1>3. MarkDirty(m).dirty /\ MarkDirty(m).hashes = m.hashes
    BY DEF Meta, MarkDirty
  <1> QED BY <1>1, <1>2, <1>3

LEMMA CompleteMetaType ==
    ASSUME TypeOK
    PROVE  /\ CompleteMeta \in Meta /\ ~CompleteMeta.dirty
           /\ CompleteMeta.hashes = hashes
  <1>1. hashes \in [Files -> 0 .. Blank]
    BY Facts DEF TypeOK, Snapshot
  <1>2. Embedded \in BOOLEAN
    BY DEF Embedded
  <1> QED BY <1>1, <1>2, SMT DEF CompleteMeta, Meta, TypeOK

LEMMA FastMetaType ==
    ASSUME TypeOK
    PROVE  /\ FastMeta \in Meta /\ ~FastMeta.dirty
           /\ FastMeta.hashes = [f \in Files |-> IF graph[f] = 0 THEN 0 ELSE Blank]
  <1>1. [f \in Files |-> IF graph[f] = 0 THEN 0 ELSE Blank] \in [Files -> 0 .. Blank]
    BY AnalyzeAssumption, SMT DEF AnalyzeAssumption, Blank
  <1> QED BY <1>1, SMT DEF FastMeta, Meta, TypeOK

LEMMA ReturnType ==
    ASSUME Return
    PROVE  /\ pc' \in Phases /\ opts' \in OptionSet /\ commit' \in Snapshot
           /\ base' \in Meta \union {NoMeta} /\ cache' \in Snapshot
           /\ graph' \in Snapshot /\ hashes' \in Snapshot /\ write' \in SUBSET Files
           /\ found' \in Snapshot /\ unrestored' \in SUBSET Files
  BY Facts, SMT DEF Return, Goto, Phases, Plain, OptionSet

LEMMA RestoredType ==
    ASSUME emb \in Snapshot, cache \in Snapshot, NEW failed
    PROVE  Restored(failed) \in Snapshot
  BY DEF Restored, Snapshot

LEMMA PartlyType ==
    ASSUME TypeOK, NEW S \in SUBSET Files, PartlyDone(S)
    PROVE  /\ rows' \in Snapshot /\ emb' \in Snapshot
           /\ shared' \in Snapshot \union {NoSnapshot}
  <1>0. Restored(Files \ S) \in Snapshot
    BY RestoredType DEF TypeOK
  <1> USE Facts DEF TypeOK, Snapshot
  <1>1. CASE pc = "delete"
    BY <1>1, SMT DEF PartlyDone
  <1>2. CASE pc = "load"
    BY <1>2, SMT DEF PartlyDone
  <1>3. CASE pc = "restore"
    <2>1. emb' = Restored(Files \ S) /\ UNCHANGED <<rows, shared>>
      BY <1>3 DEF PartlyDone
    <2> QED BY <1>0, <2>1
  <1>4. CASE pc = "embed" /\ Generate
    BY <1>4, SMT DEF PartlyDone
  <1>5. CASE pc \notin {"delete", "load", "restore"} /\ ~(pc = "embed" /\ Generate)
    BY <1>5, SMT DEF PartlyDone, db
  <1> QED BY <1>1, <1>2, <1>3, <1>4, <1>5

LEMMA InitType == Init => TypeOK
  <1> SUFFICES ASSUME Init PROVE TypeOK
    OBVIOUS
  <1>1. Plain \in OptionSet
    BY DEF Plain, OptionSet
  <1>2. edits \in 0 .. MaxEdits /\ aborts \in 0 .. MaxAborts
    BY Facts, SMT DEF Init
  <1>3. pc \in Phases
    BY DEF Init, Phases
  <1> QED BY <1>1, <1>2, <1>3, Facts DEF Init, TypeOK

LEMMA StepType ==
    ASSUME TypeOK, [Next]_vars
    PROVE  TypeOK'
  <1> USE Facts
  <1> USE DEF TypeOK
  <1>1. CASE CacheEmbeddings
    BY <1>1, SMT DEF CacheEmbeddings, Goto, Phases, tree, disk, db
  <1>2. CASE Pipeline
    BY <1>2, SMT DEF Pipeline, Goto, Phases, tree, disk, db, vectors
  <1>3. CASE Plan
    <2>1. hashes' \in Snapshot
      BY <1>3, SMT DEF Plan, HashesNow, Snapshot
    <2>2. Incremental => meta' \in Meta
      <3> SUFFICES ASSUME Incremental PROVE meta' \in Meta
        OBVIOUS
      <3>1. base \in Meta
        BY DEF Incremental
      <3>2. meta' = MarkDirty(base)
        BY <1>3 DEF Plan
      <3>3. MarkDirty(base) \in Meta
        BY <3>1, MetaFields
      <3> QED BY <3>2, <3>3
    <2>3. meta' \in Meta \union {NoMeta}
      BY <1>3, <2>2 DEF Plan
    <2>4. /\ rows' \in Snapshot /\ emb' \in Snapshot /\ spoiled' \in BOOLEAN
          /\ shared' \in Snapshot \union {NoSnapshot}
      BY <1>3 DEF Plan, db
    <2>5. pc' \in Phases
      BY <1>3 DEF Plan, Goto, Phases
    <2> QED BY <1>3, <2>1, <2>3, <2>4, <2>5 DEF Plan, tree, vectors
  <1>4. CASE Open
    BY <1>4, SMT DEF Open, Goto, Phases, tree, disk, db, local, vectors
  <1>5. ASSUME NEW drawnIn \in SUBSET Files, DeleteRows(drawnIn) PROVE TypeOK'
    <2>1. rows' \in Snapshot
      BY <1>5, SMT DEF DeleteRows, Snapshot
    <2>2. write' \in SUBSET Files
      BY <1>5, SMT DEF DeleteRows, ToWrite
    <2> QED BY <1>5, <2>1, <2>2, SMT DEF DeleteRows, Goto, Phases, tree, vectors
  <1>6. CASE LoadRows
    <2>1. rows' \in Snapshot
      BY <1>6, SMT DEF LoadRows, Snapshot
    <2> QED BY <1>6, <2>1, SMT DEF LoadRows, Goto, Phases, tree, local, vectors
  <1>7. CASE RestoreEmbeddings
    <2>1. emb' \in Snapshot /\ cache' \in Snapshot
      BY <1>7, SMT DEF RestoreEmbeddings, Restored, Snapshot
    <2>2. unrestored' \in SUBSET Files
      BY <1>7, SMT DEF RestoreEmbeddings, Absent
    <2> QED BY <1>7, <2>1, <2>2, SMT DEF RestoreEmbeddings, Goto, Phases, tree
  <1>8. CASE GenerateEmbeddings
    <2>1. emb' \in Snapshot
      BY <1>8, SMT DEF GenerateEmbeddings, StoreVectors, Snapshot
    <2> QED BY <1>8, <2>1, SMT DEF GenerateEmbeddings, Goto, Phases, tree, local, vectors
  <1>9. CASE EmbeddingFails \/ EmbeddingLost
    <2>1. CASE EmbeddingFails
      BY <2>1, PartlyType, ReturnType, SMT DEF EmbeddingFails, Stop, tree
    <2>2. CASE EmbeddingLost
      BY <2>2, ReturnType, SMT DEF EmbeddingLost, Stop, tree, db
    <2> QED BY <1>9, <2>1, <2>2
  <1>10. CASE SaveMeta
    <2>1. meta' \in Meta /\ spoiled' \in BOOLEAN
      BY <1>10, CompleteMetaType, FastMetaType DEF SaveMeta
    <2> QED BY <1>10, <2>1, SMT DEF SaveMeta, Goto, Phases, tree, db, local, vectors
  <1>11. CASE Register
    BY <1>11, ReturnType, SMT DEF Register, tree, db
  <1>12. ASSUME NEW o \in Options, Start(o) PROVE TypeOK'
    <2>1. [o EXCEPT !.force = Forced(o, meta)] \in OptionSet
      <3>1. Forced(o, meta) \in BOOLEAN
        BY DEF Forced
      <3> QED BY <3>1, SMT DEF OptionSet
    <2> QED BY <1>12, <2>1, SMT DEF Start, Goto, Phases, tree, disk, db, vectors
  <1>13. CASE Abort
    BY <1>13, PartlyType, ReturnType, SMT DEF Abort, Stop, tree
  <1>14. ASSUME NEW f \in Files, NEW v \in Versions, Edit(f, v) PROVE TypeOK'
    <2>1. work' \in Snapshot
      BY <1>14, SMT DEF Edit, Snapshot
    <2> QED BY <1>14, <2>1, SMT DEF Edit, disk, db, local, vectors
  <1>15. CASE Commit
    BY <1>15, SMT DEF Commit, disk, db, local, vectors
  <1>16. CASE UNCHANGED vars
    BY <1>16, SMT DEF vars, tree, disk, db, local, vectors
  <1> QED BY <1>1, <1>2, <1>3, <1>4, <1>5, <1>6, <1>7, <1>8, <1>9, <1>10, <1>11, <1>12,
             <1>13, <1>14, <1>15, <1>16 DEF Next, Step, Run

(* Every variable keeps its type. *)
THEOREM TypeCorrect == Spec => []TypeOK
  BY InitType, StepType, PTL DEF Spec

----------------------------------------------------------------------------
(* Metadata without the dirty flag describes the database                   *)

Writing == pc \in {"open", "delete", "load", "restore", "embed"} \/ (pc = "save" /\ ~opts.fast)

(* A run that is not forced found no dirty flag. *)
NotForced == (pc # "idle" /\ ~opts.force /\ base # NoMeta) => ~base.dirty

BaseIsMeta == pc \in {"cache", "pipeline", "plan"} => base = meta

OnlySavesFast == pc \in {"plan", "open", "delete", "load", "restore", "embed"} => ~opts.fast

(* While rows are missing the flag is set, or the history says so. *)
FlagSet == (Writing /\ Incremental) => (meta # NoMeta /\ meta.dirty)
RebuildSeen == (Writing /\ ~Incremental) => spoiled

(* What has been achieved before the rows are deleted, before they are
   loaded, and after that. *)
BeforeDelete == (pc \in {"open", "delete"} /\ Incremental /\ ~spoiled) => Agrees(base)

BeforeLoad ==
    (pc = "load" /\ Incremental /\ ~spoiled) =>
        \A f \in Files : f \notin write => rows[f] = hashes[f]

AfterLoad ==
    (pc \in {"restore", "embed"} \/ (pc = "save" /\ ~opts.fast)) =>
        /\ shared = graph
        /\ (graph = hashes /\ (Incremental => ~spoiled)) => rows = hashes

MetaInv == /\ TypeOK /\ NotForced /\ BaseIsMeta /\ OnlySavesFast /\ FlagSet /\ RebuildSeen
           /\ BeforeDelete /\ BeforeLoad /\ AfterLoad /\ TrustedMeta

LEMMA SameIncremental ==
    ASSUME UNCHANGED <<opts, base, graph>>
    PROVE  Incremental' = Incremental
  BY DEF Incremental

LEMMA SameAgrees ==
    ASSUME UNCHANGED <<rows, shared>>, NEW m
    PROVE  Agrees(m)' = Agrees(m)
  BY DEF Agrees

(* A step that leaves the run's decisions, the metadata and the file rows
   alone, and the phase within the same stage. *)
LEMMA QuietStep ==
    ASSUME MetaInv, UNCHANGED <<opts, base, graph, hashes, write, meta, rows, shared, spoiled>>,
           \/ pc' = pc
           \/ pc = "cache" /\ pc' = "pipeline"
           \/ pc = "open" /\ pc' = IF Incremental THEN "delete" ELSE "load"
           \/ pc = "restore" /\ pc' = "embed"
           \/ pc = "embed" /\ pc' = "save"
    PROVE  /\ NotForced' /\ BaseIsMeta' /\ OnlySavesFast' /\ FlagSet' /\ RebuildSeen'
           /\ BeforeDelete' /\ BeforeLoad' /\ AfterLoad' /\ TrustedMeta'
  <1>1. Incremental' = Incremental
    BY SameIncremental
  <1>2. Agrees(base)' = Agrees(base) /\ Agrees(meta)' = Agrees(meta)
    BY DEF Agrees
  <1>3. NotForced' /\ BaseIsMeta' /\ OnlySavesFast'
    BY DEF MetaInv, NotForced, BaseIsMeta, OnlySavesFast
  <1>4. FlagSet' /\ RebuildSeen'
    BY <1>1 DEF MetaInv, FlagSet, RebuildSeen, Writing, OnlySavesFast
  <1>5. BeforeDelete'
    BY <1>1, <1>2 DEF MetaInv, BeforeDelete
  <1>6. BeforeLoad'
    BY <1>1 DEF MetaInv, BeforeLoad
  <1>7. AfterLoad'
    BY <1>1 DEF MetaInv, AfterLoad
  <1>8. TrustedMeta'
    BY <1>2 DEF MetaInv, TrustedMeta
  <1> QED BY <1>3, <1>4, <1>5, <1>6, <1>7, <1>8

(* A run that stops leaves whatever it did to the database behind the flag,
   or behind the history. *)
LEMMA StopStep ==
    ASSUME MetaInv, Stop, NEW S \in SUBSET Files, PartlyDone(S)
    PROVE  /\ NotForced' /\ BaseIsMeta' /\ OnlySavesFast' /\ FlagSet' /\ RebuildSeen'
           /\ BeforeDelete' /\ BeforeLoad' /\ AfterLoad' /\ TrustedMeta'
  <1>1. pc' = "idle" /\ UNCHANGED <<meta, spoiled>>
    BY DEF Stop, Return, Goto
  <1>2. TrustedMeta'
    <2>1. CASE pc \in {"delete", "load"}
      <3>1. (meta # NoMeta /\ meta.dirty) \/ spoiled
        BY <2>1 DEF MetaInv, FlagSet, RebuildSeen, Writing
      <3> QED BY <1>1, <3>1 DEF TrustedMeta
    <2>2. CASE pc \notin {"delete", "load"}
      <3>1. UNCHANGED <<rows, shared>>
        BY <2>2 DEF PartlyDone, db
      <3> QED BY <1>1, <3>1 DEF MetaInv, TrustedMeta, Agrees
    <2> QED BY <2>1, <2>2
  <1> QED BY <1>1, <1>2 DEF NotForced, BaseIsMeta, OnlySavesFast, FlagSet, RebuildSeen, Writing,
                            BeforeDelete, BeforeLoad, AfterLoad

LEMMA InitMeta == Init => MetaInv
  BY InitType DEF Init, MetaInv, NotForced, BaseIsMeta, OnlySavesFast, FlagSet, RebuildSeen,
                  Writing, BeforeDelete, BeforeLoad, AfterLoad, TrustedMeta

LEMMA MetaStep ==
    ASSUME MetaInv, [Next]_vars
    PROVE  MetaInv'
  <1>0. TypeOK'
    BY StepType DEF MetaInv
  <1> DEFINE Parts == /\ NotForced' /\ BaseIsMeta' /\ OnlySavesFast' /\ FlagSet' /\ RebuildSeen'
                      /\ BeforeDelete' /\ BeforeLoad' /\ AfterLoad' /\ TrustedMeta'
  <1> SUFFICES Parts
    BY <1>0 DEF MetaInv
  <1> USE DEF MetaInv
  <1>1. CASE CacheEmbeddings
    BY <1>1, QuietStep DEF CacheEmbeddings, Goto, disk, db
  <1>2. CASE Pipeline
    BY <1>2 DEF Pipeline, Goto, disk, db, NotForced, BaseIsMeta, OnlySavesFast, FlagSet,
                RebuildSeen, Writing, BeforeDelete, BeforeLoad, AfterLoad, TrustedMeta, Agrees
  <1>3. CASE Plan
    <2>1. /\ pc = "plan" /\ pc' = "open" /\ ~opts.fast /\ base = meta
          /\ UNCHANGED <<opts, base, graph, write>>
      BY <1>3 DEF Plan, Goto, OnlySavesFast, BaseIsMeta
    <2>2. Incremental' = Incremental
      BY <2>1, SameIncremental
    <2>3. NotForced' /\ BaseIsMeta' /\ OnlySavesFast' /\ BeforeLoad' /\ AfterLoad'
      BY <2>1 DEF NotForced, BaseIsMeta, OnlySavesFast, BeforeLoad, AfterLoad
    <2>4. CASE Incremental
      <3>1. base \in Meta /\ ~base.dirty
        BY <2>1, <2>4 DEF TypeOK, Incremental, NotForced
      <3>2. meta' = MarkDirty(base) /\ UNCHANGED <<rows, shared, spoiled>>
        BY <1>3, <2>4 DEF Plan, db
      <3>3. meta' \in Meta /\ meta'.dirty
        BY <3>1, <3>2, MetaFields
      <3>4. meta' # NoMeta
        BY <3>3, NoMetaAssumption
      <3>5. FlagSet' /\ RebuildSeen' /\ TrustedMeta'
        BY <2>2, <2>4, <3>3, <3>4 DEF FlagSet, RebuildSeen, TrustedMeta
      <3>6. ~spoiled => Agrees(base)
        BY <2>1, <3>1, NoMetaAssumption DEF TrustedMeta
      <3>7. Agrees(base)' = Agrees(base)
        BY <2>1, <3>2 DEF Agrees
      <3>8. BeforeDelete'
        BY <3>2, <3>6, <3>7 DEF BeforeDelete
      <3> QED BY <2>3, <3>5, <3>8
    <2>5. CASE ~Incremental
      <3>1. spoiled'
        BY <1>3, <2>5 DEF Plan
      <3> QED BY <2>2, <2>3, <2>5, <3>1
              DEF FlagSet, RebuildSeen, TrustedMeta, BeforeDelete
    <2> QED BY <2>4, <2>5
  <1>4. CASE Open
    BY <1>4, QuietStep DEF Open, Goto, disk, db, local
  <1>5. ASSUME NEW drawnIn \in SUBSET Files, DeleteRows(drawnIn) PROVE Parts
    <2>1. /\ pc = "delete" /\ pc' = "load"
          /\ UNCHANGED <<opts, base, graph, hashes, meta, spoiled>>
      BY <1>5 DEF DeleteRows, Goto
    <2>2. Incremental' = Incremental
      BY <2>1, SameIncremental
    <2>3. NotForced' /\ BaseIsMeta' /\ OnlySavesFast' /\ BeforeDelete' /\ AfterLoad'
      BY <2>1 DEF NotForced, BaseIsMeta, OnlySavesFast, BeforeDelete, AfterLoad
    <2>4. FlagSet' /\ RebuildSeen'
      BY <2>1, <2>2 DEF FlagSet, RebuildSeen, Writing
    <2>5. TrustedMeta'
      BY <2>1 DEF TrustedMeta, FlagSet, RebuildSeen, Writing
    <2>6. BeforeLoad'
      <3> SUFFICES ASSUME Incremental, ~spoiled, NEW f \in Files, f \notin write'
                   PROVE  rows'[f] = hashes[f]
        BY <2>1, <2>2 DEF BeforeLoad
      <3>1. Agrees(base)
        BY <2>1 DEF BeforeDelete
      <3>2. f \notin ToWrite
        BY <1>5 DEF DeleteRows
      <3>3. rows'[f] = IF f \in Deleted THEN 0 ELSE rows[f]
        BY <1>5 DEF DeleteRows
      <3>4. hashes[f] \in Versions
        BY DEF TypeOK, Snapshot
      <3>5. CASE hashes[f] = 0
        BY <3>1, <3>3, <3>5, Facts DEF Deleted, Agrees
      <3>6. CASE hashes[f] # 0
        <4>1. base.hashes[f] = hashes[f] /\ f \notin Deleted
          BY <3>2, <3>6 DEF ToWrite, Deleted
        <4> QED BY <3>1, <3>3, <3>4, <4>1, Facts DEF Agrees
      <3> QED BY <3>5, <3>6
    <2> QED BY <2>3, <2>4, <2>5, <2>6
  <1>6. CASE LoadRows
    <2>1. /\ pc = "load" /\ pc' = "restore" /\ shared' = graph
          /\ rows' = [f \in Files |-> IF Incremental /\ f \notin write THEN rows[f] ELSE graph[f]]
          /\ UNCHANGED <<opts, base, graph, hashes, write, meta, spoiled>>
      BY <1>6 DEF LoadRows, Goto, local
    <2>2. Incremental' = Incremental
      BY <2>1, SameIncremental
    <2>3. NotForced' /\ BaseIsMeta' /\ OnlySavesFast' /\ BeforeDelete' /\ BeforeLoad'
      BY <2>1 DEF NotForced, BaseIsMeta, OnlySavesFast, BeforeDelete, BeforeLoad
    <2>4. FlagSet' /\ RebuildSeen'
      BY <2>1, <2>2 DEF FlagSet, RebuildSeen, Writing
    <2>5. TrustedMeta'
      BY <2>1 DEF TrustedMeta, FlagSet, RebuildSeen, Writing
    <2>6. AfterLoad'
      <3> SUFFICES ASSUME graph = hashes, Incremental => ~spoiled
                   PROVE  rows' = hashes
        BY <2>1, <2>2 DEF AfterLoad
      <3>1. ASSUME NEW f \in Files PROVE rows'[f] = hashes[f]
        BY <2>1 DEF BeforeLoad
      <3>2. hashes = [f \in Files |-> hashes[f]]
        BY DEF TypeOK, Snapshot
      <3>3. rows' = [f \in Files |-> rows'[f]]
        BY <2>1
      <3> QED BY <3>1, <3>2, <3>3
    <2> QED BY <2>3, <2>4, <2>5, <2>6
  <1>7. CASE RestoreEmbeddings
    BY <1>7, QuietStep DEF RestoreEmbeddings, Goto
  <1>8. CASE GenerateEmbeddings
    BY <1>8, QuietStep DEF GenerateEmbeddings, Goto, local
  <1>9. CASE EmbeddingFails \/ EmbeddingLost
    <2>1. ASSUME EmbeddingLost PROVE PartlyDone({}) /\ Stop
      BY <2>1 DEF EmbeddingLost, PartlyDone
    <2> QED BY <1>9, <2>1, StopStep DEF EmbeddingFails
  <1>10. CASE SaveMeta
    <2>1. /\ pc = "save" /\ pc' = "register" /\ UNCHANGED <<opts, base, graph, hashes, rows, shared>>
      BY <1>10 DEF SaveMeta, Goto, local, db
    <2>2. NotForced' /\ BaseIsMeta' /\ OnlySavesFast' /\ FlagSet' /\ RebuildSeen'
          /\ BeforeDelete' /\ BeforeLoad' /\ AfterLoad'
      BY <2>1 DEF NotForced, BaseIsMeta, OnlySavesFast, FlagSet, RebuildSeen, Writing,
                  BeforeDelete, BeforeLoad, AfterLoad
    <2>3. CASE opts.fast
      <3>1. meta' = FastMeta /\ (~spoiled' => \A f \in Files : rows[f] # 0 => graph[f] # 0)
        BY <1>10, <2>3 DEF SaveMeta
      <3>2. \A f \in Files : meta'.hashes[f] = IF graph[f] = 0 THEN 0 ELSE Blank
        BY <3>1, FastMetaType
      <3>3. ~spoiled' => Agrees(meta)'
        BY <2>1, <3>1, <3>2, Facts DEF Agrees
      <3> QED BY <2>2, <3>3 DEF TrustedMeta
    <2>4. CASE ~opts.fast
      <3>1. meta' = CompleteMeta /\ (~spoiled' => graph = hashes /\ (Incremental => ~spoiled))
        BY <1>10, <2>4 DEF SaveMeta
      <3>2. meta'.hashes = hashes
        BY <3>1, CompleteMetaType
      <3>3. ~spoiled' => rows = hashes /\ shared = hashes
        BY <2>1, <2>4, <3>1 DEF AfterLoad
      <3>4. ~spoiled' => Agrees(meta)'
        BY <2>1, <3>2, <3>3 DEF Agrees
      <3> QED BY <2>2, <3>4 DEF TrustedMeta
    <2> QED BY <2>3, <2>4
  <1>11. CASE Register
    <2>1. pc' = "idle" /\ UNCHANGED <<meta, rows, shared, spoiled>>
      BY <1>11 DEF Register, Return, Goto, db
    <2> QED BY <2>1 DEF NotForced, BaseIsMeta, OnlySavesFast, FlagSet, RebuildSeen, Writing,
                        BeforeDelete, BeforeLoad, AfterLoad, TrustedMeta, Agrees
  <1>12. ASSUME NEW o \in Options, Start(o) PROVE Parts
    <2>1. /\ pc' = "cache" /\ base' = meta /\ UNCHANGED <<meta, rows, shared, spoiled>>
          /\ opts' = [o EXCEPT !.force = Forced(o, meta)]
      BY <1>12 DEF Start, Goto, disk, db
    <2>2. opts'.force = Forced(o, meta)
      BY <2>1, Facts DEF OptionSet
    <2>3. NotForced'
      BY <2>1, <2>2 DEF NotForced, Forced
    <2> QED BY <2>1, <2>3 DEF BaseIsMeta, OnlySavesFast, FlagSet, RebuildSeen, Writing,
                        BeforeDelete, BeforeLoad, AfterLoad, TrustedMeta, Agrees
  <1>13. CASE Abort
    BY <1>13, StopStep DEF Abort
  <1>14. ASSUME NEW f \in Files, NEW v \in Versions, Edit(f, v) PROVE Parts
    BY <1>14, QuietStep DEF Edit, disk, db, local
  <1>15. CASE Commit
    BY <1>15, QuietStep DEF Commit, disk, db, local
  <1>16. CASE UNCHANGED vars
    BY <1>16, QuietStep DEF vars, disk, db, local
  <1> QED BY <1>1, <1>2, <1>3, <1>4, <1>5, <1>6, <1>7, <1>8, <1>9, <1>10, <1>11, <1>12,
             <1>13, <1>14, <1>15, <1>16 DEF Next, Step, Run

(* For every number of files, edits and aborted runs, metadata without the
   dirty flag describes the database. *)
THEOREM MetaTrusted == Spec => []TrustedMeta
  <1>1. Init => MetaInv
    BY InitMeta
  <1>2. MetaInv /\ [Next]_vars => MetaInv'
    BY MetaStep
  <1>3. MetaInv => TrustedMeta
    BY DEF MetaInv
  <1> QED BY <1>1, <1>2, <1>3, PTL DEF Spec

----------------------------------------------------------------------------
(* Embeddings are kept and made                                             *)

Unread == pc \in {"idle", "cache"} => cache = Nothing /\ found = Nothing

(* Until the restoration the copies are what was read. *)
Copied == pc \notin {"embed", "save", "register"} => cache = found

(* While the old database is there it holds what was read from it. *)
Held == (pc \in {"pipeline", "plan"} \/ (pc = "save" /\ opts.fast)) =>
            \A f \in Files : found[f] # 0 => emb[f] = found[f]

(* From the wipe to the restoration a vector is the cached one or missing,
   and it is missing only from a database that was wiped. *)
Missing == pc \in {"open", "delete", "load", "restore"} =>
            \A f \in Files : found[f] # 0 =>
                emb[f] = found[f] \/ (~Incremental /\ emb[f] = 0)

(* After the restoration it is back, unless its batch failed or the copies
   were discarded. *)
Back == pc = "embed" =>
            /\ cache \in {found, Nothing}
            /\ \A f \in Files : found[f] # 0 =>
                    \/ emb[f] = found[f]
                    \/ Unrestored(f)
                    \/ ~Incremental /\ cache # found

EmbedParts == /\ Unread /\ Copied /\ Held /\ Missing /\ Back /\ OnlySavesFast
              /\ EmbeddingsKept /\ GeneratedAll

EmbedInv == TypeOK /\ EmbedParts

LEMMA EmbedQuiet ==
    ASSUME EmbedInv, UNCHANGED <<opts, base, cache, found, unrestored, emb>>,
           \/ pc' = pc /\ UNCHANGED <<rows, graph>>
           \/ pc = "idle" /\ pc' = "cache"
           \/ pc = "cache" /\ pc' = "pipeline"
           \/ pc = "pipeline" /\ pc' = IF opts.fast THEN "save" ELSE "plan"
           \/ /\ pc \in {"open", "delete", "load"} /\ pc' \in {"delete", "load", "restore"}
              /\ UNCHANGED graph
           \/ pc = "save" /\ pc' = "register"
    PROVE  EmbedParts'
  <1> USE DEF EmbedInv, EmbedParts
  <1>1. Unread' /\ Copied' /\ OnlySavesFast'
    BY DEF Unread, Copied, OnlySavesFast
  <1>2. \A f \in Files : Nothing[f] = 0
    BY DEF Nothing
  <1>3. Held' /\ EmbeddingsKept' /\ Missing' /\ Back' /\ GeneratedAll'
    <2>1. CASE pc' = pc /\ UNCHANGED <<rows, graph>>
      <3>1. Incremental' = Incremental /\ Embeds' = Embeds
        BY <2>1, SameIncremental DEF Embeds, Generate, ForceRegenerate, HasExisting
      <3>2. \A f \in Files : Unrestored(f)' = Unrestored(f)
        BY <3>1 DEF Unrestored
      <3>3. Held' /\ Missing' /\ Back' /\ EmbeddingsKept'
        BY <2>1, <3>1, <3>2 DEF Held, Missing, Back, EmbeddingsKept
      <3>4. GeneratedAll'
        BY <2>1, <3>1, <3>2 DEF GeneratedAll
      <3> QED BY <3>3, <3>4
    <2>2. CASE pc \in {"open", "delete", "load"} /\ pc' \in {"delete", "load", "restore"}
               /\ UNCHANGED graph
      <3>1. Incremental' = Incremental
        BY <2>2, SameIncremental
      <3> QED BY <2>2, <3>1 DEF Held, Missing, Back, EmbeddingsKept, GeneratedAll
    <2>3. CASE pc = "pipeline" /\ pc' = IF opts.fast THEN "save" ELSE "plan"
      BY <2>3 DEF Held, Missing, Back, EmbeddingsKept, GeneratedAll
    <2>4. CASE pc \in {"idle", "cache", "save"} /\ pc' \in {"cache", "pipeline", "register"}
      BY <1>2, <2>4 DEF Unread, Held, Missing, Back, EmbeddingsKept, GeneratedAll
    <2> QED BY <2>1, <2>2, <2>3, <2>4
  <1> QED BY <1>1, <1>3

LEMMA EmbedEnd ==
    ASSUME Return
    PROVE  EmbedParts'
  BY DEF Return, Goto, EmbedParts, Unread, Copied, Held, Missing, Back, OnlySavesFast,
         EmbeddingsKept, GeneratedAll

LEMMA InitEmbed == Init => EmbedInv
  BY InitType DEF Init, EmbedInv, EmbedParts, Unread, Copied, Held, Missing, Back,
                  OnlySavesFast, EmbeddingsKept, GeneratedAll

(* The restoration puts every copy back that no failed batch keeps out. *)
LEMMA RestoreStep ==
    ASSUME EmbedInv, RestoreEmbeddings
    PROVE  EmbedParts'
  <1>1. /\ pc = "restore" /\ pc' = "embed" /\ UNCHANGED <<opts, base, graph, found, rows>>
        /\ ~opts.fast /\ cache = found
    BY DEF RestoreEmbeddings, Goto, EmbedInv, EmbedParts, OnlySavesFast, Copied
  <1>2. Incremental' = Incremental
    BY <1>1, SameIncremental
  <1>3. Unread' /\ Copied' /\ Held' /\ Missing' /\ OnlySavesFast' /\ EmbeddingsKept' /\ GeneratedAll'
    BY <1>1 DEF Unread, Copied, Held, Missing, OnlySavesFast, EmbeddingsKept, GeneratedAll
  <1>4. ASSUME NEW f \in Files, found[f] # 0
        PROVE  emb[f] = found[f] \/ (~Incremental /\ emb[f] = 0)
    BY <1>1, <1>4 DEF EmbedInv, EmbedParts, Missing
  <1>5. Back'
    <2>1. ASSUME NEW failed \in SUBSET Absent, emb' = Restored(failed), unrestored' = failed,
                 UNCHANGED cache
          PROVE  Back'
      <3>1. ASSUME NEW f \in Files, found[f] # 0
            PROVE  emb'[f] = found[f] \/ (~Incremental /\ f \in failed)
        <4>1. emb'[f] = IF emb[f] = 0 /\ f \notin failed THEN cache[f] ELSE emb[f]
          BY <2>1 DEF Restored
        <4> QED BY <1>1, <1>4, <3>1, <4>1
      <3> QED BY <1>1, <1>2, <2>1, <3>1 DEF Back, Unrestored
    <2>2. ASSUME cache # Nothing, cache' = Nothing, UNCHANGED emb
          PROVE  Back'
      BY <1>1, <1>2, <1>4, <2>2 DEF Back
    <2> QED BY <2>1, <2>2 DEF RestoreEmbeddings
  <1> QED BY <1>3, <1>5 DEF EmbedParts

(* What the embedder skips has a vector, unless its restoration failed. *)
LEMMA GenerateStep ==
    ASSUME EmbedInv, GenerateEmbeddings
    PROVE  EmbedParts'
  <1>1. /\ pc = "embed" /\ pc' = "save" /\ ~opts.fast
        /\ UNCHANGED <<opts, base, graph, cache, found, unrestored, rows>>
    BY DEF GenerateEmbeddings, Goto, local, vectors, EmbedInv, EmbedParts, OnlySavesFast
  <1>2. Unread' /\ Copied' /\ Held' /\ Missing' /\ Back' /\ OnlySavesFast'
    BY <1>1 DEF Unread, Copied, Held, Missing, Back, OnlySavesFast
  <1>3. /\ Incremental' = Incremental
        /\ \A f \in Files : Unrestored(f)' = Unrestored(f)
    BY <1>1, SameIncremental DEF Unrestored
  <1>4. cache \in {found, Nothing}
    BY <1>1 DEF EmbedInv, EmbedParts, Back
  <1>5. ASSUME NEW f \in Files, found[f] # 0
        PROVE  emb[f] = found[f] \/ Unrestored(f) \/ (~Incremental /\ cache # found)
    BY <1>1, <1>5 DEF EmbedInv, EmbedParts, Back
  <1>6. \/ Generate /\ StoreVectors(ToEmbed)
        \/ (Generate => "cap" \in Events) /\ emb' = emb
    BY DEF GenerateEmbeddings
  <1>7. EmbeddingsKept'
    <2> SUFFICES ASSUME NEW f \in Files, found[f] # 0
                 PROVE  emb'[f] # 0 \/ Unrestored(f) \/ (~Incremental /\ cache # found)
      BY <1>1, <1>3 DEF EmbeddingsKept
    <2>1. \A g \in ToEmbed : rows[g] # 0
      BY DEF ToEmbed
    <2>2. emb[f] # 0 => emb'[f] # 0
      BY <1>6, <2>1 DEF StoreVectors
    <2>3. emb[f] = found[f] => emb'[f] # 0
      BY <2>2
    <2> QED BY <1>5, <2>3
  <1>8. GeneratedAll'
    <2> SUFFICES ASSUME Embeds', NEW f \in Files, rows[f] # 0
                 PROVE  emb'[f] = rows[f] \/ (Unrestored(f) /\ cache[f] = rows[f])
      BY <1>1, <1>3 DEF GeneratedAll
    <2>1. Embeds
      BY <1>1 DEF Embeds, Generate, ForceRegenerate, HasExisting
    <2>2. emb' = [g \in Files |-> IF g \in ToEmbed THEN rows[g] ELSE emb[g]]
      BY <1>6, <2>1 DEF Embeds, StoreVectors
    <2>3. CASE f \in ToEmbed
      BY <2>2, <2>3
    <2>4. CASE f \notin ToEmbed
      <3>1. cache[f] = rows[f]
        BY <2>4 DEF ToEmbed
      <3>2. cache = found /\ found[f] # 0
        BY <1>4, <3>1 DEF Nothing
      <3>3. emb[f] = found[f] \/ Unrestored(f)
        BY <1>5, <3>2
      <3> QED BY <2>2, <2>4, <3>1, <3>2, <3>3
    <2> QED BY <2>3, <2>4
  <1> QED BY <1>2, <1>7, <1>8 DEF EmbedParts

LEMMA EmbedStep ==
    ASSUME EmbedInv, [Next]_vars
    PROVE  EmbedInv'
  <1>0. TypeOK'
    BY StepType DEF EmbedInv
  <1> SUFFICES EmbedParts'
    BY <1>0 DEF EmbedInv
  <1>1. CASE CacheEmbeddings
    <2>1. /\ pc = "cache" /\ pc' = "pipeline" /\ UNCHANGED <<opts, base, emb>>
          /\ \/ cache' = emb /\ found' = emb
             \/ UNCHANGED <<cache, found>>
      BY <1>1 DEF CacheEmbeddings, Goto, disk, db
    <2>2. cache = Nothing /\ found = Nothing
      BY <2>1 DEF EmbedInv, EmbedParts, Unread
    <2>3. Unread' /\ Copied' /\ Missing' /\ Back'
      BY <2>1, <2>2 DEF Unread, Copied, Missing, Back
    <2>4. OnlySavesFast' /\ EmbeddingsKept' /\ GeneratedAll'
      BY <2>1 DEF OnlySavesFast, EmbeddingsKept, GeneratedAll
    <2>5. Held'
      <3>1. \A f \in Files : Nothing[f] = 0
        BY DEF Nothing
      <3> QED BY <2>1, <2>2, <3>1 DEF Held
    <2> QED BY <2>3, <2>4, <2>5 DEF EmbedParts
  <1>2. CASE Pipeline
    BY <1>2, EmbedQuiet DEF Pipeline, Goto, disk, db, vectors
  <1>3. CASE Plan
    <2>1. /\ pc = "plan" /\ pc' = "open" /\ ~opts.fast /\ cache = found
          /\ UNCHANGED <<opts, base, graph, cache, found>>
      BY <1>3 DEF Plan, Goto, vectors, EmbedInv, EmbedParts, OnlySavesFast, Copied
    <2>2. Incremental' = Incremental
      BY <2>1, SameIncremental
    <2>3. emb' = IF Incremental THEN emb ELSE Nothing
      BY <1>3 DEF Plan, db
    <2>4. Unread' /\ Copied' /\ Held' /\ Back' /\ OnlySavesFast' /\ EmbeddingsKept' /\ GeneratedAll'
      BY <2>1 DEF Unread, Copied, Held, Back, OnlySavesFast, EmbeddingsKept, GeneratedAll
    <2>5. Missing'
      <3>1. \A f \in Files : Nothing[f] = 0
        BY DEF Nothing
      <3>2. \A f \in Files : found[f] # 0 => emb[f] = found[f]
        BY <2>1 DEF EmbedInv, EmbedParts, Held
      <3> QED BY <2>1, <2>2, <2>3, <3>1, <3>2 DEF Missing
    <2> QED BY <2>4, <2>5 DEF EmbedParts
  <1>4. CASE Open
    BY <1>4, EmbedQuiet DEF Open, Goto, disk, db, local, vectors
  <1>5. ASSUME NEW drawnIn \in SUBSET Files, DeleteRows(drawnIn) PROVE EmbedParts'
    BY <1>5, EmbedQuiet DEF DeleteRows, Goto, vectors
  <1>6. CASE LoadRows
    BY <1>6, EmbedQuiet DEF LoadRows, Goto, local, vectors
  <1>7. CASE RestoreEmbeddings
    BY <1>7, RestoreStep
  <1>8. CASE GenerateEmbeddings
    BY <1>8, GenerateStep
  <1>9. CASE EmbeddingFails \/ EmbeddingLost
    BY <1>9, EmbedEnd DEF EmbeddingFails, EmbeddingLost, Stop
  <1>10. CASE SaveMeta
    BY <1>10, EmbedQuiet DEF SaveMeta, Goto, local, db, vectors
  <1>11. CASE Register
    BY <1>11, EmbedEnd DEF Register
  <1>12. ASSUME NEW o \in Options, Start(o) PROVE EmbedParts'
    <2>1. pc = "idle" /\ pc' = "cache" /\ UNCHANGED <<cache, found>>
      BY <1>12 DEF Start, Goto, vectors
    <2> QED BY <2>1 DEF EmbedInv, EmbedParts, Unread, Copied, Held, Missing, Back,
                        OnlySavesFast, EmbeddingsKept, GeneratedAll
  <1>13. CASE Abort
    BY <1>13, EmbedEnd DEF Abort, Stop
  <1>14. ASSUME NEW f \in Files, NEW v \in Versions, Edit(f, v) PROVE EmbedParts'
    BY <1>14, EmbedQuiet DEF Edit, disk, db, local, vectors
  <1>15. CASE Commit
    BY <1>15, EmbedQuiet DEF Commit, disk, db, local, vectors
  <1>16. CASE UNCHANGED vars
    BY <1>16, EmbedQuiet DEF vars, disk, db, local, vectors
  <1> QED BY <1>1, <1>2, <1>3, <1>4, <1>5, <1>6, <1>7, <1>8, <1>9, <1>10, <1>11, <1>12,
             <1>13, <1>14, <1>15, <1>16 DEF Next, Step, Run

(* For every choice of options, interruption, failed batch and change of
   dimensions, a run that embeds to its end has given each file a vector of its
   present content, a file excepted whose current vector a failed batch kept
   out of the database the run had wiped. *)
THEOREM AllGenerated == Spec => []GeneratedAll
  <1>1. Init => EmbedInv
    BY InitEmbed
  <1>2. EmbedInv /\ [Next]_vars => EmbedInv'
    BY EmbedStep
  <1>3. EmbedInv => GeneratedAll
    BY DEF EmbedInv, EmbedParts
  <1> QED BY <1>1, <1>2, <1>3, PTL DEF Spec

(* No vector that was read from the old index is missing at the end of a run
   that did not wipe the database; where one did, only those are that a failed
   batch or a change of dimensions kept out. *)
THEOREM KeptEmbeddings == Spec => []EmbeddingsKept
  <1>1. Init => EmbedInv
    BY InitEmbed
  <1>2. EmbedInv /\ [Next]_vars => EmbedInv'
    BY EmbedStep
  <1>3. EmbedInv => EmbeddingsKept
    BY DEF EmbedInv, EmbedParts
  <1> QED BY <1>1, <1>2, <1>3, PTL DEF Spec

----------------------------------------------------------------------------
(* The importer search                                                      *)

(* A round that asks for the importers of every file known so far. *)
Round(lbug, seeds, X) == X \union QueryImporters(lbug, X \union seeds)

LEMMA ImportersOfUnion ==
    ASSUME NEW lbug, NEW S, NEW T
    PROVE  QueryImporters(lbug, S \union T)
             = QueryImporters(lbug, S) \union QueryImporters(lbug, T)
  BY DEF QueryImporters

(* Files whose importers are all writable need not be asked for again. *)
Asked(lbug, seeds, s) ==
    QueryImporters(lbug, (s.writable \union seeds) \ s.frontier) \subseteq s.writable

LEMMA FrontierRound ==
    ASSUME NEW lbug, NEW seeds, NEW s,
           s.frontier \subseteq s.writable \union seeds,
           Asked(lbug, seeds, s)
    PROVE  LET next == ExpandFrontier(lbug, s)
           IN  /\ next.writable = Round(lbug, seeds, s.writable)
               /\ next.frontier \subseteq next.writable \union seeds
               /\ Asked(lbug, seeds, next)
<1> DEFINE next == ExpandFrontier(lbug, s)
           drawn == QueryImporters(lbug, s.frontier) \ s.writable
           known == s.writable \union seeds
<1>1. next.writable = s.writable \union drawn /\ next.frontier = drawn
  BY DEF ExpandFrontier
<1>2. QueryImporters(lbug, known) \subseteq s.writable \union drawn
  <2>1. known = (known \ s.frontier) \union s.frontier
    OBVIOUS
  <2>2. QueryImporters(lbug, known)
          = QueryImporters(lbug, known \ s.frontier) \union QueryImporters(lbug, s.frontier)
    BY <2>1, ImportersOfUnion
  <2> QED BY <2>2 DEF Asked
<1>3. drawn \subseteq QueryImporters(lbug, known)
  <2>1. known = known \union s.frontier
    OBVIOUS
  <2>2. QueryImporters(lbug, s.frontier) \subseteq QueryImporters(lbug, known)
    BY <2>1, ImportersOfUnion
  <2> QED BY <2>2
<1>4. next.writable = Round(lbug, seeds, s.writable)
  BY <1>1, <1>2, <1>3 DEF Round
<1>5. Asked(lbug, seeds, next)
  <2> DEFINE rest == (next.writable \union seeds) \ next.frontier
  <2>1. known = rest \union known
    BY <1>1
  <2>2. QueryImporters(lbug, rest) \subseteq QueryImporters(lbug, known)
    BY <2>1, ImportersOfUnion
  <2> QED BY <2>2, <1>1, <1>2 DEF Asked
<1> QED BY <1>1, <1>4, <1>5

(* runFullAnalysis asks only for the importers of files it has just drawn in.
   Its four rounds draw in the same files as four rounds that ask for the
   importers of every writable file and every seed again. *)
THEOREM SearchLosesNothing ==
    ASSUME NEW lbug, NEW seeds, NEW toWrite, toWrite \subseteq seeds
    PROVE  WritableFiles(lbug, toWrite, seeds)
             = Round(lbug, seeds,
                 Round(lbug, seeds, Round(lbug, seeds, Round(lbug, seeds, toWrite))))
<1> DEFINE s0 == [writable |-> toWrite, frontier |-> seeds]
           s1 == ExpandFrontier(lbug, s0)
           s2 == ExpandFrontier(lbug, s1)
           s3 == ExpandFrontier(lbug, s2)
           s4 == ExpandFrontier(lbug, s3)
<1>0. /\ s0.writable = toWrite
      /\ s0.frontier \subseteq s0.writable \union seeds
      /\ Asked(lbug, seeds, s0)
  <2>1. (toWrite \union seeds) \ seeds = {}
    OBVIOUS
  <2>2. QueryImporters(lbug, {}) = {}
    BY DEF QueryImporters
  <2> QED BY <2>1, <2>2 DEF Asked
<1> HIDE DEF s0
<1>1. /\ s1.writable = Round(lbug, seeds, toWrite)
      /\ s1.frontier \subseteq s1.writable \union seeds
      /\ Asked(lbug, seeds, s1)
  BY <1>0, FrontierRound
<1> HIDE DEF s1
<1>2. /\ s2.writable = Round(lbug, seeds, s1.writable)
      /\ s2.frontier \subseteq s2.writable \union seeds
      /\ Asked(lbug, seeds, s2)
  BY <1>1, FrontierRound
<1> HIDE DEF s2
<1>3. /\ s3.writable = Round(lbug, seeds, s2.writable)
      /\ s3.frontier \subseteq s3.writable \union seeds
      /\ Asked(lbug, seeds, s3)
  BY <1>2, FrontierRound
<1> HIDE DEF s3
<1>4. s4.writable = Round(lbug, seeds, s3.writable)
  BY <1>3, FrontierRound
<1> HIDE DEF s4
<1>5. WritableFiles(lbug, toWrite, seeds) = s4.writable
  BY DEF WritableFiles, s0, s1, s2, s3, s4
<1> QED BY <1>1, <1>2, <1>3, <1>4, <1>5

(* No file to write is lost on the way to the effective write set. *)
LEMMA ToWriteIsWritten ==
    ASSUME NEW lbug, NEW g, NEW current, NEW stored, NEW rivals
    PROVE  FilesToWrite(current, stored)
             \subseteq EffectiveWriteSet(lbug, g, current, stored, rivals)
<1>1. ASSUME NEW s PROVE s.writable \subseteq ExpandFrontier(lbug, s).writable
  BY DEF ExpandFrontier
<1>2. ASSUME NEW W, NEW seeds PROVE W \subseteq WritableFiles(lbug, W, seeds)
  <2> DEFINE s0 == [writable |-> W, frontier |-> seeds]
             s1 == ExpandFrontier(lbug, s0)
             s2 == ExpandFrontier(lbug, s1)
             s3 == ExpandFrontier(lbug, s2)
  <2>1. W \subseteq s1.writable
    BY <1>1
  <2> HIDE DEF s1
  <2>2. W \subseteq s2.writable
    BY <1>1, <2>1
  <2> HIDE DEF s2
  <2>3. W \subseteq s3.writable
    BY <1>1, <2>2
  <2> HIDE DEF s3
  <2>4. W \subseteq ExpandFrontier(lbug, s3).writable
    BY <1>1, <2>3
  <2> QED BY <2>4 DEF WritableFiles, s1, s2, s3
<1> QED BY <1>2 DEF EffectiveWriteSet, ComputeEffectiveWriteSet

----------------------------------------------------------------------------
(* The write                                                                *)

(* What the two deletes leave: the nodes away from the files written and
   deleted, and the edges between them. *)
LEMMA ClearedKeeps ==
    ASSUME NEW lbug, NEW W, NEW deleted
    PROVE  LET left == Cleared(lbug, W, deleted)
               kept == Untouched(lbug, W \union deleted)
           IN  /\ Ids(left) = kept
               /\ \A i \in kept : left.row[i] = lbug.row[i]
               /\ Joined(lbug) =>
                    left.rels = {r \in lbug.rels : {r.source, r.target} \subseteq kept}
<1> DEFINE S == W \union deleted
           first == DeleteNodesForFiles(lbug, S)
           left == Cleared(lbug, W, deleted)
           kept == Untouched(lbug, S)
           gone == {i \in Ids(lbug) : ~GraphWide(lbug.row[i]) /\ lbug.row[i].file \in S}
           wide == {i \in Ids(first) : GraphWide(first.row[i])}
<1>1. /\ Ids(first) = Ids(lbug) \ gone
      /\ \A i \in Ids(lbug) \ gone : first.row[i] = lbug.row[i]
      /\ first.rels = {r \in lbug.rels : r.source \notin gone /\ r.target \notin gone}
  BY DEF DeleteNodesForFiles, DetachDelete, Ids
<1> HIDE DEF first
<1>2. /\ Ids(left) = Ids(first) \ wide
      /\ \A i \in Ids(first) \ wide : left.row[i] = first.row[i]
      /\ left.rels = {r \in first.rels : r.source \notin wide /\ r.target \notin wide}
  BY DEF Cleared, DeleteAllCommunitiesAndProcesses, DetachDelete, Ids, first
<1> HIDE DEF left
<1>3. Ids(first) \ wide = kept
  BY <1>1 DEF Untouched
<1>4. \A i \in kept : left.row[i] = lbug.row[i]
  BY <1>1, <1>2, <1>3
<1>5. ASSUME Joined(lbug)
      PROVE  left.rels = {r \in lbug.rels : {r.source, r.target} \subseteq kept}
  <2>1. \A r \in lbug.rels : r.source \in Ids(lbug) /\ r.target \in Ids(lbug)
    BY <1>5 DEF Joined
  <2>2. \A i \in Ids(lbug) : (i \notin gone /\ i \notin wide) <=> i \in kept
    BY <1>1, <1>3
  <2> HIDE DEF gone, wide, kept
  <2>3. left.rels = {r \in lbug.rels : /\ r.source \notin gone /\ r.target \notin gone
                                     /\ r.source \notin wide /\ r.target \notin wide}
    BY <1>1, <1>2
  <2> QED BY <2>1, <2>2, <2>3
<1> QED BY <1>2, <1>3, <1>4, <1>5 DEF left

(* What the extraction selects is what the deletes do not keep. *)
LEMMA WritableOrUntouched ==
    ASSUME NEW g, NEW W, NEW deleted, NoFile \notin W \union deleted,
           \A i \in Ids(g) : g.row[i].file \notin deleted
    PROVE  WritableIds(g, W) = Ids(g) \ Untouched(g, W \union deleted)
  BY DEF WritableIds, Untouched

(* The bulk load of an incremental run meets the rows of exactly those routes
   and tools that moved from a file left alone to one it writes, and no edge it
   is about to insert but at these: deletes and extraction get the same write
   set, so where none moved a COPY fails on no primary key and stores no edge
   twice. *)
THEOREM LoadMeetsOnlyMoved ==
    ASSUME NEW lbug, NEW g, NEW W, NEW deleted,
           Joined(lbug), SameNames(lbug, g), NoFile \notin W
    PROVE  LET left == Cleared(lbug, W, deleted)
               sub == ExtractChangedSubgraph(g, W)
               moved == MovedIn(lbug, g, W, deleted)
           IN  /\ RowConflicts(left, sub) = moved
               /\ \A r \in EdgeConflicts(left, sub) : r.source \in moved \/ r.target \in moved
<1> DEFINE left == Cleared(lbug, W, deleted)
           sub == ExtractChangedSubgraph(g, W)
           kept == Untouched(lbug, W \union deleted)
           wanted == WritableIds(g, W)
           moved == MovedIn(lbug, g, W, deleted)
<1>1. /\ Ids(left) = kept
      /\ left.rels = {r \in lbug.rels : {r.source, r.target} \subseteq kept}
  BY ClearedKeeps
<1>2. /\ Ids(sub) = wanted
      /\ sub.rels = {r \in g.rels : {r.source, r.target} \intersect wanted # {}}
  BY DEF ExtractChangedSubgraph, Ids
<1> HIDE DEF left, sub
<1>3. kept \intersect wanted = moved
  <2>1. ASSUME NEW i \in kept, i \in wanted PROVE i \in moved
    BY <2>1 DEF Untouched, WritableIds, SameNames, GraphWide, MovedIn
  <2>2. ASSUME NEW i \in moved PROVE i \in kept /\ i \in wanted
    <3>1. /\ i \in Ids(lbug) /\ i \in Ids(g) /\ lbug.row[i].label \in {"Route", "Tool"}
          /\ lbug.row[i].file \notin W \union deleted /\ g.row[i].file \in W
      BY <2>2 DEF MovedIn, SameNames, KeyNamed
    <3> QED BY <3>1 DEF Untouched, WritableIds, GraphWide
  <2> QED BY <2>1, <2>2
<1> HIDE DEF kept, wanted, moved
<1>4. RowConflicts(left, sub) = moved
  BY <1>1, <1>2, <1>3 DEF RowConflicts
<1>5. ASSUME NEW r \in EdgeConflicts(left, sub)
      PROVE  r.source \in moved \/ r.target \in moved
  <2>1. {r.source, r.target} \subseteq kept /\ {r.source, r.target} \intersect wanted # {}
    BY <1>1, <1>2 DEF EdgeConflicts
  <2> QED BY <1>3, <2>1
<1> QED BY <1>4, <1>5 DEF left, sub, moved

(* What a load puts on an empty database. *)
LEMMA RebuildIs ==
    ASSUME NEW g, IsGraph(g)
    PROVE  FullRebuild(g) = [row |-> g.row,
                             rels |-> {r \in g.rels : {r.source, r.target} \subseteq Ids(g)}]
<1>1. Ids(EmptyGraph) = {} /\ EmptyGraph.rels = {}
  BY DEF EmptyGraph, Ids
<1>2. [i \in Ids(EmptyGraph) \union Ids(g) |->
          IF i \in Ids(EmptyGraph) THEN EmptyGraph.row[i] ELSE g.row[i]] = g.row
  BY <1>1 DEF IsGraph
<1>3. EmptyGraph.rels \union
        {r \in g.rels : {r.source, r.target} \subseteq Ids(EmptyGraph) \union Ids(g)}
      = {r \in g.rels : {r.source, r.target} \subseteq Ids(g)}
  BY <1>1
<1> QED BY <1>2, <1>3 DEF FullRebuild, LoadGraphToLbug

(* An incremental write leaves the database a full rebuild would, where the
   graphs before and after agree away from the files written and deleted: same
   rows there, and same edges between them. *)
THEOREM IncrementalIsRebuild ==
    ASSUME NEW lbug, NEW g, NEW W, NEW deleted,
           IsGraph(g), Joined(lbug), NoFile \notin W \union deleted,
           \A i \in Ids(g) : g.row[i].file \notin deleted,
           SameRows(lbug, g, W \union deleted),
           SameEdges(lbug, g, W \union deleted)
    PROVE  IncrementalWrite(lbug, g, W, deleted) = FullRebuild(g)
<1> DEFINE left == Cleared(lbug, W, deleted)
           sub == ExtractChangedSubgraph(g, W)
           kept == Untouched(lbug, W \union deleted)
           wanted == WritableIds(g, W)
           row == [i \in Ids(left) \union Ids(sub) |->
                      IF i \in Ids(left) THEN left.row[i] ELSE sub.row[i]]
           rels == left.rels \union
                   {r \in sub.rels : {r.source, r.target} \subseteq Ids(left) \union Ids(sub)}
<1>1. /\ Ids(left) = kept
      /\ \A i \in kept : left.row[i] = lbug.row[i]
      /\ left.rels = {r \in lbug.rels : {r.source, r.target} \subseteq kept}
  BY ClearedKeeps
<1>2. /\ Ids(sub) = wanted
      /\ \A i \in wanted : sub.row[i] = g.row[i]
      /\ sub.rels = {r \in g.rels : {r.source, r.target} \intersect wanted # {}}
  BY DEF ExtractChangedSubgraph, Ids
<1> HIDE DEF left, sub
<1>3. /\ kept = Untouched(g, W \union deleted)
      /\ \A i \in kept : lbug.row[i] = g.row[i]
  BY DEF SameRows
<1>4. /\ wanted = Ids(g) \ kept
      /\ kept \subseteq Ids(g)
  BY <1>3, WritableOrUntouched DEF Untouched
<1>5. \A r \in lbug.rels \union g.rels :
        {r.source, r.target} \subseteq kept => (r \in lbug.rels <=> r \in g.rels)
  BY DEF SameEdges
<1> HIDE DEF kept, wanted
<1>6. kept \union wanted = Ids(g)
  BY <1>4
<1>7. row = g.row
  <2>1. row = [i \in Ids(g) |-> g.row[i]]
    BY <1>1, <1>2, <1>3, <1>4, <1>6
  <2> QED BY <2>1 DEF IsGraph
<1>8. rels = {r \in g.rels : {r.source, r.target} \subseteq Ids(g)}
  <2>1. ASSUME NEW r \in rels
        PROVE  r \in g.rels /\ {r.source, r.target} \subseteq Ids(g)
    BY <1>1, <1>2, <1>4, <1>5, <1>6
  <2>2. ASSUME NEW r \in g.rels, {r.source, r.target} \subseteq Ids(g)
        PROVE  r \in rels
    <3>1. CASE {r.source, r.target} \subseteq kept
      BY <3>1, <1>1, <1>5
    <3>2. CASE {r.source, r.target} \intersect wanted # {}
      BY <3>2, <2>2, <1>1, <1>2, <1>6
    <3> QED BY <3>1, <3>2, <2>2, <1>6
  <2> QED BY <2>1, <2>2
<1> QED
  BY <1>7, <1>8, RebuildIs DEF IncrementalWrite, LoadGraphToLbug, left, sub

(* The write of an incremental analyze, with the write set it computes, gives
   the database a full rebuild would give, provided that files of unchanged
   content keep their rows and that an edge differs only where it has an end in
   a changed or deleted file, a file that imported one through at most four
   imports, or a file that an edge of the new graph joins to such a file. *)
THEOREM AnalyzeIsRebuild ==
    ASSUME NEW lbug, NEW g, NEW current, NEW stored, NEW rivals,
           IsGraph(g), Joined(lbug),
           NoFile \notin EffectiveWriteSet(lbug, g, current, stored, rivals)
                           \union DeletedFiles(current, stored),
           \A i \in Ids(g) : g.row[i].file \notin DeletedFiles(current, stored),
           SameRows(lbug, g, FilesToWrite(current, stored)
                             \union DeletedFiles(current, stored)),
           SameEdges(lbug, g, EffectiveWriteSet(lbug, g, current, stored, rivals)
                              \union DeletedFiles(current, stored))
    PROVE  IncrementalWrite(lbug, g, EffectiveWriteSet(lbug, g, current, stored, rivals),
                            DeletedFiles(current, stored))
             = FullRebuild(g)
<1> DEFINE W == EffectiveWriteSet(lbug, g, current, stored, rivals)
           D == DeletedFiles(current, stored)
           less == FilesToWrite(current, stored) \union D
           more == W \union D
<1>1. less \subseteq more
  BY ToWriteIsWritten
<1> HIDE DEF W, D, less
<1>2. SameRows(lbug, g, more)
  <2>1. SameRows(lbug, g, less)
    BY DEF less, D
  <2>2. ASSUME NEW h
        PROVE  Untouched(h, more) = {i \in Untouched(h, less) : h.row[i].file \notin more}
    BY <1>1 DEF Untouched
  <2>3. \A i \in Untouched(lbug, less) : lbug.row[i] = g.row[i]
    BY <2>1 DEF SameRows
  <2>4. Untouched(lbug, less) = Untouched(g, less)
    BY <2>1 DEF SameRows
  <2>5. Untouched(lbug, more) = Untouched(g, more)
    BY <2>2, <2>3, <2>4
  <2> QED BY <2>2, <2>3, <2>5 DEF SameRows
<1>3. SameEdges(lbug, g, more)
  BY DEF W, D
<1>4. NoFile \notin more /\ \A i \in Ids(g) : g.row[i].file \notin D
  BY DEF W, D
<1>5. IncrementalWrite(lbug, g, W, D) = FullRebuild(g)
  BY <1>2, <1>3, <1>4, IncrementalIsRebuild
<1> QED BY <1>5 DEF W, D
----------------------------------------------------------------------------
(* Sequences                                                                *)

LEMMA FrontOfAppend ==
    ASSUME NEW S, NEW s \in Seq(S), NEW e \in S
    PROVE  /\ Append(s, e) # <<>>
           /\ Front(Append(s, e)) = s
           /\ Last(Append(s, e)) = e
  BY DEF Front, Last

LEMMA FrontShorter ==
    ASSUME NEW S, NEW s \in Seq(S), s # <<>>
    PROVE  /\ Front(s) \in Seq(S) /\ Last(s) \in S
           /\ Len(Front(s)) < Len(s) /\ Len(Front(s)) # Len(s) /\ Front(s) # s
  BY DEF Front, Last

LEMMA AppendOfFront ==
    ASSUME NEW S, NEW s \in Seq(S), s # <<>>
    PROVE  Append(Front(s), Last(s)) = s
  BY DEF Front, Last

----------------------------------------------------------------------------
(* The paths a new file may take imports from                               *)

Names == STRING \X Nat

(* The paths as the code splits them: what is left of foo.d.ts is foo. *)
SourcePaths ==
    {p \in [dir : Seq(Names), name : Names, ext : ShadowExts] :
        p.ext = ".ts" => p.name[2] = 0}

LEMMA NameParts ==
    ASSUME NEW n \in Names
    PROVE  /\ WithD(n) \in Names /\ WithoutD(WithD(n)) = n
           /\ n[2] > 0 => WithD(WithoutD(n)) = n
           /\ WithD(n)[2] = n[2] + 1 /\ n[2] \in Nat
<1>1. n[1] \in STRING /\ n[2] \in Nat /\ n = <<n[1], n[2]>>
  BY DEF Names
<1>2. (n[2] + 1) - 1 = n[2] /\ (n[2] - 1) + 1 = n[2] /\ n[2] + 1 \in Nat
  BY <1>1, SMT
<1>3. WithD(n) = <<n[1], n[2] + 1>> /\ WithoutD(WithD(n)) = <<n[1], (n[2] + 1) - 1>>
  BY DEF WithD, WithoutD
<1>4. WithD(WithoutD(n)) = <<n[1], (n[2] - 1) + 1>>
  BY DEF WithD, WithoutD
<1> QED BY <1>1, <1>2, <1>3, <1>4 DEF Names

(* Adding a ".d" gives another name. *)
LEMMA OtherNames ==
    ASSUME NEW n \in Names
    PROVE  /\ WithD(n) # n /\ WithD(n) # Index /\ WithD(n)[2] > 0
           /\ n # WithD(WithD(n))
<1>1. /\ WithD(n) \in Names /\ WithD(n)[2] = n[2] + 1 /\ n[2] \in Nat
  BY NameParts
<1>2. WithD(WithD(n))[2] = (n[2] + 1) + 1
  BY <1>1, NameParts
<1>3. n[2] + 1 # n[2] /\ n[2] + 1 # 0 /\ n[2] + 1 > 0 /\ (n[2] + 1) + 1 # n[2]
  BY <1>1, SMT
<1>4. Index[2] = 0
  BY DEF Index
<1>5. WithD(n) # n
  BY <1>1, <1>3
<1>6. n # WithD(WithD(n))
  BY <1>2, <1>3
<1>7. WithD(n) # Index
  BY <1>1, <1>3, <1>4
<1> QED BY <1>1, <1>3, <1>5, <1>6, <1>7

(* A path spelt out is the name and the extension, or a declaration file. *)
LEMMA SpeltIs ==
    ASSUME NEW dir, NEW n \in Names, NEW e \in ShadowExts
    PROVE  LET q == Spelt(dir, n, e)
           IN  /\ q.dir = dir
               /\ \/ q.name = n /\ q.ext = e
                  \/ q.ext = ".d.ts" /\ n = WithD(q.name) /\ e = ".ts"
<1>1. CASE e = ".ts" /\ n[2] > 0
  BY <1>1, NameParts DEF Spelt, Path
<1>2. CASE ~(e = ".ts" /\ n[2] > 0)
  BY <1>2 DEF Spelt, Path
<1> QED BY <1>1, <1>2

(* A path taken for a declaration file's rival lists it, and is not listed. *)
LEMMA OneWay ==
    ASSUME NEW p \in SourcePaths, NEW q \in SourcePaths, TakenForDeclaration(p, q)
    PROVE  q \in ShadowCandidatesFor(p) /\ p \notin ShadowCandidatesFor(q)
<1>0. /\ p = Path(p.dir, p.name, p.ext) /\ q = Path(q.dir, q.name, q.ext)
      /\ p.ext \in ShadowExts /\ q.ext = ".d.ts"
      /\ p.dir \in Seq(Names) /\ q.dir \in Seq(Names)
      /\ p.name \in Names /\ q.name \in Names
      /\ p.ext = ".ts" => p.name[2] = 0
  BY DEF SourcePaths, Path, TakenForDeclaration
<1>1. /\ WithD(q.name) \in Names /\ WithD(q.name) # q.name
      /\ WithD(q.name) # Index /\ WithD(q.name)[2] > 0
      /\ WithoutD(WithD(q.name)) = q.name
  BY <1>0, NameParts, OtherNames
<1>2. Spelt(q.dir, WithD(q.name), ".ts") = q
  BY <1>0, <1>1 DEF Spelt
<1>3. ".ts" \in ShadowExts
  BY DEF ShadowExts
<1>4. CASE p.dir = q.dir /\ p.name = WithD(q.name)
  <2>1. q \in SameStem(p)
    <3>1. p.ext # ".ts"
      BY <1>0, <1>1, <1>4, SMT
    <3> QED BY <1>2, <1>3, <1>4, <3>1 DEF SameStem
  <2>2. p \notin SameStem(q)
    <3> SUFFICES ASSUME NEW e \in ShadowExts, p = Spelt(q.dir, q.name, e)
                 PROVE  FALSE
      BY DEF SameStem
    <3>1. p.name = q.name \/ q.name = WithD(p.name)
      BY <1>0, SpeltIs
    <3>2. q.name # WithD(WithD(q.name))
      BY <1>0, OtherNames
    <3> QED BY <1>1, <1>4, <3>1, <3>2
  <2>3. p \notin IndexInside(q)
    BY <1>1, <1>4 DEF IndexInside, Path
  <2>4. p \notin BareOutside(q)
    <3> SUFFICES ASSUME q.dir # <<>>, NEW e \in ShadowExts,
                        p = Spelt(Front(q.dir), Last(q.dir), e)
                 PROVE  FALSE
      BY DEF BareOutside
    <3>1. Last(q.dir) \in Names /\ Len(Front(q.dir)) # Len(q.dir)
      BY <1>0, FrontShorter
    <3>2. p.dir = Front(q.dir)
      BY <3>1, SpeltIs
    <3> QED BY <1>4, <3>1, <3>2
  <2> QED BY <1>0, <2>1, <2>2, <2>3, <2>4 DEF ShadowCandidatesFor
<1>5. CASE p.dir = Append(q.dir, WithD(q.name)) /\ p.name = Index
  <2>1. p.dir # <<>> /\ Front(p.dir) = q.dir /\ Last(p.dir) = WithD(q.name)
    BY <1>0, <1>1, <1>5, FrontOfAppend
  <2>2. q \in BareOutside(p)
    BY <1>2, <1>3, <1>5, <2>1 DEF BareOutside
  <2>3. p.dir # q.dir
    BY <1>0, <2>1, FrontShorter
  <2>4. p \notin SameStem(q)
    <3> SUFFICES ASSUME NEW e \in ShadowExts, p = Spelt(q.dir, q.name, e)
                 PROVE  FALSE
      BY DEF SameStem
    <3> QED BY <1>0, <2>3, SpeltIs
  <2>5. p \notin IndexInside(q)
    <3> SUFFICES ASSUME p.dir = Append(q.dir, q.name)
                 PROVE  FALSE
      BY DEF IndexInside, Path
    <3>1. Last(p.dir) = q.name
      BY <1>0, FrontOfAppend
    <3> QED BY <1>1, <2>1, <3>1
  <2>6. p \notin BareOutside(q)
    <3> SUFFICES ASSUME q.dir # <<>>, NEW e \in ShadowExts,
                        p = Spelt(Front(q.dir), Last(q.dir), e)
                 PROVE  FALSE
      BY DEF BareOutside
    <3>1. Last(q.dir) \in Names /\ Len(Front(q.dir)) < Len(q.dir)
      BY <1>0, FrontShorter
    <3>2. p.dir = Front(q.dir)
      BY <3>1, SpeltIs
    <3>3. Len(q.dir) < Len(p.dir)
      BY <1>0, <2>1, FrontShorter
    <3>4. Len(p.dir) < Len(q.dir)
      BY <3>1, <3>2
    <3>5. Len(p.dir) \in Nat /\ Len(q.dir) \in Nat
      BY <1>0
    <3> QED BY <3>3, <3>4, <3>5, SMT
  <2> QED BY <1>0, <2>2, <2>4, <2>5, <2>6 DEF ShadowCandidatesFor
<1> QED BY <1>4, <1>5 DEF TakenForDeclaration

LEMMA MutualOrTaken ==
    ASSUME NEW a \in SourcePaths, NEW b \in SourcePaths, b \in ShadowCandidatesFor(a)
    PROVE  a \in ShadowCandidatesFor(b) \/ TakenForDeclaration(a, b)
<1>0. /\ a = Path(a.dir, a.name, a.ext) /\ b = Path(b.dir, b.name, b.ext)
      /\ a.ext \in ShadowExts /\ b.ext \in ShadowExts
      /\ a.dir \in Seq(Names) /\ b.dir \in Seq(Names)
      /\ a.name \in Names /\ b.name \in Names
      /\ a.ext = ".ts" => a.name[2] = 0
  BY DEF SourcePaths, Path
<1>1. Spelt(a.dir, a.name, a.ext) = a
  <2>1. ~(a.ext = ".ts" /\ a.name[2] > 0)
    BY <1>0, SMT
  <2> QED BY <1>0, <2>1 DEF Spelt
<1>2. CASE b \in SameStem(a)
  <2>1. PICK e \in ShadowExts \ {a.ext} : b = Spelt(a.dir, a.name, e)
    BY <1>2 DEF SameStem
  <2>2. /\ b.dir = a.dir
        /\ \/ b.name = a.name /\ b.ext = e
           \/ b.ext = ".d.ts" /\ a.name = WithD(b.name)
    BY <1>0, <2>1, SpeltIs
  <2>3. CASE b.name = a.name /\ b.ext = e
    <3>1. a \in SameStem(b)
      BY <1>0, <1>1, <2>1, <2>2, <2>3 DEF SameStem
    <3> QED BY <1>0, <3>1 DEF ShadowCandidatesFor
  <2>4. CASE b.ext = ".d.ts" /\ a.name = WithD(b.name)
    BY <1>0, <2>2, <2>4 DEF TakenForDeclaration
  <2> QED BY <2>2, <2>3, <2>4
<1>3. CASE b \in IndexInside(a)
  <2>1. b.dir = Append(a.dir, a.name) /\ b.name = Index
    BY <1>3 DEF IndexInside, Path
  <2>2. b.dir # <<>> /\ Front(b.dir) = a.dir /\ Last(b.dir) = a.name
    BY <2>1, <1>0, FrontOfAppend
  <2>3. a \in BareOutside(b)
    BY <1>0, <1>1, <2>1, <2>2 DEF BareOutside
  <2> QED BY <2>3, <1>0 DEF ShadowCandidatesFor
<1>4. CASE b \in BareOutside(a)
  <2>1. a.name = Index /\ a.dir # <<>>
    BY <1>4 DEF BareOutside
  <2>2. PICK e \in ShadowExts : b = Spelt(Front(a.dir), Last(a.dir), e)
    BY <1>4, <2>1 DEF BareOutside
  <2>3. /\ Last(a.dir) \in Names
        /\ a.dir = Append(Front(a.dir), Last(a.dir))
    BY <1>0, <2>1, FrontShorter, AppendOfFront
  <2>4. /\ b.dir = Front(a.dir)
        /\ \/ b.name = Last(a.dir)
           \/ b.ext = ".d.ts" /\ Last(a.dir) = WithD(b.name)
    BY <2>2, <2>3, SpeltIs
  <2>5. CASE b.name = Last(a.dir)
    <3>1. a \in IndexInside(b)
      BY <1>0, <2>1, <2>3, <2>4, <2>5 DEF IndexInside
    <3> QED BY <3>1, <1>0 DEF ShadowCandidatesFor
  <2>6. CASE b.ext = ".d.ts" /\ Last(a.dir) = WithD(b.name)
    BY <1>0, <2>1, <2>3, <2>4, <2>6 DEF TakenForDeclaration
  <2> QED BY <2>4, <2>5, <2>6
<1> QED BY <1>2, <1>3, <1>4 DEF ShadowCandidatesFor

(* Shadowing is mutual: a path can take the imports of another exactly when the
   other can take them back, as when foo.ts turns into foo/index.ts and back.
   The exception is one-way: foo.d.js and foo.d/index.js list foo.d.ts, which
   does not list them. *)
THEOREM ShadowsMutual ==
    ASSUME NEW p \in SourcePaths, NEW q \in SourcePaths
    PROVE  /\ TakenForDeclaration(p, q) =>
                 q \in ShadowCandidatesFor(p) /\ p \notin ShadowCandidatesFor(q)
           /\ ~TakenForDeclaration(p, q) /\ ~TakenForDeclaration(q, p) =>
                 (q \in ShadowCandidatesFor(p) <=> p \in ShadowCandidatesFor(q))
<1>1. TakenForDeclaration(p, q) =>
          q \in ShadowCandidatesFor(p) /\ p \notin ShadowCandidatesFor(q)
  BY OneWay
<1>2. q \in ShadowCandidatesFor(p) =>
          p \in ShadowCandidatesFor(q) \/ TakenForDeclaration(p, q)
  BY MutualOrTaken
<1>3. p \in ShadowCandidatesFor(q) =>
          q \in ShadowCandidatesFor(p) \/ TakenForDeclaration(q, p)
  BY MutualOrTaken
<1> QED BY <1>1, <1>2, <1>3
=============================================================================
