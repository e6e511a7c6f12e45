-------------------------- MODULE RepositoryProofs --------------------------
(***************************************************************************)
(* Proofs about which repositories are known: those listed in the global   *)
(* registry (Registry) and those an MCP server has handles for (McpRepos). *)
(***************************************************************************)
EXTENDS Registry, McpRepos, TLAPS

----------------------------------------------------------------------------
(* The registry: types                                                      *)

LEMMA RegistryTypeInit == RegistryInit => RegistryTypeOK
  <1> SUFFICES ASSUME RegistryInit PROVE RegistryTypeOK
    OBVIOUS
  <1>1. NoOp \in Op /\ "idle" \in Phases
    BY DEF Op, NoOp, Kinds, Phases
  <1>2. 0 \in 0 .. MaxOps /\ 0 \in 0 .. MaxCrashes
    BY RegistryAssumption DEF RegistryAssumption
  <1> QED BY <1>1, <1>2 DEF RegistryInit, RegistryTypeOK

LEMMA MoveType ==
    ASSUME RegistryTypeOK, NEW p \in Procs, NEW phase \in Phases, MoveTo(p, phase)
    PROVE  step' \in [Procs -> Phases]
  BY DEF RegistryTypeOK, MoveTo

LEMMA FinishType ==
    ASSUME RegistryTypeOK, NEW p \in Procs, Finish(p)
    PROVE  step' \in [Procs -> Phases] /\ op' \in [Procs -> Op]
           /\ entries' \in [Procs -> SUBSET Entry]
  <1>1. "idle" \in Phases /\ NoOp \in Op
    BY DEF Phases, Op, NoOp, Kinds
  <1> QED BY <1>1 DEF RegistryTypeOK, Finish, MoveTo

LEMMA BeginType ==
    ASSUME RegistryTypeOK, NEW p \in Procs, NEW o \in Op, NEW phase \in Phases,
           Begin(p, o, phase)
    PROVE  step' \in [Procs -> Phases] /\ op' \in [Procs -> Op] /\ raced' \in BOOLEAN
  BY DEF RegistryTypeOK, Begin, MoveTo

LEMMA CountedType ==
    ASSUME RegistryTypeOK, Counted
    PROVE  ops' \in 0 .. MaxOps
  BY RegistryAssumption DEF RegistryTypeOK, Counted

LEMMA ListedType == ASSUME RegistryTypeOK PROVE Listed \subseteq Entry
  BY DEF RegistryTypeOK, Listed

(* Registering keeps the other entries and gives the repository one. *)
LEMMA UpdatedType ==
    ASSUME NEW list \in SUBSET Entry, NEW o \in Op, o.path \in Repositories
    PROVE  /\ ChosenName(o, list) \in Names
           /\ Updated(o, list) \in SUBSET Entry
           /\ PathsOf(Updated(o, list)) = PathsOf(list) \union {o.path}
  <1>1. ChosenName(o, list) \in Names
    BY RegistryAssumption DEF ChosenName, Op, At, Entry
  <1>2. [path |-> o.path, name |-> ChosenName(o, list), shared |-> o.allow] \in Entry
    BY <1>1 DEF Op, Entry
  <1>3. Updated(o, list) \in SUBSET Entry
    BY <1>2 DEF Updated
  <1>4. PathsOf(Updated(o, list)) = PathsOf(list) \union {o.path}
    <2> DEFINE entry == [path |-> o.path, name |-> ChosenName(o, list), shared |-> o.allow]
    <2>1. entry.path = o.path /\ Updated(o, list) = (list \ At(list, o.path)) \union {entry}
      BY DEF Updated
    <2> HIDE DEF entry
    <2> QED BY <2>1 DEF PathsOf, At
  <1> QED BY <1>1, <1>3, <1>4

(* What a process does fits where it is. *)
OpShape ==
    \A p \in Procs :
        /\ op[p].kind \in {"register", "unregister"} => op[p].path \in Repositories
        /\ step[p] = "validate" => op[p].kind = "list"
        /\ step[p] # "idle" => op[p].kind # "none"

RegistryInv == RegistryTypeOK /\ OpShape

LEMMA RegistryInvInit == RegistryInit => RegistryInv
  BY RegistryTypeInit DEF RegistryInit, RegistryInv, OpShape, NoOp

LEMMA FinishShape ==
    ASSUME RegistryInv, NEW p \in Procs, Finish(p)
    PROVE  OpShape'
  BY DEF RegistryInv, RegistryTypeOK, OpShape, Finish, MoveTo, NoOp

LEMMA BeginShape ==
    ASSUME RegistryInv, NEW p \in Procs, NEW o, NEW phase,
           Begin(p, o, phase), phase # "validate", o.kind # "none",
           o.kind \in {"register", "unregister"} => o.path \in Repositories
    PROVE  OpShape'
  BY DEF RegistryInv, RegistryTypeOK, OpShape, Begin, MoveTo

LEMMA RegistryInvStep == RegistryInv /\ [RegistryNext]_registryVars => RegistryInv'
  <1> SUFFICES ASSUME RegistryInv, [RegistryNext]_registryVars PROVE RegistryInv'
    OBVIOUS
  <1> USE DEF RegistryInv
  <1>1. ASSUME NEW p \in Procs, NEW path \in Repositories,
               NEW name \in Names \union {NoName}, NEW allow \in BOOLEAN,
               StartRegister(p, path, name, allow)
        PROVE  RegistryInv'
    <2> DEFINE o == [kind |-> "register", path |-> path, name |-> name, allow |-> allow]
    <2>1. o \in Op /\ o.kind = "register" /\ o.path \in Repositories
      BY DEF Op, Kinds
    <2>2. Begin(p, o, "read")
      BY <1>1 DEF StartRegister
    <2> HIDE DEF o
    <2>3. OpShape'
      BY <2>1, <2>2, BeginShape
    <2>4. step' \in [Procs -> Phases] /\ op' \in [Procs -> Op] /\ raced' \in BOOLEAN
      BY <2>1, <2>2, BeginType DEF Phases
    <2>5. ops' \in 0 .. MaxOps
      BY <1>1, CountedType DEF StartRegister
    <2> QED BY <1>1, <2>3, <2>4, <2>5 DEF RegistryTypeOK, StartRegister
  <1>2. ASSUME NEW p \in Procs, NEW named \in Repositories \union Names,
               StartRemove(p, named)
        PROVE  RegistryInv'
    <2>1. PICK path \in Repositories :
             Begin(p, [NoOp EXCEPT !.kind = "unregister", !.path = path], "delete")
      BY <1>2 DEF StartRemove
    <2> DEFINE o == [NoOp EXCEPT !.kind = "unregister", !.path = path]
    <2>2. o \in Op /\ o.kind = "unregister" /\ o.path \in Repositories
      BY DEF Op, Kinds, NoOp
    <2> HIDE DEF o
    <2>3. Begin(p, o, "delete")
      BY <2>1 DEF o
    <2>4. OpShape'
      BY <2>2, <2>3, BeginShape
    <2>5. step' \in [Procs -> Phases] /\ op' \in [Procs -> Op] /\ raced' \in BOOLEAN
      BY <2>2, <2>3, BeginType DEF Phases
    <2>6. ops' \in 0 .. MaxOps
      BY <1>2, CountedType DEF StartRemove
    <2> QED BY <1>2, <2>4, <2>5, <2>6 DEF RegistryTypeOK, StartRemove
  <1>3. ASSUME NEW p \in Procs, StartList(p)
        PROVE  RegistryInv'
    <2> DEFINE o == [NoOp EXCEPT !.kind = "list"]
    <2>1. o \in Op /\ o.kind = "list"
      BY DEF Op, Kinds, NoOp
    <2>2. Begin(p, o, "read")
      BY <1>3 DEF StartList
    <2> HIDE DEF o
    <2>3. OpShape'
      BY <2>1, <2>2, BeginShape
    <2>4. step' \in [Procs -> Phases] /\ op' \in [Procs -> Op] /\ raced' \in BOOLEAN
      BY <2>1, <2>2, BeginType DEF Phases
    <2> QED BY <1>3, <2>3, <2>4 DEF RegistryTypeOK, StartList
  <1>4. ASSUME NEW p \in Procs, DeleteIndex(p)
        PROVE  RegistryInv'
    <2>1. step' \in [Procs -> Phases]
      BY <1>4, MoveType DEF DeleteIndex, Phases
    <2>2. OpShape'
      BY <1>4 DEF DeleteIndex, MoveTo, OpShape, RegistryTypeOK
    <2> QED BY <1>4, <2>1, <2>2 DEF DeleteIndex, RegistryTypeOK
  <1>5. ASSUME NEW p \in Procs, Read(p)
        PROVE  RegistryInv'
    <2>0. Listed \in SUBSET Entry /\ op[p] \in Op
      BY ListedType DEF RegistryTypeOK
    <2>1. ASSUME NEW list \in SUBSET Entry, NEW phase \in {"truncate", "validate"},
                 entries' = [entries EXCEPT ![p] = list],
                 MoveTo(p, phase), UNCHANGED op,
                 phase = "validate" => op[p].kind = "list"
          PROVE  RegistryInv'
      <3>1. step' \in [Procs -> Phases]
        BY <2>1, MoveType DEF Phases
      <3>2. entries' \in [Procs -> SUBSET Entry]
        BY <2>1 DEF RegistryTypeOK
      <3>3. OpShape'
        BY <1>5, <2>1 DEF Read, OpShape, MoveTo, RegistryTypeOK
      <3> QED BY <1>5, <2>1, <3>1, <3>2, <3>3 DEF RegistryTypeOK, Read
    <2>2. CASE op[p].kind = "register" /\ ~Collides(op[p], Listed)
      <3>1. Updated(op[p], Listed) \in SUBSET Entry
        BY <2>0, <2>2, UpdatedType DEF OpShape
      <3> QED BY <1>5, <2>1, <2>2, <3>1 DEF Read
    <2>3. CASE op[p].kind = "register" /\ Collides(op[p], Listed)
      <3>1. Finish(p)
        BY <1>5, <2>3 DEF Read
      <3> QED BY <1>5, <3>1, FinishType, FinishShape DEF Read, RegistryTypeOK
    <2>4. CASE op[p].kind = "unregister"
      <3>1. Without(op[p], Listed) \in SUBSET Entry
        BY <2>0 DEF Without
      <3> QED BY <1>5, <2>1, <2>4, <3>1 DEF Read
    <2>5. CASE op[p].kind = "list"
      BY <1>5, <2>0, <2>1, <2>5 DEF Read
    <2> QED BY <1>5, <2>2, <2>3, <2>4, <2>5 DEF Read
  <1>6. ASSUME NEW p \in Procs, Validate(p)
        PROVE  RegistryInv'
    <2> DEFINE valid == {e \in entries[p] : e.path \in indexed}
    <2>1. CASE valid # entries[p]
      <3>1. step' \in [Procs -> Phases]
        BY <1>6, <2>1, MoveType DEF Validate, Phases
      <3>2. valid \in SUBSET Entry /\ entries' = [entries EXCEPT ![p] = valid]
        BY <1>6, <2>1 DEF Validate, RegistryTypeOK
      <3>3. OpShape'
        BY <1>6, <2>1 DEF Validate, OpShape, MoveTo, RegistryTypeOK
      <3> HIDE DEF valid
      <3>4. entries' \in [Procs -> SUBSET Entry]
        BY <3>2 DEF RegistryTypeOK
      <3>5. UNCHANGED <<file, indexed, op, expected, ops, crashes, raced>>
        BY <1>6, <2>1 DEF Validate, valid
      <3> QED BY <3>1, <3>3, <3>4, <3>5 DEF RegistryTypeOK
    <2>2. CASE valid = entries[p]
      <3>1. Finish(p) /\ UNCHANGED <<file, indexed, expected, ops, crashes, raced>>
        BY <1>6, <2>2 DEF Validate
      <3> QED BY <3>1, FinishType, FinishShape DEF RegistryTypeOK
    <2> QED BY <2>1, <2>2
  <1>7. ASSUME NEW p \in Procs, Truncate(p)
        PROVE  RegistryInv'
    <2>1. step' \in [Procs -> Phases]
      BY <1>7, MoveType DEF Truncate, Phases
    <2>2. OpShape'
      BY <1>7 DEF Truncate, MoveTo, OpShape, RegistryTypeOK
    <2> QED BY <1>7, <2>1, <2>2 DEF Truncate, RegistryTypeOK
  <1>8. ASSUME NEW p \in Procs, Write(p)
        PROVE  RegistryInv'
    <2>1. op[p].kind \in {"register", "unregister", "list"}
      BY <1>8 DEF Write, OpShape, RegistryTypeOK, Op, Kinds
    <2>2. expected' \subseteq Repositories
      BY <1>8, <2>1 DEF Write, OpShape, RegistryTypeOK
    <2>3. file' \subseteq Entry
      BY <1>8 DEF Write, RegistryTypeOK
    <2> QED BY <1>8, <2>2, <2>3, FinishType, FinishShape DEF Write, RegistryTypeOK
  <1>9. ASSUME NEW p \in Procs, Crash(p)
        PROVE  RegistryInv'
    <2>1. crashes' \in 0 .. MaxCrashes
      BY <1>9, RegistryAssumption DEF Crash, RegistryTypeOK
    <2> QED BY <1>9, <2>1, FinishType, FinishShape DEF Crash, RegistryTypeOK
  <1>10. ASSUME NEW path \in Repositories, LoseIndex(path)
         PROVE  RegistryInv'
    BY <1>10, CountedType DEF LoseIndex, RegistryTypeOK, OpShape
  <1>11. CASE UNCHANGED registryVars
    BY <1>11 DEF registryVars, RegistryTypeOK, OpShape
  <1> QED
    BY <1>1, <1>2, <1>3, <1>4, <1>5, <1>6, <1>7, <1>8, <1>9, <1>10, <1>11
       DEF RegistryNext, Continue

(* The registry's state keeps its types, and what a process does fits where it
   is, for any processes, repositories and names. *)
THEOREM RegistryTypeCorrect == RegistrySpec => []RegistryTypeOK
  <1>1. RegistryInv => RegistryTypeOK
    BY DEF RegistryInv
  <1> QED BY <1>1, RegistryInvInit, RegistryInvStep, PTL DEF RegistrySpec

----------------------------------------------------------------------------
(* The registry: aliases                                                    *)

OnePerPath(list) == \A e, f \in list : e.path = f.path => e = f

AliasesOwn(list) ==
    \A e, f \in list :
        (e # f /\ e.name = f.name) => \E g \in {e, f} : g.shared \/ g.name = Base[g.path]

(* Every list a process has read or is about to write keeps aliases apart, not
   only the one in the file: two of them are never merged. *)
AliasInv ==
    /\ RegistryTypeOK /\ OpShape
    /\ OnePerPath(Listed) /\ AliasesOwn(Listed)
    /\ \A p \in Procs : OnePerPath(entries[p]) /\ AliasesOwn(entries[p])

----------------------------------------------------------------------------
(* The registry: nothing is lost                                            *)

LEMMA AliasInvInit == RegistryInit => AliasInv
  <1> SUFFICES ASSUME RegistryInit PROVE AliasInv
    OBVIOUS
  <1>1. Listed = {} /\ \A p \in Procs : entries[p] = {}
    BY DEF RegistryInit, Listed
  <1> QED BY <1>1, RegistryInvInit DEF RegistryInv, AliasInv, OnePerPath, AliasesOwn

(* Lists that keep aliases apart. *)
Apart(list) == OnePerPath(list) /\ AliasesOwn(list)

LEMMA PartApart ==
    ASSUME NEW list, NEW part, part \subseteq list, Apart(list)
    PROVE  Apart(part)
  BY DEF Apart, OnePerPath, AliasesOwn

LEMMA UpdatedApart ==
    ASSUME NEW list \in SUBSET Entry, NEW o \in Op, o.path \in Repositories,
           Apart(list), ~Collides(o, list)
    PROVE  Apart(Updated(o, list))
  <1> DEFINE entry == [path |-> o.path, name |-> ChosenName(o, list), shared |-> o.allow]
  <1>1. /\ entry.path = o.path /\ entry.name = ChosenName(o, list) /\ entry.shared = o.allow
        /\ Updated(o, list) = (list \ At(list, o.path)) \union {entry}
    BY DEF Updated
  <1> HIDE DEF entry
  <1>2. \A e \in list \ At(list, o.path) : e.path # entry.path
    BY <1>1 DEF At
  <1>3. OnePerPath(Updated(o, list))
    BY <1>1, <1>2 DEF OnePerPath, Apart
  <1>4. ASSUME NEW e \in list, e.path # o.path, e.name = entry.name
        PROVE  entry.shared \/ entry.name = Base[entry.path]
    BY <1>1, <1>4 DEF Collides, ChosenName, At
  <1>5. AliasesOwn(Updated(o, list))
    <2> SUFFICES ASSUME NEW e \in Updated(o, list), NEW f \in Updated(o, list),
                        e # f, e.name = f.name
                 PROVE  \E g \in {e, f} : g.shared \/ g.name = Base[g.path]
      BY DEF AliasesOwn
    <2>1. CASE e \in list /\ f \in list
      BY <2>1 DEF Apart, AliasesOwn
    <2>2. CASE e = entry
      BY <2>2, <1>1, <1>2, <1>4
    <2>3. CASE f = entry
      BY <2>3, <1>1, <1>2, <1>4
    <2> QED BY <1>1, <2>1, <2>2, <2>3
  <1> QED BY <1>3, <1>5 DEF Apart

(* The file, the lists, and what an operation may do to them. *)
LEMMA AliasInvStep == AliasInv /\ [RegistryNext]_registryVars => AliasInv'
  <1> SUFFICES ASSUME AliasInv, [RegistryNext]_registryVars PROVE AliasInv'
    OBVIOUS
  <1>1. RegistryInv /\ RegistryInv' /\ Apart(Listed) /\ \A p \in Procs : Apart(entries[p])
    BY RegistryInvStep DEF AliasInv, RegistryInv, Apart
  <1>2. SUFFICES Apart(Listed') /\ \A p \in Procs : Apart(entries'[p])
    BY <1>1 DEF AliasInv, RegistryInv, Apart, OnePerPath, AliasesOwn
  <1>3. Apart({})
    BY DEF Apart, OnePerPath, AliasesOwn
  <1>4. entries \in [Procs -> SUBSET Entry]
    BY <1>1 DEF RegistryInv, RegistryTypeOK
  <1>5. CASE UNCHANGED <<file, entries>>
    BY <1>1, <1>5 DEF Listed
  <1>6. ASSUME NEW p \in Procs, Finish(p), file' \in {file, entries[p]}
        PROVE  Apart(Listed') /\ \A q \in Procs : Apart(entries'[q])
    <2>1. \A q \in Procs : Apart(entries'[q])
      BY <1>1, <1>3, <1>4, <1>6 DEF Finish
    <2>2. Apart(Listed')
      BY <1>1, <1>3, <1>6 DEF Listed
    <2> QED BY <2>1, <2>2
  <1>7. ASSUME NEW p \in Procs, Read(p)
        PROVE  Apart(Listed') /\ \A q \in Procs : Apart(entries'[q])
    <2>1. UNCHANGED file /\ Listed \in SUBSET Entry /\ op[p] \in Op
      BY <1>1, <1>7, ListedType DEF Read, RegistryInv, RegistryTypeOK
    <2>2. ASSUME NEW list, Apart(list), entries' = [entries EXCEPT ![p] = list]
          PROVE  Apart(Listed') /\ \A q \in Procs : Apart(entries'[q])
      BY <1>1, <1>4, <2>1, <2>2 DEF Listed
    <2>3. CASE op[p].kind = "register" /\ ~Collides(op[p], Listed)
      <3>1. Apart(Updated(op[p], Listed))
        BY <1>1, <2>1, <2>3, UpdatedApart DEF RegistryInv, OpShape
      <3> QED BY <1>7, <2>2, <2>3, <3>1 DEF Read
    <2>4. CASE op[p].kind = "register" /\ Collides(op[p], Listed)
      BY <1>6, <1>7, <2>1, <2>4 DEF Read
    <2>5. CASE op[p].kind = "unregister"
      <3>1. Apart(Without(op[p], Listed))
        BY <1>1, PartApart DEF Without
      <3> QED BY <1>7, <2>2, <2>5, <3>1 DEF Read
    <2>6. CASE op[p].kind = "list"
      BY <1>1, <1>7, <2>2, <2>6 DEF Read
    <2> QED BY <1>7, <2>3, <2>4, <2>5, <2>6 DEF Read
  <1>8. ASSUME NEW p \in Procs, Validate(p)
        PROVE  Apart(Listed') /\ \A q \in Procs : Apart(entries'[q])
    <2> DEFINE valid == {e \in entries[p] : e.path \in indexed}
    <2>1. CASE valid # entries[p]
      <3>1. entries' = [entries EXCEPT ![p] = valid] /\ UNCHANGED file
        BY <1>8, <2>1 DEF Validate
      <3>2. Apart(valid)
        BY <1>1, PartApart
      <3> HIDE DEF valid
      <3> QED BY <1>1, <1>4, <3>1, <3>2 DEF Listed
    <2>2. CASE valid = entries[p]
      BY <1>6, <1>8, <2>2 DEF Validate
    <2> QED BY <2>1, <2>2
  <1>9. ASSUME NEW p \in Procs, Truncate(p)
        PROVE  Apart(Listed') /\ \A q \in Procs : Apart(entries'[q])
    BY <1>1, <1>3, <1>9 DEF Truncate, Listed
  <1>10. ASSUME NEW p \in Procs, Write(p) \/ Crash(p)
         PROVE  Apart(Listed') /\ \A q \in Procs : Apart(entries'[q])
    BY <1>6, <1>10 DEF Write, Crash
  <1> QED
    BY <1>5, <1>7, <1>8, <1>9, <1>10
       DEF RegistryNext, Continue, StartRegister, StartRemove, StartList, DeleteIndex,
           LoseIndex, registryVars

(* No alias is given to two repositories, however many processes register,
   remove and list at once and die in between. *)
THEOREM AliasNeverShared == RegistrySpec => []AliasUnique
  <1>1. AliasInv => AliasUnique
    BY DEF AliasInv, AliasesOwn, AliasUnique
  <1> QED BY <1>1, AliasInvInit, AliasInvStep, PTL DEF RegistrySpec

(* The repositories that are registered once the operation is written. *)
After(p) == CASE op[p].kind = "register" -> expected \union {op[p].path}
              [] op[p].kind = "unregister" -> expected \ {op[p].path}
              [] op[p].kind = "list" -> expected \intersect indexed

AtMostOne == \A p, q \in Procs : step[p] # "idle" /\ step[q] # "idle" => p = q

(* As long as operations neither overlap nor die, the file, or while it is torn
   the list of its writer, has all that is registered. *)
LosslessInv ==
    /\ RegistryTypeOK /\ OpShape
    /\ ~raced /\ crashes = 0 =>
        /\ AtMostOne
        /\ file = Torn => \E p \in Procs : step[p] = "write"
        /\ file # Torn => expected \subseteq PathsOf(file)
        /\ \A p \in Procs :
            /\ step[p] \in {"truncate", "write"} => After(p) \subseteq PathsOf(entries[p])
            /\ step[p] = "validate" => expected \subseteq PathsOf(entries[p])


LEMMA LosslessInvInit == RegistryInit => LosslessInv
  <1> SUFFICES ASSUME RegistryInit PROVE LosslessInv
    OBVIOUS
  <1>1. file = {} /\ file # Torn /\ expected = {} /\ \A p \in Procs : step[p] = "idle"
    BY TornAssumption DEF RegistryInit
  <1> QED BY <1>1, RegistryInvInit DEF LosslessInv, RegistryInv, AtMostOne

LEMMA LosslessInvStep == LosslessInv /\ [RegistryNext]_registryVars => LosslessInv'
  <1> SUFFICES ASSUME LosslessInv, [RegistryNext]_registryVars, ~raced', crashes' = 0
               PROVE  /\ AtMostOne'
                      /\ file' = Torn => \E p \in Procs : step'[p] = "write"
                      /\ file' # Torn => expected' \subseteq PathsOf(file')
                      /\ \A p \in Procs :
                          /\ step'[p] \in {"truncate", "write"}
                                => After(p)' \subseteq PathsOf(entries'[p])
                          /\ step'[p] = "validate" => expected' \subseteq PathsOf(entries'[p])
    BY RegistryInvStep DEF LosslessInv, RegistryInv, PathsOf
  <1>0. RegistryTypeOK /\ OpShape
    BY DEF LosslessInv
  <1>1. ~raced /\ crashes = 0
    <2>1. CASE \E p \in Procs : Crash(p)
      BY <1>0, <2>1 DEF Crash, RegistryTypeOK
    <2>2. CASE \E p \in Procs : \E o, phase : Begin(p, o, phase) /\ UNCHANGED crashes
      BY <2>2 DEF Begin
    <2>3. CASE UNCHANGED <<raced, crashes>>
      BY <2>3
    <2> QED
      BY <2>1, <2>2, <2>3
         DEF RegistryNext, Continue, StartRegister, StartRemove, StartList, DeleteIndex,
             Read, Validate, Truncate, Write, LoseIndex, registryVars
  <1>2. /\ AtMostOne
        /\ file = Torn => \E p \in Procs : step[p] = "write"
        /\ file # Torn => expected \subseteq PathsOf(file)
        /\ \A p \in Procs :
            /\ step[p] \in {"truncate", "write"} => After(p) \subseteq PathsOf(entries[p])
            /\ step[p] = "validate" => expected \subseteq PathsOf(entries[p])
    BY <1>1 DEF LosslessInv
  <1>3. /\ step \in [Procs -> Phases] /\ op \in [Procs -> Op]
        /\ entries \in [Procs -> SUBSET Entry]
    BY <1>0 DEF RegistryTypeOK
  <1> DEFINE Kept == /\ AtMostOne'
                     /\ file' = Torn => \E p \in Procs : step'[p] = "write"
                     /\ file' # Torn => expected' \subseteq PathsOf(file')
                     /\ \A p \in Procs :
                         /\ step'[p] \in {"truncate", "write"}
                               => After(p)' \subseteq PathsOf(entries'[p])
                         /\ step'[p] = "validate" => expected' \subseteq PathsOf(entries'[p])
  <1>4. SUFFICES Kept
    OBVIOUS
  \* Nobody else is at work when an operation begins.
  <1>5. ASSUME NEW p \in Procs, NEW o, NEW phase \in {"read", "delete"}, Begin(p, o, phase),
               UNCHANGED <<file, entries, expected>>
        PROVE  Kept
    <2>1. \A q \in Procs : step[q] = "idle"
      BY <1>5 DEF Begin
    <2>2. \A q \in Procs : step'[q] = IF q = p THEN phase ELSE "idle"
      BY <1>3, <1>5, <2>1 DEF Begin, MoveTo
    <2>3. file # Torn
      BY <1>2, <2>1
    <2> QED BY <1>2, <1>5, <2>2, <2>3 DEF AtMostOne
  \* Nor while it goes on.
  <1>6. ASSUME NEW p \in Procs, step[p] # "idle"
        PROVE  \A q \in Procs : q # p => step[q] = "idle"
    BY <1>2, <1>6 DEF AtMostOne
  <1>7. ASSUME NEW p \in Procs, Finish(p), step[p] # "idle", file' # Torn,
               expected' \subseteq PathsOf(file')
        PROVE  Kept
    <2>1. \A q \in Procs : step'[q] = "idle"
      BY <1>3, <1>6, <1>7 DEF Finish, MoveTo
    <2> QED BY <1>7, <2>1 DEF AtMostOne
  <1>8. ASSUME NEW p \in Procs, DeleteIndex(p)
        PROVE  Kept
    <2>1. \A q \in Procs : step'[q] = IF q = p THEN "read" ELSE "idle"
      BY <1>3, <1>6, <1>8 DEF DeleteIndex, MoveTo
    <2>2. file # Torn
      BY <1>2, <1>6, <1>8 DEF DeleteIndex
    <2> QED BY <1>2, <1>8, <2>1, <2>2 DEF DeleteIndex, AtMostOne
  <1>9. ASSUME NEW p \in Procs, Read(p)
        PROVE  Kept
    <2>1. step[p] = "read" /\ UNCHANGED <<file, indexed, expected>>
      BY <1>9 DEF Read
    <2>2. file # Torn /\ Listed = file /\ Listed \in SUBSET Entry /\ op[p] \in Op
      BY <1>0, <1>2, <1>3, <1>6, <2>1, ListedType DEF Listed
    <2>3. ASSUME NEW list, entries' = [entries EXCEPT ![p] = list], UNCHANGED op,
                 \/ MoveTo(p, "truncate") /\ After(p) \subseteq PathsOf(list)
                 \/ MoveTo(p, "validate") /\ expected \subseteq PathsOf(list)
          PROVE  Kept
      <3>1. /\ step'[p] \in {"truncate", "validate"} /\ entries'[p] = list
            /\ \A q \in Procs : q # p => step'[q] = "idle"
        BY <1>3, <1>6, <2>1, <2>3 DEF MoveTo
      <3>2. /\ step'[p] = "truncate" => After(p) \subseteq PathsOf(list)
            /\ step'[p] = "validate" => expected \subseteq PathsOf(list)
        BY <1>3, <2>3 DEF MoveTo
      <3>3. After(p)' = After(p)
        BY <2>1, <2>3 DEF After
      <3> QED BY <1>2, <2>1, <2>2, <3>1, <3>2, <3>3 DEF AtMostOne
    <2>4. CASE op[p].kind = "register" /\ ~Collides(op[p], Listed)
      <3>1. PathsOf(Updated(op[p], Listed)) = PathsOf(Listed) \union {op[p].path}
        BY <1>0, <2>2, <2>4, UpdatedType DEF OpShape
      <3>2. After(p) = expected \union {op[p].path}
        BY <2>4 DEF After
      <3> QED BY <1>2, <1>9, <2>2, <2>3, <2>4, <3>1, <3>2 DEF Read
    <2>5. CASE op[p].kind = "register" /\ Collides(op[p], Listed)
      BY <1>2, <1>7, <1>9, <2>1, <2>2, <2>5 DEF Read
    <2>6. CASE op[p].kind = "unregister"
      <3>1. After(p) = expected \ {op[p].path}
        BY <2>6 DEF After
      <3>2. PathsOf(Without(op[p], Listed)) = PathsOf(Listed) \ {op[p].path}
        BY DEF PathsOf, Without, At
      <3> QED BY <1>2, <1>9, <2>2, <2>3, <2>6, <3>1, <3>2 DEF Read
    <2>7. CASE op[p].kind = "list"
      BY <1>2, <1>9, <2>2, <2>3, <2>7 DEF Read
    <2> QED BY <1>9, <2>4, <2>5, <2>6, <2>7 DEF Read
  <1>10. ASSUME NEW p \in Procs, Validate(p)
         PROVE  Kept
    <2> DEFINE valid == {e \in entries[p] : e.path \in indexed}
    <2>1. step[p] = "validate" /\ UNCHANGED <<file, indexed, expected>>
      BY <1>10 DEF Validate
    <2>2. file # Torn /\ op[p].kind = "list"
      BY <1>0, <1>2, <1>6, <2>1 DEF OpShape
    <2>3. CASE valid # entries[p]
      <3>1. /\ entries' = [entries EXCEPT ![p] = valid] /\ MoveTo(p, "truncate")
            /\ UNCHANGED op
        BY <1>10, <2>3 DEF Validate
      <3>2. After(p)' \subseteq PathsOf(valid)
        BY <1>2, <2>1, <2>2, <3>1 DEF After, PathsOf
      <3> HIDE DEF valid
      <3>3. /\ step'[p] = "truncate" /\ entries'[p] = valid
            /\ \A q \in Procs : q # p => step'[q] = "idle"
        BY <1>3, <1>6, <2>1, <3>1 DEF MoveTo
      <3> QED BY <1>2, <2>1, <2>2, <3>2, <3>3 DEF AtMostOne
    <2>4. CASE valid = entries[p]
      BY <1>2, <1>7, <1>10, <2>1, <2>2, <2>4 DEF Validate
    <2> QED BY <2>3, <2>4
  <1>11. ASSUME NEW p \in Procs, Truncate(p)
         PROVE  Kept
    <2>1. step[p] = "truncate" /\ file' = Torn /\ UNCHANGED <<indexed, op, entries, expected>>
      BY <1>11 DEF Truncate
    <2>2. /\ step'[p] = "write"
          /\ \A q \in Procs : q # p => step'[q] = "idle"
      BY <1>3, <1>6, <1>11, <2>1 DEF Truncate, MoveTo
    <2>3. After(p)' = After(p)
      BY <2>1 DEF After
    <2> QED BY <1>2, <2>1, <2>2, <2>3 DEF AtMostOne
  <1>12. ASSUME NEW p \in Procs, Write(p)
         PROVE  Kept
    <2>1. expected' = After(p) /\ file' = entries[p] /\ step[p] = "write" /\ Finish(p)
      BY <1>12 DEF Write, After
    <2>2. file' # Torn
      BY <1>3, <2>1, TornAssumption
    <2> QED BY <1>2, <1>7, <2>1, <2>2
  <1>13. ASSUME NEW p \in Procs, Crash(p)
         PROVE  Kept
    BY <1>0, <1>1, <1>13 DEF Crash
  <1>14. ASSUME NEW path \in Repositories, LoseIndex(path)
         PROVE  Kept
    <2>1. \A p \in Procs : \/ After(p)' \subseteq After(p)
                         \/ op[p].kind \notin {"register", "unregister", "list"}
      BY <1>14 DEF LoseIndex, After
    <2>2. \A p \in Procs : step[p] # "idle" => op[p].kind \in {"register", "unregister", "list"}
      BY <1>0, <1>3 DEF OpShape, Op, Kinds
    <2>3. UNCHANGED <<file, step, entries, expected>>
      BY <1>14 DEF LoseIndex
    <2> QED BY <1>2, <2>1, <2>2, <2>3 DEF AtMostOne
  <1>15. CASE UNCHANGED registryVars
    <2>1. \A p \in Procs : After(p)' = After(p)
      BY <1>15 DEF registryVars, After
    <2> QED BY <1>2, <1>15, <2>1 DEF registryVars, AtMostOne
  <1>16. ASSUME NEW p \in Procs, NEW path \in Repositories,
                NEW name \in Names \union {NoName}, NEW allow \in BOOLEAN,
                StartRegister(p, path, name, allow)
         PROVE  Kept
    BY <1>5, <1>16 DEF StartRegister
  <1>17. ASSUME NEW p \in Procs, NEW named \in Repositories \union Names,
                StartRemove(p, named)
         PROVE  Kept
    BY <1>5, <1>17 DEF StartRemove
  <1>18. ASSUME NEW p \in Procs, StartList(p)
         PROVE  Kept
    BY <1>5, <1>18 DEF StartList
  <1> HIDE DEF Kept
  <1> QED
    BY <1>8, <1>9, <1>10, <1>11, <1>12, <1>13, <1>14, <1>15, <1>16, <1>17, <1>18
       DEF RegistryNext, Continue

(* Operations that do not overlap and do not die lose no registration but those
   removed, or pruned with their index, for any number of processes. *)
THEOREM SerialLosesNothing == RegistrySpec => []NothingLost
  <1>1. LosslessInv => NothingLost
    BY DEF LosslessInv, NothingLost, Quiet, Listed
  <1> QED BY <1>1, LosslessInvInit, LosslessInvStep, PTL DEF RegistrySpec

----------------------------------------------------------------------------
(* The handles of an MCP server: types                                      *)

(* The two ids a repository may be given. *)
BaseId(p) == <<Name[p], NoSuffix>>
LongId(p) == <<Name[p], Suffix[p]>>
IdsOf(p) == {BaseId(p), LongId(p)}

Resolving == {"ensure", "wait", "check", "reopen", "open", "query"}
Refreshing == {"read", "apply"}

(* What the label of a call says of its locals. *)
CallShape ==
    \A c \in Calls :
        /\ pc[c] \in Resolving => want[c] \in Paths /\ target[c] \in Ids
        /\ handle[c] # Absent <=> pc[c] = "check"
        /\ awaits[c] # Absent <=> pc[c] = "wait"
        /\ seen[c] # Absent => pc[c] \in {"reopen", "query"}
        /\ pc[c] = "retry" => want[c] \in Paths

(* An id is being opened only while it has no pool. *)
OpeningShape == \A i \in Ids : opening[i] # Absent => pool[i] = Absent

McpInv == TypeOK /\ CallShape /\ OpeningShape

LEMMA McpFacts ==
    /\ \A h \in Handle : /\ h # Absent /\ h.path \in Paths /\ h.version \in Versions
                         /\ h.mark \in Marks
    /\ \A e \in Index : e # Absent /\ e.path \in Paths /\ e.version \in Versions
    /\ \A o \in Opening : /\ o # Absent /\ o.path \in Paths /\ o.version \in Versions
                          /\ o.stage \in Stages
    /\ \A p \in Paths : p # Absent
    /\ \A c \in Calls : c # Absent
    /\ \A p \in Paths, v \in Versions : [path |-> p, version |-> v] \in Index
    /\ \A p \in Paths, v \in Versions, m \in Marks :
          [path |-> p, version |-> v, mark |-> m] \in Handle
    /\ \A p \in Paths, v \in Versions, s \in Stages :
          [path |-> p, stage |-> s, version |-> v] \in Opening
    /\ \A p \in Paths : IdsOf(p) \subseteq Ids
    /\ MaxVersion \in Nat /\ 0 \in Versions
  BY McpAssumption, AbsentAssumption
     DEF McpAssumption, AbsentAssumption, Handle, Index, Opening, Versions, Ids, IdsOf,
         BaseId, LongId

LEMMA McpInvInit == Init => McpInv
  <1> SUFFICES ASSUME Init PROVE McpInv
    OBVIOUS
  <1>1. TypeOK
    BY McpFacts DEF Init, TypeOK, Labels, Shared, NotShared
  <1>2. CallShape /\ OpeningShape
    BY DEF Init, CallShape, OpeningShape, Resolving
  <1> QED BY <1>1, <1>2 DEF McpInv

LEMMA RepoIdType ==
    ASSUME NEW p \in Paths
    PROVE  RepoId(p) \in IdsOf(p)
  BY DEF RepoId, IdsOf, BaseId, LongId

LEMMA EndType ==
    ASSUME McpInv, NEW S, EndAll(S)
    PROVE  /\ pc' \in [Calls -> Labels]
           /\ want' \in [Calls -> Paths \union {Absent}]
           /\ target' \in [Calls -> Ids \union {NoId}]
           /\ handle' \in [Calls -> Handle \union {Absent}]
           /\ awaits' \in [Calls -> Calls \union {Absent}]
           /\ todo' \in [Calls -> SUBSET Index]
           /\ fresh' \in [Calls -> SUBSET Ids]
           /\ seen' \in [Calls -> Index \union {Absent}]
           /\ CallShape'
  <1>1. /\ pc' \in [Calls -> Labels]
        /\ want' \in [Calls -> Paths \union {Absent}]
        /\ target' \in [Calls -> Ids \union {NoId}]
        /\ handle' \in [Calls -> Handle \union {Absent}]
        /\ awaits' \in [Calls -> Calls \union {Absent}]
        /\ todo' \in [Calls -> SUBSET Index]
        /\ fresh' \in [Calls -> SUBSET Ids]
        /\ seen' \in [Calls -> Index \union {Absent}]
    BY McpFacts DEF McpInv, TypeOK, EndAll, Labels
  <1>2. CallShape'
    BY DEF McpInv, CallShape, EndAll, Resolving
  <1> QED BY <1>1, <1>2

(* The pools' side of a step that starts or ends an opening. *)
LEMMA InitLbugType ==
    ASSUME McpInv, NEW c \in Calls, NEW i \in Ids, NEW p \in Paths, NEW isOpen \in BOOLEAN,
           NEW how, InitLbug(c, i, p, isOpen, how)
    PROVE  opening' \in [Ids -> Opening \union {Absent}]
  <1>1. [path |-> p, stage |-> "stat", version |-> 0] \in Opening
    BY McpFacts DEF Stages
  <1>2. opening' \in {opening, [opening EXCEPT ![i] = [path |-> p, stage |-> "stat", version |-> 0]]}
    BY DEF InitLbug
  <1> QED BY <1>1, <1>2 DEF McpInv, TypeOK

LEMMA CloseType ==
    ASSUME McpInv, NEW i \in Ids, Close(i)
    PROVE  /\ pool' = [pool EXCEPT ![i] = Absent]
           /\ cached' \in [Paths -> Shared]
  <1>1. pool[i] # Absent => pool[i].path \in Paths
    BY McpFacts DEF McpInv, TypeOK
  <1>2. NotShared \in Shared
    BY McpFacts DEF NotShared, Shared
  <1>3. ASSUME NEW d \in Shared PROVE LessOne(d) \in Shared
    BY <1>2, <1>3 DEF Shared, LessOne
  <1> QED BY <1>1, <1>3 DEF Close, McpInv, TypeOK

LEMMA OpenFailsType ==
    ASSUME McpInv, NEW i \in Ids, OpenFails(i), UNCHANGED <<world, repos, throttled>>
    PROVE  McpInv'
  <1>1. /\ initialized' \subseteq Ids /\ reinit' \in [Ids -> Calls \union {Absent}]
        /\ opening' \in [Ids -> Opening \union {Absent}]
        /\ \A j \in Ids : opening'[j] \in {opening[j], Absent}
        /\ UNCHANGED <<pool, cached, masked>>
    BY DEF OpenFails, OpeningEnds, McpInv, TypeOK
  <1>2. OpeningShape'
    BY <1>1 DEF McpInv, OpeningShape
  <1>3. /\ EndAll(Waiting(i)) /\ clock' \in Versions /\ disk' \in [Paths -> Versions]
        /\ registry' \subseteq Index /\ removed' \subseteq Paths
        /\ repos' \in [Ids -> Handle \union {Absent}] /\ throttled' \subseteq Ids
        /\ pool' \in [Ids -> Index \union {Absent}] /\ cached' \in [Paths -> Shared]
        /\ masked' \subseteq Ids
    BY <1>1 DEF OpenFails, McpInv, TypeOK, world
  <1> HIDE DEF Waiting
  <1>4. /\ pc' \in [Calls -> Labels] /\ CallShape'
        /\ want' \in [Calls -> Paths \union {Absent}]
        /\ target' \in [Calls -> Ids \union {NoId}]
        /\ handle' \in [Calls -> Handle \union {Absent}]
        /\ awaits' \in [Calls -> Calls \union {Absent}]
        /\ todo' \in [Calls -> SUBSET Index]
        /\ fresh' \in [Calls -> SUBSET Ids]
        /\ seen' \in [Calls -> Index \union {Absent}]
    BY <1>3, EndType
  <1> QED BY <1>1, <1>2, <1>3, <1>4 DEF McpInv, TypeOK

LEMMA McpInvStep == McpInv /\ [Next]_vars => McpInv'
  <1> SUFFICES ASSUME McpInv, [Next]_vars PROVE McpInv'
    OBVIOUS
  <1>0. TypeOK /\ CallShape /\ OpeningShape
    BY DEF McpInv
  <1> USE DEF world, server, pools, locals
  <1>a. UNCHANGED <<pool, opening>> => OpeningShape'
    BY <1>0 DEF OpeningShape
  <1>1. ASSUME NEW p \in Paths, Analyze(p) PROVE McpInv'
    <2>1. clock' \in Versions
      BY <1>0, <1>1, McpFacts DEF Analyze, TypeOK, Versions
    <2> QED BY <1>0, <1>1, <1>a, <2>1 DEF Analyze, McpInv, TypeOK, CallShape
  <1>2. ASSUME NEW p \in Paths, Register(p) PROVE McpInv'
    <2>1. [path |-> p, version |-> disk[p]] \in Index
      BY <1>0, McpFacts DEF TypeOK
    <2> QED BY <1>0, <1>2, <1>a, <2>1 DEF Register, McpInv, TypeOK, CallShape
  <1>3. ASSUME NEW p \in Paths, Remove(p) PROVE McpInv'
    BY <1>0, <1>3, <1>a, McpFacts DEF Remove, McpInv, TypeOK, CallShape
  <1>4. ASSUME NEW c \in Calls, NEW p \in Paths, Call(c, p) PROVE McpInv'
    <2>1. CASE \E i \in Hits(p) : Resolved(c, p, i)
      <3>1. PICK i \in Ids : Resolved(c, p, i)
        BY <2>1 DEF Hits
      <3>2. /\ pc' = [pc EXCEPT ![c] = "ensure"] /\ want' = [want EXCEPT ![c] = p]
            /\ target' = [target EXCEPT ![c] = i] /\ pc[c] = "idle"
            /\ UNCHANGED <<world, server, handle, awaits, todo, fresh, seen>>
        BY <1>4, <3>1 DEF Call, Resolved, Goto
      <3>3. CallShape'
        BY <1>0, <3>2 DEF CallShape, Resolving, TypeOK
      <3> QED BY <1>0, <1>a, <3>2, <3>3 DEF McpInv, TypeOK, Labels
    <2>2. CASE Hits(p) = {} /\ Refresh(c) /\ want' = [want EXCEPT ![c] = p] /\ UNCHANGED target
      <3>1. /\ pc' = [pc EXCEPT ![c] = "read"] /\ want' = [want EXCEPT ![c] = p]
            /\ pc[c] = "idle"
            /\ UNCHANGED <<world, server, target, handle, awaits, todo, fresh, seen>>
        BY <1>4, <2>2 DEF Call, Refresh, Goto
      <3>2. CallShape'
        BY <1>0, <3>1 DEF CallShape, Resolving, TypeOK
      <3> QED BY <1>0, <1>a, <3>1, <3>2 DEF McpInv, TypeOK, Labels
    <2> QED BY <1>4, <2>1, <2>2 DEF Call
  <1>5. ASSUME NEW c \in Calls, ListRepos(c) PROVE McpInv'
    <2>1. CallShape'
      BY <1>0, <1>5 DEF ListRepos, Refresh, Goto, CallShape, Resolving, TypeOK
    <2> QED BY <1>0, <1>5, <1>a, <2>1 DEF ListRepos, Refresh, Goto, McpInv, TypeOK, Labels
  <1>6. ASSUME NEW c \in Calls, ReadRegistry(c) PROVE McpInv'
    <2>1. CallShape'
      BY <1>0, <1>6 DEF ReadRegistry, Goto, CallShape, Resolving, TypeOK
    <2>2. registry' \subseteq Index
      BY <1>0, <1>6 DEF ReadRegistry, TypeOK
    <2>3. todo' \in [Calls -> SUBSET Index] /\ fresh' \in [Calls -> SUBSET Ids]
      BY <1>0, <1>6, <2>2 DEF ReadRegistry, TypeOK
    <2> QED BY <1>0, <1>6, <1>a, <2>1, <2>2, <2>3
            DEF ReadRegistry, Goto, McpInv, TypeOK, Labels
  <1>7. ASSUME NEW c \in Calls, ApplyEntry(c) PROVE McpInv'
    <2>1. PICK e \in todo[c], m \in Marks :
            /\ repos' = [repos EXCEPT ![RepoId(e.path)] =
                            [path |-> e.path, version |-> e.version, mark |-> m]]
            /\ fresh' = [fresh EXCEPT ![c] = @ \union {RepoId(e.path)}]
            /\ masked' \in {masked, masked \union {RepoId(e.path)}}
            /\ todo' = [todo EXCEPT ![c] = @ \ {e}]
      BY <1>7 DEF ApplyEntry
    <2>2. e \in Index /\ e.path \in Paths /\ RepoId(e.path) \in Ids
          /\ [path |-> e.path, version |-> e.version, mark |-> m] \in Handle
      BY <1>0, RepoIdType, McpFacts DEF TypeOK
    <2>3. UNCHANGED <<world, initialized, throttled, reinit, pool, cached, opening, pc, want,
                      target, handle, awaits, seen>>
      BY <1>7 DEF ApplyEntry
    <2>4. CallShape'
      BY <1>0, <2>3 DEF CallShape
    <2>5. /\ repos' \in [Ids -> Handle \union {Absent}] /\ masked' \subseteq Ids
          /\ fresh' \in [Calls -> SUBSET Ids] /\ todo' \in [Calls -> SUBSET Index]
      BY <1>0, <2>1, <2>2 DEF TypeOK
    <2> QED BY <1>0, <1>a, <2>3, <2>4, <2>5 DEF McpInv, TypeOK
  <1>8. ASSUME NEW c \in Calls, Prune(c) PROVE McpInv'
    <2>1. repos' \in [Ids -> Handle \union {Absent}] /\ initialized' \subseteq Ids
      BY <1>0, <1>8 DEF Prune, TypeOK
    <2>2. CASE want[c] = Absent
      <3>1. End(c)
        BY <1>8, <2>2 DEF Prune
      <3> QED BY <1>0, <1>8, <1>a, <2>1, <3>1, EndType DEF Prune, End, McpInv, TypeOK
    <2>3. CASE want[c] # Absent
      <3>1. /\ pc' = [pc EXCEPT ![c] = "retry"] /\ fresh' = [fresh EXCEPT ![c] = {}]
            /\ pc[c] = "apply" /\ want[c] \in Paths
            /\ UNCHANGED <<world, throttled, reinit, pools, want, target, handle,
                           awaits, todo, seen>>
        BY <1>0, <1>8, <2>3 DEF Prune, Goto, TypeOK
      <3>2. CallShape'
        BY <1>0, <3>1 DEF CallShape, Resolving, TypeOK
      <3> QED BY <1>0, <1>a, <2>1, <3>1, <3>2 DEF McpInv, TypeOK, Labels
    <2> QED BY <2>2, <2>3
  <1>9. ASSUME NEW c \in Calls, Retry(c) PROVE McpInv'
    <2>1. CASE \E i \in Hits(want[c]) : Resolved(c, want[c], i)
               /\ UNCHANGED <<handle, awaits, todo, fresh, seen>>
      <3>1. PICK i \in Ids : Resolved(c, want[c], i)
        BY <2>1 DEF Hits
      <3>2. /\ pc' = [pc EXCEPT ![c] = "ensure"] /\ want' = [want EXCEPT ![c] = want[c]]
            /\ target' = [target EXCEPT ![c] = i] /\ pc[c] = "retry" /\ want[c] \in Paths
            /\ UNCHANGED <<world, server, handle, awaits, todo, fresh, seen>>
        BY <1>0, <1>9, <2>1, <3>1 DEF Retry, Resolved, Goto, CallShape
      <3>3. CallShape'
        BY <1>0, <3>2 DEF CallShape, Resolving, TypeOK
      <3> QED BY <1>0, <1>a, <3>2, <3>3 DEF McpInv, TypeOK, Labels
    <2>2. CASE End(c)
      BY <1>0, <1>9, <1>a, <2>2, EndType DEF Retry, End, McpInv, TypeOK
    <2> QED BY <1>9, <2>1, <2>2 DEF Retry
  <1>10. ASSUME NEW c \in Calls, Ensure(c) PROVE McpInv'
    <2> DEFINE i == target[c]
    <2>0. pc[c] = "ensure" /\ i \in Ids /\ want[c] \in Paths
          /\ UNCHANGED <<world, repos, reinit, pool, cached, masked>>
      BY <1>0, <1>10 DEF Ensure, CallShape, Resolving
    <2>1. CASE reinit[i] # Absent
      <3>1. /\ awaits' = [awaits EXCEPT ![c] = reinit[i]] /\ pc' = [pc EXCEPT ![c] = "wait"]
            /\ UNCHANGED <<initialized, throttled, opening, want, target, handle, todo, fresh,
                           seen>>
        BY <1>10, <2>1 DEF Ensure, Goto
      <3>2. reinit[i] \in Calls
        BY <1>0, <2>0, <2>1 DEF TypeOK
      <3>3. CallShape'
        BY <1>0, <2>0, <2>1, <3>1 DEF CallShape, Resolving, TypeOK
      <3> QED BY <1>0, <1>a, <2>0, <3>1, <3>2, <3>3 DEF McpInv, TypeOK, Labels
    <2>2. CASE reinit[i] = Absent /\ repos[i] = Absent
      <3>1. End(c) /\ UNCHANGED <<initialized, throttled, opening>>
        BY <1>10, <2>2 DEF Ensure
      <3> QED BY <1>0, <1>a, <2>0, <3>1, EndType DEF End, McpInv, TypeOK
    <2>3. CASE reinit[i] = Absent /\ repos[i] # Absent /\ Ready(i)
      <3>1. /\ throttled' = throttled \union {i}
            /\ UNCHANGED <<initialized, opening, want, target, awaits, todo, fresh, seen>>
        BY <1>10, <2>3 DEF Ensure
      <3>2. \/ pc' = [pc EXCEPT ![c] = "query"] /\ UNCHANGED handle
            \/ pc' = [pc EXCEPT ![c] = "check"] /\ handle' = [handle EXCEPT ![c] = repos[i]]
        BY <1>10, <2>3 DEF Ensure, Goto
      <3>3. repos[i] \in Handle
        BY <1>0, <2>0, <2>3 DEF TypeOK
      <3>4. CallShape'
        BY <1>0, <2>0, <2>3, <3>1, <3>2, <3>3, McpFacts DEF CallShape, Resolving, TypeOK
      <3> QED BY <1>0, <1>a, <2>0, <3>1, <3>2, <3>3, <3>4 DEF McpInv, TypeOK, Labels
    <2>4. CASE reinit[i] = Absent /\ repos[i] # Absent /\ ~Ready(i)
      <3>1. /\ InitLbug(c, i, repos[i].path, pool[i] # Absent, "open")
            /\ initialized' \in {initialized, initialized \union {i}}
            /\ UNCHANGED <<throttled, locals>>
        BY <1>10, <2>4 DEF Ensure
      <3>2. opening' \in [Ids -> Opening \union {Absent}]
        BY <1>0, <2>0, <2>4, <3>1, McpFacts, InitLbugType DEF TypeOK
      <3>3. PICK to \in {"open", "query"} : pc' = [pc EXCEPT ![c] = to]
        BY <3>1 DEF InitLbug, Goto
      <3>4. CallShape'
        BY <1>0, <2>0, <3>1, <3>3 DEF CallShape, Resolving, TypeOK
      <3>5. OpeningShape'
        BY <1>0, <2>0, <3>1 DEF OpeningShape, InitLbug, TypeOK
      <3> QED BY <1>0, <2>0, <3>1, <3>2, <3>3, <3>4, <3>5 DEF McpInv, TypeOK, Labels
    <2> QED BY <2>1, <2>2, <2>3, <2>4
  <1>11. ASSUME NEW c \in Calls, CheckStale(c) PROVE McpInv'
    <2> DEFINE i == target[c]
               v == disk[handle[c].path]
    <2>0. /\ pc[c] = "check" /\ i \in Ids /\ want[c] \in Paths /\ handle[c] \in Handle
          /\ handle[c].path \in Paths /\ v \in Versions
      BY <1>0, <1>11, McpFacts DEF CheckStale, CallShape, Resolving, TypeOK
    <2>1. /\ seen' = [seen EXCEPT ![c] = [path |-> handle[c].path, version |-> v]]
          /\ UNCHANGED <<world, want, target, awaits, todo, fresh>>
      BY <1>11 DEF CheckStale
    <2>2. seen' \in [Calls -> Index \union {Absent}]
      BY <1>0, <2>0, <2>1, McpFacts DEF TypeOK
    <2>3. /\ handle' \in [Calls -> Handle \union {Absent}] /\ handle'[c] = Absent
          /\ \A d \in Calls : d # c => (handle'[d] = Absent <=> handle[d] = Absent)
          /\ repos' \in [Ids -> Handle \union {Absent}]
      <3>1. ASSUME NEW h \in Handle PROVE [h EXCEPT !.version = v] \in Handle
        BY <2>0 DEF Handle
      <3> HIDE DEF v
      <3>2. CASE Date(c, v)
        BY <1>0, <3>1, <3>2, McpFacts DEF Date, SameHandle, TypeOK
      <3>3. CASE handle' = [handle EXCEPT ![c] = Absent] /\ UNCHANGED repos
        BY <1>0, <3>3 DEF TypeOK
      <3> QED BY <1>11, <3>2, <3>3 DEF CheckStale, v
    <2>4. CASE v # 0 /\ v # handle[c].version
      <3>1. /\ Close(i) /\ initialized' = initialized \ {i}
            /\ reinit' = [reinit EXCEPT ![i] = c]
            /\ InitLbug(c, i, handle[c].path, pool'[i] # Absent, "reopen")
            /\ masked' \in {masked, masked \union {i}} /\ UNCHANGED throttled
        BY <1>11, <2>4 DEF CheckStale
      <3>2. /\ pool' = [pool EXCEPT ![i] = Absent] /\ cached' \in [Paths -> Shared]
            /\ opening' \in [Ids -> Opening \union {Absent}]
        BY <2>0, <3>1, CloseType, InitLbugType
      <3>3. PICK to \in {"reopen", "query"} : pc' = [pc EXCEPT ![c] = to]
        BY <3>1 DEF InitLbug, Goto
      <3>4. CallShape'
        BY <1>0, <2>0, <2>1, <2>3, <3>3 DEF CallShape, Resolving, TypeOK
      <3>5. OpeningShape'
        BY <1>0, <2>0, <3>1, <3>2 DEF OpeningShape, InitLbug, TypeOK
      <3> QED BY <1>0, <2>0, <2>1, <2>2, <2>3, <3>1, <3>2, <3>3, <3>4, <3>5
              DEF McpInv, TypeOK, Labels
    <2>5. CASE ~(v # 0 /\ v # handle[c].version)
      <3>1. UNCHANGED server /\ pc' = [pc EXCEPT ![c] = "query"]
        BY <1>11, <2>5 DEF CheckStale, Goto
      <3>2. CallShape'
        BY <1>0, <2>0, <2>1, <2>3, <3>1 DEF CallShape, Resolving, TypeOK
      <3> QED BY <1>0, <1>a, <2>0, <2>1, <2>2, <2>3, <3>1, <3>2 DEF McpInv, TypeOK, Labels
    <2> QED BY <2>4, <2>5
  <1>12. ASSUME NEW i \in Ids, Look(i) PROVE McpInv'
    <2> DEFINE p == opening[i].path
    <2>0. /\ opening[i] \in Opening /\ p \in Paths /\ cached[p] \in Shared
          /\ UNCHANGED <<world, repos, throttled>>
      BY <1>0, <1>12, McpFacts DEF Look, Stage, TypeOK
    <2>1. CASE OpenFails(i)
      BY <2>0, <2>1, OpenFailsType
    <2>2. CASE /\ cached' = [cached EXCEPT ![p].refs = @ + 1]
               /\ opening' = [opening EXCEPT ![i].stage = "load", ![i].version = cached[p].version]
               /\ masked' = masked \union {i}
               /\ UNCHANGED <<pool, initialized, reinit, pc, locals>>
      <3>1. [cached[p] EXCEPT !.refs = @ + 1] \in Shared
        BY <2>0 DEF Shared
      <3>2. [opening[i] EXCEPT !.stage = "load", !.version = cached[p].version] \in Opening
        BY <2>0 DEF Opening, Shared, Stages
      <3>3. /\ cached' = [cached EXCEPT ![p] = [cached[p] EXCEPT !.refs = @ + 1]]
            /\ opening' = [opening EXCEPT ![i] =
                              [opening[i] EXCEPT !.stage = "load", !.version = cached[p].version]]
        BY <1>0, <2>2 DEF TypeOK
      <3>4. cached' \in [Paths -> Shared] /\ opening' \in [Ids -> Opening \union {Absent}]
        BY <1>0, <3>1, <3>2, <3>3 DEF TypeOK
      <3>5. OpeningShape' /\ CallShape'
        BY <1>0, <2>0, <2>2, <3>3, McpFacts DEF OpeningShape, CallShape, TypeOK
      <3> QED BY <1>0, <2>0, <2>2, <3>4, <3>5 DEF McpInv, TypeOK
    <2>3. CASE /\ opening' = [opening EXCEPT ![i].stage = "init"]
               /\ UNCHANGED <<pool, cached, masked, initialized, reinit, pc, locals>>
      <3>1. [opening[i] EXCEPT !.stage = "init"] \in Opening
        BY <2>0 DEF Opening, Stages
      <3>2. opening' = [opening EXCEPT ![i] = [opening[i] EXCEPT !.stage = "init"]]
        BY <1>0, <2>3 DEF TypeOK
      <3>3. OpeningShape' /\ CallShape' /\ opening' \in [Ids -> Opening \union {Absent}]
        BY <1>0, <2>0, <2>3, <3>1, <3>2, McpFacts DEF OpeningShape, CallShape, TypeOK
      <3> QED BY <1>0, <2>0, <2>3, <3>3 DEF McpInv, TypeOK
    <2> QED BY <1>12, <2>1, <2>2, <2>3 DEF Look
  <1>13. ASSUME NEW i \in Ids, OpenDatabase(i) PROVE McpInv'
    <2> DEFINE p == opening[i].path
    <2>0. /\ opening[i] \in Opening /\ p \in Paths /\ disk[p] \in Versions
          /\ UNCHANGED <<world, repos, throttled>>
      BY <1>0, <1>13, McpFacts DEF OpenDatabase, Stage, TypeOK
    <2>1. CASE OpenFails(i)
      BY <2>0, <2>1, OpenFailsType
    <2>2. CASE /\ opening' = [opening EXCEPT ![i].stage = "opened", ![i].version = disk[p]]
               /\ masked' = masked \ {i}
               /\ UNCHANGED <<pool, cached, initialized, reinit, pc, locals>>
      <3>1. [opening[i] EXCEPT !.stage = "opened", !.version = disk[p]] \in Opening
        BY <2>0 DEF Opening, Stages
      <3>2. opening' = [opening EXCEPT ![i] =
                           [opening[i] EXCEPT !.stage = "opened", !.version = disk[p]]]
        BY <1>0, <2>2 DEF TypeOK
      <3>3. OpeningShape' /\ CallShape' /\ opening' \in [Ids -> Opening \union {Absent}]
        BY <1>0, <2>0, <2>2, <3>1, <3>2, McpFacts DEF OpeningShape, CallShape, TypeOK
      <3> QED BY <1>0, <2>0, <2>2, <3>3 DEF McpInv, TypeOK
    <2> QED BY <1>13, <2>1, <2>2 DEF OpenDatabase
  <1>14. ASSUME NEW i \in Ids, ShareDatabase(i) PROVE McpInv'
    <2>0. opening[i] \in Opening /\ opening[i].path \in Paths /\ opening[i].version \in Versions
      BY <1>0, <1>14, McpFacts DEF ShareDatabase, Stage, TypeOK
    <2>1. [opening[i] EXCEPT !.stage = "load"] \in Opening
      BY <2>0 DEF Opening, Stages
    <2>2. opening' = [opening EXCEPT ![i] = [opening[i] EXCEPT !.stage = "load"]]
      BY <1>0, <1>14 DEF ShareDatabase, TypeOK
    <2>3. [version |-> opening[i].version, refs |-> 1] \in Shared
      BY <2>0 DEF Shared
    <2>4. cached' \in [Paths -> Shared] /\ opening' \in [Ids -> Opening \union {Absent}]
      BY <1>0, <1>14, <2>1, <2>2, <2>3 DEF ShareDatabase, TypeOK
    <2>5. OpeningShape' /\ CallShape'
      BY <1>0, <1>14, <2>0, <2>2, McpFacts DEF ShareDatabase, OpeningShape, CallShape, TypeOK
    <2> QED BY <1>0, <1>14, <2>4, <2>5 DEF ShareDatabase, McpInv, TypeOK
  <1>15. ASSUME NEW i \in Ids, EnterPool(i) PROVE McpInv'
    <2>0. /\ opening[i] \in Opening /\ Database(i) \in Index
      BY <1>0, <1>15, McpFacts DEF EnterPool, Stage, Database, TypeOK
    <2>1. /\ pool' = [pool EXCEPT ![i] = Database(i)]
          /\ opening' = [opening EXCEPT ![i] = Absent]
          /\ initialized' = initialized \union {i}
          /\ reinit' \in {reinit, [reinit EXCEPT ![i] = Absent]}
          /\ UNCHANGED <<world, repos, throttled, cached, masked, want, target, handle, todo,
                         fresh, seen>>
      BY <1>15 DEF EnterPool, OpeningEnds
    <2>2. /\ \A c \in Waiting(i) : c \in Calls /\ pc[c] \in {"wait", "open", "reopen"}
          /\ pc' = [c \in Calls |-> IF c \in Waiting(i) THEN "query" ELSE pc[c]]
          /\ awaits' = [c \in Calls |-> IF c \in Waiting(i) THEN Absent ELSE awaits[c]]
      BY <1>0, <1>15 DEF EnterPool, Waiting, Opener, CallShape
    <2> HIDE DEF Waiting
    <2>3. CallShape'
      BY <1>0, <2>1, <2>2 DEF CallShape, Resolving
    <2>4. OpeningShape'
      BY <1>0, <2>1 DEF OpeningShape, TypeOK
    <2> QED BY <1>0, <2>0, <2>1, <2>2, <2>3, <2>4 DEF McpInv, TypeOK, Labels
  <1>16. ASSUME NEW c \in Calls, Query(c) PROVE McpInv'
    BY <1>0, <1>16, <1>a, EndType DEF Query, End, McpInv, TypeOK
  <1>17. ASSUME NEW i \in Ids, ThrottleEnds(i) PROVE McpInv'
    BY <1>0, <1>17, <1>a DEF ThrottleEnds, McpInv, TypeOK, CallShape
  <1>18. ASSUME NEW i \in Ids, PoolCloses(i) PROVE McpInv'
    <2>1. pool' = [pool EXCEPT ![i] = Absent] /\ cached' \in [Paths -> Shared]
      BY <1>18, CloseType DEF PoolCloses
    <2>2. OpeningShape' /\ CallShape'
      BY <1>0, <1>18, <2>1 DEF PoolCloses, OpeningShape, CallShape, TypeOK
    <2> QED BY <1>0, <1>18, <2>1, <2>2 DEF PoolCloses, McpInv, TypeOK
  <1>19. CASE UNCHANGED vars
    BY <1>0, <1>19, <1>a DEF vars, McpInv, TypeOK, CallShape
  <1> QED
    BY <1>1, <1>2, <1>3, <1>4, <1>5, <1>6, <1>7, <1>8, <1>9, <1>10, <1>11, <1>12, <1>13,
       <1>14, <1>15, <1>16, <1>17, <1>18, <1>19
       DEF Next, CallStep, PoolStep

(* The server's state keeps its types, for any calls, repositories and names. *)
THEOREM McpTypeCorrect == Spec => []TypeOK
  <1>1. McpInv => TypeOK
    BY DEF McpInv
  <1> QED BY <1>1, McpInvInit, McpInvStep, PTL DEF Spec

----------------------------------------------------------------------------
(* The handles of an MCP server: which repository an id leads to            *)

PathIn(list) == {e.path : e \in list}

(* The repository p has the id i: its pool is open on p, or being opened on it,
   or a call that is to be answered about p, or looks at p, was resolved to it. *)
Uses(i, p) ==
    \/ pool[i] # Absent /\ pool[i].path = p
    \/ opening[i] # Absent /\ opening[i].path = p
    \/ \E c \in Calls :
          /\ target[c] = i
          /\ \/ pc[c] \in Resolving /\ want[c] = p
             \/ pc[c] = "check" /\ handle[c].path = p

Leads(i, p) == repos[i] # Absent /\ repos[i].path = p

(* A repository is in the registry once, and stays there, in the list a refresh
   works off and in the map, until it is removed. *)
ListInv ==
    /\ \A e \in registry : disk[e.path] # 0
    /\ \A e, f \in registry : e.path = f.path => e = f
    /\ \A c \in Calls : \A e, f \in todo[c] : e.path = f.path => e = f
    /\ \A c \in Calls : PathIn(todo[c]) \subseteq PathIn(registry) \union removed

(* Two repositories that would have one long id, and no third of their name. *)
Twins(p, q) ==
    /\ p # q /\ LongId(p) = LongId(q)
    /\ \A r \in Paths : Name[r] = Name[p] => r \in {p, q}

(* An id is used by a repository of that name or suffix, and as long as one that
   stays uses its bare name, nobody else gets it.  Of twins that stay one has the
   long id only while the other has the bare name. *)
IdInv ==
    /\ \A i \in Ids, p \in Paths : Leads(i, p) =>
          i \in IdsOf(p) /\ p \in PathIn(registry) \union removed
    /\ \A i \in Ids, p \in Paths : Uses(i, p) => i \in IdsOf(p)
    /\ \A q \in Paths \ removed : Uses(BaseId(q), q) => Leads(BaseId(q), q)
    /\ \A p, q \in Paths \ removed :
          Twins(p, q) /\ (Uses(LongId(p), p) \/ Leads(LongId(p), p)) => Leads(BaseId(q), q)

(* One refresh at a time works off its entries and gives each its own id: who is
   given a long one has the bare name not at all. *)
RefreshInv ==
    /\ \A c, d \in Calls : pc[c] \in Refreshing /\ pc[d] \in Refreshing => c = d
    /\ \A c \in Calls : pc[c] = "apply" =>
        /\ \A q \in Paths \ removed :
              Leads(BaseId(q), q) => BaseId(q) \in fresh[c] \/ q \in PathIn(todo[c])
        /\ \A i \in fresh[c] : repos[i] # Absent /\ repos[i].path \notin PathIn(todo[c])
        /\ \A r \in Paths :
              LongId(r) \in fresh[c] /\ Leads(LongId(r), r) => ~Leads(BaseId(r), r)

RepoInv == McpInv /\ ListInv /\ IdInv /\ RefreshInv

LEMMA RepoInvInit == Init => RepoInv
  <1> SUFFICES ASSUME Init PROVE RepoInv
    OBVIOUS
  <1>1. ListInv
    BY DEF Init, ListInv, PathIn
  <1>2. \A i \in Ids, p \in Paths : ~Leads(i, p) /\ ~Uses(i, p)
    BY DEF Init, Leads, Uses, Resolving
  <1>3. IdInv
    BY <1>2, McpFacts DEF IdInv, IdsOf
  <1>4. RefreshInv
    BY DEF Init, RefreshInv, Refreshing
  <1> QED BY <1>1, <1>3, <1>4, McpInvInit DEF RepoInv

(* A step that leaves the paths of the map alone, and hands out ids of the map only. *)
MapStep ==
    /\ UNCHANGED <<disk, registry, removed>>
    /\ \A i \in Ids, p \in Paths : Leads(i, p)' <=> Leads(i, p)
    /\ \A i \in Ids : (repos[i] = Absent) <=> (repos'[i] = Absent)
    /\ \A i \in Ids, p \in Paths : Uses(i, p)' => Uses(i, p) \/ Leads(i, p)

(* A step that starts no refresh and takes no part in one. *)
NoRefresh ==
    /\ \A c \in Calls : pc'[c] \in Refreshing => pc'[c] = pc[c]
    /\ \A c \in Calls : pc'[c] = "apply" => fresh'[c] = fresh[c]
    /\ \A c \in Calls : todo'[c] \in {todo[c], {}}
    /\ \A c \in Calls : pc'[c] = "apply" => todo'[c] = todo[c]

LEMMA MapStepKeepsIds == ASSUME RepoInv, MapStep PROVE IdInv'
  <1>1. \A q \in Paths : BaseId(q) \in Ids /\ LongId(q) \in Ids
    BY McpFacts DEF IdsOf
  <1>2. \A q \in Paths : IdsOf(q)' = IdsOf(q) /\ BaseId(q)' = BaseId(q) /\ LongId(q)' = LongId(q)
    BY DEF IdsOf, BaseId, LongId
  <1>3. PathIn(registry)' = PathIn(registry) /\ removed' = removed
    BY DEF MapStep, PathIn
  <1>4. \A p, q \in Paths : Twins(p, q)' <=> Twins(p, q)
    BY DEF Twins, LongId
  <1>5. ASSUME NEW p \in Paths \ removed, NEW q \in Paths \ removed,
               Twins(p, q), Uses(LongId(p), p)' \/ Leads(LongId(p), p)'
        PROVE  Leads(BaseId(q), q)'
    <2>1. Uses(LongId(p), p) \/ Leads(LongId(p), p)
      BY <1>1, <1>2, <1>5 DEF MapStep
    <2>2. Leads(BaseId(q), q)
      BY <1>5, <2>1 DEF RepoInv, IdInv
    <2> QED BY <1>1, <1>2, <2>2 DEF MapStep
  <1> QED BY <1>1, <1>2, <1>3, <1>4, <1>5 DEF RepoInv, IdInv, MapStep

LEMMA MapStepKeepsRefresh == ASSUME RepoInv, MapStep, NoRefresh PROVE RefreshInv'
  <1>1. \A q \in Paths : BaseId(q) \in Ids
    BY McpFacts DEF IdsOf
  <1>2. \A c, d \in Calls : pc'[c] \in Refreshing /\ pc'[d] \in Refreshing => c = d
    BY DEF RepoInv, RefreshInv, NoRefresh
  <1>3. ASSUME NEW c \in Calls, pc'[c] = "apply"
        PROVE  /\ \A q \in Paths \ removed' :
                    Leads(BaseId(q), q)' => BaseId(q) \in fresh'[c] \/ q \in PathIn(todo'[c])
               /\ \A i \in fresh'[c] : repos'[i] # Absent /\ repos'[i].path \notin PathIn(todo'[c])
               /\ \A r \in Paths :
                    LongId(r) \in fresh'[c] /\ Leads(LongId(r), r)' => ~Leads(BaseId(r), r)'
    <2>1. pc[c] = "apply" /\ fresh'[c] = fresh[c] /\ todo'[c] = todo[c] /\ removed' = removed
      BY <1>3 DEF NoRefresh, MapStep, Refreshing
    <2>2. \A q \in Paths : Leads(BaseId(q), q)' => Leads(BaseId(q), q)
      BY <1>1 DEF MapStep, BaseId
    <2>3. \A i \in fresh[c] : i \in Ids /\ repos[i] \in Handle \union {Absent}
      BY DEF RepoInv, McpInv, TypeOK
    <2>4. ASSUME NEW i \in fresh[c]
          PROVE  repos'[i] # Absent /\ repos'[i].path \notin PathIn(todo[c])
      <3>1. repos[i] # Absent /\ repos[i].path \notin PathIn(todo[c]) /\ i \in Ids
        BY <2>1, <2>3 DEF RepoInv, RefreshInv
      <3>2. PICK p \in Paths : p = repos[i].path /\ Leads(i, p)
        BY <2>3, <3>1, McpFacts DEF Leads
      <3>3. repos'[i] # Absent /\ repos'[i].path = p
        BY <3>1, <3>2 DEF MapStep, Leads
      <3> QED BY <3>1, <3>2, <3>3
    <2>5. \A r \in Paths : /\ Leads(LongId(r), r)' => Leads(LongId(r), r)
                           /\ Leads(BaseId(r), r)' => Leads(BaseId(r), r)
      BY McpFacts DEF MapStep, IdsOf, BaseId, LongId
    <2> QED BY <2>1, <2>2, <2>4, <2>5, <1>3 DEF RepoInv, RefreshInv
  <1> QED BY <1>2, <1>3 DEF RefreshInv, PathIn, BaseId, LongId

LEMMA MapStepKeepsLists == ASSUME RepoInv, MapStep, NoRefresh PROVE ListInv'
  BY DEF RepoInv, ListInv, MapStep, NoRefresh, PathIn

(* The calls that end use no id any more. *)
LEMMA EndUses ==
    ASSUME RepoInv, NEW S, EndAll(S), NEW i \in Ids, NEW p \in Paths,
           pool'[i] \in {pool[i], Absent}, opening'[i] \in {opening[i], Absent}, Uses(i, p)'
    PROVE  Uses(i, p)
  BY DEF EndAll, Uses, Resolving

LEMMA EndNoRefresh == ASSUME RepoInv, NEW S, EndAll(S) PROVE NoRefresh
  BY DEF EndAll, NoRefresh, Refreshing, RepoInv, McpInv, TypeOK

LEMMA SameMap ==
    ASSUME UNCHANGED repos
    PROVE  /\ \A i \in Ids, p \in Paths : Leads(i, p)' <=> Leads(i, p)
           /\ \A i \in Ids : (repos[i] = Absent) <=> (repos'[i] = Absent)
  BY DEF Leads

(* The steps of a call from its resolution to its answer, and of time. *)
LEMMA ResolvedStep ==
    ASSUME RepoInv, NEW c \in Calls, NEW p \in Paths, NEW i \in Hits(p), Resolved(c, p, i),
           pc[c] \in {"idle", "retry"},
           UNCHANGED <<world, server, handle, awaits, todo, fresh, seen>>
    PROVE  MapStep /\ NoRefresh
  <1>1. i \in Ids /\ Leads(i, p)
    BY DEF Hits, Leads
  <1>2. /\ pc' = [pc EXCEPT ![c] = "ensure"] /\ want' = [want EXCEPT ![c] = p]
        /\ target' = [target EXCEPT ![c] = i] /\ pc \in [Calls -> Labels]
        /\ target \in [Calls -> Ids \union {NoId}]
        /\ want \in [Calls -> Paths \union {Absent}]
    BY DEF Resolved, Goto, RepoInv, McpInv, TypeOK
  <1>3. ASSUME NEW j \in Ids, NEW q \in Paths, Uses(j, q)' PROVE Uses(j, q) \/ Leads(j, q)
    BY <1>1, <1>2, <1>3 DEF Uses, Resolving, server, pools
  <1>4. NoRefresh
    BY <1>2 DEF NoRefresh, Refreshing
  <1> QED BY <1>3, <1>4, SameMap DEF MapStep, world, server

LEMMA EnsureStep == ASSUME RepoInv, NEW c \in Calls, Ensure(c) PROVE MapStep /\ NoRefresh
  <1> DEFINE i == target[c]
  <1>0. /\ pc[c] = "ensure" /\ i \in Ids /\ pc \in [Calls -> Labels]
        /\ handle \in [Calls -> Handle \union {Absent}]
        /\ UNCHANGED <<world, repos, reinit, pool, masked>>
    BY DEF Ensure, RepoInv, McpInv, TypeOK, CallShape, Resolving
  <1>1. CASE reinit[i] # Absent
    <2>1. /\ pc' = [pc EXCEPT ![c] = "wait"]
          /\ UNCHANGED <<opening, want, target, handle, todo, fresh>>
      BY <1>1 DEF Ensure, Goto
    <2>2. ASSUME NEW j \in Ids, NEW q \in Paths, Uses(j, q)' PROVE Uses(j, q)
      BY <1>0, <2>1, <2>2 DEF Uses, Resolving
    <2>3. NoRefresh
      BY <1>0, <2>1 DEF NoRefresh, Refreshing
    <2> QED BY <1>0, <2>2, <2>3, SameMap DEF MapStep, world
  <1>2. CASE reinit[i] = Absent /\ repos[i] = Absent
    BY <1>0, <1>2, EndUses, EndNoRefresh, SameMap DEF Ensure, End, MapStep, world
  <1>3. CASE reinit[i] = Absent /\ repos[i] # Absent /\ Ready(i)
    <2>1. PICK to \in {"query", "check"} : pc' = [pc EXCEPT ![c] = to]
      BY <1>3 DEF Ensure, Goto
    <2>2. /\ handle' \in {handle, [handle EXCEPT ![c] = repos[i]]}
          /\ UNCHANGED <<opening, want, target, todo, fresh>>
      BY <1>3 DEF Ensure
    <2>4. NoRefresh
      BY <1>0, <2>1, <2>2 DEF NoRefresh, Refreshing
    <2>5. CASE to = "check" => handle' = [handle EXCEPT ![c] = repos[i]]
      <3>1. ASSUME NEW j \in Ids, NEW q \in Paths, Uses(j, q)' PROVE Uses(j, q) \/ Leads(j, q)
        BY <1>0, <1>3, <2>1, <2>2, <2>5, <3>1 DEF Uses, Leads, Resolving
      <3> QED BY <1>0, <2>4, <3>1, SameMap DEF MapStep, world
    <2>6. CASE ~(to = "check" => handle' = [handle EXCEPT ![c] = repos[i]])
      BY <1>0, <1>3, <2>1, <2>2, <2>6 DEF Ensure, Goto
    <2> QED BY <2>5, <2>6
  <1>4. CASE reinit[i] = Absent /\ repos[i] # Absent /\ ~Ready(i)
    <2>1. InitLbug(c, i, repos[i].path, pool[i] # Absent, "open") /\ UNCHANGED locals
      BY <1>4 DEF Ensure
    <2>2. PICK to \in {"open", "query"} : pc' = [pc EXCEPT ![c] = to]
      BY <2>1 DEF InitLbug, Goto
    <2>3. \A j \in Ids : \/ opening'[j] = opening[j]
                         \/ j = i /\ opening'[j].path = repos[i].path
      BY <1>0, <2>1 DEF InitLbug, RepoInv, McpInv, TypeOK
    <2>4. ASSUME NEW j \in Ids, NEW q \in Paths, Uses(j, q)' PROVE Uses(j, q) \/ Leads(j, q)
      <3>1. CASE j = i /\ opening'[j].path = q /\ opening'[j].path = repos[i].path
        BY <1>4, <3>1 DEF Leads
      <3>2. CASE opening'[j] # Absent /\ opening'[j].path = q /\ opening'[j] = opening[j]
        BY <3>2 DEF Uses
      <3>3. CASE ~(opening'[j] # Absent /\ opening'[j].path = q)
        BY <1>0, <2>1, <2>2, <2>4, <3>3 DEF Uses, Resolving, locals
      <3> QED BY <2>3, <3>1, <3>2, <3>3
    <2>5. NoRefresh
      BY <1>0, <2>1, <2>2 DEF NoRefresh, Refreshing, locals
    <2> QED BY <1>0, <2>4, <2>5, SameMap DEF MapStep, world
  <1> QED BY <1>1, <1>2, <1>3, <1>4

LEMMA CheckStaleStep == ASSUME RepoInv, NEW c \in Calls, CheckStale(c) PROVE MapStep /\ NoRefresh
  <1> DEFINE i == target[c]
             v == disk[handle[c].path]
  <1>0. /\ pc[c] = "check" /\ i \in Ids /\ pc \in [Calls -> Labels]
        /\ repos \in [Ids -> Handle \union {Absent}]
        /\ handle \in [Calls -> Handle \union {Absent}]
        /\ UNCHANGED <<world, want, target, todo, fresh>>
    BY DEF CheckStale, RepoInv, McpInv, TypeOK, CallShape, Resolving
  <1>1. PICK to \in {"reopen", "query"} : pc' = [pc EXCEPT ![c] = to]
    BY DEF CheckStale, InitLbug, Goto
  <1>2. \A j \in Ids : pool'[j] \in {pool[j], Absent}
    BY DEF CheckStale, Close, server, pools, RepoInv, McpInv, TypeOK
  <1>6. \A j \in Ids : \/ opening'[j] = opening[j]
                       \/ j = i /\ opening'[j].path = handle[c].path
    BY <1>0 DEF CheckStale, InitLbug, server, pools, RepoInv, McpInv, TypeOK
  <1>7. \A h \in Handle : [h EXCEPT !.version = v].path = h.path
                          /\ [h EXCEPT !.version = v] # Absent
    <2>1. v \in Versions
      BY <1>0, McpFacts DEF RepoInv, McpInv, TypeOK, CallShape
    <2>2. \A h \in Handle : [h EXCEPT !.version = v] \in Handle
      BY <2>1 DEF Handle
    <2> QED BY <2>2, McpFacts DEF Handle
  <1>8. \A d \in Calls : handle'[d] # Absent =>
            handle[d] # Absent /\ handle'[d].path = handle[d].path
    <2> HIDE DEF v
    <2>1. CASE handle' = [handle EXCEPT ![c] = Absent]
      BY <1>0, <2>1
    <2>2. CASE Date(c, v)
      BY <1>0, <1>7, <2>2 DEF Date, SameHandle
    <2> QED BY <2>1, <2>2 DEF CheckStale, v
  <1>9. \A d \in Calls : pc'[d] = "check" => d # c /\ pc[d] = "check" /\ handle'[d] # Absent
    <2>1. McpInv'
      BY McpInvStep DEF RepoInv, Next, CallStep
    <2> QED BY <1>0, <1>1, <2>1 DEF McpInv, CallShape
  <1>3. ASSUME NEW j \in Ids, NEW q \in Paths, Uses(j, q)' PROVE Uses(j, q)
    <2>1. CASE pool'[j] # Absent /\ pool'[j].path = q
      BY <1>2, <2>1 DEF Uses
    <2>2. CASE opening'[j] # Absent /\ opening'[j].path = q
      BY <1>0, <1>6, <2>2 DEF Uses
    <2>3. ASSUME NEW d \in Calls, target[d] = j, pc'[d] \in Resolving, want[d] = q
          PROVE  Uses(j, q)
      BY <1>0, <1>1, <2>3 DEF Uses, Resolving
    <2>4. ASSUME NEW d \in Calls, target[d] = j, pc'[d] = "check", handle'[d].path = q
          PROVE  Uses(j, q)
      BY <1>8, <1>9, <2>4 DEF Uses
    <2> QED BY <1>0, <1>3, <2>1, <2>2, <2>3, <2>4 DEF Uses
  <1>4. NoRefresh
    BY <1>0, <1>1 DEF NoRefresh, Refreshing
  <1>5. /\ \A j \in Ids, p \in Paths : Leads(j, p)' <=> Leads(j, p)
        /\ \A j \in Ids : (repos[j] = Absent) <=> (repos'[j] = Absent)
    <2> HIDE DEF v
    <2>1. CASE UNCHANGED repos
      BY <2>1, SameMap
    <2>2. CASE Date(c, v)
      <3>1. \A j \in Ids : \/ repos'[j] = repos[j]
                           \/ /\ repos[j] # Absent /\ repos'[j] # Absent
                              /\ repos'[j].path = repos[j].path
        BY <1>0, <1>7, <2>2 DEF Date, SameHandle
      <3> QED BY <3>1 DEF Leads
    <2> QED BY <2>1, <2>2 DEF CheckStale, server, v
  <1> QED BY <1>0, <1>3, <1>4, <1>5 DEF MapStep, world

(* The steps of an opening keep to its path. *)
LEMMA OpenFailsStep ==
    ASSUME RepoInv, NEW i \in Ids, OpenFails(i), UNCHANGED <<world, repos>>
    PROVE  MapStep /\ NoRefresh
  <1>1. \A j \in Ids : pool'[j] = pool[j] /\ opening'[j] \in {opening[j], Absent}
    BY DEF OpenFails, OpeningEnds, RepoInv, McpInv, TypeOK
  <1>2. ASSUME NEW j \in Ids, NEW q \in Paths, Uses(j, q)' PROVE Uses(j, q)
    BY <1>1, <1>2, EndUses DEF OpenFails
  <1>3. NoRefresh
    BY EndNoRefresh DEF OpenFails
  <1> QED BY <1>2, <1>3, SameMap DEF MapStep, world

LEMMA StageStep ==
    ASSUME RepoInv, NEW i \in Ids, opening[i] # Absent,
           \A j \in Ids : \/ opening'[j] = opening[j]
                          \/ j = i /\ opening'[j].path = opening[i].path,
           UNCHANGED <<world, repos, pool, pc, locals>>
    PROVE  MapStep /\ NoRefresh
  <1>1. ASSUME NEW j \in Ids, NEW q \in Paths, Uses(j, q)' PROVE Uses(j, q)
    <2>1. CASE opening'[j] # Absent /\ opening'[j].path = q
      BY <2>1 DEF Uses
    <2>2. CASE ~(opening'[j] # Absent /\ opening'[j].path = q)
      BY <1>1, <2>2 DEF Uses, locals
    <2> QED BY <2>1, <2>2
  <1>2. NoRefresh
    BY DEF NoRefresh, locals
  <1> QED BY <1>1, <1>2, SameMap DEF MapStep, world

LEMMA LookStep == ASSUME RepoInv, NEW i \in Ids, Look(i) PROVE MapStep /\ NoRefresh
  <1>0. opening[i] \in Opening /\ opening[i] # Absent /\ UNCHANGED <<world, repos, throttled>>
    BY McpFacts DEF Look, Stage, RepoInv, McpInv, TypeOK
  <1>1. CASE OpenFails(i)
    BY <1>0, <1>1, OpenFailsStep
  <1>2. CASE ~OpenFails(i)
    <2>1. UNCHANGED <<pool, pc, locals>>
      BY <1>2 DEF Look
    <2>2. \A j \in Ids : \/ opening'[j] = opening[j]
                         \/ j = i /\ opening'[j].path = opening[i].path
      BY <1>0, <1>2 DEF Look, Opening, RepoInv, McpInv, TypeOK
    <2> QED BY <1>0, <2>1, <2>2, StageStep
  <1> QED BY <1>1, <1>2

LEMMA OpenDatabaseStep == ASSUME RepoInv, NEW i \in Ids, OpenDatabase(i) PROVE MapStep /\ NoRefresh
  <1>0. opening[i] \in Opening /\ opening[i] # Absent /\ UNCHANGED <<world, repos, throttled>>
    BY McpFacts DEF OpenDatabase, Stage, RepoInv, McpInv, TypeOK
  <1>1. CASE OpenFails(i)
    BY <1>0, <1>1, OpenFailsStep
  <1>2. CASE ~OpenFails(i)
    <2>1. UNCHANGED <<pool, pc, locals>>
      BY <1>2 DEF OpenDatabase
    <2>2. \A j \in Ids : \/ opening'[j] = opening[j]
                         \/ j = i /\ opening'[j].path = opening[i].path
      BY <1>0, <1>2 DEF OpenDatabase, Opening, RepoInv, McpInv, TypeOK
    <2> QED BY <1>0, <2>1, <2>2, StageStep
  <1> QED BY <1>1, <1>2

LEMMA ShareDatabaseStep ==
    ASSUME RepoInv, NEW i \in Ids, ShareDatabase(i) PROVE MapStep /\ NoRefresh
  <1>0. opening[i] \in Opening /\ opening[i] # Absent
    BY McpFacts DEF ShareDatabase, Stage, RepoInv, McpInv, TypeOK
  <1>1. UNCHANGED <<world, repos, pool, pc, locals>>
    BY DEF ShareDatabase
  <1>2. \A j \in Ids : \/ opening'[j] = opening[j]
                       \/ j = i /\ opening'[j].path = opening[i].path
    BY <1>0 DEF ShareDatabase, Opening, RepoInv, McpInv, TypeOK
  <1> QED BY <1>0, <1>1, <1>2, StageStep

LEMMA EnterPoolStep == ASSUME RepoInv, NEW i \in Ids, EnterPool(i) PROVE MapStep /\ NoRefresh
  <1>0. /\ opening[i] # Absent /\ opening[i].stage \in {"opened", "load"} /\ pool[i] = Absent
        /\ UNCHANGED <<world, repos, want, target, handle, todo, fresh>>
    BY DEF EnterPool, Stage, RepoInv, McpInv, OpeningShape
  <1>1. \A j \in Ids : /\ opening'[j] \in {opening[j], Absent}
                       /\ \/ pool'[j] = pool[j]
                          \/ j = i /\ pool'[j].path = opening[i].path
    BY <1>0 DEF EnterPool, OpeningEnds, Database, RepoInv, McpInv, TypeOK
  <1>2. \A d \in Calls : \/ pc'[d] = pc[d]
                         \/ pc'[d] = "query" /\ pc[d] \in {"wait", "open", "reopen"}
    <2>1. \A d \in Calls : d \in Waiting(i) => pc[d] \in {"wait", "open", "reopen"}
      BY DEF RepoInv, McpInv, CallShape, Waiting, Opener
    <2> HIDE DEF Waiting
    <2> QED BY <2>1 DEF EnterPool
  <1>3. ASSUME NEW j \in Ids, NEW q \in Paths, Uses(j, q)' PROVE Uses(j, q)
    <2>1. CASE pool'[j] # Absent /\ pool'[j].path = q
      BY <1>0, <1>1, <2>1 DEF Uses
    <2>2. CASE opening'[j] # Absent /\ opening'[j].path = q
      BY <1>1, <2>2 DEF Uses
    <2>3. CASE \E d \in Calls : target[d] = j /\ pc'[d] \in Resolving /\ want[d] = q
      BY <1>2, <2>3 DEF Uses, Resolving
    <2>4. CASE \E d \in Calls : target[d] = j /\ pc'[d] = "check" /\ handle[d].path = q
      BY <1>2, <2>4 DEF Uses
    <2> QED BY <1>0, <1>3, <2>1, <2>2, <2>3, <2>4 DEF Uses
  <1>4. NoRefresh
    BY <1>0, <1>2 DEF NoRefresh, Refreshing
  <1> QED BY <1>0, <1>3, <1>4, SameMap DEF MapStep, world

(* A refresh of the map, of which only one runs at a time. *)
LEMMA StartRefresh ==
    ASSUME RepoInv, "overlap" \notin Events, NEW c \in Calls, pc[c] = "idle", Refresh(c),
           UNCHANGED <<world, server, target, handle, awaits, todo, fresh, seen>>,
           \A d \in Calls : d # c => want'[d] = want[d]
    PROVE  ListInv' /\ IdInv' /\ RefreshInv'
  <1>1. /\ pc' = [pc EXCEPT ![c] = "read"] /\ pc \in [Calls -> Labels]
        /\ \A d \in Calls : pc[d] \notin Refreshing
    BY DEF Refresh, Goto, RepoInv, McpInv, TypeOK, Refreshing
  <1>2. ASSUME NEW j \in Ids, NEW q \in Paths, Uses(j, q)' PROVE Uses(j, q)
    BY <1>1, <1>2 DEF Uses, Resolving, server, pools
  <1>3. MapStep
    BY <1>2, SameMap DEF MapStep, world, server
  <1>4. ListInv'
    BY DEF RepoInv, ListInv, PathIn, world
  <1>5. RefreshInv'
    BY <1>1 DEF RefreshInv, Refreshing
  <1> QED BY <1>3, <1>4, <1>5, MapStepKeepsIds

LEMMA ReadRegistryStep ==
    ASSUME RepoInv, NEW c \in Calls, ReadRegistry(c) PROVE ListInv' /\ IdInv' /\ RefreshInv'
  <1>0. /\ pc[c] = "read" /\ pc' = [pc EXCEPT ![c] = "apply"] /\ pc \in [Calls -> Labels]
        /\ todo' = [todo EXCEPT ![c] = registry'] /\ fresh' = [fresh EXCEPT ![c] = {}]
        /\ todo \in [Calls -> SUBSET Index] /\ fresh \in [Calls -> SUBSET Ids]
        /\ UNCHANGED <<clock, disk, removed, server, want, target, handle>>
    BY DEF ReadRegistry, Goto, RepoInv, McpInv, TypeOK
  <1>1. registry' = registry
    BY DEF ReadRegistry, RepoInv, ListInv
  <1>2. ListInv'
    BY <1>0, <1>1 DEF RepoInv, ListInv, PathIn
  <1>3. ASSUME NEW j \in Ids, NEW q \in Paths, Uses(j, q)' PROVE Uses(j, q)
    BY <1>0, <1>3 DEF Uses, Resolving, server, pools
  <1>4. MapStep
    BY <1>0, <1>1, <1>3, SameMap DEF MapStep, server
  <1>5. \A d \in Calls : d # c => pc[d] \notin Refreshing
    BY <1>0 DEF RepoInv, RefreshInv, Refreshing
  <1>6. RefreshInv'
    <2>1. \A d, e \in Calls : pc'[d] \in Refreshing /\ pc'[e] \in Refreshing => d = e
      BY <1>0, <1>5
    <2>2. \A d \in Calls : pc'[d] = "apply" => d = c
      BY <1>0, <1>5 DEF Refreshing
    <2>3. \A q \in Paths \ removed' : Leads(BaseId(q), q)' => q \in PathIn(todo'[c])
      <3>1. \A q \in Paths : BaseId(q) \in Ids
        BY McpFacts DEF IdsOf
      <3>2. todo'[c] = registry
        BY <1>0, <1>1
      <3>3. \A q \in Paths : Leads(BaseId(q), q)' => Leads(BaseId(q), q)
        BY <1>0 DEF Leads, server, BaseId
      <3> QED BY <1>0, <3>1, <3>2, <3>3 DEF RepoInv, IdInv
    <2>4. fresh'[c] = {}
      BY <1>0
    <2> QED BY <2>1, <2>2, <2>3, <2>4 DEF RefreshInv, PathIn, BaseId, LongId
  <1> QED BY <1>2, <1>4, <1>6, MapStepKeepsIds

(* An entry is given its own id: an earlier one only if that leads to it, or to
   a repository that the list does not have. *)
LEMMA EntryId ==
    ASSUME RepoInv, NEW c \in Calls, pc[c] = "apply", NEW e \in todo[c]
    PROVE  /\ e \in Index /\ RepoId(e.path) \in IdsOf(e.path)
           /\ \A q \in Paths : Leads(BaseId(q), q) /\ RepoId(e.path) = BaseId(q) => q = e.path
           /\ Leads(BaseId(e.path), e.path) => RepoId(e.path) = BaseId(e.path)
           /\ RepoId(e.path) = LongId(e.path) =>
                 \E r \in Paths : /\ r # e.path /\ Name[r] = Name[e.path]
                                  /\ BaseId(r) = BaseId(e.path) /\ Leads(BaseId(r), r)
  <1>1. e \in Index /\ e.path \in Paths
    BY McpFacts DEF RepoInv, McpInv, TypeOK
  <1>2. \A p, q \in Paths : LongId(p) # BaseId(q)
    BY McpAssumption DEF McpAssumption, LongId, BaseId
  <1>3. ASSUME RepoId(e.path) = LongId(e.path)
        PROVE  \E r \in Paths : /\ r # e.path /\ Name[r] = Name[e.path]
                                /\ BaseId(r) = BaseId(e.path) /\ Leads(BaseId(r), r)
    <2> DEFINE base == BaseId(e.path)
    <2>1. base \in Ids /\ repos[base] # Absent /\ repos[base].path # e.path
      BY <1>1, <1>2, <1>3, McpFacts DEF RepoId, BaseId, LongId, IdsOf
    <2>2. PICK r \in Paths : r = repos[base].path /\ Leads(base, r)
      BY <2>1, McpFacts DEF RepoInv, McpInv, TypeOK, Leads
    <2>3. base = BaseId(r)
      BY <1>1, <1>2, <2>1, <2>2 DEF RepoInv, IdInv, IdsOf
    <2> QED BY <1>1, <2>1, <2>2, <2>3 DEF BaseId
  <1> QED BY <1>1, <1>2, <1>3, RepoIdType DEF RepoId, BaseId, LongId, Leads

LEMMA ApplyEntryStep ==
    ASSUME RepoInv, NEW c \in Calls, ApplyEntry(c) PROVE ListInv' /\ IdInv' /\ RefreshInv'
  <1>1. PICK e \in todo[c], m \in Marks :
          /\ repos' = [repos EXCEPT ![RepoId(e.path)] =
                          [path |-> e.path, version |-> e.version, mark |-> m]]
          /\ fresh' = [fresh EXCEPT ![c] = @ \union {RepoId(e.path)}]
          /\ todo' = [todo EXCEPT ![c] = @ \ {e}]
    BY DEF ApplyEntry
  <1> DEFINE i == RepoId(e.path)
             h == [path |-> e.path, version |-> e.version, mark |-> m]
  <1>2. /\ pc[c] = "apply"
        /\ UNCHANGED <<world, initialized, throttled, reinit, pool, opening, pc, want, target,
                       handle, awaits, seen>>
    BY DEF ApplyEntry
  <1>3. /\ e \in Index /\ h # Absent /\ h.path = e.path /\ e.path \in Paths /\ i \in IdsOf(e.path) /\ i \in Ids
        /\ \A q \in Paths : Leads(BaseId(q), q) /\ i = BaseId(q) => q = e.path
        /\ Leads(BaseId(e.path), e.path) => i = BaseId(e.path)
        /\ i = LongId(e.path) =>
              \E r \in Paths : /\ r # e.path /\ Name[r] = Name[e.path]
                               /\ BaseId(r) = BaseId(e.path) /\ Leads(BaseId(r), r)
    BY <1>2, EntryId, McpFacts
  <1>4. /\ repos \in [Ids -> Handle \union {Absent}] /\ todo \in [Calls -> SUBSET Index]
        /\ fresh \in [Calls -> SUBSET Ids]
    BY DEF RepoInv, McpInv, TypeOK
  <1>13. /\ repos' = [repos EXCEPT ![i] = h]
    BY <1>1
  <1> HIDE DEF i, h
  <1>5. /\ repos' = [repos EXCEPT ![i] = h]
        /\ fresh' = [fresh EXCEPT ![c] = @ \union {i}]
        /\ todo' = [todo EXCEPT ![c] = @ \ {e}]
    BY <1>1, <1>13 DEF i
  <1>6. \A j \in Ids, p \in Paths :
            Leads(j, p)' <=> (j = i /\ p = e.path) \/ (j # i /\ Leads(j, p))
    BY <1>3, <1>4, <1>5 DEF Leads
  <1>7. e.path \in PathIn(registry) \union removed
    BY <1>2 DEF RepoInv, ListInv, PathIn
  <1>8. \A q \in Paths : BaseId(q) \in Ids /\ LongId(q) \in Ids
    BY McpFacts DEF IdsOf
  <1>12. \A p, q \in Paths : LongId(p) # BaseId(q)
    BY McpAssumption DEF McpAssumption, LongId, BaseId
  <1>9. ListInv'
    BY <1>2, <1>4, <1>5 DEF RepoInv, ListInv, PathIn, world
  <1>10. IdInv'
    <2>1. \A j \in Ids, p \in Paths : Uses(j, p)' <=> Uses(j, p)
      BY <1>2 DEF Uses
    <2>2. \A j \in Ids, p \in Paths : Leads(j, p)' =>
              j \in IdsOf(p) /\ p \in PathIn(registry) \union removed
      BY <1>3, <1>6, <1>7 DEF RepoInv, IdInv
    <2>0. ASSUME NEW q \in Paths, Leads(BaseId(q), q) PROVE Leads(BaseId(q), q)'
      <3>1. (i = BaseId(q) /\ q = e.path) \/ i # BaseId(q)
        BY <1>3, <2>0
      <3>2. repos'[BaseId(q)] # Absent /\ repos'[BaseId(q)].path = q
        BY <1>3, <1>4, <1>5, <1>8, <2>0, <3>1 DEF Leads
      <3> QED BY <3>2 DEF Leads, BaseId
    <2>3. \A q \in Paths \ removed : Uses(BaseId(q), q)' => Leads(BaseId(q), q)'
      <3>1. SUFFICES ASSUME NEW q \in Paths \ removed, Uses(BaseId(q), q)
                     PROVE  Leads(BaseId(q), q)'
        BY <1>2 DEF Uses, BaseId
      <3> QED BY <2>0, <3>1 DEF RepoInv, IdInv
    <2>7. ASSUME NEW p \in Paths \ removed, NEW q \in Paths \ removed,
                 Twins(p, q), Uses(LongId(p), p)' \/ Leads(LongId(p), p)'
          PROVE  Leads(BaseId(q), q)'
      <3>1. Uses(LongId(p), p)' => Uses(LongId(p), p)
        BY <1>2 DEF Uses, LongId
      <3>2. CASE Uses(LongId(p), p) \/ Leads(LongId(p), p)
        BY <2>0, <2>7, <3>2 DEF RepoInv, IdInv
      <3>3. CASE ~Leads(LongId(p), p) /\ Leads(LongId(p), p)'
        <4>1. repos'[LongId(p)] # repos[LongId(p)]
          BY <3>3 DEF Leads, LongId
        <4>2. LongId(p) = i /\ p = e.path
          BY <1>3, <1>4, <1>5, <1>8, <3>3, <4>1 DEF Leads, LongId
        <4>3. PICK r \in Paths : r # p /\ Name[r] = Name[p] /\ Leads(BaseId(r), r)
          BY <1>3, <4>2
        <4>4. r = q
          BY <2>7, <4>3 DEF Twins
        <4> QED BY <2>0, <4>3, <4>4
      <3> QED BY <2>7, <3>1, <3>2, <3>3
    <2>4. UNCHANGED removed /\ PathIn(registry)' = PathIn(registry)
      BY <1>2 DEF world, PathIn
    <2>5. \A j \in Ids, p \in Paths : Uses(j, p)' => j \in IdsOf(p)
      BY <2>1 DEF RepoInv, IdInv
    <2>6. /\ \A p \in Paths : IdsOf(p)' = IdsOf(p)
          /\ \A p, q \in Paths : Twins(p, q)' <=> Twins(p, q)
      BY DEF Twins, IdsOf, BaseId, LongId
    <2> QED BY <2>2, <2>3, <2>4, <2>5, <2>6, <2>7 DEF IdInv
  <1>11. RefreshInv'
    <2>1. \A d \in Calls : pc[d] = "apply" => d = c
      BY <1>2 DEF RepoInv, RefreshInv, Refreshing
    <2>2. ASSUME NEW q \in Paths \ removed, Leads(BaseId(q), q)'
          PROVE  BaseId(q) \in fresh'[c] \/ q \in PathIn(todo'[c])
      <3>0. fresh'[c] = fresh[c] \union {i} /\ todo'[c] = todo[c] \ {e}
        BY <1>4, <1>5
      <3>1. CASE BaseId(q) = i
        BY <3>0, <3>1
      <3>2. CASE BaseId(q) # i
        <4>1. repos'[BaseId(q)] = repos[BaseId(q)]
          BY <1>4, <1>5, <3>2
        <4>2. Leads(BaseId(q), q)
          BY <2>2, <4>1 DEF Leads, BaseId
        <4>3. BaseId(q) \in fresh[c] \/ q \in PathIn(todo[c])
          BY <1>2, <4>2 DEF RepoInv, RefreshInv
        <4>4. q # e.path
          BY <1>3, <3>2, <4>2
        <4> QED BY <3>0, <4>3, <4>4 DEF PathIn
      <3> QED BY <3>1, <3>2
    <2>3. ASSUME NEW j \in fresh'[c]
          PROVE  repos'[j] # Absent /\ repos'[j].path \notin PathIn(todo'[c])
      <3>0. fresh'[c] = fresh[c] \union {i} /\ todo'[c] = todo[c] \ {e}
        BY <1>4, <1>5
      <3>1. CASE j = i
        BY <1>3, <1>4, <1>5, <3>0, <3>1 DEF PathIn, RepoInv, ListInv
      <3>2. CASE j # i
        <4>1. j \in fresh[c] /\ j \in Ids
          BY <1>4, <3>0, <3>2
        <4>2. repos[j] # Absent /\ repos[j].path \notin PathIn(todo[c])
          BY <1>2, <4>1 DEF RepoInv, RefreshInv
        <4> QED BY <1>4, <1>5, <3>0, <3>2, <4>1, <4>2 DEF PathIn
      <3> QED BY <3>1, <3>2
    <2>4. \A d, f \in Calls : pc[d] \in Refreshing /\ pc[f] \in Refreshing => d = f
      BY DEF RepoInv, RefreshInv
    <2>5. ASSUME NEW r \in Paths, LongId(r) \in fresh'[c], Leads(LongId(r), r)'
          PROVE  ~Leads(BaseId(r), r)'
      <3>0. fresh'[c] = fresh[c] \union {i}
        BY <1>4, <1>5
      <3>1. CASE LongId(r) = i
        <4>1. repos'[i] = h /\ e.path = r
          BY <1>3, <1>4, <1>5, <2>5, <3>1 DEF Leads, LongId
        <4>2. PICK o \in Paths : o # r /\ BaseId(o) = BaseId(r) /\ Leads(BaseId(o), o)
          BY <1>3, <3>1, <4>1
        <4>3. repos'[BaseId(r)] = repos[BaseId(r)]
          BY <1>4, <1>5, <1>12, <3>1
        <4> QED BY <4>2, <4>3 DEF Leads, BaseId
      <3>2. CASE LongId(r) # i
        <4>1. LongId(r) \in fresh[c] /\ repos'[LongId(r)] = repos[LongId(r)]
          BY <1>4, <1>5, <2>5, <3>0, <3>2
        <4>2. Leads(LongId(r), r)
          BY <2>5, <4>1 DEF Leads, LongId
        <4>3. ~Leads(BaseId(r), r)
          BY <1>2, <4>1, <4>2 DEF RepoInv, RefreshInv
        <4>4. e.path # r
          BY <1>2, <4>1, <4>2 DEF RepoInv, RefreshInv, Leads, PathIn
        <4>5. repos'[BaseId(r)] \in {repos[BaseId(r)], h}
          BY <1>4, <1>5, <1>8
        <4> QED BY <1>3, <4>3, <4>4, <4>5 DEF Leads, BaseId
      <3> QED BY <3>1, <3>2
    <2> QED BY <1>2, <2>1, <2>2, <2>3, <2>4, <2>5 DEF RefreshInv, PathIn, BaseId, LongId, world
  <1> QED BY <1>9, <1>10, <1>11

LEMMA PruneStep ==
    ASSUME RepoInv, NEW c \in Calls, Prune(c) PROVE ListInv' /\ IdInv' /\ RefreshInv'
  <1>0. /\ pc[c] = "apply" /\ todo[c] = {}
        /\ repos' = [i \in Ids |-> IF i \in fresh[c] THEN repos[i] ELSE Absent]
        /\ UNCHANGED <<world, pools>> /\ pc \in [Calls -> Labels]
        /\ fresh \in [Calls -> SUBSET Ids]
    BY DEF Prune, RepoInv, McpInv, TypeOK
  <1>1. \/ End(c)
        \/ pc' = [pc EXCEPT ![c] = "retry"] /\ UNCHANGED <<want, target, handle, todo>>
    BY DEF Prune, Goto
  <1>2. ListInv'
    <2>1. \A d \in Calls : todo'[d] \in {todo[d], {}}
      BY <1>1 DEF End, EndAll
    <2> QED BY <1>0, <2>1 DEF RepoInv, ListInv, PathIn, world
  <1>3. ASSUME NEW j \in Ids, NEW q \in Paths, Uses(j, q)' PROVE Uses(j, q)
    <2>1. CASE End(c)
      BY <1>0, <1>3, <2>1, EndUses DEF End, pools
    <2>2. CASE pc' = [pc EXCEPT ![c] = "retry"] /\ UNCHANGED <<want, target, handle, todo>>
      BY <1>0, <1>3, <2>2 DEF Uses, Resolving, pools
    <2> QED BY <1>1, <2>1, <2>2
  <1>4. \A j \in Ids, q \in Paths : Leads(j, q)' <=> Leads(j, q) /\ j \in fresh[c]
    BY <1>0 DEF Leads
  <1>5. \A q \in Paths \ removed : Leads(BaseId(q), q) => BaseId(q) \in fresh[c]
    BY <1>0 DEF RepoInv, RefreshInv, PathIn
  <1>6. IdInv'
    <2>1. UNCHANGED removed /\ PathIn(registry)' = PathIn(registry)
      BY <1>0 DEF world, PathIn
    <2>2. /\ \A p \in Paths : /\ BaseId(p) \in Ids /\ BaseId(p)' = BaseId(p)
                              /\ LongId(p) \in Ids /\ LongId(p)' = LongId(p)
                              /\ IdsOf(p)' = IdsOf(p)
          /\ \A p, q \in Paths : Twins(p, q)' <=> Twins(p, q)
      BY McpFacts DEF Twins, IdsOf, BaseId, LongId
    <2>3. ASSUME NEW q \in Paths \ removed, Uses(BaseId(q), q)'
          PROVE  Leads(BaseId(q), q)'
      <3>1. Uses(BaseId(q), q)
        BY <1>3, <2>2, <2>3 DEF BaseId
      <3>2. Leads(BaseId(q), q) /\ BaseId(q) \in fresh[c]
        BY <1>5, <3>1 DEF RepoInv, IdInv
      <3> QED BY <1>4, <2>2, <3>2
    <2>4. ASSUME NEW p \in Paths \ removed, NEW q \in Paths \ removed,
                 Twins(p, q), Uses(LongId(p), p)' \/ Leads(LongId(p), p)'
          PROVE  Leads(BaseId(q), q)'
      <3>1. Uses(LongId(p), p) \/ Leads(LongId(p), p)
        BY <1>3, <1>4, <2>2, <2>4 DEF LongId
      <3>2. Leads(BaseId(q), q) /\ BaseId(q) \in fresh[c]
        BY <1>5, <2>4, <3>1 DEF RepoInv, IdInv
      <3> QED BY <1>4, <2>2, <3>2
    <2> QED BY <1>3, <1>4, <2>1, <2>2, <2>3, <2>4 DEF RepoInv, IdInv
  <1>7. RefreshInv'
    <2>1. \A d \in Calls : pc'[d] \in Refreshing => d # c /\ pc'[d] = pc[d]
      BY <1>0, <1>1 DEF Refreshing, End, EndAll
    <2>2. \A d \in Calls : pc[d] \in Refreshing => d = c
      BY <1>0 DEF RepoInv, RefreshInv, Refreshing
    <2>3. \A d \in Calls : pc'[d] \notin Refreshing
      BY <2>1, <2>2
    <2> QED BY <2>3 DEF RefreshInv, Refreshing
  <1> QED BY <1>2, <1>6, <1>7

(* Other processes: what a repository is listed by. *)
LEMMA WorldStep ==
    ASSUME RepoInv, UNCHANGED <<server, pc, locals>>,
           PathIn(registry) \union removed \subseteq PathIn(registry') \union removed',
           removed \subseteq removed'
    PROVE  /\ \A c \in Calls : PathIn(todo'[c]) \subseteq PathIn(registry') \union removed'
           /\ IdInv' /\ RefreshInv'
  <1>1. \A i \in Ids, p \in Paths : (Leads(i, p)' <=> Leads(i, p)) /\ (Uses(i, p)' <=> Uses(i, p))
    BY DEF Leads, Uses, server, pools, locals
  <1>2. /\ \A p \in Paths : /\ BaseId(p) \in Ids /\ BaseId(p)' = BaseId(p)
                            /\ LongId(p) \in Ids /\ LongId(p)' = LongId(p)
                            /\ IdsOf(p)' = IdsOf(p)
        /\ \A p, q \in Paths : Twins(p, q)' <=> Twins(p, q)
    BY McpFacts DEF Twins, IdsOf, BaseId, LongId
  <1>3. PathIn(registry)' = PathIn(registry')
    BY DEF PathIn
  <1>4. IdInv'
    BY <1>1, <1>2, <1>3 DEF RepoInv, IdInv
  <1>5. RefreshInv'
    <2>1. \A c \in Calls : pc'[c] = "apply" =>
            \A q \in Paths \ removed' :
                Leads(BaseId(q), q)' => BaseId(q) \in fresh[c] \/ q \in PathIn(todo[c])
      BY <1>1, <1>2 DEF RepoInv, RefreshInv
    <2>2. \A c \in Calls : PathIn(todo[c])' = PathIn(todo[c])
      BY DEF locals, PathIn
    <2>3. \A c \in Calls : pc'[c] = "apply" =>
            \A r \in Paths : LongId(r)' \in fresh'[c] /\ Leads(LongId(r), r)'
                              => ~Leads(BaseId(r), r)'
      BY <1>1, <1>2 DEF RepoInv, RefreshInv, locals
    <2> QED BY <1>2, <2>1, <2>2, <2>3 DEF RepoInv, RefreshInv, server, locals
  <1>6. \A c \in Calls : PathIn(todo'[c]) \subseteq PathIn(registry') \union removed'
    BY DEF RepoInv, ListInv, locals
  <1> QED BY <1>4, <1>5, <1>6

LEMMA OtherProcessStep ==
    ASSUME RepoInv, NEW p \in Paths, Analyze(p) \/ Register(p) \/ Remove(p)
    PROVE  ListInv' /\ IdInv' /\ RefreshInv'
  <1>0. disk \in [Paths -> Versions] /\ clock \in Nat
    BY McpFacts DEF RepoInv, McpInv, TypeOK, Versions
  <1>1. CASE Analyze(p)
    <2>1. UNCHANGED <<registry, removed, server, pc, locals>>
      BY <1>1 DEF Analyze
    <2>2. \A q \in Paths : disk[q] # 0 => disk'[q] # 0
      BY <1>0, <1>1 DEF Analyze
    <2>3. \A e \in registry : e.path \in Paths
      BY McpFacts DEF RepoInv, McpInv, TypeOK
    <2> QED BY <2>1, <2>2, <2>3, WorldStep DEF RepoInv, ListInv, locals, PathIn
  <1>2. CASE Register(p)
    <2> DEFINE entry == [path |-> p, version |-> disk[p]]
    <2>1. /\ registry' = (registry \ Entries(p)) \union {entry} /\ disk[p] # 0
          /\ UNCHANGED <<clock, disk, removed, server, pc, locals>>
      BY <1>2 DEF Register
    <2>2. PathIn(registry) \subseteq PathIn(registry')
      <3>1. entry \in registry' /\ entry.path = p
        BY <2>1
      <3>2. ASSUME NEW e \in registry PROVE \E f \in registry' : f.path = e.path
        BY <2>1, <3>1 DEF Entries
      <3> QED BY <3>2 DEF PathIn
    <2>3. /\ \A e \in registry' : disk'[e.path] # 0
          /\ \A e, f \in registry' : e.path = f.path => e = f
      BY <2>1 DEF Entries, RepoInv, ListInv
    <2>4. \A c \in Calls : \A e, f \in todo'[c] : e.path = f.path => e = f
      BY <2>1 DEF locals, RepoInv, ListInv
    <2> QED BY <2>1, <2>2, <2>3, <2>4, WorldStep DEF ListInv, PathIn
  <1>3. CASE Remove(p)
    <2>1. /\ disk' = [disk EXCEPT ![p] = 0] /\ registry' = registry \ Entries(p)
          /\ removed' = removed \union {p}
          /\ UNCHANGED <<clock, server, pc, locals>>
      BY <1>3 DEF Remove
    <2>2. PathIn(registry) \subseteq PathIn(registry') \union {p}
      BY <2>1 DEF PathIn, Entries
    <2>3. \A e \in registry : e.path \in Paths
      BY McpFacts DEF RepoInv, McpInv, TypeOK
    <2>4. /\ \A e \in registry' : disk'[e.path] # 0
          /\ \A e, f \in registry' : e.path = f.path => e = f
      BY <1>0, <2>1, <2>3 DEF Entries, RepoInv, ListInv
    <2>5. \A c \in Calls : \A e, f \in todo'[c] : e.path = f.path => e = f
      BY <2>1 DEF locals, RepoInv, ListInv
    <2> QED BY <2>1, <2>2, <2>4, <2>5, WorldStep DEF ListInv, PathIn
  <1> QED BY <1>1, <1>2, <1>3

LEMMA RepoInvStep ==
    ASSUME "overlap" \notin Events PROVE RepoInv /\ [Next]_vars => RepoInv'
  <1> SUFFICES ASSUME RepoInv, [Next]_vars PROVE RepoInv'
    OBVIOUS
  <1>0. McpInv'
    BY McpInvStep DEF RepoInv
  <1> DEFINE Stays == ListInv' /\ IdInv' /\ RefreshInv'
  <1>1. MapStep /\ NoRefresh => Stays
    BY MapStepKeepsIds, MapStepKeepsLists, MapStepKeepsRefresh
  <1>2. ASSUME NEW c \in Calls, NEW p \in Paths, Call(c, p) PROVE Stays
    <2>1. CASE \E i \in Hits(p) : Resolved(c, p, i)
      <3>1. PICK i \in Hits(p) : Resolved(c, p, i)
        BY <2>1
      <3> QED BY <1>1, <1>2, <3>1, ResolvedStep DEF Call
    <2>2. CASE Hits(p) = {} /\ Refresh(c) /\ want' = [want EXCEPT ![c] = p] /\ UNCHANGED target
      BY <1>2, <2>2, StartRefresh DEF Call, RepoInv, McpInv, TypeOK
    <2> QED BY <1>2, <2>1, <2>2 DEF Call
  <1>3. ASSUME NEW c \in Calls, ListRepos(c) PROVE Stays
    BY <1>3, StartRefresh DEF ListRepos, locals
  <1>4. ASSUME NEW c \in Calls, Retry(c) PROVE Stays
    <2>0. pc[c] = "retry" /\ want[c] \in Paths /\ UNCHANGED <<world, server>>
      BY <1>4 DEF Retry, RepoInv, McpInv, CallShape
    <2>1. CASE \E i \in Hits(want[c]) : Resolved(c, want[c], i)
               /\ UNCHANGED <<handle, awaits, todo, fresh, seen>>
      <3>1. PICK i \in Hits(want[c]) : Resolved(c, want[c], i)
        BY <2>1
      <3> QED BY <1>1, <2>0, <2>1, <3>1, ResolvedStep
    <2>2. CASE End(c)
      <3>1. MapStep /\ NoRefresh
        BY <2>0, <2>2, EndUses, EndNoRefresh, SameMap DEF End, MapStep, world, server, pools
      <3> QED BY <1>1, <3>1
    <2> QED BY <1>4, <2>1, <2>2 DEF Retry
  <1>5. ASSUME NEW c \in Calls, Query(c) PROVE Stays
    <2>1. MapStep /\ NoRefresh
      BY <1>5, EndUses, EndNoRefresh, SameMap DEF Query, End, MapStep, world, server, pools
    <2> QED BY <1>1, <2>1
  <1>6. ASSUME NEW i \in Ids, ThrottleEnds(i) \/ PoolCloses(i) PROVE Stays
    <2>1. NoRefresh
      BY <1>6 DEF ThrottleEnds, PoolCloses, NoRefresh, locals
    <2>2. \A j \in Ids, p \in Paths : Uses(j, p)' => Uses(j, p)
      BY <1>6 DEF ThrottleEnds, PoolCloses, Close, Uses, pools, locals, RepoInv, McpInv, TypeOK
    <2> QED BY <1>1, <1>6, <2>1, <2>2, SameMap DEF ThrottleEnds, PoolCloses, MapStep, world
  <1>7. ASSUME UNCHANGED vars PROVE Stays
    <2>1. NoRefresh
      BY <1>7 DEF vars, NoRefresh, locals
    <2>2. \A j \in Ids, p \in Paths : Uses(j, p)' <=> Uses(j, p)
      BY <1>7 DEF vars, server, pools, locals, Uses
    <2> QED BY <1>1, <1>7, <2>1, <2>2, SameMap DEF vars, world, server, MapStep
  <1>8. ASSUME NEW c \in Calls, CallStep(c) PROVE Stays
    BY <1>1, <1>4, <1>5, <1>8, ReadRegistryStep, ApplyEntryStep, PruneStep, EnsureStep,
       CheckStaleStep
       DEF CallStep
  <1>10. ASSUME NEW i \in Ids, PoolStep(i) PROVE Stays
    BY <1>1, <1>6, <1>10, LookStep, OpenDatabaseStep, ShareDatabaseStep, EnterPoolStep
       DEF PoolStep
  <1> HIDE DEF Stays
  <1>9. Stays
    BY <1>2, <1>3, <1>7, <1>8, <1>10, OtherProcessStep DEF Next, Stays
  <1> QED BY <1>0, <1>9 DEF RepoInv, Stays

LEMMA RepoInvAlways == ASSUME "overlap" \notin Events PROVE Spec => []RepoInv
  BY RepoInvInit, RepoInvStep, PTL DEF Spec

(* Repositories of one name that have one suffix, because their paths begin alike,
   are two in all: the bare name and the suffix are then enough for both. *)
IdsSuffice ==
    \A p, q \in Paths : p # q /\ Name[p] = Name[q] /\ Suffix[p] = Suffix[q] => Twins(p, q)

LEMMA IdsApart ==
    ASSUME IdsSuffice, NEW p \in Paths, NEW q \in Paths, NEW i \in IdsOf(p) \cap IdsOf(q)
    PROVE  \/ p = q
           \/ i = BaseId(p) /\ i = BaseId(q)
           \/ Twins(p, q) /\ Twins(q, p) /\ i = LongId(p) /\ i = LongId(q)
  BY McpAssumption DEF McpAssumption, IdsSuffice, Twins, IdsOf, BaseId, LongId

(* However many calls, repositories and analyses there are: as long as one
   refresh runs at a time and there are ids enough for the repositories of a name, a
   call about a repository that stays is answered from its database. *)
THEOREM CallsReachTheirRepository ==
    ASSUME "overlap" \notin Events, IdsSuffice PROVE Spec => []RightRepository
  <1>1. RepoInv => RightRepository
    <2> SUFFICES ASSUME RepoInv, NEW c \in Calls, pc[c] = "query", pool[target[c]] # Absent,
                        {pool[target[c]].path, want[c]} \cap removed = {}
                 PROVE  pool[target[c]].path = want[c]
      BY DEF RightRepository
    <2> DEFINE i == target[c]
    <2>1. i \in Ids /\ want[c] \in Paths \ removed /\ pool[i] \in Index
      BY DEF RepoInv, McpInv, TypeOK, CallShape, Resolving
    <2>2. PICK a \in Paths \ removed : a = pool[i].path
      BY <2>1, McpFacts
    <2>3. Uses(i, a) /\ Uses(i, want[c])
      BY <2>2 DEF Uses, Resolving
    <2>4. \/ a = want[c]
          \/ i = BaseId(a) /\ i = BaseId(want[c])
          \/ Twins(a, want[c]) /\ Twins(want[c], a) /\ i = LongId(a) /\ i = LongId(want[c])
      BY <2>1, <2>2, <2>3, IdsApart DEF RepoInv, IdInv
    <2>5. CASE i = BaseId(a) /\ i = BaseId(want[c])
      BY <2>1, <2>2, <2>3, <2>5 DEF RepoInv, IdInv, Leads
    <2>6. CASE Twins(a, want[c]) /\ Twins(want[c], a) /\ i = LongId(a) /\ i = LongId(want[c])
      <3>1. Leads(BaseId(want[c]), want[c]) /\ Leads(BaseId(a), a)
        BY <2>1, <2>2, <2>3, <2>6 DEF RepoInv, IdInv
      <3>2. BaseId(a) = BaseId(want[c])
        BY <2>6 DEF LongId, BaseId
      <3> QED BY <2>2, <3>1, <3>2 DEF Leads
    <2> QED BY <2>2, <2>4, <2>5, <2>6
  <1> QED BY <1>1, RepoInvAlways, PTL

(* Then a refresh gives every repository of the registry an id no other has. *)
THEOREM RefreshGivesOwnIds ==
    ASSUME "overlap" \notin Events, IdsSuffice PROVE Spec => OwnId
  <1> DEFINE Own == \A c \in Calls : (pc[c] = "apply" /\ todo'[c] # todo[c])
                                        => fresh'[c] # fresh[c]
  <1>1. ASSUME RepoInv, [Next]_vars PROVE [Own]_vars
    <2>0. todo \in [Calls -> SUBSET Index] /\ fresh \in [Calls -> SUBSET Ids]
      BY <1>1 DEF RepoInv, McpInv, TypeOK
    <2> SUFFICES ASSUME Next, NEW c \in Calls, pc[c] = "apply", todo'[c] # todo[c]
                 PROVE  fresh'[c] # fresh[c]
      BY <1>1
    <2>1. \E d \in Calls : ApplyEntry(d)
      <3>1. ASSUME NEW S, EndAll(S), \A d \in Calls : d \in S => pc[d] # "apply" \/ todo[d] = {}
            PROVE  FALSE
        BY <2>0, <3>1 DEF EndAll
      <3>2. ASSUME NEW d \in Calls, ReadRegistry(d) PROVE FALSE
        BY <2>0, <3>2 DEF ReadRegistry
      <3>3. ASSUME NEW d \in Calls, Prune(d) PROVE FALSE
        BY <3>1, <3>3 DEF Prune, End
      <3>4. ASSUME NEW d \in Calls, Retry(d) \/ Query(d) PROVE FALSE
        BY <3>1, <3>4 DEF Retry, Query, End
      <3>5. ASSUME NEW d \in Calls, Ensure(d) PROVE FALSE
        BY <3>1, <3>5 DEF Ensure, End, locals
      <3>6. ASSUME NEW i \in Ids, OpenFails(i) PROVE FALSE
        <4>1. \A d \in Calls : d \in Waiting(i) => pc[d] # "apply"
          BY <1>1, McpFacts DEF RepoInv, McpInv, CallShape, Waiting, Opener
        <4> QED BY <3>1, <3>6, <4>1 DEF OpenFails
      <3>7. ASSUME NEW d \in Calls, CheckStale(d) \/ ListRepos(d) PROVE FALSE
        BY <3>7 DEF CheckStale, ListRepos, locals
      <3>8. ASSUME NEW d \in Calls, NEW p \in Paths, Call(d, p) PROVE FALSE
        BY <3>8 DEF Call
      <3>9. ASSUME NEW p \in Paths, Analyze(p) \/ Register(p) \/ Remove(p) PROVE FALSE
        BY <3>9 DEF Analyze, Register, Remove, locals
      <3>10. ASSUME NEW i \in Ids, PoolStep(i) PROVE FALSE
        BY <3>6, <3>10 DEF PoolStep, Look, OpenDatabase, ShareDatabase, EnterPool,
                           ThrottleEnds, PoolCloses, locals
      <3> QED BY <3>2, <3>3, <3>4, <3>5, <3>7, <3>8, <3>9, <3>10 DEF Next, CallStep
    <2>2. PICK d \in Calls : ApplyEntry(d)
      BY <2>1
    <2>3. PICK e \in todo[d] : /\ fresh' = [fresh EXCEPT ![d] = @ \union {RepoId(e.path)}]
                               /\ todo' = [todo EXCEPT ![d] = @ \ {e}]
      BY <2>2 DEF ApplyEntry
    <2>4. d = c
      BY <2>0, <2>3
    <2>5. ASSUME RepoId(e.path) \in fresh[c] PROVE FALSE
      <3> DEFINE i == RepoId(e.path)
      <3>1. e.path \in PathIn(todo[c]) /\ e.path \in Paths /\ i \in IdsOf(e.path) /\ i \in Ids
        BY <2>3, <2>4, EntryId, McpFacts, <1>1 DEF PathIn
      <3>2. repos[i] # Absent /\ repos[i].path \notin PathIn(todo[c])
        BY <1>1, <2>5 DEF RepoInv, RefreshInv
      <3>3. PICK r \in Paths : r = repos[i].path /\ Leads(i, r)
        BY <1>1, <3>1, <3>2, McpFacts DEF RepoInv, McpInv, TypeOK, Leads
      <3>4. i \in IdsOf(r) /\ r # e.path
        BY <1>1, <3>1, <3>2, <3>3 DEF RepoInv, IdInv
      <3>5. CASE i = BaseId(r)
        BY <1>1, <2>3, <2>4, <3>3, <3>4, <3>5, EntryId
      <3>6. CASE Twins(e.path, r) /\ i = LongId(e.path) /\ i = LongId(r)
        <4>1. PICK o \in Paths : o # e.path /\ Name[o] = Name[e.path] /\ Leads(BaseId(o), o)
          BY <1>1, <2>3, <2>4, <3>6, EntryId
        <4>2. o = r
          BY <3>6, <4>1 DEF Twins
        <4> QED BY <1>1, <2>5, <3>3, <3>6, <4>1, <4>2 DEF RepoInv, RefreshInv
      <3> QED BY <3>1, <3>3, <3>4, <3>5, <3>6, IdsApart
    <2> QED BY <2>0, <2>3, <2>4, <2>5
  <1> QED BY <1>1, RepoInvAlways, PTL DEF Spec, OwnId

----------------------------------------------------------------------------
(* The handles of an MCP server: how old the index is                       *)

(* What is dated by its index is no newer than that, if there still is one. *)
Known(h) == h.version <= clock /\ (disk[h.path] # 0 => h.version <= disk[h.path])

(* Handles, and what calls have found on disk, are known wherever they are held. *)
KnownInv ==
    /\ \A p \in Paths : disk[p] <= clock
    /\ \A h \in registry : Known(h)
    /\ \A i \in Ids : repos[i] # Absent => Known(repos[i])
    /\ \A c \in Calls : \A h \in todo[c] : Known(h)
    /\ \A c \in Calls : handle[c] # Absent => Known(handle[c])
    /\ \A c \in Calls : seen[c] # Absent => Known(seen[c])

(* The database d is as new as h, if h is of its path. *)
Covers(d, h) == (h # Absent /\ h.path = d.path) => h.version <= d.version

(* Nothing that leads to the database d of the id i is dated later: not the handle
   in the map, nor one that a call looks at, nor an index that a call has found. *)
CoversAll(i, d) ==
    /\ Covers(d, repos[i])
    /\ \A c \in Calls : target[c] = i => Covers(d, handle[c]) /\ Covers(d, seen[c])

PoolInv ==
    \A i \in Ids : (Database(i) # Absent /\ i \notin masked) => CoversAll(i, Database(i))

(* Handles of one id that have one mark are one object. *)
MarkInv ==
    \A c \in Calls : handle[c] # Absent =>
        /\ SameHandle(repos[target[c]], c) => repos[target[c]] = handle[c]
        /\ \A d \in Calls :
              target[d] = target[c] /\ SameHandle(handle[d], c) => handle[d] = handle[c]

VersionInv == McpInv /\ KnownInv /\ PoolInv /\ MarkInv

LEMMA VersionInvInit == Init => VersionInv
  <1> SUFFICES ASSUME Init PROVE VersionInv
    OBVIOUS
  <1>1. KnownInv
    BY DEF Init, KnownInv
  <1>2. PoolInv
    BY DEF Init, PoolInv, Database
  <1>3. MarkInv
    BY DEF Init, MarkInv
  <1> QED BY <1>1, <1>2, <1>3, McpInvInit DEF VersionInv

(* What was known stays known: an analysis only makes an index newer. *)
LEMMA KnownStays ==
    ASSUME VersionInv,
           UNCHANGED <<clock, disk>> \/ \E p \in Paths : Analyze(p) \/ Remove(p)
    PROVE  /\ \A p \in Paths : disk'[p] <= clock'
           /\ \A h \in Handle \union Index : Known(h) => Known(h)'
  <1>1. clock \in Nat /\ \A p \in Paths : disk[p] \in Nat
    BY McpFacts DEF VersionInv, McpInv, TypeOK, Versions
  <1>2. \A h \in Handle \union Index : h.path \in Paths /\ h.version \in Nat
    BY McpFacts DEF Handle, Index, Versions
  <1>3. disk \in [Paths -> Versions] /\ \A p \in Paths : disk[p] <= clock
    BY DEF VersionInv, KnownInv, McpInv, TypeOK
  <1>4. CASE UNCHANGED <<clock, disk>>
    BY <1>3, <1>4 DEF Known
  <1>5. CASE \E p \in Paths : Analyze(p)
    BY <1>1, <1>2, <1>3, <1>5 DEF Analyze, Known
  <1>6. CASE \E p \in Paths : Remove(p)
    BY <1>1, <1>2, <1>3, <1>6 DEF Remove, Known
  <1> QED BY <1>4, <1>5, <1>6

(* Every handle that is held after a step was known before it. *)
Carried ==
    /\ \A h \in registry' : Known(h)
    /\ \A i \in Ids : repos'[i] # Absent => Known(repos'[i])
    /\ \A c \in Calls : \A h \in todo'[c] : Known(h)
    /\ \A c \in Calls : handle'[c] # Absent => Known(handle'[c])
    /\ \A c \in Calls : seen'[c] # Absent => Known(seen'[c])

(* What may happen to the database of an id: it is closed, its id is excepted, it is
   opened, or it stays and covers what leads to it. *)
Kept ==
    \A i \in Ids :
        \/ Database(i)' = Absent
        \/ i \in masked'
        \/ disk'[Database(i)'.path] # 0 /\ Database(i)'.version = disk'[Database(i)'.path]
        \/ Database(i)' = Database(i) /\ CoversAll(i, Database(i))'

LEMMA VersionStep ==
    ASSUME VersionInv, McpInv', MarkInv', Carried, Kept,
           UNCHANGED <<clock, disk>> \/ \E p \in Paths : Analyze(p) \/ Remove(p)
    PROVE  VersionInv'
  <1>1. KnownInv'
    <2>1. /\ registry' \subseteq Index
          /\ \A i \in Ids : repos'[i] # Absent => repos'[i] \in Handle
          /\ \A c \in Calls : todo'[c] \subseteq Index
          /\ \A c \in Calls : handle'[c] # Absent => handle'[c] \in Handle
          /\ \A c \in Calls : seen'[c] # Absent => seen'[c] \in Index
      BY DEF McpInv, TypeOK
    <2>2. \A h \in Handle \union Index :
              Known(h) => h.version <= clock' /\ (disk'[h.path] # 0 => h.version <= disk'[h.path])
      BY KnownStays DEF Known
    <2>3. \A p \in Paths : disk'[p] <= clock'
      BY KnownStays
    <2> QED BY <2>1, <2>2, <2>3 DEF KnownInv, Known, Carried
  <1>2. PoolInv'
    <2> SUFFICES ASSUME NEW i \in Ids, Database(i)' # Absent, i \notin masked'
                 PROVE  CoversAll(i, Database(i))'
      BY DEF PoolInv
    <2>1. CASE disk'[Database(i)'.path] # 0 /\ Database(i)'.version = disk'[Database(i)'.path]
      BY <1>1, <2>1 DEF CoversAll, Covers, KnownInv, Known
    <2> QED BY <2>1 DEF Kept
  <1> QED BY <1>1, <1>2 DEF VersionInv

(* What covers all that leads to it does so after a step that only takes away. *)
LEMMA CoversStay ==
    ASSUME VersionInv, NEW i \in Ids, i \notin masked, Database(i) # Absent,
           Database(i)' = Database(i), repos'[i] \in {repos[i], Absent},
           \A c \in Calls : target'[c] = i =>
              /\ handle'[c] = Absent \/ (handle'[c] = handle[c] /\ target'[c] = target[c])
              /\ seen'[c] = Absent \/ (seen'[c] = seen[c] /\ target'[c] = target[c])
    PROVE  CoversAll(i, Database(i))'
  <1>1. CoversAll(i, Database(i))
    BY DEF VersionInv, PoolInv
  <1> HIDE DEF Database
  <1> QED BY <1>1 DEF CoversAll, Covers

LEMMA SameDatabase ==
    ASSUME VersionInv, \A i \in Ids : pool'[i] \in {pool[i], Absent},
           \A i \in Ids : opening'[i] \in {opening[i], Absent}
    PROVE  \A i \in Ids : Database(i)' \in {Database(i), Absent}
  BY DEF Database, VersionInv, McpInv, OpeningShape

(* Steps that look at no index and open no database. *)
LEMMA QuietStep ==
    ASSUME VersionInv, UNCHANGED masked,
           \A i \in Ids : Database(i)' \in {Database(i), Absent},
           \A i \in Ids : repos'[i] \in {repos[i], Absent},
           \A h \in registry' : Known(h),
           \A c \in Calls :
              /\ \A h \in todo'[c] : Known(h)
              /\ handle'[c] = Absent \/ (handle'[c] = handle[c] /\ target'[c] = target[c])
              /\ seen'[c] = Absent \/ (seen'[c] = seen[c] /\ target'[c] = target[c])
    PROVE  Carried /\ Kept /\ MarkInv'
  <1>1. Carried
    BY DEF Carried, VersionInv, KnownInv
  <1>2. ASSUME NEW i \in Ids
        PROVE  \/ Database(i)' = Absent
               \/ i \in masked'
               \/ Database(i)' = Database(i) /\ CoversAll(i, Database(i))'
    <2> SUFFICES ASSUME Database(i)' # Absent, i \notin masked'
                 PROVE  Database(i)' = Database(i) /\ CoversAll(i, Database(i))'
      OBVIOUS
    <2>1. Database(i)' = Database(i) /\ Database(i) # Absent /\ i \notin masked
      OBVIOUS
    <2> HIDE DEF Database
    <2> QED BY <2>1, CoversStay
  <1>3. Kept
    BY <1>2 DEF Kept
  <1>4. MarkInv'
    <2>1. ASSUME NEW c \in Calls, handle'[c] # Absent
          PROVE  /\ SameHandle(repos[target[c]], c)' => repos'[target'[c]] = handle'[c]
                 /\ \A d \in Calls : target'[d] = target'[c] /\ SameHandle(handle[d], c)'
                                        => handle'[d] = handle'[c]
      <3>1. handle'[c] = handle[c] /\ target'[c] = target[c] /\ target[c] \in Ids
        BY <2>1 DEF VersionInv, McpInv, TypeOK, CallShape, Resolving
      <3> QED BY <2>1, <3>1 DEF VersionInv, MarkInv, SameHandle
    <2> QED BY <2>1 DEF MarkInv
  <1> QED BY <1>1, <1>3, <1>4

LEMMA EndQuiet ==
    ASSUME VersionInv, NEW S, EndAll(S), UNCHANGED <<registry, masked>>,
           \A i \in Ids : /\ pool'[i] \in {pool[i], Absent} /\ repos'[i] \in {repos[i], Absent}
                          /\ opening'[i] \in {opening[i], Absent}
    PROVE  Carried /\ Kept /\ MarkInv'
  <1>1. \A c \in Calls :
              /\ \A h \in todo'[c] : Known(h)
              /\ handle'[c] = Absent \/ (handle'[c] = handle[c] /\ target'[c] = target[c])
              /\ seen'[c] = Absent \/ (seen'[c] = seen[c] /\ target'[c] = target[c])
    BY DEF EndAll, VersionInv, KnownInv
  <1>2. \A h \in registry' : Known(h)
    BY DEF VersionInv, KnownInv
  <1>3. \A i \in Ids : Database(i)' \in {Database(i), Absent}
    BY SameDatabase
  <1> QED BY <1>1, <1>2, <1>3, QuietStep

(* An opening that starts or is joined has its database, or none, as before. *)
LEMMA InitLbugDatabase ==
    ASSUME VersionInv, NEW c \in Calls, NEW i \in Ids, NEW p \in Paths, NEW isOpen \in BOOLEAN,
           NEW how, InitLbug(c, i, p, isOpen, how)
    PROVE  /\ \A j \in Ids : \/ opening'[j] = opening[j]
                             \/ /\ j = i /\ opening[j] = Absent /\ opening'[j] # Absent
                                /\ opening'[j].stage = "stat"
  BY McpFacts DEF InitLbug, VersionInv, McpInv, TypeOK, Opening

LEMMA EnsureVersion == ASSUME VersionInv, NEW c \in Calls, Ensure(c) PROVE Carried /\ Kept /\ MarkInv'
  <1> DEFINE i == target[c]
  <1>0. /\ pc[c] = "ensure" /\ i \in Ids /\ seen[c] = Absent /\ handle[c] = Absent
        /\ handle \in [Calls -> Handle \union {Absent}]
        /\ UNCHANGED <<world, repos, reinit, pool, cached, masked>>
    BY DEF Ensure, VersionInv, McpInv, TypeOK, CallShape, Resolving
  <1>a. \A d \in Calls : \A h \in todo[d] : Known(h)
    BY DEF VersionInv, KnownInv
  <1>b. \A h \in registry' : Known(h)
    BY <1>0 DEF world, VersionInv, KnownInv
  <1>1. CASE reinit[i] # Absent
    <2>1. UNCHANGED <<opening, want, target, handle, todo, seen>>
      BY <1>1 DEF Ensure
    <2>2. \A j \in Ids : Database(j)' \in {Database(j), Absent}
      BY <1>0, <2>1 DEF Database
    <2> QED BY <1>0, <1>a, <1>b, <2>1, <2>2, QuietStep
  <1>2. CASE reinit[i] = Absent /\ repos[i] = Absent
    BY <1>0, <1>2, EndQuiet DEF Ensure, End, world
  <1>3. CASE reinit[i] = Absent /\ repos[i] # Absent /\ Ready(i)
    <2>1. /\ handle' \in {handle, [handle EXCEPT ![c] = repos[i]]}
          /\ UNCHANGED <<opening, want, target, todo, seen>>
      BY <1>3 DEF Ensure
    <2>2. Carried
      BY <1>0, <1>3, <1>a, <1>b, <2>1 DEF Carried, VersionInv, KnownInv
    <2>3. \A j \in Ids : Database(j)' = Database(j)
      BY <1>0, <2>1 DEF Database
    <2>4. ASSUME NEW j \in Ids, Database(j) # Absent, j \notin masked
          PROVE  CoversAll(j, Database(j))'
      <3>1. CoversAll(j, Database(j))
        BY <2>4 DEF VersionInv, PoolInv
      <3> HIDE DEF Database
      <3>2. \A d \in Calls : target[d] = j =>
              Covers(Database(j), handle'[d]) /\ Covers(Database(j), seen'[d])
        BY <1>0, <2>1, <3>1 DEF CoversAll
      <3> QED BY <1>0, <2>1, <2>3, <3>1, <3>2 DEF CoversAll, Covers
    <2>5. Kept
      BY <1>0, <2>3, <2>4 DEF Kept
    <2>6. MarkInv'
      <3>1. repos[i] \in Handle
        BY <1>0, <1>3 DEF VersionInv, McpInv, TypeOK
      <3>2. CASE handle' = handle
        BY <1>0, <2>1, <3>2 DEF VersionInv, MarkInv, SameHandle
      <3>3. CASE handle' = [handle EXCEPT ![c] = repos[i]]
        BY <1>0, <2>1, <3>1, <3>3 DEF VersionInv, MarkInv, SameHandle
      <3> QED BY <2>1, <3>2, <3>3
    <2> QED BY <2>2, <2>5, <2>6
  <1>4. CASE reinit[i] = Absent /\ repos[i] # Absent /\ ~Ready(i)
    <2>1. InitLbug(c, i, repos[i].path, pool[i] # Absent, "open") /\ UNCHANGED locals
      BY <1>4 DEF Ensure
    <2>2. repos[i].path \in Paths
      BY <1>0, <1>4, McpFacts DEF VersionInv, McpInv, TypeOK
    <2>3. \A j \in Ids : Database(j)' \in {Database(j), Absent}
      BY <1>0, <2>1, <2>2, InitLbugDatabase DEF Database
    <2> QED BY <1>0, <1>a, <1>b, <2>1, <2>3, QuietStep DEF locals
  <1> QED BY <1>1, <1>2, <1>3, <1>4

LEMMA CheckStaleVersion ==
    ASSUME VersionInv, NEW c \in Calls, CheckStale(c) PROVE Carried /\ Kept /\ MarkInv'
  <1>b. PICK i \in Ids : i = target[c]
    BY DEF CheckStale, VersionInv, McpInv, CallShape, Resolving
  <1> DEFINE p == handle[c].path
             v == disk[p]
  <1>0. /\ pc[c] = "check" /\ i = target[c] /\ handle[c] \in Handle /\ handle[c] # Absent
        /\ p \in Paths /\ v \in Versions /\ v \in Nat
        /\ repos \in [Ids -> Handle \union {Absent}]
        /\ handle \in [Calls -> Handle \union {Absent}]
        /\ seen \in [Calls -> Index \union {Absent}]
        /\ seen' = [seen EXCEPT ![c] = [path |-> p, version |-> v]]
        /\ UNCHANGED <<world, want, target, todo>>
    BY <1>b, McpFacts DEF CheckStale, VersionInv, McpInv, TypeOK, CallShape, Resolving, Versions
  <1>1. Known([path |-> p, version |-> v])
    BY <1>0 DEF VersionInv, KnownInv, Known
  <1>a. /\ \A d \in Calls : \A h \in todo'[d] : Known(h)
        /\ \A h \in registry' : Known(h)
        /\ \A d \in Calls : seen'[d] # Absent => Known(seen'[d])
    BY <1>0, <1>1 DEF world, VersionInv, KnownInv
  <1>3. CASE v # 0 /\ v # handle[c].version
    <2>1. /\ Close(i) /\ Date(c, v)
          /\ InitLbug(c, i, p, pool'[i] # Absent, "reopen")
          /\ masked' = IF pool[i] = Absent /\ Database(i) # Absent
                       THEN masked \union {i} ELSE masked
      BY <1>b, <1>3 DEF CheckStale
    <2>2. pool' = [pool EXCEPT ![i] = Absent] /\ pool \in [Ids -> Index \union {Absent}]
      BY <2>1 DEF Close, VersionInv, McpInv, TypeOK
    <2>3. \A j \in Ids : \/ opening'[j] = opening[j]
                         \/ /\ j = i /\ opening[j] = Absent /\ opening'[j] # Absent
                            /\ opening'[j].stage = "stat"
      BY <1>0, <2>1, InitLbugDatabase
    <2>4. Database(i)' = Absent \/ i \in masked'
      BY <1>0, <2>1, <2>2, <2>3 DEF Database, VersionInv, McpInv, OpeningShape
    <2>5. \A j \in Ids : j # i => Database(j)' = Database(j) /\ (j \in masked => j \in masked')
      BY <2>1, <2>2, <2>3 DEF Database
    <2>6. \A j \in Ids : j # i => repos'[j] = repos[j]
      BY <1>0, <2>1 DEF Date
    <2>7. \A d \in Calls : target[d] # i => handle'[d] = handle[d]
      BY <1>0, <2>1 DEF Date
    <2> DEFINE n == [handle[c] EXCEPT !.version = v]
    <2>8. n.mark = handle[c].mark /\ Known(n)
      BY <1>0, <1>1 DEF Handle, Known
    <2>9. /\ repos'[i] = IF SameHandle(repos[i], c) THEN n ELSE repos[i]
          /\ SameHandle(repos[i], c) => repos[i] = handle[c]
          /\ \A d \in Calls : d # c /\ target[d] = i =>
                /\ handle'[d] = IF SameHandle(handle[d], c) THEN n ELSE handle[d]
                /\ SameHandle(handle[d], c) => handle[d] = handle[c]
          /\ handle'[c] = Absent
      BY <1>0, <2>1 DEF Date, VersionInv, MarkInv
    <2> HIDE DEF v, p, n
    <2>10. Carried
      <3>1. \A j \in Ids : repos'[j] # Absent => Known(repos'[j])
        BY <1>0, <2>6, <2>8, <2>9 DEF VersionInv, KnownInv
      <3>2. \A d \in Calls : handle'[d] # Absent => Known(handle'[d])
        BY <1>0, <2>7, <2>8, <2>9 DEF VersionInv, KnownInv
      <3> QED BY <1>a, <3>1, <3>2 DEF Carried
    <2>11. Kept
      <3>1. ASSUME NEW j \in Ids, j # i, Database(j)' # Absent, j \notin masked'
            PROVE  CoversAll(j, Database(j))'
        <4>1. Database(j)' = Database(j) /\ j \notin masked
          BY <2>5, <3>1
        <4>2. CoversAll(j, Database(j))
          BY <3>1, <4>1 DEF VersionInv, PoolInv
        <4>3. /\ repos'[j] = repos[j] /\ target' = target
              /\ \A d \in Calls : target[d] = j => handle'[d] = handle[d] /\ seen'[d] = seen[d]
          BY <1>0, <2>6, <2>7, <3>1
        <4> HIDE DEF Database
        <4> QED BY <4>1, <4>2, <4>3 DEF CoversAll, Covers
      <3> HIDE DEF Database
      <3> QED BY <2>4, <2>5, <3>1 DEF Kept
    <2>12. MarkInv'
      <3>1. ASSUME NEW d \in Calls, handle'[d] # Absent
            PROVE  /\ SameHandle(repos[target[d]], d)' => repos'[target'[d]] = handle'[d]
                   /\ \A f \in Calls : target'[f] = target'[d] /\ SameHandle(handle[f], d)'
                                          => handle'[f] = handle'[d]
        <4>1. /\ d # c /\ handle[d] # Absent /\ target'[d] = target[d] /\ target[d] \in Ids
          BY <1>0, <2>7, <2>9, <3>1 DEF Date, VersionInv, McpInv, TypeOK, CallShape, Resolving
        <4>2. CASE target[d] # i
          BY <1>0, <2>6, <2>7, <3>1, <4>1, <4>2 DEF VersionInv, MarkInv, SameHandle
        <4>3. CASE target[d] = i
          BY <1>0, <2>8, <2>9, <3>1, <4>1, <4>3 DEF VersionInv, MarkInv, SameHandle
        <4> QED BY <4>2, <4>3
      <3> QED BY <3>1 DEF MarkInv
    <2> QED BY <2>10, <2>11, <2>12
  <1>4. CASE ~(v # 0 /\ v # handle[c].version)
    <2>1. UNCHANGED server /\ handle' = [handle EXCEPT ![c] = Absent]
      BY <1>4 DEF CheckStale
    <2>2. Carried
      BY <1>0, <1>a, <2>1 DEF Carried, VersionInv, KnownInv, server
    <2>3. \A j \in Ids : Database(j)' = Database(j)
      BY <2>1 DEF server, pools, Database
    <2>4. ASSUME NEW j \in Ids, Database(j) # Absent, j \notin masked
          PROVE  CoversAll(j, Database(j))'
      <3>1. CoversAll(j, Database(j))
        BY <2>4 DEF VersionInv, PoolInv
      <3>2. Database(j).version \in Nat
        BY <2>4, McpFacts DEF Database, VersionInv, McpInv, TypeOK, Versions
      <3> HIDE DEF Database
      <3>3. target[c] = j => Covers(Database(j), [path |-> p, version |-> v])
        BY <1>0, <1>4, <3>1, <3>2 DEF CoversAll, Covers
      <3> HIDE DEF v, p
      <3>4. \A d \in Calls : target[d] = j =>
              Covers(Database(j), handle'[d]) /\ Covers(Database(j), seen'[d])
        BY <1>0, <2>1, <3>1, <3>3 DEF CoversAll, Covers
      <3> QED BY <1>0, <2>1, <2>3, <3>1, <3>4 DEF CoversAll, Covers, server
    <2>5. Kept
      BY <2>1, <2>3, <2>4 DEF Kept, server, pools
    <2>6. MarkInv'
      BY <1>0, <2>1 DEF server, VersionInv, MarkInv, SameHandle
    <2> QED BY <2>2, <2>5, <2>6
  <1> QED BY <1>3, <1>4

(* The steps of an opening: it has the database of before, an excepted one, none, or
   that of the index on disk. *)
LEMMA OpeningVersion ==
    ASSUME VersionInv, UNCHANGED <<world, repos, target, handle, todo, seen>>,
           \A j \in Ids : \/ Database(j)' = Absent
                          \/ j \in masked'
                          \/ Database(j)' = Database(j) /\ j \notin masked
                          \/ /\ disk[Database(j)'.path] # 0
                             /\ Database(j)'.version = disk[Database(j)'.path]
    PROVE  Carried /\ Kept /\ MarkInv'
  <1>1. Carried
    BY DEF Carried, VersionInv, KnownInv, world
  <1>2. MarkInv'
    BY DEF VersionInv, MarkInv, SameHandle
  <1>3. ASSUME NEW j \in Ids, Database(j) # Absent, j \notin masked, Database(j)' = Database(j)
        PROVE  CoversAll(j, Database(j))'
    BY <1>3 DEF VersionInv, PoolInv, CoversAll, Covers
  <1>4. Kept
    BY <1>3 DEF Kept, world
  <1> QED BY <1>1, <1>2, <1>4

LEMMA OpenFailsVersion ==
    ASSUME VersionInv, NEW i \in Ids, OpenFails(i), UNCHANGED <<world, repos>>
    PROVE  Carried /\ Kept /\ MarkInv'
  <1>1. \A j \in Ids : pool'[j] = pool[j] /\ opening'[j] \in {opening[j], Absent}
    BY DEF OpenFails, OpeningEnds, VersionInv, McpInv, TypeOK
  <1> QED BY <1>1, EndQuiet DEF OpenFails, world

LEMMA LookVersion ==
    ASSUME VersionInv, NEW i \in Ids, Look(i) PROVE Carried /\ Kept /\ MarkInv'
  <1>0. opening[i] \in Opening /\ opening[i] # Absent /\ UNCHANGED <<world, repos>>
    BY McpFacts DEF Look, Stage, VersionInv, McpInv, TypeOK
  <1>1. CASE OpenFails(i)
    BY <1>0, <1>1, OpenFailsVersion
  <1>2. CASE ~OpenFails(i)
    <2>1. UNCHANGED <<pool, locals>>
      BY <1>2 DEF Look
    <2>2. \A j \in Ids : j # i => opening'[j] = opening[j] /\ (j \in masked' <=> j \in masked)
      BY <1>2 DEF Look, VersionInv, McpInv, TypeOK
    <2>3. \/ i \in masked'
          \/ pool[i] = Absent /\ opening'[i].stage = "init"
      BY <1>0, <1>2 DEF Look, Opening, VersionInv, McpInv, TypeOK, OpeningShape
    <2>4. \A j \in Ids : j # i => Database(j)' = Database(j)
      BY <2>1, <2>2 DEF Database
    <2>5. Database(i)' = Absent \/ i \in masked'
      BY <2>1, <2>3 DEF Database
    <2> QED BY <1>0, <2>1, <2>2, <2>4, <2>5, OpeningVersion DEF locals
  <1> QED BY <1>1, <1>2

LEMMA OpenDatabaseVersion ==
    ASSUME VersionInv, NEW i \in Ids, OpenDatabase(i) PROVE Carried /\ Kept /\ MarkInv'
  <1>0. /\ opening[i] \in Opening /\ opening[i] # Absent /\ UNCHANGED <<world, repos>>
        /\ pool[i] = Absent
    BY McpFacts DEF OpenDatabase, Stage, VersionInv, McpInv, TypeOK, OpeningShape
  <1>1. CASE OpenFails(i)
    BY <1>0, <1>1, OpenFailsVersion
  <1>2. CASE ~OpenFails(i)
    <2>1. UNCHANGED <<pool, locals>>
      BY <1>2 DEF OpenDatabase
    <2>2. \A j \in Ids : j # i => opening'[j] = opening[j] /\ (j \in masked' <=> j \in masked)
      BY <1>2 DEF OpenDatabase, VersionInv, McpInv, TypeOK
    <2>3. /\ opening'[i] # Absent /\ opening'[i].stage = "opened"
          /\ opening'[i].version = disk[opening'[i].path] /\ disk[opening'[i].path] # 0
      <3> DEFINE o == [opening[i] EXCEPT !.stage = "opened", !.version = disk[opening[i].path]]
      <3>1. o \in Opening
        BY <1>0, McpFacts DEF Opening, Stages, VersionInv, McpInv, TypeOK
      <3>2. o # Absent /\ o.stage = "opened" /\ o.path = opening[i].path /\ o.version = disk[o.path]
        BY <1>0, <3>1, McpFacts DEF Opening
      <3>3. opening'[i] = o /\ disk[opening[i].path] # 0
        BY <1>0, <1>2 DEF OpenDatabase, VersionInv, McpInv, TypeOK
      <3> QED BY <3>2, <3>3
    <2>4. \A j \in Ids : j # i => Database(j)' = Database(j)
      BY <2>1, <2>2 DEF Database
    <2>5. /\ disk[Database(i)'.path] # 0
          /\ Database(i)'.version = disk[Database(i)'.path]
      BY <1>0, <2>1, <2>3 DEF Database
    <2> QED BY <1>0, <2>1, <2>2, <2>4, <2>5, OpeningVersion DEF locals
  <1> QED BY <1>1, <1>2

LEMMA ShareDatabaseVersion ==
    ASSUME VersionInv, NEW i \in Ids, ShareDatabase(i) PROVE Carried /\ Kept /\ MarkInv'
  <1>0. opening[i] \in Opening /\ opening[i] # Absent /\ opening[i].stage = "opened"
    BY McpFacts DEF ShareDatabase, Stage, VersionInv, McpInv, TypeOK
  <1>1. UNCHANGED <<world, repos, pool, masked, locals>>
    BY DEF ShareDatabase
  <1>2. /\ \A j \in Ids : j # i => opening'[j] = opening[j]
        /\ opening'[i] = [opening[i] EXCEPT !.stage = "load"]
    BY <1>0 DEF ShareDatabase, VersionInv, McpInv, TypeOK
  <1>3. /\ opening'[i] # Absent /\ opening'[i].stage = "load"
        /\ opening'[i].path = opening[i].path /\ opening'[i].version = opening[i].version
    <2>1. [opening[i] EXCEPT !.stage = "load"] \in Opening
      BY <1>0 DEF Opening, Stages
    <2> QED BY <1>0, <1>2, <2>1, McpFacts DEF Opening
  <1>4. \A j \in Ids : Database(j)' = Database(j)
    BY <1>0, <1>1, <1>2, <1>3 DEF Database
  <1> QED BY <1>1, <1>4, OpeningVersion DEF locals

LEMMA EnterPoolVersion ==
    ASSUME VersionInv, NEW i \in Ids, EnterPool(i) PROVE Carried /\ Kept /\ MarkInv'
  <1>1. /\ pool' = [pool EXCEPT ![i] = Database(i)] /\ opening' = [opening EXCEPT ![i] = Absent]
        /\ pool \in [Ids -> Index \union {Absent}]
        /\ opening \in [Ids -> Opening \union {Absent}]
        /\ UNCHANGED <<world, repos, masked, target, handle, todo, seen>>
    BY DEF EnterPool, OpeningEnds, VersionInv, McpInv, TypeOK
  <1>2. \A j \in Ids : j # i => Database(j)' = Database(j)
    BY <1>1 DEF Database
  <1>3. Database(i)' = Absent \/ Database(i)' = Database(i)
    BY <1>1 DEF Database
  <1> QED BY <1>1, <1>2, <1>3, OpeningVersion

LEMMA ApplyEntryVersion ==
    ASSUME VersionInv, NEW c \in Calls, ApplyEntry(c) PROVE Carried /\ Kept /\ MarkInv'
  <1>1. PICK e \in todo[c], m \in Marks :
          LET i == RepoId(e.path) IN
          /\ Unheld(i, m)
          /\ repos' = [repos EXCEPT ![i] = [path |-> e.path, version |-> e.version, mark |-> m]]
          /\ masked' = IF NewerThan(e, Database(i)) THEN masked \union {i} ELSE masked
          /\ todo' = [todo EXCEPT ![c] = @ \ {e}]
    BY DEF ApplyEntry
  <1>2. /\ e \in Index /\ RepoId(e.path) \in Ids /\ Known(e) /\ e.path \in Paths
        /\ repos \in [Ids -> Handle \union {Absent}] /\ todo \in [Calls -> SUBSET Index]
        /\ UNCHANGED <<world, pool, opening, pc, want, target, handle, seen>>
    BY RepoIdType, McpFacts DEF ApplyEntry, VersionInv, KnownInv, McpInv, TypeOK
  <1>3. PICK i \in Ids : i = RepoId(e.path)
    BY <1>2
  <1>4. PICK h \in Handle : h = [path |-> e.path, version |-> e.version, mark |-> m]
    BY <1>2, McpFacts
  <1>5. h.path = e.path /\ h.version = e.version /\ h.mark = m /\ repos' = [repos EXCEPT ![i] = h]
    BY <1>1, <1>3, <1>4
  <1>6. \A d \in Calls : handle[d] # Absent /\ target[d] = i => handle[d].mark # m
    BY <1>1, <1>3 DEF Unheld
  <1>7. \A j \in Ids : Database(j)' = Database(j)
    BY <1>2 DEF Database
  <1>8. Carried
    BY <1>1, <1>2, <1>5 DEF Carried, VersionInv, KnownInv, Known, world
  <1>9. ASSUME NEW j \in Ids, Database(j) # Absent, j \notin masked'
        PROVE  CoversAll(j, Database(j))'
    <2>1. j \notin masked
      BY <1>1, <1>9
    <2>2. CoversAll(j, Database(j))
      BY <1>9, <2>1 DEF VersionInv, PoolInv
    <2>3. j = i => ~NewerThan(e, Database(j))
      BY <1>1, <1>3, <1>9
    <2>4. Database(j).version \in Nat /\ e.version \in Nat
      BY <1>2, <1>9, McpFacts DEF Database, VersionInv, McpInv, TypeOK, Versions
    <2>5. Covers(Database(j), repos'[j])
      BY <1>2, <1>5, <1>9, <2>2, <2>3, <2>4 DEF CoversAll, Covers, NewerThan
    <2> QED BY <1>2, <1>7, <2>2, <2>5 DEF CoversAll, Covers
  <1>10. Kept
    BY <1>7, <1>9 DEF Kept
  <1>11. MarkInv'
    BY <1>2, <1>5, <1>6 DEF VersionInv, MarkInv, SameHandle
  <1> QED BY <1>8, <1>10, <1>11

LEMMA VersionInvStep == VersionInv /\ [Next]_vars => VersionInv'
  <1> SUFFICES ASSUME VersionInv, [Next]_vars PROVE VersionInv'
    OBVIOUS
  <1>0. McpInv'
    BY McpInvStep DEF VersionInv
  <1> DEFINE Good == Carried /\ Kept /\ MarkInv'
  <1>1. Good /\ UNCHANGED <<clock, disk>> => VersionInv'
    BY <1>0, VersionStep
  <1>b. ASSUME Good, NEW p \in Paths, Analyze(p) \/ Remove(p) PROVE VersionInv'
    BY <1>0, <1>b, VersionStep
  <1>a. /\ \A h \in registry : Known(h)
        /\ \A c \in Calls : \A h \in todo[c] : Known(h)
        /\ \A c \in Calls : pc[c] \notin {"reopen", "query"} => seen[c] = Absent
        /\ \A c \in Calls : pc[c] # "check" => handle[c] = Absent
    BY DEF VersionInv, KnownInv, McpInv, CallShape
  <1>c. UNCHANGED <<pool, opening>> => \A i \in Ids : Database(i)' \in {Database(i), Absent}
    BY DEF Database
  <1>2. ASSUME NEW p \in Paths, Analyze(p) \/ Remove(p) PROVE VersionInv'
    <2>1. registry' \subseteq registry /\ UNCHANGED <<server, pc, locals>>
      BY <1>2 DEF Analyze, Remove
    <2>2. Good
      BY <1>a, <1>c, <2>1, QuietStep DEF server, pools, locals
    <2> QED BY <1>2, <1>b, <2>2
  <1>4. ASSUME NEW p \in Paths, Register(p) PROVE VersionInv'
    <2>1. Known([path |-> p, version |-> disk[p]])
      BY McpFacts DEF VersionInv, KnownInv, Known, McpInv, TypeOK, Versions
    <2>2. (\A h \in registry' : Known(h)) /\ UNCHANGED <<clock, disk, server, pc, locals>>
      BY <1>4, <1>a, <2>1 DEF Register
    <2> QED BY <1>1, <1>a, <1>c, <2>2, QuietStep DEF server, pools, locals
  <1>5. ASSUME NEW c \in Calls, NEW p \in Paths, Call(c, p) PROVE VersionInv'
    <2>2. \A d \in Calls : d # c => target'[d] = target[d]
      BY <1>5 DEF Call, Resolved, VersionInv, McpInv, TypeOK
    <2>3. pc[c] = "idle" /\ UNCHANGED <<world, server, handle, todo, seen>>
      BY <1>5 DEF Call
    <2> QED BY <1>1, <1>a, <1>c, <2>2, <2>3, QuietStep DEF world, server, pools
  <1>6. ASSUME NEW c \in Calls, ListRepos(c) PROVE VersionInv'
    <2>1. UNCHANGED <<world, server, locals>>
      BY <1>6 DEF ListRepos
    <2> QED BY <1>1, <1>a, <1>c, <2>1, QuietStep DEF world, server, pools, locals
  <1>7. ASSUME NEW c \in Calls, ReadRegistry(c) PROVE VersionInv'
    <2>1. /\ registry' \subseteq registry /\ \A d \in Calls : todo'[d] \in {todo[d], registry'}
          /\ UNCHANGED <<clock, disk, server, target, handle, seen>>
      BY <1>7 DEF ReadRegistry, VersionInv, McpInv, TypeOK
    <2> QED BY <1>1, <1>a, <1>c, <2>1, QuietStep DEF server, pools
  <1>8. ASSUME NEW c \in Calls, Prune(c) PROVE VersionInv'
    <2>1. /\ \A i \in Ids : repos'[i] \in {repos[i], Absent}
          /\ UNCHANGED <<world, pools>>
      BY <1>8 DEF Prune
    <2>2. CASE End(c)
      BY <1>1, <2>1, <2>2, EndQuiet DEF End, world, pools
    <2>3. CASE UNCHANGED <<want, target, handle, awaits, todo, seen>>
      BY <1>1, <1>a, <1>c, <2>1, <2>3, QuietStep DEF world, pools
    <2> QED BY <1>8, <2>2, <2>3 DEF Prune
  <1>9. ASSUME NEW c \in Calls, Retry(c) PROVE VersionInv'
    <2>0. UNCHANGED <<world, server>> /\ pc[c] = "retry"
      BY <1>9 DEF Retry
    <2>1. CASE End(c)
      BY <1>1, <2>0, <2>1, EndQuiet DEF End, world, server, pools
    <2>2. CASE \E i \in Hits(want[c]) : Resolved(c, want[c], i)
               /\ UNCHANGED <<handle, awaits, todo, fresh, seen>>
      <3>1. \A d \in Calls : d # c => target'[d] = target[d]
        BY <2>2 DEF Resolved, VersionInv, McpInv, TypeOK
      <3> QED BY <1>1, <1>a, <1>c, <2>0, <2>2, <3>1, QuietStep DEF world, server, pools
    <2> QED BY <1>9, <2>1, <2>2 DEF Retry
  <1>10. ASSUME NEW c \in Calls, Ensure(c) PROVE VersionInv'
    BY <1>1, <1>10, EnsureVersion DEF Ensure, world
  <1>11. ASSUME NEW c \in Calls, CheckStale(c) PROVE VersionInv'
    BY <1>1, <1>11, CheckStaleVersion DEF CheckStale, world
  <1>12. ASSUME NEW c \in Calls, Query(c) PROVE VersionInv'
    BY <1>1, <1>12, EndQuiet DEF Query, End, world, server, pools
  <1>13. ASSUME NEW c \in Calls, ApplyEntry(c) PROVE VersionInv'
    BY <1>1, <1>13, ApplyEntryVersion DEF ApplyEntry, world
  <1>14. ASSUME NEW i \in Ids, Look(i) \/ OpenDatabase(i) \/ ShareDatabase(i) \/ EnterPool(i)
         PROVE  VersionInv'
    <2>1. UNCHANGED <<clock, disk>>
      BY <1>14 DEF Look, OpenDatabase, ShareDatabase, EnterPool, world
    <2> QED BY <1>1, <1>14, <2>1, LookVersion, OpenDatabaseVersion, ShareDatabaseVersion,
               EnterPoolVersion
  <1>15. ASSUME NEW i \in Ids, ThrottleEnds(i) \/ PoolCloses(i) PROVE VersionInv'
    <2>1. \A j \in Ids : pool'[j] \in {pool[j], Absent} /\ opening'[j] = opening[j]
      BY <1>15 DEF ThrottleEnds, PoolCloses, Close, pools, VersionInv, McpInv, TypeOK
    <2>2. \A j \in Ids : Database(j)' \in {Database(j), Absent}
      BY <2>1, SameDatabase
    <2>3. UNCHANGED <<world, repos, masked, locals>>
      BY <1>15 DEF ThrottleEnds, PoolCloses, pools
    <2> QED BY <1>1, <1>a, <2>2, <2>3, QuietStep DEF world, locals
  <1>16. ASSUME UNCHANGED vars PROVE VersionInv'
    BY <1>1, <1>16, <1>a, <1>c, QuietStep DEF vars, world, server, pools, locals
  <1> HIDE DEF Good
  <1> QED
    BY <1>2, <1>4, <1>5, <1>6, <1>7, <1>8, <1>9, <1>10, <1>11, <1>12, <1>13, <1>14, <1>15, <1>16
       DEF Next, CallStep, PoolStep

(* A rebuild that a call has noticed is not lost on the way to its answer, whatever
   other calls, refreshes, openings and analyses do meanwhile, removals and
   overlapping refreshes included, but on an id that FreshAnswer excepts. *)
THEOREM NoticedRebuildIsServed == Spec => []FreshAnswer
  <1>1. VersionInv => FreshAnswer
    <2> SUFFICES ASSUME VersionInv, NEW c \in Calls, pc[c] = "query", seen[c] # Absent,
                        pool[target[c]] # Absent, target[c] \notin masked
                 PROVE  ~NewerThan(seen[c], pool[target[c]])
      BY DEF FreshAnswer
    <2>1. target[c] \in Ids /\ pool[target[c]] \in Index /\ seen[c] \in Index
      BY DEF VersionInv, McpInv, TypeOK, CallShape, Resolving
    <2>2. Covers(pool[target[c]], seen[c])
      BY <2>1 DEF VersionInv, PoolInv, CoversAll, Database
    <2> QED BY <2>1, <2>2, McpFacts DEF NewerThan, Covers, Versions
  <1> QED BY <1>1, VersionInvInit, VersionInvStep, PTL DEF Spec
=============================================================================
