------------------------------ MODULE Registry ------------------------------
(***************************************************************************)
(* The global registry (gitnexus/src/storage/repo-manager.ts):             *)
(* registry.json lists the indexed repositories; `analyze` registers one   *)
(* after writing its index, `remove`, `clean` and the server unregister    *)
(* one after deleting its index, and every listing that validates prunes   *)
(* the entries whose index is gone.  Each of them reads the file, awaits,  *)
(* and writes the whole list; the write truncates the file first, and a    *)
(* file that does not parse is read as an empty list.                      *)
(*                                                                         *)
(* A repository is its canonical path.  Names are compared without case    *)
(* and inferred from the remote or the directory: Base gives the inferred  *)
(* one.  Any other name of an entry is an alias the user chose.  Nothing   *)
(* here depends on the order of the entries: the file is a set of them.    *)
(***************************************************************************)
EXTENDS Naturals, FiniteSets

CONSTANTS
    Procs,         \* processes
    Repositories,  \* repositories
    Names,         \* registry names
    Base,          \* the name a repository gets by default
    NoName,        \* no --name given
    Torn,          \* the file while it is being written
    MaxOps,        \* bound: registrations and removals
    MaxCrashes     \* bound: processes that die

ASSUME RegistryAssumption ==
    /\ Base \in [Repositories -> Names]
    /\ NoName \notin Names
    /\ Repositories \intersect Names = {}
    /\ MaxOps \in Nat /\ MaxCrashes \in Nat

Entry == [path : Repositories, name : Names, shared : BOOLEAN]  \* shared: history, --allow-duplicate-name
Kinds == {"none", "register", "unregister", "list"}
Op == [kind : Kinds, path : Repositories \union {NoName}, name : Names \union {NoName},
       allow : BOOLEAN]
ASSUME TornAssumption == \A list \in SUBSET Entry : list # Torn

NoOp == [kind |-> "none", path |-> NoName, name |-> NoName, allow |-> FALSE]

VARIABLES
    file,      \* registry.json
    indexed,   \* repositories whose .gitnexus holds a meta.json
    step,      \* where each process is
    op,        \* what it does
    entries,   \* the list it read, and then the one it writes
    expected,  \* history: repositories registered and not removed since
    ops,       \* registrations and removals so far
    crashes,   \* processes that died in the middle
    raced      \* history: two operations overlapped

registryVars == <<file, indexed, step, op, entries, expected, ops, crashes, raced>>

Phases == {"idle", "delete", "read", "validate", "truncate", "write"}

RegistryTypeOK ==
    /\ file = Torn \/ file \subseteq Entry
    /\ indexed \subseteq Repositories
    /\ step \in [Procs -> Phases]
    /\ op \in [Procs -> Op]
    /\ entries \in [Procs -> SUBSET Entry]
    /\ expected \subseteq Repositories
    /\ ops \in 0 .. MaxOps
    /\ crashes \in 0 .. MaxCrashes
    /\ raced \in BOOLEAN

RegistryInit ==
    /\ file = {}
    /\ indexed = {}
    /\ step = [p \in Procs |-> "idle"]
    /\ op = [p \in Procs |-> NoOp]
    /\ entries = [p \in Procs |-> {}]
    /\ expected = {}
    /\ ops = 0
    /\ crashes = 0
    /\ raced = FALSE

MoveTo(p, label) == step' = [step EXCEPT ![p] = label]

Finish(p) ==
    /\ MoveTo(p, "idle")
    /\ op' = [op EXCEPT ![p] = NoOp]
    /\ entries' = [entries EXCEPT ![p] = {}]

Begin(p, o, label) ==
    /\ step[p] = "idle"
    /\ raced' = (raced \/ \E q \in Procs : step[q] # "idle")
    /\ op' = [op EXCEPT ![p] = o]
    /\ MoveTo(p, label)

Counted == ops < MaxOps /\ ops' = ops + 1

PathsOf(list) == {e.path : e \in list}

(* readRegistry *)
Listed == IF file = Torn THEN {} ELSE file

----------------------------------------------------------------------------
(* resolveRegistryEntry: an exact path, or else a name that one entry has.   *)

Named(target) == {e \in Listed : e.name = target}
Resolves(target, path) ==
    \/ target = path /\ path \in PathsOf(Listed)
    \/ /\ target \notin PathsOf(Listed)
       /\ \E e \in Named(target) : Named(target) = {e} /\ e.path = path

----------------------------------------------------------------------------
(* The operations                                                            *)

(* analyze has written the index and registers the repository. *)
StartRegister(p, path, name, allow) ==
    /\ Begin(p, [kind |-> "register", path |-> path, name |-> name, allow |-> allow], "read")
    /\ Counted
    /\ indexed' = indexed \union {path}
    /\ UNCHANGED <<file, entries, expected, crashes>>

StartRemove(p, target) ==
    /\ \E path \in Repositories :
          /\ Resolves(target, path)
          /\ Begin(p, [NoOp EXCEPT !.kind = "unregister", !.path = path], "delete")
    /\ Counted
    /\ UNCHANGED <<file, indexed, entries, expected, crashes>>

(* The index goes first: a removal that stops here leaves an entry to prune. *)
DeleteIndex(p) ==
    /\ step[p] = "delete"
    /\ indexed' = indexed \ {op[p].path}
    /\ MoveTo(p, "read")
    /\ UNCHANGED <<file, op, entries, expected, ops, crashes, raced>>

StartList(p) ==
    /\ Begin(p, [NoOp EXCEPT !.kind = "list"], "read")
    /\ UNCHANGED <<file, indexed, entries, expected, ops, crashes>>

At(list, path) == {e \in list : e.path = path}

(* --name, or the alias the entry has, or the inferred name *)
ChosenName(o, list) ==
    IF o.name # NoName THEN o.name
    ELSE IF At(list, o.path) # {} THEN (CHOOSE e \in At(list, o.path) : TRUE).name
    ELSE Base[o.path]

\* Mutant: only a name given now is guarded.
CollidesIfGiven(o, list) ==
    /\ o.name # NoName
    /\ ~o.allow
    /\ \E e \in list : e.path # o.path /\ e.name = o.name

(* A name the user asked for, now or before, may not be another's. *)
Collides(o, list) ==
    LET name == ChosenName(o, list) IN
    /\ o.name # NoName \/ name # Base[o.path]
    /\ ~o.allow
    /\ \E e \in list : e.path # o.path /\ e.name = name

\* Mutant: the name is stored as given, or not given.
UpdatedAsGiven(o, list) ==
    (list \ At(list, o.path)) \union {[path |-> o.path, name |-> o.name, shared |-> o.allow]}

(* The entry of the repository is replaced, or else appended. *)
Updated(o, list) ==
    (list \ At(list, o.path))
        \union {[path |-> o.path, name |-> ChosenName(o, list), shared |-> o.allow]}

\* Mutant: entries are filtered by name.
WithoutName(o, list) == {e \in list : \A f \in At(list, o.path) : f.name # e.name}

Without(o, list) == list \ At(list, o.path)

Read(p) ==
    /\ step[p] = "read"
    /\ \/ /\ op[p].kind = "register" /\ ~Collides(op[p], Listed)
          /\ entries' = [entries EXCEPT ![p] = Updated(op[p], Listed)]
          /\ MoveTo(p, "truncate")
          /\ UNCHANGED op
       \/ /\ op[p].kind = "register" /\ Collides(op[p], Listed)
          /\ Finish(p)
       \/ /\ op[p].kind = "unregister"
          /\ entries' = [entries EXCEPT ![p] = Without(op[p], Listed)]
          /\ MoveTo(p, "truncate")
          /\ UNCHANGED op
       \/ /\ op[p].kind = "list"
          /\ entries' = [entries EXCEPT ![p] = Listed]
          /\ MoveTo(p, "validate")
          /\ UNCHANGED op
    /\ UNCHANGED <<file, indexed, expected, ops, crashes, raced>>

\* Mutant: the pruned list is not saved.
ValidateOnly(p) ==
    /\ step[p] = "validate"
    /\ Finish(p)
    /\ UNCHANGED <<file, indexed, expected, ops, crashes, raced>>

Validate(p) ==
    LET valid == {e \in entries[p] : e.path \in indexed} IN
    /\ step[p] = "validate"
    /\ IF valid # entries[p]
       THEN /\ entries' = [entries EXCEPT ![p] = valid]
            /\ MoveTo(p, "truncate")
            /\ UNCHANGED op
       ELSE Finish(p)
    /\ UNCHANGED <<file, indexed, expected, ops, crashes, raced>>

(* writeFile opens the file, which empties it, and then writes. *)
Truncate(p) ==
    /\ step[p] = "truncate"
    /\ file' = Torn
    /\ MoveTo(p, "write")
    /\ UNCHANGED <<indexed, op, entries, expected, ops, crashes, raced>>

Write(p) ==
    /\ step[p] = "write"
    /\ file' = entries[p]
    /\ expected' = CASE op[p].kind = "register" -> expected \union {op[p].path}
                     [] op[p].kind = "unregister" -> expected \ {op[p].path}
                     [] op[p].kind = "list" -> expected \intersect indexed
    /\ Finish(p)
    /\ UNCHANGED <<indexed, ops, crashes, raced>>

Crash(p) ==
    /\ step[p] # "idle"
    /\ crashes < MaxCrashes
    /\ crashes' = crashes + 1
    /\ Finish(p)
    /\ UNCHANGED <<file, indexed, expected, ops, raced>>

(* A directory is deleted without telling anyone. *)
LoseIndex(path) ==
    /\ path \in indexed
    /\ Counted
    /\ indexed' = indexed \ {path}
    /\ UNCHANGED <<file, step, op, entries, expected, crashes, raced>>

----------------------------------------------------------------------------
Continue(p) == DeleteIndex(p) \/ Read(p) \/ Validate(p) \/ Truncate(p) \/ Write(p)

RegistryNext ==
    \/ \E p \in Procs :
          \/ Continue(p) \/ Crash(p) \/ StartList(p)
          \/ \E path \in Repositories, name \in Names \union {NoName}, allow \in BOOLEAN :
                StartRegister(p, path, name, allow)
          \/ \E target \in Repositories \union Names : StartRemove(p, target)
    \/ \E path \in Repositories : LoseIndex(path)

RegistrySpec == RegistryInit /\ [][RegistryNext]_registryVars

(* Operations that started go on, and somebody lists the repositories again
   and again, as an MCP server does on every miss. *)
LiveSpec ==
    /\ RegistrySpec
    /\ \A p \in Procs : WF_registryVars(Continue(p))
    /\ WF_registryVars(\E p \in Procs : StartList(p))

----------------------------------------------------------------------------
(* Properties                                                                *)

Quiet == \A p \in Procs : step[p] = "idle"

(* Two repositories have one name only by default or by permission: even two
   registrations that both find the name free cannot both keep it. *)
AliasUnique ==
    \A e, f \in Listed :
        (e # f /\ e.name = f.name)
            => \E g \in {e, f} : g.shared \/ g.name = Base[g.path]

(* Operations that do not overlap and do not die lose no registration but those
   removed, or pruned with their index. *)
NothingLost ==
    (Quiet /\ ~raced /\ crashes = 0) => expected \subseteq PathsOf(Listed)

(* An entry whose index is gone is pruned in the end, after a crash between
   the two halves of a removal as well. *)
OrphansPruned ==
    \A path \in Repositories :
        (path \in PathsOf(Listed) /\ path \notin indexed)
            ~> (path \notin PathsOf(Listed) \/ path \in indexed)

(* A registration that was reported stays. *)
RegistrationKept == Quiet => expected \subseteq PathsOf(Listed)
=============================================================================
