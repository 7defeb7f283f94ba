---------------------------- MODULE ProfileConfig ----------------------------
(***************************************************************************)
(* profile_config.rs: transactions on the profile configuration by several  *)
(* processes or threads, next to an editor that does not take the lock.     *)
(*                                                                         *)
(* The file is its set of profiles and a stamp that tells two texts apart.  *)
(* A writer may be killed at any point; its flock goes with it.             *)
(***************************************************************************)
EXTENDS Integers, FiniteSets

CONSTANTS
    Writers,    \* processes and threads that use the configuration
    ProfileNames, \* container names profiles resolve to
    OpIds,      \* ids that callers name
    MaxOps,     \* bound: transactions started
    MaxEdits,   \* bound: edits by somebody else
    NoConfig

ASSUME ProfileConfigAssumption ==
    /\ MaxOps \in Nat /\ MaxEdits \in Nat /\ NoConfig \notin Writers
    /\ OpIds \subseteq Nat \ {0}
    /\ NoConfig \notin [stamp : Nat, profiles : SUBSET [id : Nat, name : ProfileNames]]

VARIABLES
    file,        \* the configuration: [stamp, profiles], or NoConfig
    configLock,  \* holder of the sidecar flock
    writer,      \* writer -> [pc, op, orig, new, result]
    book,        \* the profiles that should be there: every committed change applied in order
    raced,       \* an edit fell between a writer's last comparison and its rename
    configUse    \* [ops, edits, ids, stamps]

configVars == <<file, configLock, writer, book, raced, configUse>>

UNSAVED == 0
Profile(id, name) == [id |-> id, name |-> name]
Ids(P) == {p.id : p \in P}
Saved(P) == \A p \in P : p.id # UNSAVED
Content == IF file = NoConfig THEN {} ELSE file.profiles
Rest == [pc |-> "idle", op |-> NoConfig, orig |-> NoConfig, new |-> {}, result |-> NoConfig]

ProfileConfigTypeOK ==
    /\ configLock \in Writers \union {NoConfig} /\ raced \in BOOLEAN
    /\ \A w \in Writers : /\ writer[w].pc \in {"idle", "lock", "read", "write", "compare", "rename"}
                          /\ \A p \in writer[w].new : p.id \in 0 .. configUse.ids
    /\ Content \subseteq [id : 0 .. configUse.ids, name : ProfileNames]

ProfileConfigInit ==
    /\ file \in {NoConfig} \union {[stamp |-> 0, profiles |-> {Profile(UNSAVED, n)}] : n \in ProfileNames}
    /\ configLock = NoConfig /\ raced = FALSE
    /\ book = Content
    /\ writer = [w \in Writers |-> Rest]
    /\ configUse = [ops |-> 0, edits |-> 0, ids |-> 0, stamps |-> 0]

-----------------------------------------------------------------------------
\* validate_ids.
DuplicateIds(P) == \E p, q \in P : p # q /\ p.id = q.id /\ p.id # UNSAVED

\* migrate: a fresh id for every profile without one.
Unsaved(P) == {p \in P : p.id = UNSAVED}
Migrated(P, ids) ==
    LET order == CHOOSE f \in [Unsaved(P) -> 1 .. Cardinality(Unsaved(P))] :
                    \A p, q \in Unsaved(P) : p # q => f[p] # f[q]
    IN  (P \ Unsaved(P)) \union {Profile(ids + order[p], p.name) : p \in Unsaved(P)}

\* validate_profile_name: another profile with the same container.
NameTaken(P, name, except) == \E p \in P : p.id # except /\ p.name = name

\* An operation refuses a taken name and an unknown id ...
Refuses(op, P) ==
    \/ op.kind = "append" /\ NameTaken(P, op.name, UNSAVED)
    \/ op.kind = "replace" /\ NameTaken(P, op.name, op.id)
    \/ op.kind \in {"replace", "remove"} /\ op.id \notin Ids(P)

\* ... and otherwise makes this of the migrated profiles.
Operate(op, P, ids) ==
    CASE op.kind = "load" -> P
      [] op.kind = "append" -> P \union {Profile(ids + 1, op.name)}
      [] op.kind = "replace" -> {p \in P : p.id # op.id} \union {Profile(op.id, op.name)}
      [] op.kind = "remove" -> {p \in P : p.id # op.id}

Ops == [kind : {"append"}, name : ProfileNames] \union [kind : {"replace"}, id : OpIds, name : ProfileNames]
       \union [kind : {"remove"}, id : OpIds] \union [kind : {"load"}]

-----------------------------------------------------------------------------
Ends(w, result) == writer' = [writer EXCEPT ![w] = [Rest EXCEPT !.result = result]]

\* load reads a saved configuration without the lock; everything else, and a file
\* with profiles that have no id, needs a transaction.
Begin(w, op) ==
    /\ writer[w].pc = "idle" /\ configUse.ops < MaxOps
    /\ op.kind \in {"replace", "remove"} => op.id <= configUse.ids
    /\ configUse' = [configUse EXCEPT !.ops = @ + 1]
    /\ IF op.kind = "load" /\ file # NoConfig /\ (DuplicateIds(Content) \/ Saved(Content))
       THEN Ends(w, IF DuplicateIds(Content) THEN "error" ELSE "ok")
       ELSE writer' = [writer EXCEPT ![w] = [Rest EXCEPT !.pc = "lock", !.op = op]]
    /\ UNCHANGED <<file, configLock, book, raced>>

\* ConfigLock::acquire, for at most LOCK_WAIT.
TakeLock(w) ==
    /\ writer[w].pc = "lock" /\ configLock = NoConfig
    /\ configLock' = w /\ writer' = [writer EXCEPT ![w].pc = "read"]
    /\ UNCHANGED <<file, book, raced, configUse>>
LockTimesOut(w) ==
    /\ writer[w].pc = "lock" /\ configLock # NoConfig
    /\ Ends(w, "error")
    /\ UNCHANGED <<file, configLock, book, raced, configUse>>

\* Read, migrate, operate, migrate; the text is written only when it changed.
Transact(w) ==
    /\ writer[w].pc = "read"
    /\ LET ids == configUse.ids + Cardinality(Unsaved(Content))
           P == Migrated(Content, configUse.ids)
           failed == DuplicateIds(Content) \/ Refuses(writer[w].op, P)
           new == Operate(writer[w].op, P, ids)
       IN  IF failed \/ (new = Content /\ file # NoConfig)
           THEN /\ Ends(w, IF failed THEN "error" ELSE "ok")
                /\ configLock' = NoConfig /\ UNCHANGED configUse
           ELSE /\ writer' = [writer EXCEPT ![w] = [@ EXCEPT !.pc = "write", !.orig = file, !.new = new]]
                /\ configUse' = [configUse EXCEPT !.ids = ids + (IF writer[w].op.kind = "append" THEN 1 ELSE 0)]
                /\ UNCHANGED configLock
    /\ UNCHANGED <<file, book, raced>>

\* atomic_write: a temporary file, a last comparison with what was read, a rename.
WriteTemporary(w) ==
    /\ writer[w].pc = "write"
    /\ \/ writer' = [writer EXCEPT ![w].pc = "compare"] /\ UNCHANGED configLock
       \/ Ends(w, "error") /\ configLock' = NoConfig
    /\ UNCHANGED <<file, book, raced, configUse>>

\* Mutated form: the file is not compared again before the rename.
CompareSkipped(w) ==
    /\ writer[w].pc = "compare"
    /\ IF TRUE
       THEN writer' = [writer EXCEPT ![w].pc = "rename"] /\ UNCHANGED configLock
       ELSE Ends(w, "error") /\ configLock' = NoConfig
    /\ UNCHANGED <<file, book, raced, configUse>>

Compare(w) ==
    /\ writer[w].pc = "compare"
    /\ IF file = writer[w].orig
       THEN writer' = [writer EXCEPT ![w].pc = "rename"] /\ UNCHANGED configLock
       ELSE Ends(w, "error") /\ configLock' = NoConfig
    /\ UNCHANGED <<file, book, raced, configUse>>

\* What the committed change does to the profiles that should be there.
Recorded(w) ==
    LET old == IF writer[w].orig = NoConfig THEN {} ELSE writer[w].orig.profiles
    IN  (book \ (old \ writer[w].new)) \union (writer[w].new \ old)
Rename(w) ==
    /\ writer[w].pc = "rename"
    /\ file' = [stamp |-> configUse.stamps + 1, profiles |-> writer[w].new]
    /\ book' = Recorded(w)
    /\ configUse' = [configUse EXCEPT !.stamps = @ + 1]
    /\ Ends(w, "ok") /\ configLock' = NoConfig
    /\ UNCHANGED raced

Crash(w) ==
    /\ writer[w].pc # "idle"
    /\ Ends(w, "killed")
    /\ configLock' = IF configLock = w THEN NoConfig ELSE configLock
    /\ UNCHANGED <<file, book, raced, configUse>>

\* Somebody edits the file: a new profile, a copied one with its id, or one less.
Edit(P) ==
    /\ configUse.edits < MaxEdits
    /\ P # Content
    /\ file' = [stamp |-> configUse.stamps + 1, profiles |-> P]
    /\ book' = P
    /\ configUse' = [configUse EXCEPT !.stamps = @ + 1, !.edits = @ + 1]
    /\ raced' = (raced \/ \E w \in Writers : writer[w].pc = "rename")
    /\ UNCHANGED <<configLock, writer>>

Edits == {Content \union {Profile(UNSAVED, n)} : n \in ProfileNames}
         \union {Content \union {Profile(p.id, n)} : p \in Content, n \in ProfileNames}
         \union {Content \ {p} : p \in Content}

ProfileConfigNext ==
    \/ \E w \in Writers, op \in Ops : Begin(w, op)
    \/ \E w \in Writers : \/ TakeLock(w) \/ LockTimesOut(w) \/ Transact(w) \/ WriteTemporary(w)
                          \/ Compare(w) \/ Rename(w) \/ Crash(w)
    \/ \E P \in Edits : Edit(P)

ProfileConfigSpec == ProfileConfigInit /\ [][ProfileConfigNext]_configVars

-----------------------------------------------------------------------------
\* Every committed change and every edit is in the file: no writer overwrites what it
\* has not read, except an edit made between its last comparison and its rename.
NoLostUpdate == raced \/ Content = book

\* A transaction writes only profiles with an id, each of its own: also when it adds
\* a copy of a profile, or finds profiles that were edited in without one.
CommittedIdsUnique ==
    \A w \in Writers : writer[w].pc \in {"write", "compare", "rename"} =>
       Saved(writer[w].new) /\ ~DuplicateIds(writer[w].new)

\* No committed change is overwritten, and every profile written has an id of its own.
ProfilesInvariant ==
    /\ ProfileConfigTypeOK
    /\ NoLostUpdate
    /\ CommittedIdsUnique
=============================================================================
