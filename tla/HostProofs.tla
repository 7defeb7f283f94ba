----------------------------- MODULE HostProofs -----------------------------
(***************************************************************************)
(* Proofs about what the program shares with other processes of the host,  *)
(* for any number of them: the path of the control socket (ControlSocket), *)
(* the profile file (ProfileConfig) and the control service (Control).     *)
(***************************************************************************)
EXTENDS ControlSocket, ProfileConfig, Control, FiniteSetTheorems, FunctionTheorems, TLAPS

-----------------------------------------------------------------------------
(* ControlSocket.                                                          *)

\* A process between its probe and its bind.
Starting(a) == app[a] \in {"unlink", "bind"}

SocketType ==
    /\ app \in [Apps -> {"off", "unlink", "bind", "listening", "refused"}]
    /\ sockFile \in Apps \cup {NoSocket, "stale"} /\ overlap \in BOOLEAN

\* As long as no two starts overlapped, a process on its way to its bind is the only
\* one, and no server listens: its probe would have found it, since the path led to it.
StartsAlone ==
    ~overlap => \A a \in Apps : Starting(a) =>
                    /\ \A b \in Apps : Starting(b) => a = b
                    /\ \A b \in Apps : ~Listening(b)

\* The inductive invariant.
SocketInv == SocketType /\ StartsAlone /\ LiveSocketKept

LEMMA SocketInit == ControlSocketInit => SocketInv
BY DEF ControlSocketInit, SocketInv, SocketType, StartsAlone, LiveSocketKept, Starting, Listening

LEMMA SocketStep == SocketInv /\ [ControlSocketNext]_socketVars => SocketInv'
<1> SUFFICES ASSUME SocketInv, [ControlSocketNext]_socketVars PROVE SocketInv'
  OBVIOUS
<1> USE ControlSocketAssumption
    DEF SocketInv, SocketType, StartsAlone, LiveSocketKept, Starting, Listening
<1>1. ASSUME NEW a \in Apps, ProbeSocket(a) PROVE SocketInv'
  BY <1>1 DEF ProbeSocket
<1>2. ASSUME NEW a \in Apps, ProbeFails(a) PROVE SocketInv'
  BY <1>2 DEF ProbeFails
<1>3. ASSUME NEW a \in Apps, UnlinkStaleSocket(a) PROVE SocketInv'
  BY <1>3 DEF UnlinkStaleSocket
<1>4. ASSUME NEW a \in Apps, BindSocket(a) PROVE SocketInv'
  BY <1>4 DEF BindSocket
<1>5. ASSUME NEW a \in Apps, RemoveSocket(a) PROVE SocketInv'
  BY <1>5 DEF RemoveSocket
<1>6. ASSUME NEW a \in Apps, ServerCrashes(a) PROVE SocketInv'
  BY <1>6 DEF ServerCrashes
<1>7. ASSUME NEW a \in Apps, StartAgain(a) PROVE SocketInv'
  BY <1>7 DEF StartAgain
<1>8. CASE UNCHANGED socketVars
  BY <1>8 DEF socketVars
<1> QED
  BY <1>1, <1>2, <1>3, <1>4, <1>5, <1>6, <1>7, <1>8 DEF ControlSocketNext

\* However many processes start, leave and crash, a live control socket is not taken away by a
\* start (start_at) or another server's leaving (remove_socket), unless two starts overlapped.
THEOREM LiveSocketIsKept == ControlSocketSpec => []LiveSocketKept
<1>1. SocketInv => LiveSocketKept
  BY DEF SocketInv
<1> QED
  BY <1>1, SocketInit, SocketStep, PTL DEF ControlSocketSpec

-----------------------------------------------------------------------------
(* ProfileConfig.                                                          *)

AnyProfile == [id : Nat, name : ProfileNames]
Files == {NoConfig} \cup [stamp : Nat, profiles : SUBSET AnyProfile]
WriterStates == [pc : {"idle", "lock", "read", "write", "compare", "rename"},
                 op : Ops \cup {NoConfig}, orig : Files, new : SUBSET AnyProfile,
                 result : {"ok", "error", "killed", NoConfig}]

ConfigType ==
    /\ file \in Files /\ configLock \in Writers \cup {NoConfig} /\ raced \in BOOLEAN
    /\ writer \in [Writers -> WriterStates]
    /\ configUse \in [ops : Nat, edits : Nat, ids : Nat, stamps : Nat]

\* Every id in it is one of the first ones given out.
Given(P, ids) == \A p \in P : p.id <= ids

\* Sets of profiles are finite, and every id in them was given out.
ProfilesGiven ==
    /\ IsFiniteSet(Content) /\ Given(Content, configUse.ids)
    /\ \A w \in Writers : IsFiniteSet(writer[w].new) /\ Given(writer[w].new, configUse.ids)

\* The lock is held from the read to the rename, for an operation; and what a writer
\* is about to replace is what it has read, unless an edit raced it.
LockCoversTransaction ==
    \A w \in Writers :
       /\ configLock = w <=> writer[w].pc \in {"read", "write", "compare", "rename"}
       /\ writer[w].pc # "idle" => writer[w].op \in Ops
       /\ writer[w].pc = "rename" /\ ~raced => file = writer[w].orig

\* The inductive invariant.
ConfigInv ==
    /\ ConfigType /\ ProfilesGiven /\ LockCoversTransaction
    /\ NoLostUpdate /\ CommittedIdsUnique

LEMMA NoConfigApart ==
    /\ NoConfig \notin Writers
    /\ NoConfig \notin [stamp : Nat, profiles : SUBSET AnyProfile]
BY ProfileConfigAssumption DEF AnyProfile

\* A text of the file is a file.
LEMMA TextIsFile ==
  ASSUME NEW stamp \in Nat, NEW P \in SUBSET AnyProfile
  PROVE  LET text == [stamp |-> stamp, profiles |-> P] IN text \in Files /\ text # NoConfig
BY NoConfigApart DEF Files

LEMMA ContentType == ConfigType => Content \subseteq AnyProfile
BY DEF ConfigType, Files, Content

-----------------------------------------------------------------------------
\* A set of profiles with given, distinct ids; profiles without an id may be many.
Sound(P, ids) ==
    /\ P \subseteq AnyProfile /\ IsFiniteSet(P) /\ ~DuplicateIds(P)
    /\ \A p \in P : p.id <= ids

\* migrate gives every profile that has none an id above all that were given.
LEMMA MigrateGivesFresh ==
  ASSUME NEW P, NEW ids \in Nat, Sound(P, ids)
  PROVE  /\ Cardinality(Unsaved(P)) \in Nat
         /\ Sound(Migrated(P, ids), ids + Cardinality(Unsaved(P)))
         /\ Saved(Migrated(P, ids))
<1> DEFINE U == Unsaved(P)
           n == Cardinality(U)
           IsOrder(f) == \A p, q \in U : p # q => f[p] # f[q]
           order == CHOOSE f \in [U -> 1 .. n] : IsOrder(f)
           Fresh(p) == Profile(ids + order[p], p.name)
           g == [p \in U |-> Fresh(p)]
           N == {Fresh(p) : p \in U}
<1>1. IsFiniteSet(U) /\ n \in Nat /\ ExistsBijection(1 .. n, U) /\ U \subseteq P
  <2>1. U \subseteq P
    BY DEF Unsaved
  <2>2. IsFiniteSet(U)
    BY <2>1, FS_Subset DEF Sound
  <2> QED
    BY <2>1, <2>2, FS_CardinalityType
<1>2. \E f \in [U -> 1 .. n] : IsOrder(f)
  <2>1. ExistsBijection(U, 1 .. n)
    BY <1>1, Fun_ExistsBijSymmetric
  <2>2. PICK f : f \in Bijection(U, 1 .. n)
    BY <2>1 DEF ExistsBijection
  <2> QED
    BY <2>2 DEF Bijection, Injection, IsInjective
<1>3. order \in [U -> 1 .. n] /\ IsOrder(order)
  BY <1>2
<1> HIDE DEF order
<1>4. \A p \in U : order[p] \in 1 .. n /\ p \in AnyProfile
  BY <1>1, <1>3 DEF Sound
<1>5. \A p \in U : /\ Fresh(p) \in AnyProfile /\ Fresh(p).id = ids + order[p]
                   /\ Fresh(p).id > ids /\ Fresh(p).id <= ids + n
  BY <1>1, <1>4 DEF Profile, AnyProfile
<1>6. IsFiniteSet(N)
  <2>1. g \in Surjection(U, N)
    BY DEF Surjection
  <2> QED
    BY <1>1, <2>1, FS_Surjection
<1>7. Migrated(P, ids) = (P \ U) \cup N
  BY DEF Migrated, order
<1>8. IsFiniteSet(P \ U)
  BY FS_Difference DEF Sound
<1>9. \A p \in P \ U : p.id \in Nat /\ p.id # UNSAVED /\ p.id <= ids
  BY DEF Unsaved, Sound, AnyProfile
<1>10. IsFiniteSet((P \ U) \cup N)
  BY <1>6, <1>8, FS_Union
<1>11. (P \ U) \cup N \subseteq AnyProfile
  BY <1>5 DEF Sound
<1>12. \A p \in (P \ U) \cup N : p.id <= ids + n /\ p.id # UNSAVED
  <2>1. \A p \in P \ U : p.id <= ids + n
    BY <1>1, <1>9
  <2>2. \A p \in N : p.id <= ids + n /\ p.id # 0
    BY <1>5, <1>11 DEF AnyProfile
  <2> QED
    BY <1>9, <2>1, <2>2 DEF UNSAVED
<1>13. ~DuplicateIds((P \ U) \cup N)
  <2> SUFFICES ASSUME NEW p \in (P \ U) \cup N, NEW q \in (P \ U) \cup N, p # q, p.id = q.id
               PROVE  FALSE
    BY DEF DuplicateIds
  <2>1. CASE p \in P \ U /\ q \in P \ U
    BY <1>9, <2>1 DEF Sound, DuplicateIds
  <2>2. CASE p \in P \ U /\ q \in N
    BY <1>5, <1>9, <1>11, <2>2 DEF AnyProfile
  <2>3. CASE p \in N /\ q \in P \ U
    BY <1>5, <1>9, <1>11, <2>3 DEF AnyProfile
  <2>4. CASE p \in N /\ q \in N
    <3>1. PICK u \in U, v \in U : p = Fresh(u) /\ q = Fresh(v)
      BY <2>4
    <3>2. ids + order[u] = ids + order[v]
      BY <1>5, <3>1
    <3>3. order[u] = order[v]
      BY <1>1, <1>4, <3>2
    <3> QED
      BY <1>3, <3>1, <3>3
  <2> QED
    BY <2>1, <2>2, <2>3, <2>4
<1> QED
  BY <1>1, <1>7, <1>10, <1>11, <1>12, <1>13 DEF Sound, Saved

\* An operation keeps the ids distinct; append takes the next one.
LEMMA OperateKeepsDistinct ==
  ASSUME NEW P, NEW ids \in Nat, Sound(P, ids), Saved(P), NEW op \in Ops, ~Refuses(op, P)
  PROVE  /\ Sound(Operate(op, P, ids), ids + (IF op.kind = "append" THEN 1 ELSE 0))
         /\ Saved(Operate(op, P, ids))
<1> DEFINE new == Operate(op, P, ids)
<1>1. CASE op.kind = "load"
  <2>1. new = P
    BY <1>1 DEF Operate
  <2> QED
    BY <1>1, <2>1
<1>2. CASE op.kind = "append"
  <2>1. new = P \cup {Profile(ids + 1, op.name)} /\ op.name \in ProfileNames
    BY <1>2 DEF Operate, Ops
  <2>2. /\ Profile(ids + 1, op.name) \in AnyProfile
        /\ Profile(ids + 1, op.name).id = ids + 1 /\ ids + 1 # UNSAVED
    BY <2>1 DEF Profile, AnyProfile, UNSAVED
  <2>3. IsFiniteSet(new)
    BY <2>1, FS_AddElement DEF Sound
  <2>4. \A p \in P : p.id \in Nat /\ p.id <= ids
    BY DEF Sound, AnyProfile
  <2>5. \A p \in P : p.id # ids + 1 /\ p.id <= ids + 1
    BY <2>4
  <2>6. ~DuplicateIds(new) /\ Saved(new) /\ \A p \in new : p.id <= ids + 1
    BY <2>1, <2>2, <2>5 DEF Sound, Saved, DuplicateIds
  <2> QED
    BY <1>2, <2>1, <2>2, <2>3, <2>6 DEF Sound
<1>3. CASE op.kind = "replace"
  <2>1. /\ new = {p \in P : p.id # op.id} \cup {Profile(op.id, op.name)}
        /\ op.name \in ProfileNames /\ op.id \in OpIds /\ op.id \in Ids(P)
    BY <1>3 DEF Operate, Ops, Refuses
  <2>2. /\ Profile(op.id, op.name) \in AnyProfile /\ Profile(op.id, op.name).id = op.id
        /\ op.id # UNSAVED /\ op.id <= ids
    BY <2>1, ProfileConfigAssumption DEF Profile, AnyProfile, UNSAVED, Ids, Sound
  <2>3. IsFiniteSet({p \in P : p.id # op.id})
    BY FS_Subset, {p \in P : p.id # op.id} \subseteq P DEF Sound
  <2>4. IsFiniteSet(new)
    BY <2>1, <2>3, FS_AddElement
  <2>5. ~DuplicateIds(new) /\ Saved(new) /\ \A p \in new : p.id <= ids
    BY <2>1, <2>2 DEF Sound, Saved, DuplicateIds
  <2> QED
    BY <1>3, <2>1, <2>2, <2>4, <2>5 DEF Sound
<1>4. CASE op.kind = "remove"
  <2>1. new = {p \in P : p.id # op.id}
    BY <1>4 DEF Operate
  <2>2. new \subseteq P
    BY <2>1
  <2>3. IsFiniteSet(new)
    BY <2>2, FS_Subset DEF Sound
  <2> QED
    BY <1>4, <2>2, <2>3 DEF Sound, Saved, DuplicateIds
<1> QED
  BY <1>1, <1>2, <1>3, <1>4 DEF Ops

-----------------------------------------------------------------------------
LEMMA ConfigInit == ProfileConfigInit => ConfigInv
<1> SUFFICES ASSUME ProfileConfigInit PROVE ConfigInv
  OBVIOUS
<1>1. ConfigType
  <2>1. \A n \in ProfileNames : {Profile(UNSAVED, n)} \in SUBSET AnyProfile
    BY DEF Profile, UNSAVED, AnyProfile
  <2>2. file \in Files
    BY <2>1, TextIsFile DEF ProfileConfigInit, Files
  <2>3. Rest \in WriterStates
    BY DEF Rest, WriterStates, Files
  <2>4. configUse \in [ops : Nat, edits : Nat, ids : Nat, stamps : Nat]
    BY DEF ProfileConfigInit
  <2> QED
    BY <2>2, <2>3, <2>4 DEF ProfileConfigInit, ConfigType
<1>2. Content = {} \/ \E n \in ProfileNames : Content = {Profile(UNSAVED, n)}
  BY DEF ProfileConfigInit, Content
<1>3. IsFiniteSet(Content)
  BY <1>2, FS_EmptySet, FS_Singleton
<1>4. Given(Content, configUse.ids)
  BY <1>2 DEF ProfileConfigInit, Given, Profile, UNSAVED
<1>5. ProfilesGiven
  BY <1>3, <1>4, FS_EmptySet DEF ProfilesGiven, ProfileConfigInit, Rest, Given
<1>6. LockCoversTransaction
  BY ProfileConfigAssumption DEF ProfileConfigInit, LockCoversTransaction, Rest
<1>7. NoLostUpdate /\ CommittedIdsUnique
  BY DEF ProfileConfigInit, NoLostUpdate, CommittedIdsUnique, Rest
<1> QED
  BY <1>1, <1>5, <1>6, <1>7 DEF ConfigInv

\* An operation that ends leaves nothing behind.
LEMMA EndsClears ==
  ASSUME ConfigType, NEW w \in Writers, NEW r \in {"ok", "error", "killed"}, Ends(w, r)
  PROVE  /\ writer' \in [Writers -> WriterStates]
         /\ writer'[w].pc = "idle" /\ writer'[w].new = {}
         /\ \A v \in Writers \ {w} : writer'[v] = writer[v]
BY ProfileConfigAssumption DEF ConfigType, Ends, Rest, WriterStates, Files, AnyProfile

\* What holds after a step that only moves one writer, and the lock with it.
LEMMA WriterMoves ==
  ASSUME ConfigInv, NEW w \in Writers,
         UNCHANGED <<file, book, raced>>,
         configUse' \in [ops : Nat, edits : Nat, ids : Nat, stamps : Nat],
         configUse'.ids >= configUse.ids,
         writer' \in [Writers -> WriterStates], 
         \A v \in Writers \ {w} : writer'[v] = writer[v],
         IsFiniteSet(writer'[w].new), Given(writer'[w].new, configUse'.ids),
         configLock' \in Writers \cup {NoConfig},
         \A v \in Writers : 
            configLock' = v <=> writer'[v].pc \in {"read", "write", "compare", "rename"},
         writer'[w].pc # "idle" => writer'[w].op \in Ops,
         writer'[w].pc = "rename" /\ ~raced => file = writer'[w].orig,
         writer'[w].pc \in {"write", "compare", "rename"} =>
            Saved(writer'[w].new) /\ ~DuplicateIds(writer'[w].new)
  PROVE  ConfigInv'
<1>1. Content' = Content
  BY DEF Content
<1>2. \A P \in SUBSET AnyProfile : Given(P, configUse.ids) => Given(P, configUse'.ids)
  BY DEF Given, AnyProfile, ConfigInv, ConfigType
<1>3. ProfilesGiven'
  <2>1. Content \in SUBSET AnyProfile /\ \A v \in Writers : writer[v].new \in SUBSET AnyProfile
    BY ContentType DEF ConfigInv, ConfigType, WriterStates
  <2>2. Given(Content, configUse'.ids) /\ \A v \in Writers \ {w} : Given(writer'[v].new, configUse'.ids)
    BY <1>1, <1>2, <2>1 DEF ConfigInv, ProfilesGiven, Given
  <2>3. \A v \in Writers : IsFiniteSet(writer'[v].new)
    BY DEF ConfigInv, ProfilesGiven
  <2> QED
    BY <1>1, <2>2, <2>3 DEF ConfigInv, ProfilesGiven, Given
<1>4. ConfigType'
  BY DEF ConfigInv, ConfigType
<1>5. LockCoversTransaction'
  BY DEF ConfigInv, LockCoversTransaction
<1>6. NoLostUpdate' /\ CommittedIdsUnique'
  BY <1>1 DEF ConfigInv, NoLostUpdate, CommittedIdsUnique
<1> QED
  BY <1>3, <1>4, <1>5, <1>6 DEF ConfigInv

\* Giving up, with or without the lock.
LEMMA EndsKeeps ==
  ASSUME ConfigInv, NEW w \in Writers, NEW r \in {"ok", "error", "killed"}, Ends(w, r),
         UNCHANGED <<file, book, raced>>,
         configUse' \in [ops : Nat, edits : Nat, ids : Nat, stamps : Nat],
         configUse'.ids = configUse.ids,
         configLock' = IF configLock = w THEN NoConfig ELSE configLock
  PROVE  ConfigInv'
<1>1. /\ writer' \in [Writers -> WriterStates]
      /\ writer'[w].pc = "idle" /\ writer'[w].new = {}
      /\ \A v \in Writers \ {w} : writer'[v] = writer[v]
  BY EndsClears DEF ConfigInv
<1>2. \A v \in Writers : configLock' = v <=> writer'[v].pc \in {"read", "write", "compare", "rename"}
  BY <1>1, ProfileConfigAssumption DEF ConfigInv, LockCoversTransaction
<1>3. IsFiniteSet(writer'[w].new) /\ Given(writer'[w].new, configUse'.ids)
  BY <1>1, FS_EmptySet DEF Given
<1>4. configLock' \in Writers \cup {NoConfig} /\ configUse'.ids >= configUse.ids
  BY DEF ConfigInv, ConfigType
<1> QED
  BY <1>1, <1>2, <1>3, <1>4, WriterMoves

\* Moving on, with or without the lock, writes nothing.
LEMMA GoesOn ==
  ASSUME ConfigInv, NEW w \in Writers, UNCHANGED <<file, book, raced, configUse>>,
         NEW pc \in {"read", "compare", "rename"}, writer' = [writer EXCEPT ![w].pc = pc],
         writer[w].pc # "idle", configLock' = w, configLock \in {w, NoConfig},
         pc \in {"compare", "rename"} => writer[w].pc \in {"write", "compare"},
         pc = "rename" => file = writer[w].orig
  PROVE  ConfigInv'
<1>1. /\ writer' \in [Writers -> WriterStates]
      /\ writer'[w].pc = pc /\ writer'[w].new = writer[w].new /\ writer'[w].op = writer[w].op
      /\ writer'[w].orig = writer[w].orig
      /\ \A v \in Writers \ {w} : writer'[v] = writer[v]
  BY DEF ConfigInv, ConfigType, WriterStates
<1>2. \A v \in Writers : configLock' = v <=> writer'[v].pc \in {"read", "write", "compare", "rename"}
  BY <1>1, ProfileConfigAssumption DEF ConfigInv, LockCoversTransaction
<1>3. IsFiniteSet(writer'[w].new) /\ Given(writer'[w].new, configUse'.ids)
  BY <1>1 DEF ConfigInv, ProfilesGiven, Given
<1>4. /\ configLock' \in Writers \cup {NoConfig} /\ configUse'.ids >= configUse.ids
      /\ configUse' \in [ops : Nat, edits : Nat, ids : Nat, stamps : Nat]
  BY DEF ConfigInv, ConfigType
<1>5. /\ writer'[w].pc # "idle" => writer'[w].op \in Ops
      /\ writer'[w].pc = "rename" /\ ~raced => file = writer'[w].orig
      /\ writer'[w].pc \in {"write", "compare", "rename"} =>
            Saved(writer'[w].new) /\ ~DuplicateIds(writer'[w].new)
  BY <1>1 DEF ConfigInv, LockCoversTransaction, CommittedIdsUnique
<1> QED
  BY <1>1, <1>2, <1>3, <1>4, <1>5, WriterMoves

LEMMA BeginKeeps == ASSUME ConfigInv, NEW w \in Writers, NEW op \in Ops, Begin(w, op) PROVE ConfigInv'
<1>0. /\ writer[w].pc = "idle" /\ configUse' = [configUse EXCEPT !.ops = @ + 1]
      /\ UNCHANGED <<file, configLock, book, raced>>
  BY DEF Begin
<1>1. /\ configUse' \in [ops : Nat, edits : Nat, ids : Nat, stamps : Nat]
      /\ configUse'.ids = configUse.ids /\ configUse.ids \in Nat
      /\ configLock \in Writers \cup {NoConfig} /\ configLock # w
  BY <1>0 DEF ConfigInv, ConfigType, LockCoversTransaction
<1>2. CASE \E r \in {"ok", "error"} : Ends(w, r)
  BY <1>0, <1>1, <1>2, EndsKeeps
<1>3. CASE writer' = [writer EXCEPT ![w] = [Rest EXCEPT !.pc = "lock", !.op = op]]
  <2>1. /\ writer' \in [Writers -> WriterStates]
        /\ writer'[w].pc = "lock" /\ writer'[w].new = {} /\ writer'[w].op = op
        /\ \A v \in Writers \ {w} : writer'[v] = writer[v]
    BY <1>3, ProfileConfigAssumption DEF ConfigInv, ConfigType, Rest, WriterStates, Files, AnyProfile
  <2>2. \A v \in Writers : configLock' = v <=> writer'[v].pc \in {"read", "write", "compare", "rename"}
    BY <1>0, <1>1, <2>1 DEF ConfigInv, LockCoversTransaction
  <2>3. IsFiniteSet(writer'[w].new) /\ Given(writer'[w].new, configUse'.ids)
    BY <2>1, FS_EmptySet DEF Given
  <2>4. configUse'.ids >= configUse.ids
    BY <1>1
  <2> QED
    BY <1>0, <1>1, <2>1, <2>2, <2>3, <2>4, WriterMoves
<1> QED
  BY <1>2, <1>3 DEF Begin

LEMMA TransactKeeps == ASSUME ConfigInv, NEW w \in Writers, Transact(w) PROVE ConfigInv'
<1> DEFINE ids == configUse.ids + Cardinality(Unsaved(Content))
           P == Migrated(Content, configUse.ids)
           op == writer[w].op
           failed == DuplicateIds(Content) \/ Refuses(op, P)
           new == Operate(op, P, ids)
           extra == IF op.kind = "append" THEN 1 ELSE 0
<1>0. /\ writer[w].pc = "read" /\ UNCHANGED <<file, book, raced>> /\ configLock = w
      /\ configUse \in [ops : Nat, edits : Nat, ids : Nat, stamps : Nat]
      /\ op \in Ops /\ file \in Files /\ extra \in {0, 1}
  BY DEF Transact, ConfigInv, ConfigType, LockCoversTransaction
<1>1. CASE \E r \in {"ok", "error"} : Ends(w, r) /\ configLock' = NoConfig /\ UNCHANGED configUse
  BY <1>0, <1>1, EndsKeeps
<1>2. CASE /\ ~failed
           /\ writer' = [writer EXCEPT ![w] = [@ EXCEPT !.pc = "write", !.orig = file, !.new = new]]
           /\ configUse' = [configUse EXCEPT !.ids = ids + extra]
           /\ UNCHANGED configLock
  <2>1. Sound(Content, configUse.ids) /\ configUse.ids \in Nat
    BY <1>0, <1>2, ContentType DEF ConfigInv, ProfilesGiven, Given, Sound
  <2>2. Cardinality(Unsaved(Content)) \in Nat /\ Sound(P, ids) /\ Saved(P)
    BY <2>1, MigrateGivesFresh
  <2>3. ids \in Nat
    BY <2>1, <2>2
  <2>4. new = Operate(op, P, ids) /\ ~Refuses(op, P)
    BY <1>2
  <2> HIDE DEF ids, P, new, op
  <2>5. Sound(new, ids + extra) /\ Saved(new)
    BY <1>0, <2>2, <2>3, <2>4, OperateKeepsDistinct DEF extra
  <2>6. /\ configUse' \in [ops : Nat, edits : Nat, ids : Nat, stamps : Nat]
        /\ configUse'.ids = ids + extra
    BY <1>0, <1>2, <2>3
  <2>7. configUse'.ids >= configUse.ids
    BY <1>0, <2>1, <2>2, <2>6 DEF ids
  <2>8. /\ writer' \in [Writers -> WriterStates]
        /\ writer'[w].pc = "write" /\ writer'[w].new = new /\ writer'[w].op = op
        /\ \A v \in Writers \ {w} : writer'[v] = writer[v]
    BY <1>0, <1>2, <2>5 DEF ConfigInv, ConfigType, WriterStates, Sound, op
  <2>9. \A v \in Writers : configLock' = v <=> writer'[v].pc \in {"read", "write", "compare", "rename"}
    BY <1>0, <1>2, <2>8 DEF ConfigInv, LockCoversTransaction
  <2>10. IsFiniteSet(writer'[w].new) /\ Given(writer'[w].new, configUse'.ids)
    BY <2>5, <2>6, <2>8 DEF Given, Sound
  <2> QED
    BY <1>0, <1>2, <2>5, <2>6, <2>7, <2>8, <2>9, <2>10, WriterMoves DEF Sound
<1> QED
  BY <1>1, <1>2 DEF Transact

\* A writer that holds the lock writes what it made of the file as it still is.
LEMMA RenameKeeps == ASSUME ConfigInv, NEW w \in Writers, Rename(w) PROVE ConfigInv'
<1>0. /\ writer[w].pc = "rename" /\ configLock = w /\ configLock' = NoConfig
      /\ file' = [stamp |-> configUse.stamps + 1, profiles |-> writer[w].new]
      /\ book' = Recorded(w) /\ raced' = raced /\ Ends(w, "ok")
      /\ configUse' = [configUse EXCEPT !.stamps = @ + 1]
      /\ configUse \in [ops : Nat, edits : Nat, ids : Nat, stamps : Nat]
      /\ writer[w] \in WriterStates
  BY DEF Rename, ConfigInv, ConfigType, LockCoversTransaction
<1>1. /\ writer' \in [Writers -> WriterStates]
      /\ writer'[w].pc = "idle" /\ writer'[w].new = {}
      /\ \A v \in Writers \ {w} : writer'[v] = writer[v]
  BY <1>0, EndsClears DEF ConfigInv
<1>2. file' \in Files /\ Content' = writer[w].new
  <2>1. writer[w].new \in SUBSET AnyProfile /\ configUse.stamps + 1 \in Nat
    BY <1>0 DEF WriterStates
  <2> QED
    BY <1>0, <2>1, TextIsFile DEF Content
<1>3. configUse' \in [ops : Nat, edits : Nat, ids : Nat, stamps : Nat] /\ configUse'.ids = configUse.ids
  BY <1>0
<1>4. ConfigType'
  BY <1>0, <1>1, <1>2, <1>3 DEF ConfigInv, ConfigType
<1>5. ProfilesGiven'
  BY <1>1, <1>2, <1>3, FS_EmptySet DEF ConfigInv, ProfilesGiven, Given
<1>6. LockCoversTransaction'
  BY <1>0, <1>1, ProfileConfigAssumption DEF ConfigInv, LockCoversTransaction
<1>7. NoLostUpdate'
  <2> SUFFICES ASSUME ~raced PROVE book' = writer[w].new
    BY <1>0, <1>2 DEF NoLostUpdate
  <2>1. book = Content /\ Content = IF writer[w].orig = NoConfig THEN {} ELSE writer[w].orig.profiles
    BY <1>0 DEF ConfigInv, NoLostUpdate, LockCoversTransaction, Content
  <2> QED
    BY <1>0, <2>1 DEF Recorded
<1>8. CommittedIdsUnique'
  BY <1>1 DEF ConfigInv, CommittedIdsUnique
<1> QED
  BY <1>4, <1>5, <1>6, <1>7, <1>8 DEF ConfigInv

\* An edit between the last comparison and the rename is the one that may be lost.
LEMMA EditKeeps == ASSUME ConfigInv, NEW P \in Edits, Edit(P) PROVE ConfigInv'
<1>0. /\ file' = [stamp |-> configUse.stamps + 1, profiles |-> P] /\ book' = P
      /\ configUse' = [configUse EXCEPT !.stamps = @ + 1, !.edits = @ + 1]
      /\ raced' = (raced \/ \E w \in Writers : writer[w].pc = "rename")
      /\ UNCHANGED <<configLock, writer>>
      /\ configUse \in [ops : Nat, edits : Nat, ids : Nat, stamps : Nat]
  BY DEF Edit, ConfigInv, ConfigType
<1>1. Content \subseteq AnyProfile /\ IsFiniteSet(Content) /\ Given(Content, configUse.ids)
  BY ContentType DEF ConfigInv, ProfilesGiven
<1>2. P \subseteq AnyProfile /\ IsFiniteSet(P) /\ Given(P, configUse.ids)
  <2>1. ASSUME NEW n \in ProfileNames, P = Content \union {Profile(UNSAVED, n)}
        PROVE  P \subseteq AnyProfile /\ IsFiniteSet(P) /\ Given(P, configUse.ids)
    <3>1. Profile(UNSAVED, n) \in AnyProfile /\ Profile(UNSAVED, n).id = 0
      BY DEF Profile, UNSAVED, AnyProfile
    <3>2. 0 <= configUse.ids
      BY <1>0
    <3> QED
      BY <1>1, <2>1, <3>1, <3>2, FS_AddElement DEF Given
  <2>2. ASSUME NEW n \in ProfileNames, NEW p \in Content, P = Content \union {Profile(p.id, n)}
        PROVE  P \subseteq AnyProfile /\ IsFiniteSet(P) /\ Given(P, configUse.ids)
    BY <1>0, <1>1, <2>2, FS_AddElement DEF Profile, AnyProfile, Given
  <2>3. ASSUME NEW p \in Content, P = Content \ {p}
        PROVE  P \subseteq AnyProfile /\ IsFiniteSet(P) /\ Given(P, configUse.ids)
    BY <1>0, <1>1, <2>3, FS_RemoveElement DEF Given
  <2> QED
    BY <2>1, <2>2, <2>3 DEF Edits
<1>3. configUse' \in [ops : Nat, edits : Nat, ids : Nat, stamps : Nat] /\ configUse'.ids = configUse.ids
  <2>1. configUse.stamps + 1 \in Nat /\ configUse.edits + 1 \in Nat
    BY <1>0
  <2> DEFINE use == [configUse EXCEPT !.stamps = @ + 1]
  <2>2. use \in [ops : Nat, edits : Nat, ids : Nat, stamps : Nat] /\ use.ids = configUse.ids
    BY <1>0, <2>1
  <2>3. configUse' = [use EXCEPT !.edits = @ + 1]
    BY <1>0
  <2> HIDE DEF use
  <2> QED
    BY <2>2, <2>3
<1>4. file' \in Files /\ Content' = P
  <2>1. configUse.stamps + 1 \in Nat
    BY <1>0
  <2> QED
    BY <1>0, <1>2, <2>1, TextIsFile DEF Content
<1>5. ConfigType'
  BY <1>0, <1>3, <1>4 DEF ConfigInv, ConfigType
<1>6. ProfilesGiven'
  BY <1>0, <1>2, <1>3, <1>4 DEF ConfigInv, ProfilesGiven, Given
<1>7. LockCoversTransaction' /\ NoLostUpdate' /\ CommittedIdsUnique'
  BY <1>0, <1>4 DEF ConfigInv, LockCoversTransaction, NoLostUpdate, CommittedIdsUnique
<1> QED
  BY <1>5, <1>6, <1>7 DEF ConfigInv

LEMMA ConfigStep == ConfigInv /\ [ProfileConfigNext]_configVars => ConfigInv'
<1> SUFFICES ASSUME ConfigInv, [ProfileConfigNext]_configVars PROVE ConfigInv'
  OBVIOUS
<1>0. configUse \in [ops : Nat, edits : Nat, ids : Nat, stamps : Nat]
  BY DEF ConfigInv, ConfigType
<1>1. ASSUME NEW w \in Writers, TakeLock(w) PROVE ConfigInv'
  BY <1>1, GoesOn DEF TakeLock
<1>2. ASSUME NEW w \in Writers, LockTimesOut(w) PROVE ConfigInv'
  BY <1>0, <1>2, EndsKeeps DEF LockTimesOut, ConfigInv, LockCoversTransaction
<1>3. ASSUME NEW w \in Writers, WriteTemporary(w) PROVE ConfigInv'
  <2>1. configLock = w
    BY <1>3 DEF WriteTemporary, ConfigInv, LockCoversTransaction
  <2> QED
    BY <1>0, <1>3, <2>1, EndsKeeps, GoesOn DEF WriteTemporary
<1>4. ASSUME NEW w \in Writers, Compare(w) PROVE ConfigInv'
  <2>1. configLock = w
    BY <1>4 DEF Compare, ConfigInv, LockCoversTransaction
  <2> QED
    BY <1>0, <1>4, <2>1, EndsKeeps, GoesOn DEF Compare
<1>5. ASSUME NEW w \in Writers, Crash(w) PROVE ConfigInv'
  BY <1>0, <1>5, EndsKeeps DEF Crash
<1>6. CASE UNCHANGED configVars
  BY <1>6 DEF configVars, ConfigInv, ConfigType, ProfilesGiven, Given, LockCoversTransaction, Content,
              NoLostUpdate, CommittedIdsUnique
<1> QED
  BY <1>1, <1>2, <1>3, <1>4, <1>5, <1>6, BeginKeeps, TransactKeeps, RenameKeeps, EditKeeps
     DEF ProfileConfigNext

\* transaction and its callers, for any number of writers, names, operations and edits, and with
\* writers killed anywhere: no committed change is overwritten (except by an edit made between the
\* last comparison and the rename), and what is written has an id of its own in every profile.
THEOREM ProfilesAreKept == ProfileConfigSpec => []ProfilesInvariant
<1>1. ConfigInv => ProfilesInvariant
  <2> SUFFICES ASSUME ConfigInv PROVE ProfileConfigTypeOK
    BY DEF ConfigInv, ProfilesInvariant
  <2>1. Content \subseteq [id : 0 .. configUse.ids, name : ProfileNames]
    BY ContentType DEF ConfigInv, ConfigType, ProfilesGiven, Given, AnyProfile
  <2>2. \A w \in Writers : \A p \in writer[w].new : p.id \in 0 .. configUse.ids
    BY DEF ConfigInv, ConfigType, WriterStates, ProfilesGiven, Given, AnyProfile
  <2> QED
    BY <2>1, <2>2 DEF ConfigInv, ConfigType, WriterStates, ProfileConfigTypeOK
<1> QED
  BY <1>1, ConfigInit, ConfigStep, PTL DEF ProfileConfigSpec

-----------------------------------------------------------------------------
(* Control.                                                                *)

\* What the configuration ever holds, and the messages that clients can queue.
Entries == UNION {{p.entries[i] : i \in 1..Len(p.entries)} : p \in Configs}
Named == {e.id : e \in Entries} \cup {a[c].value : a \in Asks, c \in Clients} \cup {NoControl}
Signatures == {e.sig : e \in Entries} \cup {NoControl}
Messages == [cmd : ControlCommands, id : Named, seen : Signatures, from : Clients]

Replies == {"data", "accepted", "failure"}
Handlers == [pc : {"none", "read", "probe", "queue", "write"}, age : Nat, since : Nat,
             probes : Nat, what : Messages \cup {NoControl}, reply : Replies \cup {NoControl}]

ControlTypes ==
    /\ ask \in Asks /\ profiles \in Configs
    /\ client \in [Clients -> {"idle", "open", "error"} \cup Replies]
    /\ handler \in [Clients -> Handlers]
    /\ mcp \subseteq Clients /\ admitted \subseteq Clients
    /\ posted \in Seq(Messages) /\ Len(posted) <= QueueRoom
    /\ configEdits \in Nat

Busy == {c \in Clients : handler[c].pc # "none"}
PermitsCounted == IsFiniteSet(Busy) /\ permits = Cardinality(Busy) /\ permits <= MaxHandlers

\* A handler keeps the deadline of its step, and starts every step in time to leave the reply
\* its reserve.
Timely(c) ==
    /\ handler[c].pc = "none" => handler[c].age = 0 /\ handler[c].since = 0
    /\ handler[c].pc # "none" => /\ handler[c].age <= StepLimit(handler[c])
                                 /\ handler[c].since <= CollectBy

\* What a client is told, or will be told, is what happened to its command.
Told(c) ==
    /\ client[c] = "idle" => handler[c].pc = "none" /\ c \notin admitted
    /\ handler[c].pc # "none" => client[c] \in {"open", "error"}
    /\ handler[c].pc \in {"read", "probe", "queue"} => c \notin admitted
    /\ handler[c].pc = "write" => /\ handler[c].reply \in Replies
                                  /\ handler[c].reply = "accepted" => c \in admitted
                                  /\ handler[c].reply = "failure" => c \notin admitted
    /\ client[c] = "accepted" => c \in admitted
    /\ client[c] = "failure" => c \notin admitted

\* A message to launch names an entry that was configured when its client's request was
\* resolved, and that bears what the client asked for.
AsAsked(m) ==
    m.cmd = "launch" =>
        \E e \in Entries : /\ m.id = e.id /\ m.seen = e.sig /\ m.id # NoControl
                           /\ ask[m.from].by = "id" => e.id = ask[m.from].value
                           /\ ask[m.from].by = "name" => e.name = ask[m.from].value

\* Only an entitled client has a handler, and what it queues is as it was asked.
Entitled(c) ==
    /\ handler[c].pc # "none" => ask[c].via = "cli" \/ ToolAllows(c)
    /\ handler[c].pc = "queue" => /\ ask[c].cmd \in ControlCommands
                                  /\ handler[c].what \in Messages
                                  /\ AsAsked(handler[c].what)

PostedAsAsked == \A i \in 1..Len(posted) : AsAsked(posted[i])

\* One of the entries is as the client of the message saw it and asked for it.
Matches(m, entries) ==
    \E e \in entries : /\ e.sig = m.seen
                       /\ ask[m.from].by = "id" => e.id = ask[m.from].value
                       /\ ask[m.from].by = "name" => e.name = ask[m.from].value

\* The launch being carried out was found configured as it was asked for, and unless the file
\* was edited since, what was found is what is configured.
ActingAsChecked ==
    acting # NoControl =>
        /\ AsAsked(acting.message) /\ acting.message.cmd = "launch"
        /\ Matches(acting.message, acting.checked)
        /\ acting.edits \in Nat /\ acting.edits <= configEdits
        /\ acting.edits = configEdits => acting.checked = ConfiguredAs(acting.message.id)

\* The inductive invariant.
ControlInv ==
    /\ ControlTypes
    /\ PermitsCounted
    /\ \A c \in Clients : Timely(c) /\ Told(c) /\ Entitled(c)
    /\ PostedAsAsked
    /\ ActingAsChecked
    /\ LaunchAsAsked
    /\ McpReadOnly

\* Collection ends within the total deadline, as a quarter of it is reserved at most.
LEMMA Reserve == CollectBy \in Nat /\ CollectBy <= TotalTime
<1>1. TotalTime \div 4 \in Nat /\ TotalTime \div 4 <= TotalTime
  BY ControlAssumption
<1> QED
  BY <1>1, ControlAssumption DEF CollectBy

\* Deadlines are numbers within the total one.
LEMMA Limits ==
    ASSUME NEW h \in Handlers, h.since <= CollectBy
    PROVE  StepLimit(h) \in Nat /\ StepLimit(h) <= TotalTime
<1>1. h.since \in Nat
  BY DEF Handlers
<1> QED
  BY <1>1, Reserve, ControlAssumption DEF StepLimit, Least

LEMMA ControlStarts == ControlInit => ControlInv
<1> SUFFICES ASSUME ControlInit PROVE ControlInv
  OBVIOUS
<1> USE DEF ControlInit
<1>1. NoHandler \in Handlers
  BY DEF NoHandler, Handlers
<1>2. ControlTypes
  BY <1>1, ControlAssumption DEF ControlTypes
<1>3. PermitsCounted
  <2>1. Busy = {}
    BY DEF Busy, NoHandler
  <2> QED
    BY <2>1, FS_EmptySet, ControlAssumption DEF PermitsCounted
<1>4. ASSUME NEW c \in Clients PROVE Timely(c) /\ Told(c) /\ Entitled(c)
  BY DEF Timely, Told, Entitled, NoHandler
<1> QED
  BY <1>2, <1>3, <1>4 DEF ControlInv, PostedAsAsked, ActingAsChecked, ConfiguredAs, Matches, LaunchAsAsked, McpReadOnly

-----------------------------------------------------------------------------
(* Steps that leave the handlers alone.                                    *)

\* What one client's connection promises depends on little.
LEMMA ConnectionKept ==
    ASSUME NEW c \in Clients, Timely(c), Told(c), Entitled(c),
           ask' = ask, handler'[c] = handler[c], client'[c] = client[c],
           c \in admitted' <=> c \in admitted
    PROVE  Timely(c)' /\ Told(c)' /\ Entitled(c)'
BY DEF Timely, Told, Entitled, AsAsked, ToolAllows, StepLimit

LEMMA BusyKept ==
    ASSUME PermitsCounted, handler' = handler, permits' = permits
    PROVE  PermitsCounted'
BY DEF PermitsCounted, Busy

\* A front end that refuses a call, or a client that leaves, touches its own state only.
LEMMA FrontEndKept ==
    ASSUME ControlInv, NEW c \in Clients,
           McpInitialized(c) \/ CallRefused(c) \/ ClientLeaves(c)
    PROVE  ControlInv'
<1> USE DEF ControlInv, McpInitialized, CallRefused, ClientLeaves
<1>1. ControlTypes'
  BY DEF ControlTypes
<1>2. PermitsCounted'
  BY BusyKept
<1>3. ASSUME NEW d \in Clients PROVE Timely(d)' /\ Told(d)' /\ Entitled(d)'
  <2>1. client \in [Clients -> {"idle", "open", "error"} \cup Replies]
    BY DEF ControlTypes
  <2>2. client'[d] = client[d] \/ client'[d] = "error"
    BY <2>1
  <2>3. Told(d)'
    BY <2>2 DEF Told, Replies
  <2> QED
    BY <2>3 DEF Timely, Entitled, AsAsked, ToolAllows, StepLimit
<1>4. PostedAsAsked' /\ ActingAsChecked' /\ LaunchAsAsked' /\ McpReadOnly'
  BY DEF PostedAsAsked, ActingAsChecked, ConfiguredAs, Matches, LaunchAsAsked, McpReadOnly, AsAsked
<1> QED
  BY <1>1, <1>2, <1>3, <1>4

\* The configuration is edited: what was resolved stays as it was.
LEMMA EditKept == ControlInv /\ ConfigEdited => ControlInv'
<1> SUFFICES ASSUME ControlInv, ConfigEdited PROVE ControlInv'
  OBVIOUS
<1> USE DEF ControlInv, ConfigEdited
<1>1. ControlTypes'
  BY DEF ControlTypes
<1>2. PermitsCounted'
  BY BusyKept
<1>3. ASSUME NEW d \in Clients PROVE Timely(d)' /\ Told(d)' /\ Entitled(d)'
  BY ConnectionKept
<1>4. PostedAsAsked' /\ LaunchAsAsked' /\ McpReadOnly'
  BY DEF PostedAsAsked, LaunchAsAsked, McpReadOnly, AsAsked
<1>5. ActingAsChecked'
  <2>1. configEdits \in Nat /\ configEdits' = configEdits + 1 /\ acting' = acting /\ ask' = ask
    BY DEF ControlTypes
  <2> QED
    BY <2>1 DEF ActingAsChecked, Matches, AsAsked
<1> QED
  BY <1>1, <1>2, <1>3, <1>4, <1>5

\* What a configuration resolves is one of its entries.
LEMMA ResolvedIsEntry ==
    ASSUME NEW p \in Configs, NEW by, NEW value, NEW e \in ResolveIn(by, value, p.entries)
    PROVE  /\ \E i \in 1..Len(p.entries) : e = p.entries[i]
           /\ e \in Entries
           /\ by = "id" => e.id = value
           /\ by = "name" => e.name = value
<1>1. PICK i \in 1..Len(p.entries) :
        /\ e = p.entries[i]
        /\ by = "id" => p.entries[i].id = value
        /\ by = "name" => p.entries[i].name = value
  BY DEF ResolveIn
<1> QED
  BY <1>1 DEF Entries

\* Two entries with one signature have one name.
LEMMA SignatureNames ==
    ASSUME NEW e \in Entries, NEW f \in Entries, e.sig = f.sig PROVE e.name = f.name
<1>1. PICK p \in Configs : \E i \in 1..Len(p.entries) : e = p.entries[i]
  BY DEF Entries
<1>2. PICK q \in Configs : \E j \in 1..Len(q.entries) : f = q.entries[j]
  BY DEF Entries
<1> QED
  BY <1>1, <1>2, SignatureAssumption

\* The event loop compares the profile with what the client's request was resolved to.
LEMMA PerformKept == ControlInv /\ PerformMessage => ControlInv'
<1> SUFFICES ASSUME ControlInv, PerformMessage PROVE ControlInv'
  OBVIOUS
<1> USE DEF ControlInv
<1> DEFINE m == Head(posted)
           now == ConfiguredAs(m.id)
<1>0. /\ posted # <<>> /\ posted' = Tail(posted)
      /\ UNCHANGED <<ask, client, mcp, handler, permits, admitted, profiles, configEdits>>
  BY DEF PerformMessage, TakeMessage
<1>a. posted \in Seq(Messages) /\ Len(posted) <= QueueRoom
  BY DEF ControlTypes
<1>b. /\ posted' \in Seq(Messages) /\ Len(posted') = Len(posted) - 1 /\ Len(posted) \in Nat
      /\ \A i \in 1..Len(posted') : posted'[i] = posted[i + 1] /\ i + 1 \in 1..Len(posted)
  BY <1>0, <1>a
<1>1. ControlTypes'
  BY <1>0, <1>a, <1>b, ControlAssumption DEF ControlTypes
<1>2. PermitsCounted'
  BY <1>0, BusyKept
<1>3. ASSUME NEW d \in Clients PROVE Timely(d)' /\ Told(d)' /\ Entitled(d)'
  BY <1>0, ConnectionKept
<1>4. PostedAsAsked'
  BY <1>0, <1>b DEF PostedAsAsked, AsAsked
<1>5. McpReadOnly'
  BY <1>0 DEF McpReadOnly
<1>6. AsAsked(m)
  BY <1>0, <1>a DEF PostedAsAsked
<1>7. CASE m.cmd # "launch"
  <2> DEFINE done == Done(m, {}, NoControl, FALSE)
  <2>1. performed' = performed \cup {done} /\ acting' = acting
    BY <1>7 DEF PerformMessage, TakeMessage
  <2>2. done.cmd # "launch"
    BY <1>7 DEF Done
  <2> HIDE DEF done
  <2>3. LaunchAsAsked'
    BY <1>0, <2>1, <2>2 DEF LaunchAsAsked
  <2>4. ActingAsChecked'
    BY <1>0, <2>1 DEF ActingAsChecked, ConfiguredAs, Matches, AsAsked
  <2> QED
    BY <1>1, <1>2, <1>3, <1>4, <1>5, <2>3, <2>4
<1>8. CASE m.cmd = "launch"
  <2> DEFINE taken == [message |-> m, checked |-> now, edits |-> configEdits]
  <2>1. /\ performed' = performed
        /\ acting' = NoControl \/ (acting' = taken /\ \E e \in now : e.sig = m.seen)
    BY <1>8 DEF PerformMessage, TakeMessage
  <2>2. LaunchAsAsked'
    BY <1>0, <2>1 DEF LaunchAsAsked
  <2>3. ASSUME \E e \in now : e.sig = m.seen
        PROVE  Matches(m, now)
    <3>1. PICK e \in now : e.sig = m.seen
      BY <2>3
    <3>2. profiles \in Configs /\ e \in ResolveIn("id", m.id, profiles.entries)
      BY <3>1 DEF ControlTypes, ConfiguredAs
    <3>3. e \in Entries /\ e.id = m.id
      BY <3>2, ResolvedIsEntry
    <3>4. PICK f \in Entries : /\ m.id = f.id /\ m.seen = f.sig
                               /\ ask[m.from].by = "id" => f.id = ask[m.from].value
                               /\ ask[m.from].by = "name" => f.name = ask[m.from].value
      BY <1>6, <1>8 DEF AsAsked
    <3>5. e.name = f.name
      BY <3>1, <3>3, <3>4, SignatureNames
    <3> QED
      BY <3>1, <3>3, <3>4, <3>5 DEF Matches
  <2>4. taken.message = m /\ taken.checked = now /\ taken.edits = configEdits
    OBVIOUS
  <2>5. configEdits \in Nat /\ configEdits <= configEdits
    BY DEF ControlTypes
  <2>6. ASSUME acting' # NoControl PROVE ActingAsChecked'
    <3>1. acting' = taken /\ Matches(m, now)
      BY <2>1, <2>3, <2>6
    <3> HIDE DEF taken
    <3>2. /\ acting'.message = m /\ acting'.checked = ConfiguredAs(m.id)
          /\ acting'.edits = configEdits /\ configEdits' = configEdits
      BY <1>0, <2>4, <3>1
    <3>3. profiles' = profiles /\ ask' = ask
      BY <1>0
    <3> HIDE DEF m
    <3> QED
      BY <1>6, <1>8, <2>5, <3>1, <3>2, <3>3 DEF ActingAsChecked, ConfiguredAs, Matches, AsAsked
  <2>7. ActingAsChecked'
    BY <2>6 DEF ActingAsChecked
  <2> QED
    BY <1>1, <1>2, <1>3, <1>4, <1>5, <2>2, <2>7
<1> QED
  BY <1>7, <1>8

\* A configuration has one entry of an id.
LEMMA OneEntryOfId ==
    ASSUME NEW p \in Configs, NEW id, id # NoControl,
           NEW e \in ResolveIn("id", id, p.entries), NEW f \in ResolveIn("id", id, p.entries)
    PROVE  e = f
<1>1. PICK i \in 1..Len(p.entries) : e = p.entries[i] /\ p.entries[i].id = id
  BY DEF ResolveIn
<1>2. PICK j \in 1..Len(p.entries) : f = p.entries[j] /\ p.entries[j].id = id
  BY DEF ResolveIn
<1> QED
  BY <1>1, <1>2, ProfileIdAssumption

\* The launch begins with what the second read of the configuration finds under the id.
LEMMA LaunchKept == ControlInv /\ BeginLaunch => ControlInv'
<1> SUFFICES ASSUME ControlInv, BeginLaunch PROVE ControlInv'
  OBVIOUS
<1> USE DEF ControlInv
<1> DEFINE m == acting.message
           done(e) == Done(m, acting.checked, e, acting.edits # configEdits)
<1>0. /\ acting # NoControl /\ acting' = NoControl
      /\ performed' = performed \cup {done(e) : e \in ConfiguredAs(m.id)}
      /\ UNCHANGED <<ask, client, mcp, handler, permits, posted, admitted, profiles, configEdits>>
  BY DEF BeginLaunch
<1>1. ControlTypes'
  BY <1>0 DEF ControlTypes
<1>2. PermitsCounted'
  BY <1>0, BusyKept
<1>3. ASSUME NEW d \in Clients PROVE Timely(d)' /\ Told(d)' /\ Entitled(d)'
  BY <1>0, ConnectionKept
<1>4. PostedAsAsked' /\ ActingAsChecked' /\ McpReadOnly'
  BY <1>0 DEF PostedAsAsked, ActingAsChecked, McpReadOnly, AsAsked
<1>5. /\ AsAsked(m) /\ m.cmd = "launch" /\ Matches(m, acting.checked)
      /\ acting.edits = configEdits => acting.checked = ConfiguredAs(m.id)
  BY <1>0 DEF ActingAsChecked
<1>6. PICK f \in Entries : /\ m.id = f.id /\ m.id # NoControl
                           /\ ask[m.from].by = "id" => f.id = ask[m.from].value
  BY <1>5 DEF AsAsked
<1>7. ASSUME NEW e \in ConfiguredAs(m.id)
      PROVE  /\ e.id = m.id
             /\ acting.edits = configEdits => e.sig = m.seen
  <2>1. profiles \in Configs /\ e \in ResolveIn("id", m.id, profiles.entries)
    BY <1>7 DEF ControlTypes, ConfiguredAs
  <2>2. e.id = m.id
    BY <2>1, ResolvedIsEntry
  <2>3. ASSUME acting.edits = configEdits PROVE e.sig = m.seen
    <3>1. PICK g \in acting.checked : g.sig = m.seen
      BY <1>5 DEF Matches
    <3>2. g \in ResolveIn("id", m.id, profiles.entries)
      BY <1>5, <2>3, <3>1 DEF ConfiguredAs
    <3>3. e = g
      BY <1>6, <2>1, <3>2, OneEntryOfId
    <3> QED
      BY <3>1, <3>3
  <2> QED
    BY <2>2, <2>3
<1>8. ASSUME NEW e
      PROVE  /\ done(e).cmd = m.cmd /\ done(e).id = m.id /\ done(e).seen = m.seen
             /\ done(e).from = m.from /\ done(e).checked = acting.checked /\ done(e).begun = e
             /\ done(e).edited = (acting.edits # configEdits)
  BY DEF Done
<1> HIDE DEF done, m
<1>9. LaunchAsAsked'
  <2> SUFFICES ASSUME NEW p \in performed', p.cmd = "launch"
               PROVE  /\ \E e \in p.checked :
                           /\ e.sig = p.seen
                           /\ ask[p.from].by = "id" => e.id = ask[p.from].value
                           /\ ask[p.from].by = "name" => e.name = ask[p.from].value
                      /\ p.begun.id = p.id
                      /\ ask[p.from].by = "id" => p.begun.id = ask[p.from].value
                      /\ ~p.edited => p.begun.sig = p.seen
    BY <1>0 DEF LaunchAsAsked
  <2>1. CASE p \in performed
    BY <2>1 DEF LaunchAsAsked
  <2>2. CASE p \notin performed
    <3>1. PICK e \in ConfiguredAs(m.id) : p = done(e)
      BY <1>0, <2>2
    <3>2. /\ p.id = m.id /\ p.seen = m.seen /\ p.from = m.from /\ p.checked = acting.checked
          /\ p.begun = e /\ p.edited = (acting.edits # configEdits)
      BY <1>8, <3>1
    <3>3. e.id = m.id /\ (acting.edits = configEdits => e.sig = m.seen)
      BY <1>7
    <3> QED
      BY <1>5, <1>6, <3>2, <3>3 DEF Matches
  <2> QED
    BY <2>1, <2>2
<1> QED
  BY <1>1, <1>2, <1>3, <1>4, <1>9

-----------------------------------------------------------------------------
(* Steps of handlers.                                                      *)

\* A step of one handler that neither starts nor ends it keeps the count.
LEMMA RunningKept ==
    ASSUME ControlTypes, PermitsCounted, NEW c \in Clients, permits' = permits,
           handler[c].pc # "none", handler'[c].pc # "none",
           \A d \in Clients \ {c} : handler'[d] = handler[d]
    PROVE  PermitsCounted'
<1>1. Busy' = Busy
  BY DEF Busy
<1> QED
  BY <1>1 DEF PermitsCounted

\* A client whose request is let in gets a handler thread and a permit.
LEMMA SendKept == ASSUME ControlInv, NEW c \in Clients, SendRequest(c) PROVE ControlInv'
<1> USE DEF ControlInv
<1>0. /\ client[c] = "idle" /\ (ask[c].via = "cli" \/ ToolAllows(c))
      /\ UNCHANGED <<ask, mcp, posted, admitted, acting, performed, profiles, configEdits>>
  BY DEF SendRequest
<1>t. /\ client \in [Clients -> {"idle", "open", "error"} \cup Replies]
      /\ handler \in [Clients -> Handlers] /\ handler[c].pc = "none" /\ c \notin admitted
  BY <1>0 DEF ControlTypes, Told
<1>4. PostedAsAsked' /\ ActingAsChecked' /\ LaunchAsAsked' /\ McpReadOnly'
  BY <1>0 DEF PostedAsAsked, ActingAsChecked, ConfiguredAs, Matches, LaunchAsAsked, McpReadOnly, AsAsked
<1>1. CASE permits < MaxHandlers
  <2> DEFINE new == [NoHandler EXCEPT !.pc = "read"]
  <2>1. /\ new \in Handlers /\ new.pc = "read" /\ new.age = 0 /\ new.since = 0
    BY DEF NoHandler, Handlers
  <2>2. /\ permits' = permits + 1 /\ client' = [client EXCEPT ![c] = "open"]
        /\ handler' = [handler EXCEPT ![c] = new]
    BY <1>1 DEF SendRequest
  <2> HIDE DEF new
  <2>3. /\ handler' \in [Clients -> Handlers] /\ handler'[c] = new /\ client'[c] = "open"
        /\ \A d \in Clients \ {c} : handler'[d] = handler[d] /\ client'[d] = client[d]
        /\ client' \in [Clients -> {"idle", "open", "error"} \cup Replies]
    BY <1>t, <2>1, <2>2
  <2>4. ControlTypes'
    BY <1>0, <2>3 DEF ControlTypes
  <2>5. PermitsCounted'
    <3>1. Busy' = Busy \cup {c} /\ c \notin Busy
      BY <1>t, <2>1, <2>3 DEF Busy
    <3>2. IsFiniteSet(Busy) /\ permits = Cardinality(Busy)
      BY DEF PermitsCounted
    <3>3. IsFiniteSet(Busy') /\ Cardinality(Busy') = Cardinality(Busy) + 1 /\ Cardinality(Busy) \in Nat
      BY <3>1, <3>2, FS_AddElement, FS_CardinalityType
    <3> QED
      BY <1>1, <2>2, <3>2, <3>3, ControlAssumption DEF PermitsCounted
  <2>6. Timely(c)' /\ Told(c)' /\ Entitled(c)'
    <3>1. Timely(c)'
      BY <2>1, <2>3, Reserve, ControlAssumption DEF Timely, StepLimit, Least
    <3>2. Told(c)'
      BY <1>0, <1>t, <2>1, <2>3 DEF Told
    <3>3. Entitled(c)'
      BY <1>0, <2>1, <2>3 DEF Entitled, ToolAllows
    <3> QED
      BY <3>1, <3>2, <3>3
  <2>7. ASSUME NEW d \in Clients, d # c PROVE Timely(d)' /\ Told(d)' /\ Entitled(d)'
    BY <1>0, <2>3, <2>7, ConnectionKept
  <2> QED
    BY <1>4, <2>4, <2>5, <2>6, <2>7
<1>2. CASE ~(permits < MaxHandlers)
  <2>1. client' = [client EXCEPT ![c] = "error"] /\ handler' = handler /\ permits' = permits
    BY <1>2 DEF SendRequest
  <2>2. /\ client'[c] = "error" /\ \A d \in Clients \ {c} : client'[d] = client[d]
        /\ client' \in [Clients -> {"idle", "open", "error"} \cup Replies]
    BY <1>t, <2>1
  <2>3. ControlTypes'
    BY <1>0, <2>1, <2>2 DEF ControlTypes
  <2>4. PermitsCounted'
    BY <2>1, BusyKept
  <2>5. Timely(c)' /\ Told(c)' /\ Entitled(c)'
    BY <1>0, <1>t, <2>1, <2>2 DEF Timely, Told, Entitled
  <2>6. ASSUME NEW d \in Clients, d # c PROVE Timely(d)' /\ Told(d)' /\ Entitled(d)'
    BY <1>0, <2>1, <2>2, <2>6, ConnectionKept
  <2> QED
    BY <1>4, <2>3, <2>4, <2>5, <2>6
<1> QED
  BY <1>1, <1>2

\* Turn starts the next step of a handler at its present age.
LEMMA TurnFields ==
    ASSUME ControlTypes, NEW c \in Clients,
           NEW pc \in {"none", "read", "probe", "queue", "write"},
           NEW what \in Messages \cup {NoControl}, NEW reply \in Replies \cup {NoControl},
           Turn(c, pc, what, reply)
    PROVE  /\ handler' \in [Clients -> Handlers]
           /\ handler'[c].pc = pc /\ handler'[c].what = what /\ handler'[c].reply = reply
           /\ handler'[c].since = handler[c].age /\ handler'[c].age = handler[c].age
           /\ \A d \in Clients \ {c} : handler'[d] = handler[d]
<1>1. handler \in [Clients -> Handlers]
  BY DEF ControlTypes
<1>2. PICK k \in Handlers : k = handler[c]
  BY <1>1
<1> DEFINE next == [k EXCEPT !.pc = pc, !.since = k.age, !.what = what, !.reply = reply]
<1>3. /\ next \in Handlers /\ next.pc = pc /\ next.what = what /\ next.reply = reply
      /\ next.since = k.age /\ next.age = k.age
  BY DEF Handlers
<1>4. handler' = [handler EXCEPT ![c] = next]
  BY <1>1, <1>2 DEF Turn
<1> HIDE DEF next
<1> QED
  BY <1>1, <1>2, <1>3, <1>4

\* Reading a request, and what it leads to.
LEMMA ReadKept == ASSUME ControlInv, NEW c \in Clients, ReadRequest(c) PROVE ControlInv'
<1> USE DEF ControlInv
<1>0. /\ handler[c].pc = "read"
      /\ UNCHANGED <<ask, client, mcp, permits, posted, admitted, acting, performed, profiles, configEdits>>
  BY DEF ReadRequest, Snapshot
<1>t. /\ ControlTypes /\ handler[c] \in Handlers /\ handler[c].age \in Nat
      /\ handler[c].age <= StepLimit(handler[c])
      /\ handler[c].age <= CollectBy
  <2>1. handler[c] \in Handlers /\ handler[c].age \in Nat
    BY DEF ControlTypes, Handlers
  <2> QED
    BY <1>0, <2>1, Reserve, ControlAssumption DEF Timely, StepLimit, Least
<1>4. PostedAsAsked' /\ ActingAsChecked' /\ LaunchAsAsked' /\ McpReadOnly'
  BY <1>0 DEF PostedAsAsked, ActingAsChecked, ConfiguredAs, Matches, LaunchAsAsked, McpReadOnly, AsAsked
<1>m. ASSUME NEW m \in MessagesFor(c)
      PROVE  m \in Messages /\ AsAsked(m) /\ ask[c].cmd \in ControlCommands
  <2>1. CASE ask[c].cmd = "stop" /\ ask[c].by = "id"
    <3>1. m = [cmd |-> ask[c].cmd, id |-> ask[c].value, seen |-> NoControl, from |-> c]
      BY <1>m, <2>1 DEF MessagesFor
    <3>2. ask[c].value \in Named
      BY DEF Named, ControlTypes
    <3> QED
      BY <2>1, <3>1, <3>2 DEF Messages, Signatures, ControlCommands, AsAsked
  <2>2. CASE ask[c].cmd \in {"launch", "check"} \/ (ask[c].cmd = "stop" /\ ask[c].by # "id")
    <3>1. PICK e \in Resolved(c) :
            m = [cmd |-> ask[c].cmd, id |-> e.id, seen |-> e.sig, from |-> c]
      BY <1>m, <2>2 DEF MessagesFor
    <3>2. profiles \in Configs /\ e \in ResolveIn(ask[c].by, ask[c].value, profiles.entries)
      BY <3>1 DEF Resolved, ControlTypes
    <3>3. /\ e \in Entries
          /\ ask[c].by = "id" => e.id = ask[c].value
          /\ ask[c].by = "name" => e.name = ask[c].value
      <4>1. PICK by, value : by = ask[c].by /\ value = ask[c].value
        OBVIOUS
      <4>2. e \in ResolveIn(by, value, profiles.entries) /\ profiles \in Configs
        BY <3>2, <4>1
      <4>3. /\ e \in Entries
            /\ by = "id" => e.id = value
            /\ by = "name" => e.name = value
        BY <4>2, ResolvedIsEntry
      <4> QED
        BY <4>1, <4>3
    <3>4. e.id \in Named /\ e.sig \in Signatures
      BY <3>3 DEF Named, Signatures
    <3>5. m \in Messages /\ ask[c].cmd \in ControlCommands
      BY <2>2, <3>1, <3>4 DEF Messages, ControlCommands
    <3>6. m.id = e.id /\ m.seen = e.sig /\ m.from = c /\ m.id # NoControl
      BY <3>1 DEF Resolved
    <3> QED
      BY <3>3, <3>5, <3>6 DEF AsAsked
  <2>3. CASE ~(ask[c].cmd \in {"launch", "check", "stop"})
    <3>1. /\ m = [cmd |-> ask[c].cmd, id |-> NoControl, seen |-> NoControl, from |-> c]
          /\ ask[c].cmd \in {"display-create", "display-close", "open-panel"}
      BY <1>m, <2>3 DEF MessagesFor
    <3> QED
      BY <2>3, <3>1 DEF Messages, Named, Signatures, ControlCommands, AsAsked
  <2> QED
    BY <2>1, <2>2, <2>3
\* The three ways on: an answer, the probes of a diagnosis, the admission of a message.
<1>5. \/ \E r \in {"data", "failure"} : Turn(c, "write", NoControl, r)
      \/ Turn(c, "probe", NoControl, NoControl)
      \/ \E m \in MessagesFor(c) : Turn(c, "queue", m, NoControl)
  BY DEF ReadRequest, Snapshot, Answer
<1>6. PICK pc \in {"write", "probe", "queue"}, what \in Messages \cup {NoControl},
           reply \in {"data", "failure", NoControl} :
        /\ Turn(c, pc, what, reply)
        /\ pc = "write" => reply \in {"data", "failure"}
        /\ pc = "queue" => what \in Messages /\ AsAsked(what) /\ ask[c].cmd \in ControlCommands
  <2>1. CASE \E r \in {"data", "failure"} : Turn(c, "write", NoControl, r)
    BY <2>1
  <2>2. CASE Turn(c, "probe", NoControl, NoControl)
    BY <2>2
  <2>3. CASE \E m \in MessagesFor(c) : Turn(c, "queue", m, NoControl)
    BY <1>m, <2>3
  <2> QED
    BY <1>5, <2>1, <2>2, <2>3
<1>7. /\ handler' \in [Clients -> Handlers]
      /\ handler'[c].pc = pc /\ handler'[c].what = what /\ handler'[c].reply = reply
      /\ handler'[c].since = handler[c].age /\ handler'[c].age = handler[c].age
      /\ \A d \in Clients \ {c} : handler'[d] = handler[d]
  BY <1>6, <1>t, TurnFields DEF Replies
<1>8. ControlTypes'
  BY <1>0, <1>7 DEF ControlTypes
<1>9. PermitsCounted'
  BY <1>0, <1>6, <1>7, RunningKept
<1>10. Timely(c)' /\ Told(c)' /\ Entitled(c)'
  <2>1. Timely(c)'
    <3>1. handler'[c].age <= StepLimit(handler'[c])
      BY <1>6, <1>7, <1>t, Reserve, ControlAssumption DEF StepLimit, Least
    <3> QED
      BY <1>6, <1>7, <1>t, <3>1 DEF Timely
  <2>2. Told(c)'
    BY <1>0, <1>6, <1>7 DEF Told, Replies
  <2>3. Entitled(c)'
    BY <1>0, <1>6, <1>7 DEF Entitled, AsAsked, ToolAllows
  <2> QED
    BY <2>1, <2>2, <2>3
<1>11. ASSUME NEW d \in Clients, d # c PROVE Timely(d)' /\ Told(d)' /\ Entitled(d)'
  BY <1>0, <1>7, <1>11, ConnectionKept
<1> QED
  BY <1>4, <1>8, <1>9, <1>10, <1>11

\* A probe of a diagnosis ends; the last one leads to the answer.
LEMMA ProbeKept == ASSUME ControlInv, NEW c \in Clients, RunProbe(c) PROVE ControlInv'
<1> USE DEF ControlInv
<1>0. /\ handler[c].pc = "probe"
      /\ UNCHANGED <<ask, client, mcp, permits, posted, admitted, acting, performed, profiles, configEdits>>
  BY DEF RunProbe
<1>t. /\ ControlTypes /\ handler \in [Clients -> Handlers]
      /\ handler[c].age \in Nat /\ handler[c].since \in Nat /\ handler[c].age <= CollectBy
  <2>1. /\ ControlTypes /\ handler \in [Clients -> Handlers]
        /\ handler[c].age \in Nat /\ handler[c].since \in Nat
    BY DEF ControlTypes, Handlers
  <2> QED
    BY <1>0, <2>1, Reserve, ControlAssumption DEF Timely, StepLimit, Least
<1>4. PostedAsAsked' /\ ActingAsChecked' /\ LaunchAsAsked' /\ McpReadOnly'
  BY <1>0 DEF PostedAsAsked, ActingAsChecked, ConfiguredAs, Matches, LaunchAsAsked, McpReadOnly, AsAsked
<1>5. PICK k \in Handlers : k = handler[c]
  BY <1>t
<1> DEFINE done == k.probes + 1 >= Probes
           next == [k EXCEPT !.probes = @ + 1, !.since = k.age,
                             !.pc = IF done THEN "write" ELSE "probe",
                             !.reply = IF done THEN "data" ELSE @]
<1>6. /\ next \in Handlers /\ next.pc \in {"write", "probe"}
      /\ next.pc = "write" => next.reply = "data"
      /\ next.since = k.age /\ next.age = k.age
  <2>1. CASE done
    <3>1. next = [k EXCEPT !.probes = k.probes + 1, !.since = k.age, !.pc = "write",
                           !.reply = "data"]
      BY <2>1
    <3>2. k.probes + 1 \in Nat /\ k.age \in Nat
      BY DEF Handlers
    <3> HIDE DEF next, done
    <3> QED
      BY <3>1, <3>2 DEF Handlers, Replies
  <2>2. CASE ~done
    <3>1. next = [k EXCEPT !.probes = k.probes + 1, !.since = k.age, !.pc = "probe"]
      BY <2>2 DEF Handlers
    <3>2. k.probes + 1 \in Nat /\ k.age \in Nat
      BY DEF Handlers
    <3> HIDE DEF next, done
    <3> QED
      BY <3>1, <3>2 DEF Handlers, Replies
  <2> QED
    BY <2>1, <2>2
<1>7. handler' = [handler EXCEPT ![c] = next]
  BY <1>t, <1>5 DEF RunProbe
<1> HIDE DEF next
<1>8. /\ handler' \in [Clients -> Handlers] /\ handler'[c] = next
      /\ \A d \in Clients \ {c} : handler'[d] = handler[d]
  BY <1>t, <1>6, <1>7
<1>9. ControlTypes'
  BY <1>0, <1>8 DEF ControlTypes
<1>10. PermitsCounted'
  BY <1>0, <1>6, <1>8, RunningKept
<1>11. Timely(c)' /\ Told(c)' /\ Entitled(c)'
  <2>1. StepLimit(next) >= next.age
    BY <1>5, <1>6, <1>t, Reserve, ControlAssumption DEF StepLimit, Least
  <2>2. Timely(c)'
    BY <1>5, <1>6, <1>8, <1>t, <2>1 DEF Timely
  <2>3. Told(c)'
    BY <1>0, <1>6, <1>8 DEF Told, Replies
  <2>4. Entitled(c)'
    BY <1>0, <1>6, <1>8 DEF Entitled, ToolAllows
  <2> QED
    BY <2>2, <2>3, <2>4
<1>12. ASSUME NEW d \in Clients, d # c PROVE Timely(d)' /\ Told(d)' /\ Entitled(d)'
  BY <1>0, <1>8, <1>12, ConnectionKept
<1> QED
  BY <1>4, <1>9, <1>10, <1>11, <1>12

\* An admission that ends, either way, is answered in time for the reply.
LEMMA AdmissionAnswered ==
    ASSUME ControlInv, NEW c \in Clients, handler[c].pc = "queue",
           NEW reply \in {"accepted", "failure"}, Answer(c, reply),
           UNCHANGED <<ask, client, permits>>,
           \A d \in Clients \ {c} : d \in admitted' <=> d \in admitted,
           c \in admitted' <=> reply = "accepted"
    PROVE  /\ handler' \in [Clients -> Handlers] /\ PermitsCounted'
           /\ \A d \in Clients : Timely(d)' /\ Told(d)' /\ Entitled(d)'
<1> USE DEF ControlInv
<1>1. /\ ControlTypes /\ handler[c].age \in Nat /\ handler[c].age <= CollectBy
  <2>1. ControlTypes /\ handler[c].age \in Nat /\ handler[c].since \in Nat
    BY DEF ControlTypes, Handlers
  <2> QED
    BY <2>1, Reserve, ControlAssumption DEF Timely, StepLimit, Least
<1>2. /\ handler' \in [Clients -> Handlers]
      /\ handler'[c].pc = "write" /\ handler'[c].reply = reply
      /\ handler'[c].since = handler[c].age /\ handler'[c].age = handler[c].age
      /\ \A d \in Clients \ {c} : handler'[d] = handler[d]
  BY <1>1, TurnFields DEF Answer, Replies
<1>3. PermitsCounted'
  BY <1>1, <1>2, RunningKept
<1>4. Timely(c)' /\ Told(c)' /\ Entitled(c)'
  <2>1. Timely(c)'
    BY <1>1, <1>2, Reserve, ControlAssumption DEF Timely, StepLimit, Least
  <2>2. Told(c)'
    BY <1>2 DEF Told, Replies
  <2>3. Entitled(c)'
    BY <1>2 DEF Entitled, ToolAllows
  <2> QED
    BY <2>1, <2>2, <2>3
<1>5. ASSUME NEW d \in Clients, d # c PROVE Timely(d)' /\ Told(d)' /\ Entitled(d)'
  BY <1>2, <1>5, ConnectionKept
<1> QED
  BY <1>2, <1>3, <1>4, <1>5

LEMMA AdmissionKept ==
    ASSUME ControlInv, NEW c \in Clients, QueueMessage(c) \/ AdmissionTimesOut(c)
    PROVE  ControlInv'
<1> USE DEF ControlInv
<1>t. c \notin admitted
  BY DEF Told, QueueMessage, AdmissionTimesOut
<1>1. CASE QueueMessage(c)
  <2>1. /\ handler[c].pc = "queue" /\ Len(posted) < QueueRoom /\ Answer(c, "accepted")
        /\ posted' = Append(posted, handler[c].what) /\ admitted' = admitted \cup {c}
        /\ UNCHANGED <<ask, client, mcp, permits, acting, performed, profiles, configEdits>>
    BY <1>1 DEF QueueMessage
  <2>2. /\ handler' \in [Clients -> Handlers] /\ PermitsCounted'
        /\ \A d \in Clients : Timely(d)' /\ Told(d)' /\ Entitled(d)'
    BY <2>1, AdmissionAnswered
  <2>3. /\ handler[c].what \in Messages /\ AsAsked(handler[c].what)
        /\ ask[c].cmd \in ControlCommands /\ (ask[c].via = "cli" \/ ToolAllows(c))
    BY <2>1 DEF Entitled
  <2>4. /\ posted \in Seq(Messages) /\ posted' \in Seq(Messages)
        /\ Len(posted') = Len(posted) + 1 /\ Len(posted) \in Nat
        /\ posted'[Len(posted')] = handler[c].what
        /\ \A i \in 1..Len(posted) : posted'[i] = posted[i]
    BY <2>1, <2>3 DEF ControlTypes
  <2>5. ControlTypes'
    BY <2>1, <2>2, <2>4, ControlAssumption DEF ControlTypes
  <2>6. PostedAsAsked'
    <3>1. ASSUME NEW i \in 1..Len(posted') PROVE AsAsked(posted'[i])
      BY <2>3, <2>4 DEF PostedAsAsked
    <3> QED
      BY <2>1, <3>1 DEF PostedAsAsked, AsAsked
  <2>7. LaunchAsAsked' /\ ActingAsChecked'
    BY <2>1 DEF LaunchAsAsked, ActingAsChecked, ConfiguredAs, Matches, AsAsked
  <2>8. McpReadOnly'
    BY <2>1, <2>3 DEF McpReadOnly, ToolAllows
  <2> QED
    BY <2>2, <2>5, <2>6, <2>7, <2>8
<1>2. CASE AdmissionTimesOut(c)
  <2>1. /\ handler[c].pc = "queue" /\ Answer(c, "failure")
        /\ UNCHANGED <<ask, client, mcp, permits, posted, admitted, acting, performed, profiles, configEdits>>
    BY <1>2 DEF AdmissionTimesOut
  <2>2. /\ handler' \in [Clients -> Handlers] /\ PermitsCounted'
        /\ \A d \in Clients : Timely(d)' /\ Told(d)' /\ Entitled(d)'
    BY <1>t, <2>1, AdmissionAnswered
  <2>3. ControlTypes'
    BY <2>1, <2>2 DEF ControlTypes
  <2>4. PostedAsAsked' /\ ActingAsChecked' /\ LaunchAsAsked' /\ McpReadOnly'
    BY <2>1 DEF PostedAsAsked, ActingAsChecked, ConfiguredAs, Matches, LaunchAsAsked, McpReadOnly, AsAsked
  <2> QED
    BY <2>2, <2>3, <2>4
<1> QED
  BY <1>1, <1>2

\* A handler ends, and its permit is free again.
LEMMA EndKept == ASSUME ControlInv, NEW c \in Clients, HandlerEnds(c) PROVE ControlInv'
<1> USE DEF ControlInv
<1>0. /\ handler[c].pc = "write" /\ handler' = [handler EXCEPT ![c] = NoHandler]
      /\ permits' = permits - 1
      /\ client' = [client EXCEPT ![c] = IF @ # "open" THEN @
                                         ELSE IF handler[c].age < TotalTime THEN handler[c].reply
                                         ELSE "error"]
      /\ UNCHANGED <<ask, mcp, posted, admitted, acting, performed, profiles, configEdits>>
  BY DEF HandlerEnds
<1>t. /\ handler \in [Clients -> Handlers] /\ handler[c].reply \in Replies
      /\ client \in [Clients -> {"idle", "open", "error"} \cup Replies]
      /\ client[c] \in {"open", "error"}
  BY <1>0 DEF ControlTypes, Told
<1>1. NoHandler \in Handlers /\ NoHandler.pc = "none" /\ NoHandler.age = 0 /\ NoHandler.since = 0
  BY DEF NoHandler, Handlers
<1>2. /\ handler' \in [Clients -> Handlers] /\ handler'[c] = NoHandler
      /\ \A d \in Clients \ {c} : handler'[d] = handler[d]
  BY <1>0, <1>t, <1>1
<1>3. /\ client' \in [Clients -> {"idle", "open", "error"} \cup Replies]
      /\ client'[c] \in {"error", handler[c].reply}
      /\ \A d \in Clients \ {c} : client'[d] = client[d]
  BY <1>0, <1>t
<1>4. PostedAsAsked' /\ ActingAsChecked' /\ LaunchAsAsked' /\ McpReadOnly'
  BY <1>0 DEF PostedAsAsked, ActingAsChecked, ConfiguredAs, Matches, LaunchAsAsked, McpReadOnly, AsAsked
<1>5. ControlTypes'
  BY <1>0, <1>2, <1>3 DEF ControlTypes
<1>6. PermitsCounted'
  <2>1. Busy' = Busy \ {c} /\ c \in Busy
    BY <1>0, <1>1, <1>2 DEF Busy
  <2>2. IsFiniteSet(Busy) /\ permits = Cardinality(Busy) /\ permits <= MaxHandlers
    BY DEF PermitsCounted
  <2>3. IsFiniteSet(Busy') /\ Cardinality(Busy') = Cardinality(Busy) - 1 /\ Cardinality(Busy) \in Nat
    BY <2>1, <2>2, FS_RemoveElement, FS_CardinalityType
  <2> QED
    BY <1>0, <2>2, <2>3, ControlAssumption DEF PermitsCounted
<1>7. Timely(c)' /\ Told(c)' /\ Entitled(c)'
  <2>1. Timely(c)'
    BY <1>1, <1>2 DEF Timely
  <2>2. Told(c)'
    BY <1>0, <1>t, <1>1, <1>2, <1>3 DEF Told, Replies
  <2>3. Entitled(c)'
    BY <1>1, <1>2 DEF Entitled
  <2> QED
    BY <2>1, <2>2, <2>3
<1>8. ASSUME NEW d \in Clients, d # c PROVE Timely(d)' /\ Told(d)' /\ Entitled(d)'
  BY <1>0, <1>2, <1>3, <1>8, ConnectionKept
<1> QED
  BY <1>4, <1>5, <1>6, <1>7, <1>8

\* Time passes only while every handler keeps its deadline.
LEMMA ControlTickKept == ControlInv /\ ControlTick => ControlInv'
<1> SUFFICES ASSUME ControlInv, ControlTick PROVE ControlInv'
  OBVIOUS
<1> USE DEF ControlInv
<1>0. /\ \A c \in Clients : handler[c].pc # "none" => handler[c].age < StepLimit(handler[c])
      /\ handler' = [c \in Clients |-> IF handler[c].pc = "none" THEN handler[c]
                                       ELSE [handler[c] EXCEPT !.age = @ + 1]]
      /\ UNCHANGED <<ask, client, mcp, permits, posted, admitted, acting, performed, profiles, configEdits>>
  BY DEF ControlTick
<1>1. ASSUME NEW c \in Clients
      PROVE  /\ handler'[c] \in Handlers
             /\ handler'[c].pc = handler[c].pc /\ handler'[c].since = handler[c].since
             /\ handler'[c].what = handler[c].what /\ handler'[c].reply = handler[c].reply
             /\ handler[c].pc = "none" => handler'[c].age = handler[c].age
             /\ handler[c].pc # "none" => handler'[c].age = handler[c].age + 1
  <2>1. PICK k \in Handlers : k = handler[c]
    BY DEF ControlTypes
  <2>2. handler'[c] = IF k.pc = "none" THEN k ELSE [k EXCEPT !.age = @ + 1]
    BY <1>0, <2>1
  <2> QED
    BY <2>1, <2>2 DEF Handlers
<1>2. handler' \in [Clients -> Handlers]
  BY <1>0, <1>1
<1>3. ControlTypes'
  BY <1>0, <1>2 DEF ControlTypes
<1>4. PermitsCounted'
  <2>1. Busy' = Busy
    BY <1>1 DEF Busy
  <2> QED
    BY <1>0, <2>1 DEF PermitsCounted
<1>5. ASSUME NEW c \in Clients PROVE Timely(c)' /\ Told(c)' /\ Entitled(c)'
  <2>1. Timely(c)'
    <3>1. CASE handler[c].pc = "none"
      BY <1>1, <3>1 DEF Timely
    <3>2. CASE handler[c].pc # "none"
      <4>1. StepLimit(handler[c]) = StepLimit(handler'[c])
        BY <1>1 DEF StepLimit
      <4>2. /\ handler[c].age \in Nat /\ handler[c].since <= CollectBy
            /\ StepLimit(handler[c]) \in Nat /\ handler[c].age < StepLimit(handler[c])
        BY <1>0, <3>2, Limits DEF ControlTypes, Timely, Handlers
      <4>3. handler[c].age + 1 <= StepLimit(handler'[c])
        BY <4>1, <4>2
      <4> QED
        BY <1>1, <3>2, <4>2, <4>3 DEF Timely
    <3> QED
      BY <3>1, <3>2
  <2>2. Told(c)'
    BY <1>0, <1>1 DEF Told
  <2>3. Entitled(c)'
    BY <1>0, <1>1 DEF Entitled, AsAsked, ToolAllows
  <2> QED
    BY <2>1, <2>2, <2>3
<1>6. PostedAsAsked' /\ ActingAsChecked' /\ LaunchAsAsked' /\ McpReadOnly'
  BY <1>0 DEF PostedAsAsked, ActingAsChecked, ConfiguredAs, Matches, LaunchAsAsked, McpReadOnly, AsAsked
<1> QED
  BY <1>3, <1>4, <1>5, <1>6

LEMMA ControlStep == ControlInv /\ [ControlNext]_controlVars => ControlInv'
<1> SUFFICES ASSUME ControlInv, [ControlNext]_controlVars PROVE ControlInv'
  OBVIOUS
<1>1. ASSUME NEW c \in Clients, McpInitialized(c) \/ CallRefused(c) \/ ClientLeaves(c)
      PROVE  ControlInv'
  BY <1>1, FrontEndKept
<1>2. ASSUME NEW c \in Clients, SendRequest(c) PROVE ControlInv'
  BY <1>2, SendKept
<1>3. ASSUME NEW c \in Clients, HandlerStep(c) PROVE ControlInv'
  BY <1>3, ReadKept, ProbeKept, AdmissionKept, EndKept DEF HandlerStep
<1>4. CASE ControlTick
  BY <1>4, ControlTickKept
<1>5. CASE PerformMessage
  BY <1>5, PerformKept
<1>6. CASE ConfigEdited
  BY <1>6, EditKept
<1>8. CASE BeginLaunch
  BY <1>8, LaunchKept
<1>7. CASE UNCHANGED controlVars
  <2>1. ControlTypes' /\ PermitsCounted'
    BY <1>7, BusyKept DEF ControlInv, ControlTypes, controlVars
  <2>2. \A c \in Clients : Timely(c)' /\ Told(c)' /\ Entitled(c)'
    BY <1>7, ConnectionKept DEF ControlInv, controlVars
  <2>3. PostedAsAsked' /\ ActingAsChecked' /\ LaunchAsAsked' /\ McpReadOnly'
    BY <1>7 DEF ControlInv, PostedAsAsked, ActingAsChecked, ConfiguredAs, Matches, LaunchAsAsked, McpReadOnly, AsAsked, controlVars
  <2> QED
    BY <2>1, <2>2, <2>3 DEF ControlInv
<1> QED
  BY <1>1, <1>2, <1>3, <1>4, <1>5, <1>6, <1>7, <1>8 DEF ControlNext

\* For any clients, configurations, edits and deadlines: the permits of the control server are its
\* handler threads, no handler (handle_connection) outlives its deadline or eats into the reserve of
\* its reply, an answer is the truth about the command, and what the event loop launches was found
\* configured as the client saw it, as it was asked for and allowed; what begins has the same id,
\* and is what was found unless the file was edited between the check and the launch's own read.
THEOREM ControlTellsTheTruth == ControlSpec => []ControlInvariant
<1>1. ControlInv => ControlInvariant
  <2> SUFFICES ASSUME ControlInv PROVE ControlInvariant
    OBVIOUS
  <2>1. ControlTypes /\ PermitsCounted
    BY DEF ControlInv
  <2>2. permits \in 0..MaxHandlers /\ PermitsAreHandlers
    BY <2>1, FS_CardinalityType, ControlAssumption DEF PermitsCounted, Busy, PermitsAreHandlers
  <2>3. ASSUME NEW c \in Clients
        PROVE  /\ client[c] \in {"idle", "open", "data", "accepted", "failure", "error"}
               /\ handler[c].pc \in {"none", "read", "probe", "queue", "write"}
               /\ handler[c].age \in 0..TotalTime /\ handler[c].since \in 0..TotalTime
    <3>1. handler[c] \in Handlers /\ client[c] \in {"idle", "open", "error"} \cup Replies
      BY <2>1 DEF ControlTypes
    <3>2. handler[c].age \in Nat /\ handler[c].since \in Nat
      BY <3>1 DEF Handlers
    <3>3. handler[c].age <= TotalTime /\ handler[c].since <= TotalTime
      <4>1. CASE handler[c].pc = "none"
        BY <4>1, ControlAssumption DEF ControlInv, Timely
      <4>2. CASE handler[c].pc # "none"
        <5>1. handler[c].age <= StepLimit(handler[c]) /\ handler[c].since <= CollectBy
          BY <4>2 DEF ControlInv, Timely
        <5>2. StepLimit(handler[c]) \in Nat /\ StepLimit(handler[c]) <= TotalTime
          BY <3>1, <5>1, Limits
        <5> QED
          BY <3>2, <5>1, <5>2, Reserve, ControlAssumption
      <4> QED
        BY <4>1, <4>2
    <3> QED
      BY <3>1, <3>2, <3>3, ControlAssumption DEF Handlers, Replies
  <2>4. ControlTypeOK
    BY <2>1, <2>2, <2>3 DEF ControlTypeOK, ControlTypes
  <2>5. AcceptedMeansQueued /\ ReplyHasItsReserve
    BY DEF ControlInv, Told, Timely, AcceptedMeansQueued, ReplyHasItsReserve
  <2> QED
    BY <2>2, <2>4, <2>5 DEF ControlInv, ControlInvariant
<1> QED
  BY <1>1, ControlStarts, ControlStep, PTL DEF ControlSpec
=============================================================================
