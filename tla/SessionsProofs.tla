---------------------------- MODULE SessionsProofs ----------------------------
(***************************************************************************)
(* Proofs about Sessions, for any profiles, versions, slots and bounds.    *)
(*                                                                         *)
(* The invariant SessionsInv has four parts.  The Ledger says who holds a  *)
(* generation - an operation, a session or a cleanup job, never two - and  *)
(* that an identity is reserved for exactly the holder that names it.      *)
(* Tracked gives each profile a row of the handlers' maps and says which   *)
(* worker in flight the row stands for.  Apart says that no slot is taken  *)
(* twice, and Gone that a deleted profile has nothing left.                *)
(***************************************************************************)
EXTENDS Sessions, FiniteSetTheorems, TLAPS

Entry == Operation \cup {None}
Owned == [profile : Profiles, gen : Gens]

\* What holds a generation, and the reservations in the table, for tables o (operations),
\* A (sessions), C (cleanup jobs), I (identities) and the next generation n.
LedgerTypes(o, A, C, I, n) ==
    /\ o \in [Profiles -> Entry] /\ A \subseteq ActiveSession /\ C \subseteq Job
    /\ I \in [Idents -> Owned \cup {None}] /\ n \in Gens
OpHolds(o, I, n) == \A p \in Profiles : o[p] # None =>
    /\ o[p].gen < n
    /\ o[p].res # None => /\ o[p].res = ReservationFor(p, o[p])
                          /\ I[IdentOf[o[p].ver]] = [profile |-> p, gen |-> o[p].gen]
SessionHolds(A, I, n) == \A a \in A :
    /\ a.gen < n /\ a.res = [ident |-> IdentOf[a.ver], profile |-> a.profile, gen |-> a.gen]
    /\ I[IdentOf[a.ver]] = [profile |-> a.profile, gen |-> a.gen]
JobHolds(C, I, n) == \A j \in C :
    /\ j.ident # None => j.res # None /\ j.res.ident = j.ident
    /\ j.res # None => /\ j.gen < n /\ j.res.gen = j.gen /\ j.res.profile = j.lease
                       /\ I[j.res.ident] = [profile |-> j.lease, gen |-> j.gen]
OneHolder(o, A, C) ==
    /\ \A p, q \in Profiles : o[p] # None /\ o[q] # None /\ o[p].gen = o[q].gen => p = q
    /\ \A a, b \in A : a.gen = b.gen => a = b
    /\ \A j, k \in C : j.res # None /\ k.res # None /\ j.gen = k.gen => j = k
    /\ \A p \in Profiles, a \in A : o[p] # None => o[p].gen # a.gen
    /\ \A p \in Profiles, j \in C : o[p] # None /\ j.res # None => o[p].gen # j.gen
    /\ \A a \in A, j \in C : j.res # None => a.gen # j.gen
NoneLeaks(o, A, C, I) == \A i \in Idents : I[i] # None =>
    \/ \E p \in Profiles : o[p] # None /\ o[p].res # None /\ IdentOf[o[p].ver] = i
    \/ \E a \in A : IdentOf[a.ver] = i
    \/ \E j \in C : j.res # None /\ j.res.ident = i
Ledger(o, A, C, I, n) ==
    /\ LedgerTypes(o, A, C, I, n) /\ OpHolds(o, I, n) /\ SessionHolds(A, I, n)
    /\ JobHolds(C, I, n) /\ OneHolder(o, A, C) /\ NoneLeaks(o, A, C, I)

\* The worker that a profile's row of the tables stands for.
CheckOf(p, e) == NewTask("check", p, e.gen, e.ver, None)
DisplayOf(p, e, s) == NewTask("display", p, e.gen, None, s)
LaunchOf(p, e, s) == NewTask("launch", p, e.gen, e.ver, s)

\* The row of p: its operation e is checked (k), has been checked (v), waits for its display on d
\* or for its launch on l (w: on a display worker of its own); T has exactly its workers.
Row(p, e, k, v, d, l, w, T) ==
    /\ e = None => ~k /\ v = None /\ d = None /\ l = None
    /\ k => v = None /\ d = None /\ l = None
    /\ d # None => l = None
    /\ l # None => v = None
    /\ w => l \in Slots
    /\ v # None => e.ver = v /\ e.res # None
    /\ d # None \/ l # None \/ (e # None /\ e.launch) => e.res # None
    /\ \A t \in T : t.profile = p =>
         /\ t.kind = "check" => k /\ t = CheckOf(p, e)
         /\ t.kind = "display" => d # None /\ t = DisplayOf(p, e, d)
         /\ t.kind = "launch" => l # None /\ t = LaunchOf(p, e, l)
    /\ k => CheckOf(p, e) \in T
    /\ d # None => DisplayOf(p, e, d) \in T
    /\ l # None => LaunchOf(p, e, l) \in T
RowOf(p) == Row(p, op[p], p \in checks, validated[p], pendDisplay[p], pendLaunch[p],
                p \in workers, tasks)
Tracked == \A p \in Profiles : RowOf(p)

TableTypes ==
    /\ config \in [Profiles -> Versions \cup {None}] /\ edits \in 0 .. MaxEdits
    /\ checks \subseteq Profiles /\ workers \subseteq Profiles
    /\ validated \in [Profiles -> Versions \cup {None}]
    /\ pendDisplay \in [Profiles -> Slots \cup {None}]
    /\ pendLaunch \in [Profiles -> AllSlots \cup {None}]
    /\ managed \in [Slots -> Nat] /\ pendManaged \in [Slots -> Nat]
TaskShape(t) == /\ t \in Task
                /\ t.kind # "managed" => t.profile \in Profiles
                /\ t.kind = "managed" => t.profile = None /\ t.slot \in Slots /\ t.gen \in Gens
TaskShapes == \A t \in tasks : TaskShape(t)

\* No slot is used, or about to be used, by two.
Apart ==
    /\ \A a \in active : /\ pendDisplay[a.profile] = None /\ pendLaunch[a.profile] = None
                         /\ a.own => a.slot \in Slots /\ managed[a.slot] = 0
                         /\ \A q \in Profiles : pendDisplay[q] # a.slot /\ pendLaunch[q] # a.slot
    /\ \A a, b \in active : a.profile = b.profile \/ a.slot = b.slot => a = b
    /\ \A p, q \in Profiles : p # q =>
         /\ pendDisplay[p] # None => pendDisplay[q] # pendDisplay[p] /\ pendLaunch[q] # pendDisplay[p]
         /\ pendLaunch[p] # None => pendLaunch[q] # pendLaunch[p]
    /\ \A p \in workers : managed[pendLaunch[p]] = 0

\* Nothing of a deleted profile is left.
Gone == \A p \in Profiles : config[p] = None => ~Leased(p)

Kept == Ledger(op, active, cleanup, identities, nextGen)
SessionsInv == TableTypes /\ Kept /\ TaskShapes /\ Tracked /\ Apart /\ Gone

USE SessionsAssumption, NoneAssumption

\* A new operation takes the next generation and no reservation.
LEMMA NewOperationKeeps ==
  ASSUME NEW o, NEW A, NEW C, NEW I, NEW n, Ledger(o, A, C, I, n),
         NEW p \in Profiles, o[p] = None, NEW e \in Operation, e.gen = n, e.res = None
  PROVE  Ledger([o EXCEPT ![p] = e], A, C, I, n + 1)
<1> DEFINE f == [o EXCEPT ![p] = e]
<1>0. e # None
  OBVIOUS
<1>1. LedgerTypes(f, A, C, I, n + 1)
  BY DEF Ledger, LedgerTypes, Entry, Gens
<1>2. f[p] = e /\ \A q \in Profiles : q # p => f[q] = o[q]
  BY DEF Ledger, LedgerTypes
<1>3. n \in Nat /\ \A q \in Profiles : o[q] # None => o[q] \in Operation /\ o[q].gen \in Nat /\ o[q].gen < n
  <2>1. n \in Nat
    BY DEF Ledger, LedgerTypes, Gens
  <2>2. ASSUME NEW q \in Profiles, o[q] # None PROVE o[q] \in Operation /\ o[q].gen \in Nat /\ o[q].gen < n
    <3>1. o[q] \in Operation
      BY <2>2 DEF Ledger, LedgerTypes, Entry
    <3>2. o[q].gen \in Nat
      BY <3>1 DEF Operation, Gens
    <3> QED
      BY <2>2, <3>1, <3>2 DEF Ledger, OpHolds
  <2> QED
    BY <2>1, <2>2
<1>4. \A a \in A : a.gen \in Nat /\ a.gen < n
  BY DEF Ledger, LedgerTypes, ActiveSession, Gens, SessionHolds
<1>5. \A j \in C : j.gen \in Nat /\ (j.res # None => j.gen < n)
  BY DEF Ledger, LedgerTypes, Job, Gens, JobHolds
<1> HIDE DEF f
<1>6. OpHolds(f, I, n + 1)
  BY <1>0, <1>2, <1>3 DEF Ledger, OpHolds
<1>7. SessionHolds(A, I, n + 1) /\ JobHolds(C, I, n + 1)
  BY <1>3, <1>4, <1>5 DEF Ledger, SessionHolds, JobHolds
<1>8. OneHolder(f, A, C)
  <2>1. \A q, r \in Profiles : f[q] # None /\ f[r] # None /\ f[q].gen = f[r].gen => q = r
    BY <1>0, <1>2, <1>3 DEF Ledger, OneHolder
  <2>2. \A q \in Profiles, a \in A : f[q] # None => f[q].gen # a.gen
    BY <1>0, <1>2, <1>3, <1>4 DEF Ledger, OneHolder
  <2>3. \A q \in Profiles, j \in C : f[q] # None /\ j.res # None => f[q].gen # j.gen
    BY <1>0, <1>2, <1>3, <1>5 DEF Ledger, OneHolder
  <2>4. /\ \A a, b \in A : a.gen = b.gen => a = b
        /\ \A j, k \in C : j.res # None /\ k.res # None /\ j.gen = k.gen => j = k
        /\ \A a \in A, j \in C : j.res # None => a.gen # j.gen
    BY DEF Ledger, OneHolder
  <2> QED
    BY <2>1, <2>2, <2>3, <2>4, Zenon DEF OneHolder
<1>9. NoneLeaks(f, A, C, I)
  <2>1. \A q \in Profiles : o[q] # None => f[q] = o[q]
    BY <1>2
  <2>2. NoneLeaks(o, A, C, I)
    BY DEF Ledger
  <2> QED
    BY <2>1, <2>2 DEF NoneLeaks
<1> QED
  BY <1>1, <1>6, <1>7, <1>8, <1>9 DEF Ledger, f

\* The flags of an operation do not count.
LEMMA FlagsKeep ==
  ASSUME NEW o, NEW A, NEW C, NEW I, NEW n, Ledger(o, A, C, I, n),
         NEW p \in Profiles, o[p] # None, NEW e \in Operation,
         e.gen = o[p].gen, e.ver = o[p].ver, e.res = o[p].res
  PROVE  Ledger([o EXCEPT ![p] = e], A, C, I, n)
<1> DEFINE f == [o EXCEPT ![p] = e]
<1>0. e # None
  OBVIOUS
<1>1. LedgerTypes(f, A, C, I, n)
  BY DEF Ledger, LedgerTypes, Entry
<1>2. f[p] = e /\ \A q \in Profiles : q # p => f[q] = o[q]
  BY DEF Ledger, LedgerTypes
<1> HIDE DEF f
<1>6. OpHolds(f, I, n)
  BY <1>0, <1>2 DEF Ledger, OpHolds, ReservationFor
<1>8. OneHolder(f, A, C)
  BY <1>0, <1>2 DEF Ledger, OneHolder
<1>9. NoneLeaks(f, A, C, I)
  BY <1>0, <1>2 DEF Ledger, NoneLeaks
<1> QED
  BY <1>1, <1>6, <1>8, <1>9 DEF Ledger, f

\* An operation reserves an identity that is free.
LEMMA ReservingKeeps ==
  ASSUME NEW o, NEW A, NEW C, NEW I, NEW n, Ledger(o, A, C, I, n),
         NEW p \in Profiles, o[p] # None, o[p].res = None, I[IdentOf[o[p].ver]] = None,
         NEW e \in Operation, e.gen = o[p].gen, e.ver = o[p].ver, e.res = ReservationFor(p, o[p])
  PROVE  Ledger([o EXCEPT ![p] = e], A, C, Reserve(I, e.res), n)
<1> DEFINE f == [o EXCEPT ![p] = e]
           i == IdentOf[o[p].ver]
           J == Reserve(I, e.res)
<1>0. o[p] \in Operation /\ o[p].ver \in Versions /\ o[p].gen \in Gens /\ i \in Idents /\ e # None
  BY DEF Ledger, LedgerTypes, Entry, Operation
<1>1. /\ e.res = [ident |-> i, profile |-> p, gen |-> o[p].gen] /\ e.res \in Reservation /\ e.res # None
  BY <1>0 DEF ReservationFor, Reservation
<1>2. /\ J = [I EXCEPT ![i] = [profile |-> p, gen |-> o[p].gen]]
      /\ [profile |-> p, gen |-> o[p].gen] \in Owned
  BY <1>0, <1>1 DEF Reserve, Owner, Owned
<1>3. LedgerTypes(f, A, C, J, n)
  <2>1. f \in [Profiles -> Entry]
    BY DEF Ledger, LedgerTypes, Entry
  <2>2. J \in [Idents -> Owned \cup {None}]
    BY <1>0, <1>2 DEF Ledger, LedgerTypes
  <2> QED
    BY <2>1, <2>2 DEF Ledger, LedgerTypes
<1>4. f[p] = e /\ \A q \in Profiles : q # p => f[q] = o[q]
  BY DEF Ledger, LedgerTypes
<1>5. J[i] = [profile |-> p, gen |-> o[p].gen] /\ \A k \in Idents : k # i => J[k] = I[k]
  BY <1>0, <1>2 DEF Ledger, LedgerTypes
<1>5a. \A q \in Profiles : o[q] # None /\ o[q].res # None => IdentOf[o[q].ver] \in Idents /\ IdentOf[o[q].ver] # i
  <2> TAKE q \in Profiles
  <2> HAVE o[q] # None /\ o[q].res # None
  <2>1. o[q] \in Operation /\ IdentOf[o[q].ver] \in Idents
    BY DEF Ledger, LedgerTypes, Entry, Operation
  <2>2. I[IdentOf[o[q].ver]] = [profile |-> q, gen |-> o[q].gen] /\ o[q].gen \in Gens
    BY <2>1 DEF Ledger, OpHolds, Operation
  <2> QED
    BY <2>1, <2>2
<1>5b. \A a \in A : IdentOf[a.ver] \in Idents /\ IdentOf[a.ver] # i
  <2> TAKE a \in A
  <2>1. a \in ActiveSession
    BY DEF Ledger, LedgerTypes
  <2>2. IdentOf[a.ver] \in Idents /\ a.profile \in Profiles /\ a.gen \in Gens
    BY <2>1 DEF ActiveSession
  <2>3. I[IdentOf[a.ver]] = [profile |-> a.profile, gen |-> a.gen]
    BY DEF Ledger, SessionHolds
  <2> QED
    BY <2>2, <2>3
<1>5c. \A j \in C : j.res # None => j.res.ident \in Idents /\ j.res.ident # i
  <2> TAKE j \in C
  <2> HAVE j.res # None
  <2>1. j.res \in Reservation /\ j.gen \in Gens
    BY DEF Ledger, LedgerTypes, Job
  <2>2. j.res.ident \in Idents /\ j.res.profile \in Profiles
    BY <2>1 DEF Reservation
  <2>3. I[j.res.ident] = [profile |-> j.res.profile, gen |-> j.gen]
    BY DEF Ledger, JobHolds
  <2> QED
    BY <2>1, <2>2, <2>3
<1> HIDE DEF f, J
<1>6. OpHolds(f, J, n)
  <2> SUFFICES ASSUME NEW q \in Profiles, f[q] # None
               PROVE  /\ f[q].gen < n
                      /\ f[q].res # None => /\ f[q].res = ReservationFor(q, f[q])
                                            /\ J[IdentOf[f[q].ver]] = [profile |-> q, gen |-> f[q].gen]
    BY DEF OpHolds
  <2>1. CASE q = p
    BY <2>1, <1>0, <1>1, <1>4, <1>5 DEF Ledger, OpHolds, ReservationFor
  <2>2. CASE q # p
    BY <2>2, <1>4, <1>5, <1>5a DEF Ledger, OpHolds
  <2> QED
    BY <2>1, <2>2
<1>7. SessionHolds(A, J, n)
  BY <1>5, <1>5b DEF Ledger, SessionHolds
<1>8. JobHolds(C, J, n)
  <2>1. \A j \in C : j.res # None => J[j.res.ident] = I[j.res.ident]
    BY <1>5, <1>5c
  <2> QED
    BY <2>1 DEF Ledger, JobHolds
<1>9. OneHolder(f, A, C)
  <2>1. \A q \in Profiles : f[q] # None => o[q] # None /\ f[q].gen = o[q].gen
    BY <1>0, <1>4
  <2>2. OneHolder(o, A, C)
    BY DEF Ledger
  <2>3. \A q, r \in Profiles : f[q] # None /\ f[r] # None /\ f[q].gen = f[r].gen => q = r
    BY <2>1, <2>2 DEF OneHolder
  <2>4. /\ \A q \in Profiles, a \in A : f[q] # None => f[q].gen # a.gen
        /\ \A q \in Profiles, j \in C : f[q] # None /\ j.res # None => f[q].gen # j.gen
    BY <2>1, <2>2 DEF OneHolder
  <2> QED
    BY <2>2, <2>3, <2>4, Zenon DEF OneHolder
<1>10. NoneLeaks(f, A, C, J)
  <2>1. NoneLeaks(o, A, C, I)
    BY DEF Ledger
  <2>2. \A q \in Profiles : o[q] # None /\ o[q].res # None => f[q] = o[q]
    BY <1>4
  <2>3. f[p] # None /\ f[p].res # None /\ IdentOf[f[p].ver] = i
    BY <1>0, <1>1, <1>4
  <2>4. \A k \in Idents : k # i => J[k] = I[k]
    BY <1>5
  <2> QED
    BY <2>1, <2>2, <2>3, <2>4 DEF NoneLeaks
<1> QED
  BY <1>3, <1>6, <1>7, <1>8, <1>9, <1>10 DEF Ledger, f, J

\* The holders read one by one.
LEMMA LedgerFacts ==
  ASSUME NEW o, NEW A, NEW C, NEW I, NEW n, Ledger(o, A, C, I, n)
  PROVE  /\ \A q \in Profiles : o[q] # None =>
              /\ o[q] \in Operation /\ o[q].ver \in Versions /\ IdentOf[o[q].ver] \in Idents
              /\ o[q].gen \in Gens /\ o[q].res \in Reservation \cup {None}
         /\ \A a \in A : /\ a \in ActiveSession /\ a.profile \in Profiles /\ a.gen \in Gens
                         /\ a.ver \in Versions /\ IdentOf[a.ver] \in Idents
                         /\ a.slot \in AllSlots /\ a.res \in Reservation /\ a.res # None
         /\ \A j \in C : /\ j \in Job /\ j.gen \in Gens /\ j.res \in Reservation \cup {None}
                         /\ j.res # None => j.res.ident \in Idents /\ j.lease \in Profiles
         /\ n \in Gens /\ n \in Nat
<1>1. ASSUME NEW q \in Profiles, o[q] # None
      PROVE  /\ o[q] \in Operation /\ o[q].ver \in Versions /\ IdentOf[o[q].ver] \in Idents
             /\ o[q].gen \in Gens /\ o[q].res \in Reservation \cup {None}
  <2>1. o[q] \in Operation
    BY <1>1 DEF Ledger, LedgerTypes, Entry
  <2> QED
    BY <2>1 DEF Operation
<1>2. ASSUME NEW a \in A
      PROVE  /\ a \in ActiveSession /\ a.profile \in Profiles /\ a.gen \in Gens
             /\ a.ver \in Versions /\ IdentOf[a.ver] \in Idents /\ a.slot \in AllSlots
             /\ a.res \in Reservation /\ a.res # None
  <2>1. a \in ActiveSession
    BY DEF Ledger, LedgerTypes
  <2>2. /\ a.profile \in Profiles /\ a.gen \in Gens /\ a.ver \in Versions /\ a.slot \in AllSlots
        /\ IdentOf[a.ver] \in Idents
    BY <2>1 DEF ActiveSession
  <2>3. a.res = [ident |-> IdentOf[a.ver], profile |-> a.profile, gen |-> a.gen]
    BY DEF Ledger, SessionHolds
  <2>4. a.res \in Reservation
    BY <2>2, <2>3 DEF Reservation
  <2> QED
    BY <2>1, <2>2, <2>4
<1>3. ASSUME NEW j \in C
      PROVE  /\ j \in Job /\ j.gen \in Gens /\ j.res \in Reservation \cup {None}
             /\ j.res # None => j.res.ident \in Idents /\ j.lease \in Profiles
  <2>1. j \in Job
    BY DEF Ledger, LedgerTypes
  <2>2. j.gen \in Gens /\ j.res \in Reservation \cup {None}
    BY <2>1 DEF Job
  <2>3. j.res # None => j.res.ident \in Idents /\ j.res.profile \in Profiles
    BY <2>2 DEF Reservation
  <2> QED
    BY <2>1, <2>2, <2>3 DEF Ledger, JobHolds
<1>4. n \in Gens /\ n \in Nat
  BY DEF Ledger, LedgerTypes, Gens
<1> QED
  BY <1>1, <1>2, <1>3, <1>4

\* An operation is dropped, and with it the identity it reserves.
LEMMA DroppingKeeps ==
  ASSUME NEW o, NEW A, NEW C, NEW I, NEW n, Ledger(o, A, C, I, n),
         NEW p \in Profiles, o[p] # None
  PROVE  Ledger([o EXCEPT ![p] = None], A, C, Release(I, o[p].res), n)
<1> DEFINE f == [o EXCEPT ![p] = None]
           i == IdentOf[o[p].ver]
           J == Release(I, o[p].res)
<1>1. f[p] = None /\ \A q \in Profiles : q # p => f[q] = o[q]
  BY DEF Ledger, LedgerTypes
<1>2. o[p].ver \in Versions /\ i \in Idents /\ o[p].gen \in Gens
  BY LedgerFacts
<1>3. f \in [Profiles -> Entry]
  BY DEF Ledger, LedgerTypes, Entry
<1>4. J \in [Idents -> Owned \cup {None}]
  BY DEF Ledger, LedgerTypes, Release
<1>4a. OneHolder(f, A, C)
  <2> HIDE DEF f, J
  <2>1. \A q \in Profiles : f[q] # None => q # p /\ f[q] = o[q] /\ o[q] # None
    BY <1>1
  <2>2. OneHolder(o, A, C)
    BY DEF Ledger
  <2>3. \A q1, q2 \in Profiles : f[q1] # None /\ f[q2] # None /\ f[q1].gen = f[q2].gen => q1 = q2
    BY <2>1, <2>2 DEF OneHolder
  <2>4. \A q \in Profiles, a \in A : f[q] # None => f[q].gen # a.gen
    BY <2>1, <2>2 DEF OneHolder
  <2>5. \A q \in Profiles, j \in C : f[q] # None /\ j.res # None => f[q].gen # j.gen
    BY <2>1, <2>2 DEF OneHolder
  <2> QED
    BY <2>2, <2>3, <2>4, <2>5 DEF OneHolder
<1>5. CASE o[p].res = None
  <2>1. J = I
    BY <1>5 DEF Release
  <2> HIDE DEF f
  <2>2. OpHolds(f, I, n)
    BY <1>1 DEF Ledger, OpHolds
  <2>3. NoneLeaks(f, A, C, I)
    BY <1>1, <1>5 DEF Ledger, NoneLeaks
  <2>4. Ledger(f, A, C, I, n)
    BY <1>3, <1>4a, <2>2, <2>3 DEF Ledger, LedgerTypes
  <2> QED
    BY <2>1, <2>4 DEF f
<1>6. CASE o[p].res # None
  <2>1. /\ o[p].res = [ident |-> i, profile |-> p, gen |-> o[p].gen]
        /\ I[i] = [profile |-> p, gen |-> o[p].gen]
    BY <1>6 DEF Ledger, OpHolds, ReservationFor
  <2>2. J = [I EXCEPT ![i] = None]
    BY <1>6, <2>1 DEF Release, Owner
  <2>3. J[i] = None /\ \A k \in Idents : k # i => J[k] = I[k]
    BY <1>2, <2>2 DEF Ledger, LedgerTypes
  <2>4. ASSUME NEW q \in Profiles, q # p, o[q] # None, o[q].res # None PROVE IdentOf[o[q].ver] # i
    <3>1. I[IdentOf[o[q].ver]] = [profile |-> q, gen |-> o[q].gen]
      BY <2>4 DEF Ledger, OpHolds
    <3> QED
      BY <2>1, <2>4, <3>1
  <2>5. ASSUME NEW a \in A PROVE IdentOf[a.ver] # i
    <3>1. I[IdentOf[a.ver]] = [profile |-> a.profile, gen |-> a.gen]
      BY DEF Ledger, SessionHolds
    <3>2. a.gen # o[p].gen
      BY DEF Ledger, OneHolder
    <3> QED
      BY <2>1, <3>1, <3>2
  <2>6. ASSUME NEW j \in C, j.res # None PROVE j.res.ident # i
    <3>1. I[j.res.ident] = [profile |-> j.lease, gen |-> j.gen]
      BY <2>6 DEF Ledger, JobHolds
    <3>2. j.gen # o[p].gen
      BY <2>6 DEF Ledger, OneHolder
    <3> QED
      BY <2>1, <3>1, <3>2
  <2> HIDE DEF f, J
  <2>7. OpHolds(f, J, n)
    <3> SUFFICES ASSUME NEW q \in Profiles, f[q] # None
                 PROVE  /\ f[q].gen < n
                        /\ f[q].res # None => /\ f[q].res = ReservationFor(q, f[q])
                                              /\ J[IdentOf[f[q].ver]] = [profile |-> q, gen |-> f[q].gen]
      BY DEF OpHolds
    <3>1. q # p /\ f[q] = o[q] /\ IdentOf[o[q].ver] \in Idents
      BY <1>1, LedgerFacts
    <3> QED
      BY <2>3, <2>4, <3>1 DEF Ledger, OpHolds
  <2>8. SessionHolds(A, J, n)
    <3>1. \A a \in A : J[IdentOf[a.ver]] = I[IdentOf[a.ver]]
      BY <2>3, <2>5, LedgerFacts
    <3> QED
      BY <3>1 DEF Ledger, SessionHolds
  <2>9. JobHolds(C, J, n)
    <3>1. \A j \in C : j.res # None => J[j.res.ident] = I[j.res.ident]
      BY <2>3, <2>6, LedgerFacts
    <3> QED
      BY <3>1 DEF Ledger, JobHolds
  <2>11. NoneLeaks(f, A, C, J)
    BY <1>1, <2>3, <2>1 DEF Ledger, NoneLeaks
  <2> QED
    BY <1>3, <1>4, <1>4a, <2>7, <2>8, <2>9, <2>11 DEF Ledger, LedgerTypes, f, J
<1> QED
  BY <1>5, <1>6

\* An operation becomes a session, which holds what the operation held.
LEMMA BecomingSessionKeeps ==
  ASSUME NEW o, NEW A, NEW C, NEW I, NEW n, Ledger(o, A, C, I, n),
         NEW p \in Profiles, o[p] # None, o[p].res # None,
         NEW b \in ActiveSession, b.profile = p, b.gen = o[p].gen, b.ver = o[p].ver, b.res = o[p].res
  PROVE  Ledger([o EXCEPT ![p] = None], A \cup {b}, C, I, n)
<1> DEFINE f == [o EXCEPT ![p] = None]
           B == A \cup {b}
<1>1. f[p] = None /\ \A q \in Profiles : q # p => f[q] = o[q]
  BY DEF Ledger, LedgerTypes
<1>2. f \in [Profiles -> Entry] /\ B \subseteq ActiveSession
  BY DEF Ledger, LedgerTypes, Entry
<1>3. /\ o[p].res = [ident |-> IdentOf[o[p].ver], profile |-> p, gen |-> o[p].gen] /\ o[p].gen < n
      /\ I[IdentOf[o[p].ver]] = [profile |-> p, gen |-> o[p].gen]
  BY DEF Ledger, OpHolds, ReservationFor
<1>4. /\ \A q \in Profiles : o[q] # None /\ q # p => o[q].gen # b.gen
      /\ \A a \in A : a.gen # b.gen
      /\ \A j \in C : j.res # None => j.gen # b.gen
  BY DEF Ledger, OneHolder
<1> HIDE DEF f
<1>4a. OpHolds(o, I, n) /\ SessionHolds(A, I, n) /\ OneHolder(o, A, C) /\ NoneLeaks(o, A, C, I)
  BY DEF Ledger
<1>5. OpHolds(f, I, n)
  BY <1>1, <1>4a DEF OpHolds
<1>6. SessionHolds(B, I, n)
  <2>1. b.gen < n /\ b.res = [ident |-> IdentOf[b.ver], profile |-> b.profile, gen |-> b.gen]
        /\ I[IdentOf[b.ver]] = [profile |-> b.profile, gen |-> b.gen]
    BY <1>3
  <2> QED
    BY <1>4a, <2>1 DEF SessionHolds
<1>7. OneHolder(f, B, C)
  <2>1. \A q \in Profiles : f[q] # None => q # p /\ o[q] # None /\ f[q] = o[q]
    BY <1>1
  <2>2. /\ \A q, r \in Profiles : f[q] # None /\ f[r] # None /\ f[q].gen = f[r].gen => q = r
        /\ \A q \in Profiles, j \in C : f[q] # None /\ j.res # None => f[q].gen # j.gen
    BY <1>4a, <2>1 DEF OneHolder
  <2>3. \A q \in Profiles, a \in B : f[q] # None => f[q].gen # a.gen
    BY <1>4, <1>4a, <2>1 DEF OneHolder
  <2>4. \A a, c \in B : a.gen = c.gen => a = c
    BY <1>4, <1>4a DEF OneHolder
  <2>5. \A a \in B, j \in C : j.res # None => a.gen # j.gen
    BY <1>4, <1>4a DEF OneHolder
  <2>6. \A j, k \in C : j.res # None /\ k.res # None /\ j.gen = k.gen => j = k
    BY <1>4a DEF OneHolder
  <2> HIDE DEF B
  <2> QED
    BY <2>2, <2>3, <2>4, <2>5, <2>6, Zenon DEF OneHolder
<1>8. NoneLeaks(f, B, C, I)
  BY <1>1, <1>4a DEF NoneLeaks
<1> QED
  BY <1>2, <1>5, <1>6, <1>7, <1>8 DEF Ledger, LedgerTypes, f

\* ... or is taken over by a cleanup job.
LEMMA BecomingJobKeeps ==
  ASSUME NEW o, NEW A, NEW C, NEW I, NEW n, Ledger(o, A, C, I, n),
         NEW p \in Profiles, o[p] # None,
         NEW k \in Job, k.gen = o[p].gen, k.lease = p, k.res = o[p].res,
         k.ident = None \/ (o[p].res # None /\ k.ident = IdentOf[o[p].ver])
  PROVE  Ledger([o EXCEPT ![p] = None], A, C \cup {k}, I, n)
<1> DEFINE f == [o EXCEPT ![p] = None]
           D == C \cup {k}
<1>1. f[p] = None /\ \A q \in Profiles : q # p => f[q] = o[q]
  BY DEF Ledger, LedgerTypes
<1>2. f \in [Profiles -> Entry] /\ D \subseteq Job
  BY DEF Ledger, LedgerTypes, Entry
<1>3. /\ o[p].gen < n
      /\ o[p].res # None => /\ o[p].res = [ident |-> IdentOf[o[p].ver], profile |-> p, gen |-> o[p].gen]
                            /\ I[IdentOf[o[p].ver]] = [profile |-> p, gen |-> o[p].gen]
  BY DEF Ledger, OpHolds, ReservationFor
<1>4. /\ \A q \in Profiles : o[q] # None /\ q # p => o[q].gen # k.gen
      /\ \A a \in A : a.gen # k.gen
      /\ \A j \in C : j.res # None => j.gen # k.gen
  BY DEF Ledger, OneHolder
<1> HIDE DEF f
<1>5. OpHolds(f, I, n)
  BY <1>1 DEF Ledger, OpHolds
<1>6. JobHolds(D, I, n)
  <2> SUFFICES ASSUME NEW j \in D
               PROVE  /\ j.ident # None => j.res # None /\ j.res.ident = j.ident
                      /\ j.res # None => /\ j.gen < n /\ j.res.gen = j.gen /\ j.res.profile = j.lease
                                         /\ I[j.res.ident] = [profile |-> j.lease, gen |-> j.gen]
    BY DEF JobHolds
  <2>1. CASE j \in C
    BY <2>1 DEF Ledger, JobHolds
  <2>2. CASE j = k
    BY <2>2, <1>3
  <2> QED
    BY <2>1, <2>2
<1>7. OneHolder(f, A, D)
  BY <1>1, <1>4 DEF Ledger, OneHolder
<1>8. NoneLeaks(f, A, D, I)
  <2> SUFFICES ASSUME NEW i \in Idents, I[i] # None
               PROVE  \/ \E q \in Profiles : f[q] # None /\ f[q].res # None /\ IdentOf[f[q].ver] = i
                      \/ \E a \in A : IdentOf[a.ver] = i
                      \/ \E j \in D : j.res # None /\ j.res.ident = i
    BY DEF NoneLeaks
  <2>1. CASE o[p].res # None /\ IdentOf[o[p].ver] = i
    <3>1. k.res # None /\ k.res.ident = i
      BY <2>1, <1>3
    <3> QED
      BY <3>1
  <2>2. CASE ~(o[p].res # None /\ IdentOf[o[p].ver] = i)
    BY <2>2, <1>1 DEF Ledger, NoneLeaks
  <2> QED
    BY <2>1, <2>2
<1> QED
  BY <1>2, <1>5, <1>6, <1>7, <1>8 DEF Ledger, LedgerTypes, f

\* Sessions that exited become cleanup jobs, each holding what its session held.
LEMMA ReapingKeeps ==
  ASSUME NEW o, NEW A, NEW C, NEW I, NEW n, Ledger(o, A, C, I, n), NEW X \in SUBSET A
  PROVE  Ledger(o, A \ X, C \cup {SessionJob(a) : a \in X}, I, n)
<1> DEFINE D == C \cup {SessionJob(a) : a \in X}
           B == A \ X
<1>1. ASSUME NEW a \in X
      PROVE  /\ a \in A /\ SessionJob(a) \in Job /\ SessionJob(a).gen = a.gen
             /\ SessionJob(a).res = a.res /\ a.res # None /\ SessionJob(a).lease = a.profile
             /\ SessionJob(a).ident = IdentOf[a.ver] /\ a.res.ident = IdentOf[a.ver]
             /\ a.res.gen = a.gen /\ a.res.profile = a.profile /\ a.gen < n
             /\ I[IdentOf[a.ver]] = [profile |-> a.profile, gen |-> a.gen]
  <2>1. a \in A
    OBVIOUS
  <2>2. /\ a.profile \in Profiles /\ a.slot \in AllSlots /\ a.gen \in Gens /\ a.res \in Reservation
        /\ a.res # None /\ IdentOf[a.ver] \in Idents
    BY <2>1, LedgerFacts
  <2>3. SessionJob(a) \in Job
    BY <2>2 DEF SessionJob, Job
  <2>4. /\ SessionJob(a).gen = a.gen /\ SessionJob(a).res = a.res /\ SessionJob(a).lease = a.profile
        /\ SessionJob(a).ident = IdentOf[a.ver]
    BY DEF SessionJob
  <2>5. /\ a.gen < n /\ a.res = [ident |-> IdentOf[a.ver], profile |-> a.profile, gen |-> a.gen]
        /\ I[IdentOf[a.ver]] = [profile |-> a.profile, gen |-> a.gen]
    BY <2>1 DEF Ledger, SessionHolds
  <2>6. a.res.ident = IdentOf[a.ver] /\ a.res.gen = a.gen /\ a.res.profile = a.profile
    BY <2>5
  <2> QED
    BY <2>1, <2>2, <2>3, <2>4, <2>5, <2>6
<1>2. \A j \in D : j \in C \/ \E a \in X : j = SessionJob(a)
  OBVIOUS
<1>3. LedgerTypes(o, B, D, I, n)
  <2>1. D \subseteq Job
    <3>1. \A a \in X : SessionJob(a) \in Job
      BY <1>1
    <3>2. C \subseteq Job
      BY DEF Ledger, LedgerTypes
    <3> HIDE DEF D
    <3> QED
      BY <1>2, <3>1, <3>2
  <2> QED
    BY <2>1 DEF Ledger, LedgerTypes
<1>4. JobHolds(D, I, n)
  <2> SUFFICES ASSUME NEW j \in D
               PROVE  /\ j.ident # None => j.res # None /\ j.res.ident = j.ident
                      /\ j.res # None => /\ j.gen < n /\ j.res.gen = j.gen /\ j.res.profile = j.lease
                                         /\ I[j.res.ident] = [profile |-> j.lease, gen |-> j.gen]
    BY DEF JobHolds
  <2>1. CASE j \in C
    BY <2>1 DEF Ledger, JobHolds
  <2>2. CASE \E a \in X : j = SessionJob(a)
    <3>1. PICK a \in X : j = SessionJob(a)
      BY <2>2
    <3>2. /\ j.gen = a.gen /\ j.res = a.res /\ a.res # None /\ j.lease = a.profile /\ j.ident = IdentOf[a.ver]
          /\ a.res.ident = IdentOf[a.ver] /\ a.res.gen = a.gen /\ a.res.profile = a.profile /\ a.gen < n
          /\ I[IdentOf[a.ver]] = [profile |-> a.profile, gen |-> a.gen]
      BY <3>1, <1>1
    <3> QED
      BY <3>2
  <2> QED
    BY <2>1, <2>2
<1>5. /\ \A a, b \in A : a.gen = b.gen => a = b
      /\ \A j, k \in C : j.res # None /\ k.res # None /\ j.gen = k.gen => j = k
      /\ \A p, q \in Profiles : o[p] # None /\ o[q] # None /\ o[p].gen = o[q].gen => p = q
  BY DEF Ledger, OneHolder
<1>6. /\ \A p \in Profiles, a \in A : o[p] # None => o[p].gen # a.gen
      /\ \A p \in Profiles, j \in C : o[p] # None /\ j.res # None => o[p].gen # j.gen
      /\ \A a \in A, j \in C : j.res # None => a.gen # j.gen
  BY DEF Ledger, OneHolder
<1>7. ASSUME NEW j \in D, NEW k \in D, j.res # None, k.res # None, j.gen = k.gen PROVE j = k
  <2>1. CASE j \in C /\ k \in C
    BY <2>1, <1>7, <1>5
  <2>2. ASSUME j \in C, NEW a \in X, k = SessionJob(a) PROVE FALSE
    <3>1. k.gen = a.gen /\ a \in A
      BY <2>2, <1>1
    <3> QED
      BY <2>2, <3>1, <1>7, <1>6
  <2>3. ASSUME k \in C, NEW a \in X, j = SessionJob(a) PROVE FALSE
    <3>1. j.gen = a.gen /\ a \in A
      BY <2>3, <1>1
    <3> QED
      BY <2>3, <3>1, <1>7, <1>6
  <2>4. ASSUME NEW a \in X, NEW b \in X, j = SessionJob(a), k = SessionJob(b) PROVE j = k
    <3>1. j.gen = a.gen /\ k.gen = b.gen /\ a \in A /\ b \in A
      BY <2>4, <1>1
    <3>2. a = b
      BY <3>1, <1>7, <1>5
    <3> QED
      BY <2>4, <3>2
  <2> QED
    BY <2>1, <2>2, <2>3, <2>4, <1>2
<1>8. ASSUME NEW p \in Profiles, NEW j \in D, o[p] # None, j.res # None PROVE o[p].gen # j.gen
  <2>1. CASE j \in C
    BY <2>1, <1>8, <1>6
  <2>2. ASSUME NEW a \in X, j = SessionJob(a) PROVE o[p].gen # j.gen
    <3>1. j.gen = a.gen /\ a \in A
      BY <2>2, <1>1
    <3> QED
      BY <3>1, <1>8, <1>6
  <2> QED
    BY <2>1, <2>2, <1>2
<1>9. ASSUME NEW a \in B, NEW j \in D, j.res # None PROVE a.gen # j.gen
  <2>1. CASE j \in C
    BY <2>1, <1>9, <1>6
  <2>2. CASE \E b \in X : j = SessionJob(b)
    <3>1. PICK b \in X : j = SessionJob(b)
      BY <2>2
    <3>2. a # b /\ a \in A /\ b \in A /\ j.gen = b.gen
      BY <3>1, <1>1
    <3> QED
      BY <3>2, <1>5
  <2> QED
    BY <2>1, <2>2
<1>10. OneHolder(o, B, D)
  <2> HIDE DEF B, D
  <2>1. B \subseteq A
    BY DEF B
  <2> QED
    BY <2>1, <1>5, <1>6, <1>7, <1>8, <1>9 DEF OneHolder
<1>11. NoneLeaks(o, B, D, I)
  <2> SUFFICES ASSUME NEW i \in Idents, I[i] # None
               PROVE  \/ \E p \in Profiles : o[p] # None /\ o[p].res # None /\ IdentOf[o[p].ver] = i
                      \/ \E a \in B : IdentOf[a.ver] = i
                      \/ \E j \in D : j.res # None /\ j.res.ident = i
    BY DEF NoneLeaks
  <2>1. CASE \E a \in X : IdentOf[a.ver] = i
    <3>1. PICK a \in X : IdentOf[a.ver] = i
      BY <2>1
    <3>2. SessionJob(a) \in D /\ SessionJob(a).res # None /\ SessionJob(a).res.ident = i
      BY <3>1, <1>1
    <3> QED
      BY <3>2
  <2>2. CASE ~\E a \in X : IdentOf[a.ver] = i
    BY <2>2 DEF Ledger, NoneLeaks
  <2> QED
    BY <2>1, <2>2
<1>12. OpHolds(o, I, n) /\ SessionHolds(B, I, n)
  BY DEF Ledger, SessionHolds
<1> HIDE DEF B, D
<1>13. Ledger(o, B, D, I, n)
  BY <1>3, <1>4, <1>10, <1>11, <1>12 DEF Ledger
<1> QED
  BY <1>13 DEF B, D

\* A job that holds no reservation changes nothing.
LEMMA PlainJobsKeep ==
  ASSUME NEW o, NEW A, NEW C, NEW I, NEW n, Ledger(o, A, C, I, n), NEW K \in SUBSET Job,
         \A k \in K : k.res = None /\ k.ident = None
  PROVE  Ledger(o, A, C \cup K, I, n)
<1> DEFINE D == C \cup K
<1>1. D \subseteq Job /\ C \subseteq D /\ \A j \in D : j.res # None \/ j.ident # None => j \in C
  BY DEF Ledger, LedgerTypes
<1> HIDE DEF D
<1>2. JobHolds(D, I, n)
  BY <1>1 DEF Ledger, JobHolds
<1>3. OneHolder(o, A, D)
  <2>1. OneHolder(o, A, C)
    BY DEF Ledger
  <2>2. \A j, k \in D : j.res # None /\ k.res # None /\ j.gen = k.gen => j = k
    BY <1>1, <2>1 DEF OneHolder
  <2>3. \A p \in Profiles, j \in D : o[p] # None /\ j.res # None => o[p].gen # j.gen
    BY <1>1, <2>1 DEF OneHolder
  <2> QED
    BY <1>1, <2>1, <2>2, <2>3 DEF OneHolder
<1>4. NoneLeaks(o, A, D, I)
  BY <1>1 DEF Ledger, NoneLeaks
<1> QED
  BY <1>1, <1>2, <1>3, <1>4 DEF Ledger, LedgerTypes, D

\* A job is done, and the identity it reserved is free.
LEMMA DoneKeeps ==
  ASSUME NEW o, NEW A, NEW C, NEW I, NEW n, Ledger(o, A, C, I, n), NEW d \in C
  PROVE  Ledger(o, A, C \ {d}, Release(I, d.res), n)
<1> DEFINE D == C \ {d}
           J == Release(I, d.res)
<1>1. D \subseteq Job /\ J \in [Idents -> Owned \cup {None}]
  BY DEF Ledger, LedgerTypes, Release
<1>2. OneHolder(o, A, D)
  BY DEF Ledger, OneHolder
<1>3. CASE d.res = None
  <2>1. J = I
    BY <1>3 DEF Release
  <2>2. JobHolds(D, I, n)
    BY DEF Ledger, JobHolds
  <2>3. NoneLeaks(o, A, D, I)
    BY <1>3 DEF Ledger, NoneLeaks
  <2>4. Ledger(o, A, D, I, n)
    BY <1>1, <1>2, <2>2, <2>3 DEF Ledger, LedgerTypes
  <2> QED
    BY <2>1, <2>4
<1>4. CASE d.res # None
  <2> DEFINE i == d.res.ident
  <2>1. /\ i \in Idents /\ I[i] = [profile |-> d.lease, gen |-> d.gen]
        /\ d.res.gen = d.gen /\ d.res.profile = d.lease
    BY <1>4, LedgerFacts DEF Ledger, JobHolds
  <2>2. J = [I EXCEPT ![i] = None]
    BY <1>4, <2>1 DEF Release, Owner
  <2>3. J[i] = None /\ \A k \in Idents : k # i => J[k] = I[k]
    BY <2>1, <2>2 DEF Ledger, LedgerTypes
  <2>4. ASSUME NEW q \in Profiles, o[q] # None, o[q].res # None PROVE IdentOf[o[q].ver] # i
    <3>1. I[IdentOf[o[q].ver]] = [profile |-> q, gen |-> o[q].gen]
      BY <2>4 DEF Ledger, OpHolds
    <3>2. o[q].gen # d.gen
      BY <1>4, <2>4 DEF Ledger, OneHolder
    <3> QED
      BY <2>1, <3>1, <3>2
  <2>5. ASSUME NEW a \in A PROVE IdentOf[a.ver] # i
    <3>1. I[IdentOf[a.ver]] = [profile |-> a.profile, gen |-> a.gen]
      BY DEF Ledger, SessionHolds
    <3>2. a.gen # d.gen
      BY <1>4 DEF Ledger, OneHolder
    <3> QED
      BY <2>1, <3>1, <3>2
  <2>6. ASSUME NEW j \in D, j.res # None PROVE j.res.ident # i
    <3>1. I[j.res.ident] = [profile |-> j.lease, gen |-> j.gen]
      BY <2>6 DEF Ledger, JobHolds
    <3>2. j.gen # d.gen
      BY <1>4, <2>6 DEF Ledger, OneHolder
    <3> QED
      BY <2>1, <3>1, <3>2
  <2> HIDE DEF J, D, i
  <2>7. OpHolds(o, J, n)
    <3>1. \A q \in Profiles : o[q] # None /\ o[q].res # None => J[IdentOf[o[q].ver]] = I[IdentOf[o[q].ver]]
      BY <2>3, <2>4, LedgerFacts
    <3> QED
      BY <3>1 DEF Ledger, OpHolds
  <2>8. SessionHolds(A, J, n)
    <3>1. \A a \in A : J[IdentOf[a.ver]] = I[IdentOf[a.ver]]
      BY <2>3, <2>5, LedgerFacts
    <3> QED
      BY <3>1 DEF Ledger, SessionHolds
  <2>9. JobHolds(D, J, n)
    <3>0. D \subseteq C
      BY DEF D
    <3>1. \A j \in D : j.res # None => J[j.res.ident] = I[j.res.ident]
      BY <3>0, <2>3, <2>6, LedgerFacts
    <3> QED
      BY <3>0, <3>1 DEF Ledger, JobHolds
  <2>10. NoneLeaks(o, A, D, J)
    <3> SUFFICES ASSUME NEW k \in Idents, J[k] # None
                 PROVE  \/ \E q \in Profiles : o[q] # None /\ o[q].res # None /\ IdentOf[o[q].ver] = k
                        \/ \E a \in A : IdentOf[a.ver] = k
                        \/ \E j \in D : j.res # None /\ j.res.ident = k
      BY DEF NoneLeaks
    <3>1. k # i /\ I[k] # None
      BY <2>3
    <3>2. \A j \in C : j.res # None /\ j.res.ident = k => j \in D
      BY <3>1 DEF D, i
    <3> QED
      BY <3>1, <3>2 DEF Ledger, NoneLeaks
  <2> QED
    BY <1>1, <1>2, <2>7, <2>8, <2>9, <2>10 DEF Ledger, LedgerTypes, J, D
<1> QED
  BY <1>3, <1>4

Marked(A, p) == {IF a.profile = p THEN [a EXCEPT !.stopping = TRUE] ELSE a : a \in A}

\* Marking sessions as stopping changes nothing.
LEMMA MarkingKeeps ==
  ASSUME NEW o, NEW A, NEW C, NEW I, NEW n, Ledger(o, A, C, I, n), NEW p \in Profiles
  PROVE  Ledger(o, Marked(A, p), C, I, n)
<1> DEFINE M(a) == IF a.profile = p THEN [a EXCEPT !.stopping = TRUE] ELSE a
           B == {M(a) : a \in A}
<1>1. ASSUME NEW a \in A
      PROVE  M(a) \in ActiveSession /\ M(a).gen = a.gen /\ M(a).ver = a.ver /\ M(a).profile = a.profile /\ M(a).res = a.res
  <2>1. a \in ActiveSession
    BY DEF Ledger, LedgerTypes
  <2> QED
    BY <2>1 DEF ActiveSession
<1>2. ASSUME NEW b \in B PROVE b \in ActiveSession
  <2>1. PICK a \in A : b = M(a)
    OBVIOUS
  <2> HIDE DEF M
  <2> QED
    BY <2>1, <1>1
<1>3. SessionHolds(B, I, n)
  <2> SUFFICES ASSUME NEW b \in B
               PROVE  /\ b.gen < n /\ b.res = [ident |-> IdentOf[b.ver], profile |-> b.profile, gen |-> b.gen]
                      /\ I[IdentOf[b.ver]] = [profile |-> b.profile, gen |-> b.gen]
    BY DEF SessionHolds
  <2>1. PICK a \in A : b = M(a)
    OBVIOUS
  <2> HIDE DEF M
  <2> QED
    BY <2>1, <1>1 DEF Ledger, SessionHolds
<1>4. ASSUME NEW b \in B PROVE \E a \in A : b = M(a) /\ b.gen = a.gen
  <2>1. PICK a \in A : b = M(a)
    OBVIOUS
  <2> HIDE DEF M
  <2> QED
    BY <2>1, <1>1
<1>5. OneHolder(o, B, C)
  <2> HIDE DEF M, B
  <2>0. OneHolder(o, A, C)
    BY DEF Ledger
  <2>1. \A a, b \in B : a.gen = b.gen => a = b
    BY <1>4, <2>0 DEF OneHolder
  <2>2. \A q \in Profiles, a \in B : o[q] # None => o[q].gen # a.gen
    BY <1>4, <2>0 DEF OneHolder
  <2>3. \A a \in B, j \in C : j.res # None => a.gen # j.gen
    BY <1>4, <2>0 DEF OneHolder
  <2> QED
    BY <2>0, <2>1, <2>2, <2>3 DEF OneHolder
<1>6. NoneLeaks(o, B, C, I)
  <2>1. ASSUME NEW a \in A PROVE M(a) \in B /\ M(a).ver = a.ver
    <3>1. M(a) \in B
      OBVIOUS
    <3> HIDE DEF M
    <3> QED
      BY <3>1, <1>1
  <2> HIDE DEF M, B
  <2> QED
    BY <2>1 DEF Ledger, NoneLeaks
<1> QED
  BY <1>2, <1>3, <1>5, <1>6 DEF Ledger, LedgerTypes, Marked

\* Generations that nobody took hold nothing.
LEMMA LaterKeeps ==
  ASSUME NEW o, NEW A, NEW C, NEW I, NEW n, Ledger(o, A, C, I, n)
  PROVE  Ledger(o, A, C, I, n + 1)
<1>1. n \in Nat /\ n + 1 \in Gens
  BY DEF Ledger, LedgerTypes, Gens
<1>2. ASSUME NEW q \in Profiles, o[q] # None PROVE o[q].gen < n + 1
  <2>0. o[q].gen \in Gens
    BY <1>2, LedgerFacts
  <2>1. o[q].gen \in Nat /\ o[q].gen < n
    BY <1>2, <2>0 DEF Ledger, OpHolds, Gens
  <2> QED
    BY <1>1, <2>1
<1>3. ASSUME NEW a \in A PROVE a.gen < n + 1
  <2>0. a.gen \in Gens
    BY LedgerFacts
  <2>1. a.gen \in Nat /\ a.gen < n
    BY <2>0 DEF Ledger, SessionHolds, Gens
  <2> QED
    BY <1>1, <2>1
<1>4. ASSUME NEW j \in C, j.res # None PROVE j.gen < n + 1
  <2>0. j.gen \in Gens
    BY <1>4, LedgerFacts
  <2>1. j.gen \in Nat /\ j.gen < n
    BY <1>4, <2>0 DEF Ledger, JobHolds, Gens
  <2> QED
    BY <1>1, <2>1
<1>5. OpHolds(o, I, n + 1)
  BY <1>2 DEF Ledger, OpHolds
<1>6. SessionHolds(A, I, n + 1)
  BY <1>3 DEF Ledger, SessionHolds
<1>7. JobHolds(C, I, n + 1)
  BY <1>4 DEF Ledger, JobHolds
<1> QED
  BY <1>1, <1>5, <1>6, <1>7 DEF Ledger, LedgerTypes

\* The kinds of workers, and that a step leaves the row of q alone.
WorkerKinds == {"check", "display", "launch"}
SameRow(q) ==
    /\ op'[q] = op[q] /\ (q \in checks' <=> q \in checks) /\ validated'[q] = validated[q]
    /\ pendDisplay'[q] = pendDisplay[q] /\ pendLaunch'[q] = pendLaunch[q]
    /\ (q \in workers' <=> q \in workers)
    /\ \A t \in tasks \cup tasks' :
         t.profile = q /\ t.kind \in WorkerKinds => (t \in tasks' <=> t \in tasks)

\* A step that leaves a profile's row and its workers alone keeps the row true.
LEMMA RowKept ==
  ASSUME NEW q \in Profiles, RowOf(q), SameRow(q)
  PROVE  RowOf(q)'
<1>1. /\ CheckOf(q, op[q]).profile = q /\ CheckOf(q, op[q]).kind \in WorkerKinds
      /\ DisplayOf(q, op[q], pendDisplay[q]).profile = q
      /\ DisplayOf(q, op[q], pendDisplay[q]).kind \in WorkerKinds
      /\ LaunchOf(q, op[q], pendLaunch[q]).profile = q
      /\ LaunchOf(q, op[q], pendLaunch[q]).kind \in WorkerKinds
  BY DEF CheckOf, DisplayOf, LaunchOf, NewTask, WorkerKinds
<1>2. \A t \in tasks' : t.profile = q /\ t.kind \in WorkerKinds => t \in tasks
  BY DEF SameRow
<1>3. \A t \in tasks : t.profile = q /\ t.kind \in WorkerKinds => t \in tasks'
  BY DEF SameRow
<1>4. /\ op'[q] = op[q] /\ (q \in checks' <=> q \in checks) /\ validated'[q] = validated[q]
      /\ pendDisplay'[q] = pendDisplay[q] /\ pendLaunch'[q] = pendLaunch[q]
      /\ (q \in workers' <=> q \in workers)
  BY DEF SameRow
<1>5. \A t \in tasks' : t.profile = q =>
         /\ t.kind = "check" => q \in checks /\ t = CheckOf(q, op[q])
         /\ t.kind = "display" => pendDisplay[q] # None /\ t = DisplayOf(q, op[q], pendDisplay[q])
         /\ t.kind = "launch" => pendLaunch[q] # None /\ t = LaunchOf(q, op[q], pendLaunch[q])
  BY <1>2 DEF RowOf, Row, WorkerKinds
<1>6. /\ q \in checks => CheckOf(q, op[q]) \in tasks'
      /\ pendDisplay[q] # None => DisplayOf(q, op[q], pendDisplay[q]) \in tasks'
      /\ pendLaunch[q] # None => LaunchOf(q, op[q], pendLaunch[q]) \in tasks'
  BY <1>1, <1>3 DEF RowOf, Row
<1> QED
  BY <1>4, <1>5, <1>6 DEF RowOf, Row

\* Nothing new is used: what is left of the slots is apart.
LEMMA ApartShrinks ==
  ASSUME SessionsInv, active' \subseteq active, workers' \subseteq workers,
         \A q \in Profiles : /\ pendDisplay'[q] \in {pendDisplay[q], None}
                             /\ pendLaunch'[q] \in {pendLaunch[q], None},
         \A q \in workers' : pendLaunch'[q] = pendLaunch[q],
         \A s \in Slots : managed'[s] \in {managed[s], 0}
  PROVE  Apart'
<1>1. \A a \in active : a.slot # None /\ a.profile \in Profiles
  BY LedgerFacts DEF SessionsInv, Kept
<1>2. \A q \in workers : q \in Profiles /\ pendLaunch[q] \in Slots
  BY DEF SessionsInv, Tracked, RowOf, Row, TableTypes
<1>3. Apart
  BY DEF SessionsInv
<1>4. \A a \in active' : /\ pendDisplay'[a.profile] = None /\ pendLaunch'[a.profile] = None
                         /\ a.own => a.slot \in Slots /\ managed'[a.slot] = 0
                         /\ \A q \in Profiles : pendDisplay'[q] # a.slot /\ pendLaunch'[q] # a.slot
  <2> TAKE a \in active'
  <2>1. a \in active
    OBVIOUS
  <2>2. /\ pendDisplay[a.profile] = None /\ pendLaunch[a.profile] = None
        /\ a.own => a.slot \in Slots /\ managed[a.slot] = 0
        /\ \A q \in Profiles : pendDisplay[q] # a.slot /\ pendLaunch[q] # a.slot
    BY <1>3, <2>1 DEF Apart
  <2> QED
    BY <1>1, <2>1, <2>2
<1>5. \A a, b \in active' : a.profile = b.profile \/ a.slot = b.slot => a = b
  BY <1>3 DEF Apart
<1>6. \A p, q \in Profiles : p # q =>
         /\ pendDisplay'[p] # None => pendDisplay'[q] # pendDisplay'[p] /\ pendLaunch'[q] # pendDisplay'[p]
         /\ pendLaunch'[p] # None => pendLaunch'[q] # pendLaunch'[p]
  BY <1>3 DEF Apart
<1>7. \A p \in workers' : managed'[pendLaunch'[p]] = 0
  <2> TAKE p \in workers'
  <2>1. pendLaunch'[p] = pendLaunch[p] /\ pendLaunch[p] \in Slots /\ p \in workers
    BY <1>2
  <2>2. managed[pendLaunch[p]] = 0
    BY <1>3, <2>1 DEF Apart
  <2> QED
    BY <2>1, <2>2
<1> QED
  BY <1>4, <1>5, <1>6, <1>7 DEF Apart

\* A step that leases no deleted profile and saves none anew leaves nothing of one.
LEMMA GoneStep ==
  ASSUME SessionsInv, \A p \in Profiles : config'[p] = None => config[p] = None,
         \A p \in Profiles : op'[p] # None => Leased(p) \/ config[p] # None,
         \A a \in active' : Leased(a.profile) \/ config[a.profile] # None,
         \A j \in cleanup' : j.lease \in Profiles => Leased(j.lease) \/ config[j.lease] # None
  PROVE  Gone'
<1>1. \A p \in Profiles : config[p] = None => ~Leased(p)
  BY DEF SessionsInv, Gone
<1>2. SUFFICES ASSUME NEW p \in Profiles, config'[p] = None PROVE ~Leased(p)'
  BY DEF Gone
<1>3. config[p] = None /\ ~Leased(p)
  BY <1>1, <1>2
<1>4. op'[p] = None
  BY <1>3
<1>5. ~\E a \in active' : a.profile = p
  BY <1>3
<1>6. ~\E j \in cleanup' : j.lease = p
  BY <1>3
<1> QED
  BY <1>4, <1>5, <1>6 DEF Leased, ActiveProfile

\* A profile that load_sessions finds has the saved contents.
LEMMA ConfiguredIs ==
  ASSUME TableTypes, NEW p \in Profiles, NEW v \in Configured(p), v # None
  PROVE  v = config[p] /\ v \in Versions
BY DEF TableTypes, Configured

\* What holds a profile's lease.
LEMMA LeasedBy ==
  /\ \A p \in Profiles : op[p] # None => Leased(p)
  /\ \A a \in active : Leased(a.profile)
  /\ \A j \in cleanup : Leased(j.lease)
BY DEF Leased, ActiveProfile

\* CheckContainerSession keeps the invariant.
LEMMA CheckKeeps ==
  ASSUME SessionsInv, NEW p \in Profiles, CheckContainerSession(p)
  PROVE  SessionsInv'
<1>1. PICK v \in Configured(p) \ {None} :
        /\ op[p] = None /\ p \notin checks
        /\ op' = [op EXCEPT ![p] = NewOperation(p, v, FALSE)]
        /\ nextGen' = nextGen + 1
        /\ checks' = checks \cup {p}
        /\ tasks' = tasks \cup {NewTask("check", p, nextGen, v, None)}
  BY DEF CheckContainerSession
<1>2. UNCHANGED <<validated, pendDisplay, pendLaunch, workers, active, cleanup, identities,
                  managed, pendManaged, config, edits>>
  BY DEF CheckContainerSession, displayVars, configVars
<1>3. v = config[p] /\ v \in Versions
  BY ConfiguredIs DEF SessionsInv
<1> DEFINE e == NewOperation(p, v, FALSE)
           t0 == NewTask("check", p, nextGen, v, None)
<1>4. nextGen \in Gens /\ nextGen \in Nat
  BY LedgerFacts DEF SessionsInv, Kept
<1>5. e \in Operation /\ e.gen = nextGen /\ e.res = None /\ e # None /\ e.ver = v /\ ~e.launch
  <2>1. e \in Operation
    BY <1>3, <1>4 DEF NewOperation, Operation
  <2> QED
    BY <2>1 DEF NewOperation
<1> HIDE DEF e
<1>6. op'[p] = e /\ \A q \in Profiles : q # p => op'[q] = op[q]
  BY <1>1 DEF SessionsInv, Kept, Ledger, LedgerTypes, e
<1>7. Kept'
  <2>1. Ledger([op EXCEPT ![p] = e], active, cleanup, identities, nextGen + 1)
    BY <1>1, <1>5, NewOperationKeeps DEF SessionsInv, Kept
  <2> QED
    BY <1>1, <1>2, <2>1 DEF Kept, e
<1>8. t0 \in Task /\ t0.kind = "check" /\ t0.profile = p /\ t0 = CheckOf(p, e)
  BY <1>3, <1>4, <1>5 DEF NewTask, Task, CheckOf, Gens
<1> HIDE DEF t0
<1>8a. tasks' = tasks \cup {t0}
  BY <1>1 DEF t0
<1>9. Tracked'
  <2>1. ASSUME NEW q \in Profiles, q # p PROVE RowOf(q)'
    <3>1. SameRow(q)
      BY <1>1, <1>2, <1>6, <1>8, <1>8a, <2>1 DEF SameRow
    <3> QED
      BY <3>1, RowKept DEF SessionsInv, Tracked
  <2>2. RowOf(p)'
    <3>1. RowOf(p)
      BY DEF SessionsInv, Tracked
    <3>2. validated[p] = None /\ pendDisplay[p] = None /\ pendLaunch[p] = None /\ p \notin workers
      BY <1>1, <3>1 DEF RowOf, Row, AllSlots
    <3>3. \A t \in tasks' : t.profile = p /\ t.kind \in WorkerKinds => t = t0
      BY <1>1, <1>8, <1>8a, <3>1, <3>2 DEF RowOf, Row, WorkerKinds
    <3> QED
      BY <1>1, <1>2, <1>5, <1>6, <1>8, <1>8a, <3>2, <3>3 DEF RowOf, Row, WorkerKinds
  <2> QED
    BY <2>1, <2>2 DEF Tracked
<1>10. TableTypes' /\ TaskShapes'
  BY <1>1, <1>2, <1>8, <1>8a DEF SessionsInv, TableTypes, TaskShapes, TaskShape
<1>11. Apart'
  BY <1>2, ApartShrinks DEF SessionsInv
<1>12. Gone'
  <2>1. \A q \in Profiles : op'[q] # None => Leased(q) \/ config[q] # None
    BY <1>3, <1>6, LeasedBy
  <2> QED
    BY <1>2, <2>1, GoneStep, LeasedBy
<1> QED
  BY <1>7, <1>9, <1>10, <1>11, <1>12 DEF SessionsInv

\* A step that leaves every row alone keeps them all.
LEMMA AllRowsKept ==
  ASSUME SessionsInv, \A q \in Profiles : SameRow(q)
  PROVE  Tracked'
<1>1. ASSUME NEW q \in Profiles PROVE RowOf(q)'
  <2>1. RowOf(q) /\ SameRow(q)
    BY DEF SessionsInv, Tracked
  <2> QED
    BY <2>1, RowKept
<1> QED
  BY <1>1 DEF Tracked

\* Reaping: the ledger and the leases that are left.
LEMMA ReapKept ==
  ASSUME SessionsInv, NEW D \in SUBSET ManagedSlots, NEW X \in SUBSET active, Reap(D, X)
  PROVE  /\ Ledger(op, active', cleanup', identities, nextGen)
         /\ active' \subseteq active /\ managed' \in [Slots -> Nat]
         /\ \A s \in Slots : managed'[s] \in {managed[s], 0}
         /\ \A j \in cleanup' : j.lease \in Profiles => Leased(j.lease)
<1> DEFINE stopped == {a \in active : a.slot \in D} \cup X
           own == {SessionJob(a) : a \in stopped}
           plain == {DisplayJob(s, managed[s]) : s \in D}
<1>1. /\ managed' = [s \in Slots |-> IF s \in D THEN 0 ELSE managed[s]]
      /\ active' = active \ stopped /\ cleanup' = (cleanup \cup own) \cup plain
  BY DEF Reap
<1>2. stopped \in SUBSET active
  OBVIOUS
<1>3. ASSUME NEW k \in plain PROVE k \in Job /\ k.res = None /\ k.ident = None /\ k.lease = None
  <2>1. PICK s \in D : k = DisplayJob(s, managed[s])
    OBVIOUS
  <2>2. s \in Slots /\ managed[s] \in Nat /\ managed[s] # 0
    BY DEF ManagedSlots, SessionsInv, TableTypes
  <2> QED
    BY <2>1, <2>2 DEF DisplayJob, Job, Gens, AllSlots
<1>4. ASSUME NEW k \in own PROVE \E a \in active : k.lease = a.profile
  <2>1. PICK a \in stopped : k = SessionJob(a)
    OBVIOUS
  <2> QED
    BY <2>1, <1>2 DEF SessionJob
<1> HIDE DEF stopped, plain
<1>5. Ledger(op, active \ stopped, cleanup \cup own, identities, nextGen)
  BY <1>2, ReapingKeeps DEF SessionsInv, Kept
<1>6. plain \in SUBSET Job /\ \A k \in plain : k.res = None /\ k.ident = None
  BY <1>3
<1> HIDE DEF own
<1>7. Ledger(op, active \ stopped, (cleanup \cup own) \cup plain, identities, nextGen)
  BY <1>5, <1>6, PlainJobsKeep
<1>8. \A j \in cleanup' : j.lease \in Profiles => Leased(j.lease)
  <2> SUFFICES ASSUME NEW j \in cleanup', j.lease \in Profiles PROVE Leased(j.lease)
    OBVIOUS
  <2>1. j \in cleanup \/ j \in own \/ j \in plain
    BY <1>1
  <2>2. CASE j \in own
    BY <2>2, <1>4, LeasedBy
  <2> QED
    BY <2>1, <2>2, <1>3, LeasedBy
<1>9. managed' \in [Slots -> Nat] /\ \A s \in Slots : managed'[s] \in {managed[s], 0}
  BY <1>1 DEF SessionsInv, TableTypes
<1> QED
  BY <1>1, <1>7, <1>8, <1>9

\* The maintenance timer, which reaps dead sessions and displays, keeps the invariant.
LEMMA MaintenanceKeeps ==
  ASSUME SessionsInv, Maintenance
  PROVE  SessionsInv'
<1>1. PICK D \in SUBSET ManagedSlots, X \in SUBSET active : Reap(D, X)
  BY DEF Maintenance
<1>2. UNCHANGED <<op, identities, checks, validated, pendDisplay, pendLaunch, workers,
                  pendManaged, tasks, nextGen, config, edits>>
  BY DEF Maintenance, sessionVars, configVars
<1>3. /\ Ledger(op, active', cleanup', identities, nextGen)
      /\ active' \subseteq active /\ managed' \in [Slots -> Nat]
      /\ \A s \in Slots : managed'[s] \in {managed[s], 0}
      /\ \A j \in cleanup' : j.lease \in Profiles => Leased(j.lease)
  BY <1>1, ReapKept
<1>4. Kept'
  BY <1>2, <1>3 DEF Kept
<1>5. Tracked'
  BY <1>2, AllRowsKept DEF SameRow
<1>6. TableTypes' /\ TaskShapes'
  BY <1>2, <1>3 DEF SessionsInv, TableTypes, TaskShapes, TaskShape
<1>7. Apart'
  BY <1>2, <1>3, ApartShrinks DEF SessionsInv
<1>8. Gone'
  <2>1. \A a \in active' : Leased(a.profile)
    BY <1>3, LeasedBy
  <2> QED
    BY <1>2, <1>3, <2>1, GoneStep, LeasedBy
<1> QED
  BY <1>4, <1>5, <1>6, <1>7, <1>8 DEF SessionsInv

\* CreateManagedDisplay keeps the invariant.
LEMMA CreateManagedKeeps ==
  ASSUME SessionsInv, NEW s \in Slots, CreateManagedDisplay(s)
  PROVE  SessionsInv'
<1> DEFINE t0 == NewTask("managed", None, nextGen, None, s)
<1>1. PICK D \in SUBSET ManagedSlots :
        /\ Reap(D, {})
        /\ \/ UNCHANGED <<pendManaged, tasks, nextGen>>
           \/ /\ pendManaged' = [pendManaged EXCEPT ![s] = nextGen]
              /\ tasks' = tasks \cup {t0} /\ nextGen' = nextGen + 1
  BY DEF CreateManagedDisplay
<1>2. UNCHANGED <<op, identities, checks, validated, pendDisplay, pendLaunch, workers, config, edits>>
  BY DEF CreateManagedDisplay, sessionVars, configVars
<1>3. /\ Ledger(op, active', cleanup', identities, nextGen)
      /\ active' \subseteq active /\ managed' \in [Slots -> Nat]
      /\ \A z \in Slots : managed'[z] \in {managed[z], 0}
      /\ \A j \in cleanup' : j.lease \in Profiles => Leased(j.lease)
  <2>1. {} \in SUBSET active
    OBVIOUS
  <2> QED
    BY <1>1, <2>1, ReapKept
<1>4. nextGen \in Gens /\ nextGen \in Nat
  BY LedgerFacts DEF SessionsInv, Kept
<1>5. t0 \in Task /\ t0.kind = "managed" /\ t0.profile = None /\ t0.slot = s /\ t0.gen = nextGen
  BY <1>4 DEF NewTask, Task, AllSlots
<1> HIDE DEF t0
<1>6. tasks' = tasks \/ tasks' = tasks \cup {t0}
  BY <1>1
<1>7. nextGen' = nextGen \/ nextGen' = nextGen + 1
  BY <1>1
<1>8. Kept'
  <2>1. Ledger(op, active', cleanup', identities, nextGen + 1)
    BY <1>3, LaterKeeps
  <2> QED
    BY <1>2, <1>3, <1>7, <2>1 DEF Kept
<1>9. Tracked'
  <2>1. ASSUME NEW q \in Profiles PROVE SameRow(q)
    BY <1>2, <1>5, <1>6 DEF SameRow, WorkerKinds
  <2> QED
    BY <2>1, AllRowsKept
<1>10. TaskShapes'
  BY <1>4, <1>5, <1>6 DEF SessionsInv, TaskShapes, TaskShape
<1>11. TableTypes'
  BY <1>1, <1>2, <1>3, <1>4 DEF SessionsInv, TableTypes
<1>12. Apart'
  BY <1>2, <1>3, ApartShrinks DEF SessionsInv
<1>13. Gone'
  <2>1. \A a \in active' : Leased(a.profile)
    BY <1>3, LeasedBy
  <2> QED
    BY <1>2, <1>3, <2>1, GoneStep, LeasedBy
<1> QED
  BY <1>8, <1>9, <1>10, <1>11, <1>12, <1>13 DEF SessionsInv

\* Jobs of display workers hold nothing.
LEMMA DisplayJobKeeps ==
  ASSUME SessionsInv, NEW s \in Slots, NEW g \in Gens
  PROVE  /\ Ledger(op, active, cleanup \cup {DisplayJob(s, g)}, identities, nextGen)
         /\ DisplayJob(s, g).lease \notin Profiles
<1>1. /\ DisplayJob(s, g) \in Job /\ DisplayJob(s, g).res = None /\ DisplayJob(s, g).ident = None
      /\ DisplayJob(s, g).lease = None
  BY DEF DisplayJob, Job, AllSlots
<1>2. {DisplayJob(s, g)} \in SUBSET Job /\ \A k \in {DisplayJob(s, g)} : k.res = None /\ k.ident = None
  BY <1>1
<1> QED
  BY <1>1, <1>2, PlainJobsKeep DEF SessionsInv, Kept

\* The reply of a managed display that started keeps the invariant, also when it is stale.
LEMMA ManagedStartedKeeps ==
  ASSUME SessionsInv, NEW t \in tasks, ManagedDisplayStarted(t)
  PROVE  SessionsInv'
<1>1. /\ t.kind = "managed" /\ active' = active /\ tasks' = tasks \ {t}
      /\ t.slot \in Slots /\ t.gen \in Gens /\ t.profile = None
  BY DEF ManagedDisplayStarted, SessionsInv, TaskShapes, TaskShape
<1>2. UNCHANGED <<op, identities, checks, validated, pendDisplay, pendLaunch, workers, nextGen,
                  config, edits>>
  BY DEF ManagedDisplayStarted, sessionVars, configVars
<1>3. /\ cleanup' \in {cleanup, cleanup \cup {DisplayJob(t.slot, t.gen)}}
      /\ pendManaged' \in {pendManaged, [pendManaged EXCEPT ![t.slot] = 0]}
      /\ \/ managed' = managed
         \/ /\ managed' = [managed EXCEPT ![t.slot] = t.gen]
            /\ ~ProfileDisplayPending(t.slot) /\ ~ActiveOn(active, t.slot)
  BY DEF ManagedDisplayStarted, displayVars
<1>4. Kept'
  BY <1>1, <1>2, <1>3, DisplayJobKeeps DEF SessionsInv, Kept
<1>5. Tracked'
  BY <1>1, <1>2, AllRowsKept DEF SameRow, WorkerKinds
<1>6. TableTypes' /\ TaskShapes'
  BY <1>1, <1>2, <1>3 DEF SessionsInv, TableTypes, TaskShapes, TaskShape, Gens
<1>7. Apart'
  <2>1. CASE managed' = managed
    BY <2>1, <1>1, <1>2, ApartShrinks DEF SessionsInv
  <2>2. CASE managed' # managed
    <3>1. /\ \A a \in active : a.slot # t.slot
          /\ \A q \in Profiles : pendLaunch[q] # t.slot
      BY <2>2, <1>3 DEF ProfileDisplayPending, ActiveOn
    <3>2. \A z \in Slots : z # t.slot => managed'[z] = managed[z]
      BY <2>2, <1>1, <1>3 DEF SessionsInv, TableTypes
    <3>3. \A q \in workers : q \in Profiles /\ pendLaunch[q] \in Slots
      BY DEF SessionsInv, Tracked, RowOf, Row, TableTypes
    <3>4. Apart
      BY DEF SessionsInv
    <3>5. \A a \in active : a.own => a.slot \in Slots /\ managed'[a.slot] = 0
      BY <3>1, <3>2, <3>4 DEF Apart
    <3>6. \A q \in workers : managed'[pendLaunch[q]] = 0
      BY <3>1, <3>2, <3>3, <3>4 DEF Apart
    <3> QED
      BY <1>1, <1>2, <3>4, <3>5, <3>6 DEF Apart
  <2> QED
    BY <2>1, <2>2
<1>8. Gone'
  <2>1. ASSUME NEW j \in cleanup', j.lease \in Profiles PROVE Leased(j.lease)
    <3>1. DisplayJob(t.slot, t.gen).lease \notin Profiles
      BY <1>1, DisplayJobKeeps
    <3>2. j \in cleanup
      BY <1>3, <2>1, <3>1
    <3> QED
      BY <3>2, LeasedBy
  <2> QED
    BY <1>1, <1>2, <2>1, GoneStep, LeasedBy
<1> QED
  BY <1>4, <1>5, <1>6, <1>7, <1>8 DEF SessionsInv

\* The reply of a managed display that failed keeps the invariant.
LEMMA ManagedFailedKeeps ==
  ASSUME SessionsInv, NEW t \in tasks, ManagedDisplayFailed(t)
  PROVE  SessionsInv'
<1>1. /\ t.kind = "managed" /\ tasks' = tasks \ {t} /\ t.slot \in Slots
      /\ pendManaged' \in {pendManaged, [pendManaged EXCEPT ![t.slot] = 0]}
  BY DEF ManagedDisplayFailed, SessionsInv, TaskShapes, TaskShape
<1>2. UNCHANGED <<op, identities, checks, validated, pendDisplay, pendLaunch, workers, active,
                  cleanup, managed, nextGen, config, edits>>
  BY DEF ManagedDisplayFailed, sessionVars, configVars
<1>4. Kept'
  BY <1>2 DEF SessionsInv, Kept
<1>5. Tracked'
  BY <1>1, <1>2, AllRowsKept DEF SameRow, WorkerKinds
<1>6. TableTypes' /\ TaskShapes'
  BY <1>1, <1>2 DEF SessionsInv, TableTypes, TaskShapes, TaskShape
<1>7. Apart'
  BY <1>2, ApartShrinks DEF SessionsInv
<1>8. Gone'
  BY <1>2, GoneStep, LeasedBy
<1> QED
  BY <1>4, <1>5, <1>6, <1>7, <1>8 DEF SessionsInv

\* CloseManagedDisplay keeps the invariant.
LEMMA CloseManagedKeeps ==
  ASSUME SessionsInv, NEW s \in Slots, CloseManagedDisplay(s)
  PROVE  SessionsInv'
<1>1. UNCHANGED <<op, identities, checks, validated, pendDisplay, pendLaunch, workers, active,
                  tasks, nextGen, config, edits>>
  BY DEF CloseManagedDisplay, sessionVars, configVars
<1>2. managed[s] \in Nat
  BY DEF SessionsInv, TableTypes
<1>3. /\ \/ cleanup' = cleanup
         \/ managed[s] \in Gens /\ cleanup' = cleanup \cup {DisplayJob(s, managed[s])}
      /\ pendManaged' \in {pendManaged, [pendManaged EXCEPT ![s] = 0]}
      /\ managed' \in {managed, [managed EXCEPT ![s] = 0]}
  BY <1>2 DEF CloseManagedDisplay, Gens
<1>4. Kept'
  BY <1>1, <1>3, DisplayJobKeeps DEF SessionsInv, Kept
<1>5. Tracked'
  BY <1>1, AllRowsKept DEF SameRow
<1>6. TableTypes' /\ TaskShapes'
  BY <1>1, <1>3 DEF SessionsInv, TableTypes, TaskShapes, TaskShape
<1>7. Apart'
  <2>1. \A z \in Slots : managed'[z] \in {managed[z], 0}
    BY <1>3 DEF SessionsInv, TableTypes
  <2> QED
    BY <1>1, <2>1, ApartShrinks DEF SessionsInv
<1>8. Gone'
  <2>1. ASSUME NEW j \in cleanup', j.lease \in Profiles PROVE Leased(j.lease)
    <3>1. managed[s] \in Gens => DisplayJob(s, managed[s]).lease \notin Profiles
      BY DisplayJobKeeps
    <3>2. j \in cleanup
      BY <1>3, <2>1, <3>1
    <3> QED
      BY <3>2, LeasedBy
  <2> QED
    BY <1>1, <2>1, GoneStep, LeasedBy
<1> QED
  BY <1>4, <1>5, <1>6, <1>7, <1>8 DEF SessionsInv

\* Editing and deleting a saved profile keep the invariant: a leased one is not deleted.
LEMMA ConfigKeeps ==
  ASSUME SessionsInv, NEW p \in Profiles,
         (\E v \in Versions : EditProfile(p, v)) \/ DeleteProfile(p)
  PROVE  SessionsInv'
<1>1. UNCHANGED <<op, identities, checks, validated, pendDisplay, pendLaunch, workers, active,
                  managed, pendManaged, cleanup, tasks, nextGen>>
  BY DEF EditProfile, DeleteProfile, otherThanConfig, sessionVars, displayVars
<1>2. /\ edits < MaxEdits /\ edits' = edits + 1
      /\ \/ \E v \in Versions : config[p] # None /\ config' = [config EXCEPT ![p] = v]
         \/ ~Leased(p) /\ config' = [config EXCEPT ![p] = None]
  BY DEF EditProfile, DeleteProfile
<1>3. Kept' /\ TaskShapes'
  BY <1>1 DEF SessionsInv, Kept, TaskShapes, TaskShape
<1>4. Tracked'
  BY <1>1, AllRowsKept DEF SameRow
<1>5. TableTypes'
  BY <1>1, <1>2 DEF SessionsInv, TableTypes
<1>6. Apart'
  BY <1>1, ApartShrinks DEF SessionsInv
<1>7. Gone'
  <2>1. \A q \in Profiles : Leased(q)' = Leased(q)
    BY <1>1 DEF Leased, ActiveProfile
  <2>2. \A q \in Profiles : config[q] = None => ~Leased(q)
    BY DEF SessionsInv, Gone
  <2>3. \A q \in Profiles : config'[q] = None => config[q] = None \/ ~Leased(q)
    BY <1>2 DEF SessionsInv, TableTypes
  <2> QED
    BY <2>1, <2>2, <2>3 DEF Gone
<1> QED
  BY <1>3, <1>4, <1>5, <1>6, <1>7 DEF SessionsInv

\* The end of a cleanup job, which releases its identity and its lease, keeps the invariant.
LEMMA CleanupDoneKeeps ==
  ASSUME SessionsInv, NEW j \in cleanup, CleanupDone(j)
  PROVE  SessionsInv'
<1>1. cleanup' = cleanup \ {j} /\ identities' = Release(identities, j.res)
  BY DEF CleanupDone
<1>2. UNCHANGED <<op, checks, validated, pendDisplay, pendLaunch, workers, active, managed,
                  pendManaged, tasks, nextGen, config, edits>>
  BY DEF CleanupDone, displayVars, configVars
<1>3. Kept'
  BY <1>1, <1>2, DoneKeeps DEF SessionsInv, Kept
<1>4. Tracked'
  BY <1>2, AllRowsKept DEF SameRow
<1>5. TableTypes' /\ TaskShapes'
  BY <1>2 DEF SessionsInv, TableTypes, TaskShapes, TaskShape
<1>6. Apart'
  BY <1>2, ApartShrinks DEF SessionsInv
<1>7. Gone'
  BY <1>1, <1>2, GoneStep, LeasedBy
<1> QED
  BY <1>3, <1>4, <1>5, <1>6, <1>7 DEF SessionsInv

\* ForceStopContainerSession, which hands sessions to the cleanup queue, keeps the invariant.
LEMMA ForceStopKeeps ==
  ASSUME SessionsInv, NEW p \in Profiles, ForceStopContainerSession(p)
  PROVE  SessionsInv'
<1> DEFINE t0 == NewTask("stop", p, 0, None, None)
           X == IF op[p] # None THEN {} ELSE {a \in active : a.profile = p}
<1>1. UNCHANGED <<op, identities, checks, validated, pendDisplay, pendLaunch, workers, nextGen,
                  managed, pendManaged, config, edits>>
  BY DEF ForceStopContainerSession, displayVars, configVars
<1>2. /\ tasks' \in {tasks, tasks \cup {t0}}
      /\ \/ active' = active /\ cleanup' = cleanup
         \/ /\ active' = active \ X
            /\ cleanup' = cleanup \cup {SessionJob(a) : a \in X}
  BY DEF ForceStopContainerSession, ReapSessions
<1>3. t0 \in Task /\ t0.kind = "stop" /\ t0.profile = p
  BY DEF NewTask, Task
<1> HIDE DEF t0
<1>4. X \in SUBSET active
  OBVIOUS
<1>5. Kept'
  <2>1. Ledger(op, active \ X, cleanup \cup {SessionJob(a) : a \in X}, identities, nextGen)
    BY <1>4, ReapingKeeps DEF SessionsInv, Kept
  <2> QED
    BY <1>1, <1>2, <2>1 DEF SessionsInv, Kept
<1>6. Tracked'
  BY <1>1, <1>2, <1>3, AllRowsKept DEF SameRow, WorkerKinds
<1>7. TableTypes' /\ TaskShapes'
  BY <1>1, <1>2, <1>3 DEF SessionsInv, TableTypes, TaskShapes, TaskShape
<1>8. Apart'
  BY <1>1, <1>2, ApartShrinks DEF SessionsInv
<1>9. Gone'
  <2>1. ASSUME NEW j \in cleanup' PROVE Leased(j.lease)
    <3>1. j \in cleanup \/ \E a \in active : j = SessionJob(a)
      BY <1>2, <1>4
    <3> QED
      BY <3>1, LeasedBy DEF SessionJob
  <2>2. \A a \in active' : Leased(a.profile)
    BY <1>2, LeasedBy
  <2> QED
    BY <1>1, <2>1, <2>2, GoneStep, LeasedBy
<1> QED
  BY <1>5, <1>6, <1>7, <1>8, <1>9 DEF SessionsInv

\* A profile without an operation has no worker.
LEMMA EmptyRow ==
  ASSUME NEW p \in Profiles, op'[p] = None, p \notin checks', p \notin workers',
         validated'[p] = None, pendDisplay'[p] = None, pendLaunch'[p] = None,
         \A t \in tasks' : t.profile = p => t.kind \notin WorkerKinds
  PROVE  RowOf(p)'
BY DEF RowOf, Row, WorkerKinds

\* The workers a profile may have, by where its operation stands.
LEMMA RowFacts ==
  ASSUME SessionsInv, NEW p \in Profiles
  PROVE  /\ op[p] = None => ~WorkerPending(p) /\ validated[p] = None
         /\ ~WorkerPending(p) => /\ p \notin workers /\ p \notin checks
                                 /\ \A t \in tasks : t.profile = p => t.kind \notin WorkerKinds
         /\ op[p] # None => op[p] \in Operation /\ op[p].ver \in Versions /\ op[p].gen \in Gens
                              /\ IdentOf[op[p].ver] \in Idents
         /\ WorkerPending(p) => op[p] # None
         /\ pendLaunch[p] # None => pendLaunch[p] \in AllSlots
         /\ pendDisplay[p] # None => pendDisplay[p] \in Slots
<1>1. RowOf(p)
  BY DEF SessionsInv, Tracked
<1>2. op[p] = None => ~WorkerPending(p) /\ validated[p] = None
  BY <1>1 DEF RowOf, Row, WorkerPending
<1>3. ASSUME ~WorkerPending(p)
      PROVE  /\ p \notin workers /\ p \notin checks
             /\ \A t \in tasks : t.profile = p => t.kind \notin WorkerKinds
  BY <1>1, <1>3 DEF RowOf, Row, WorkerPending, WorkerKinds, AllSlots
<1>4. op[p] # None => op[p] \in Operation /\ op[p].ver \in Versions /\ op[p].gen \in Gens
                        /\ IdentOf[op[p].ver] \in Idents
  BY LedgerFacts DEF SessionsInv, Kept
<1>5. /\ pendLaunch[p] # None => pendLaunch[p] \in AllSlots
      /\ pendDisplay[p] # None => pendDisplay[p] \in Slots
  BY DEF SessionsInv, TableTypes
<1> QED
  BY <1>2, <1>3, <1>4, <1>5

\* An operation that is dropped leaves the ledger sound and its row empty.
LEMMA DropKept ==
  ASSUME SessionsInv, NEW p \in Profiles, DropOperation(p)
  PROVE  /\ Ledger(op', active, cleanup, identities', nextGen)
         /\ op'[p] = None /\ \A q \in Profiles : q # p => op'[q] = op[q]
<1>1. op' = [op EXCEPT ![p] = None] /\ op \in [Profiles -> Entry]
  BY DEF DropOperation, SessionsInv, Kept, Ledger, LedgerTypes
<1>2. op'[p] = None /\ \A q \in Profiles : q # p => op'[q] = op[q]
  BY <1>1
<1>3. CASE op[p] = None
  <2>1. op' = op
    BY <1>1, <1>3
  <2> QED
    BY <2>1, <1>2, <1>3 DEF SessionsInv, Kept, DropOperation
<1>4. CASE op[p] # None
  <2>1. Ledger([op EXCEPT ![p] = None], active, cleanup, Release(identities, op[p].res), nextGen)
    BY <1>4, DroppingKeeps DEF SessionsInv, Kept
  <2> QED
    BY <2>1, <1>1, <1>2, <1>4 DEF DropOperation
<1> QED
  BY <1>3, <1>4

\* A graceful stop takes no slot.
LEMMA MarkedApart ==
  ASSUME SessionsInv, NEW p \in Profiles, GracefulStop(p),
         UNCHANGED <<pendDisplay, pendLaunch, workers, managed>>
  PROVE  Apart'
<1> DEFINE M(a) == IF a.profile = p THEN [a EXCEPT !.stopping = TRUE] ELSE a
<1>1. active' = {M(a) : a \in active}
  BY DEF GracefulStop
<1>2. ASSUME NEW a \in active PROVE M(a).profile = a.profile /\ M(a).slot = a.slot /\ M(a).own = a.own
  <2>1. a \in ActiveSession
    BY LedgerFacts DEF SessionsInv, Kept
  <2> QED
    BY <2>1 DEF ActiveSession
<1>3. \A b \in active' : \E a \in active : b = M(a)
  BY <1>1
<1> HIDE DEF M
<1>4. Apart
  BY DEF SessionsInv
<1>5. ASSUME NEW b \in active'
      PROVE  /\ pendDisplay[b.profile] = None /\ pendLaunch[b.profile] = None
             /\ b.own => b.slot \in Slots /\ managed[b.slot] = 0
             /\ \A q \in Profiles : pendDisplay[q] # b.slot /\ pendLaunch[q] # b.slot
  <2>1. PICK a \in active : b = M(a)
    BY <1>3
  <2>2. b.profile = a.profile /\ b.slot = a.slot /\ b.own = a.own
    BY <1>2, <2>1
  <2> QED
    BY <1>4, <2>2 DEF Apart
<1>6. ASSUME NEW b \in active', NEW c \in active', b.profile = c.profile \/ b.slot = c.slot PROVE b = c
  <2>1. PICK a1 \in active : b = M(a1)
    BY <1>3
  <2>2. PICK a2 \in active : c = M(a2)
    BY <1>3
  <2>3. a1.profile = a2.profile \/ a1.slot = a2.slot
    BY <1>2, <1>6, <2>1, <2>2
  <2>4. a1 = a2
    BY <1>4, <2>3 DEF Apart
  <2> QED
    BY <2>1, <2>2, <2>4
<1> QED
  BY <1>4, <1>5, <1>6 DEF Apart

\* StopContainerSession and its deferred form keep the invariant.
LEMMA StopKeeps ==
  ASSUME SessionsInv, NEW p \in Profiles, StopHandler(p),
         \/ tasks' = tasks
         \/ \E t \in tasks : t.kind = "stop" /\ tasks' = tasks \ {t}
  PROVE  SessionsInv'
<1>1. UNCHANGED <<checks, pendDisplay, pendLaunch, workers, cleanup, nextGen, managed, pendManaged,
                  config, edits>>
  BY DEF StopHandler, displayVars, configVars
<1>2. GracefulStop(p)
  BY DEF StopHandler
<1>3. \A t \in tasks \cup tasks' : t.kind \in WorkerKinds => (t \in tasks' <=> t \in tasks)
  BY DEF WorkerKinds
<1>4. op \in [Profiles -> Entry]
  BY DEF SessionsInv, Kept, Ledger, LedgerTypes
<1>5. /\ Ledger(op', active, cleanup, identities', nextGen)
      /\ \A q \in Profiles : q # p => op'[q] = op[q]
      /\ op'[p] # None => op[p] # None
      /\ Tracked'
      /\ validated' \in [Profiles -> Versions \cup {None}]
  <2>1. CASE op[p] = None
    <3>1. UNCHANGED <<op, identities, validated>>
      BY <2>1 DEF StopHandler
    <3>2. Tracked'
      BY <3>1, <1>1, <1>3, AllRowsKept DEF SameRow
    <3> QED
      BY <3>1, <3>2 DEF SessionsInv, Kept, TableTypes
  <2>2. CASE op[p] # None /\ WorkerPending(p)
    <3> DEFINE e == [op[p] EXCEPT !.cancelled = TRUE]
    <3>1. op' = [op EXCEPT ![p] = e] /\ UNCHANGED <<identities, validated>>
      BY <2>2 DEF StopHandler
    <3>2. op[p] \in Operation
      BY <2>2, RowFacts
    <3>3. /\ e \in Operation /\ e.gen = op[p].gen /\ e.ver = op[p].ver /\ e.res = op[p].res
          /\ e.launch = op[p].launch
      BY <3>2 DEF Operation
    <3>4. e # None
      BY <3>3
    <3> HIDE DEF e
    <3>5. op'[p] = e /\ \A q \in Profiles : q # p => op'[q] = op[q]
      BY <1>4, <3>1
    <3>6. Ledger(op', active, cleanup, identities', nextGen)
      BY <2>2, <3>1, <3>3, FlagsKeep DEF SessionsInv, Kept
    <3>7. ASSUME NEW q \in Profiles PROVE RowOf(q)'
      <4>1. RowOf(q)
        BY DEF SessionsInv, Tracked
      <4>2. CASE q # p
        <5>1. SameRow(q)
          BY <3>1, <3>5, <4>2, <1>1, <1>3 DEF SameRow
        <5> QED
          BY <5>1, <4>1, RowKept
      <4>3. CASE q = p
        <5>1. /\ \A d : CheckOf(p, e) = CheckOf(p, op[p]) /\ DisplayOf(p, e, d) = DisplayOf(p, op[p], d)
              /\ \A d : LaunchOf(p, e, d) = LaunchOf(p, op[p], d)
          BY <3>3 DEF CheckOf, DisplayOf, LaunchOf
        <5>2. \A d : /\ CheckOf(p, e).kind \in WorkerKinds /\ DisplayOf(p, e, d).kind \in WorkerKinds
                     /\ LaunchOf(p, e, d).kind \in WorkerKinds
          BY DEF CheckOf, DisplayOf, LaunchOf, NewTask, WorkerKinds
        <5>3. \A t \in tasks' : t.kind \in WorkerKinds => t \in tasks
          BY <1>3
        <5>4. \A t \in tasks : t.kind \in WorkerKinds => t \in tasks'
          BY <1>3
        <5>5. \A t \in tasks' : t.profile = p =>
                /\ t.kind = "check" => p \in checks /\ t = CheckOf(p, e)
                /\ t.kind = "display" => pendDisplay[p] # None /\ t = DisplayOf(p, e, pendDisplay[p])
                /\ t.kind = "launch" => pendLaunch[p] # None /\ t = LaunchOf(p, e, pendLaunch[p])
          BY <4>1, <4>3, <5>1, <5>3 DEF RowOf, Row, WorkerKinds
        <5>6. /\ p \in checks => CheckOf(p, e) \in tasks'
              /\ pendDisplay[p] # None => DisplayOf(p, e, pendDisplay[p]) \in tasks'
              /\ pendLaunch[p] # None => LaunchOf(p, e, pendLaunch[p]) \in tasks'
          BY <4>1, <4>3, <5>1, <5>2, <5>4 DEF RowOf, Row
        <5>7. /\ validated[p] # None => e.ver = validated[p] /\ e.res # None
              /\ pendDisplay[p] # None \/ pendLaunch[p] # None \/ (e # None /\ e.launch) => e.res # None
              /\ p \in checks => validated[p] = None /\ pendDisplay[p] = None /\ pendLaunch[p] = None
              /\ pendDisplay[p] # None => pendLaunch[p] = None
              /\ pendLaunch[p] # None => validated[p] = None
              /\ p \in workers => pendLaunch[p] \in Slots
          BY <2>2, <4>1, <4>3, <3>3 DEF RowOf, Row
        <5> QED
          BY <1>1, <3>1, <3>4, <3>5, <4>3, <5>5, <5>6, <5>7 DEF RowOf, Row
      <4> QED
        BY <4>2, <4>3
    <3> QED
      BY <2>2, <3>1, <3>5, <3>6, <3>7 DEF Tracked, SessionsInv, TableTypes
  <2>3. CASE op[p] # None /\ ~WorkerPending(p)
    <3>1. DropOperation(p) /\ validated' = [validated EXCEPT ![p] = None]
      BY <2>3 DEF StopHandler, DropLaunch, Clear
    <3>2. validated \in [Profiles -> Versions \cup {None}]
      BY DEF SessionsInv, TableTypes
    <3>3. validated'[p] = None /\ \A q \in Profiles : q # p => validated'[q] = validated[q]
      BY <3>1, <3>2
    <3>4. op'[p] = None /\ \A q \in Profiles : q # p => op'[q] = op[q]
      BY <3>1, DropKept
    <3>5. ASSUME NEW q \in Profiles PROVE RowOf(q)'
      <4>1. CASE q # p
        <5>1. SameRow(q) /\ RowOf(q)
          BY <3>3, <3>4, <4>1, <1>1, <1>3 DEF SameRow, SessionsInv, Tracked
        <5> QED
          BY <5>1, RowKept
      <4>2. CASE q = p
        BY <4>2, <2>3, <1>1, <1>3, <3>3, <3>4, RowFacts, EmptyRow DEF WorkerPending
      <4> QED
        BY <4>1, <4>2
    <3> QED
      BY <3>1, <3>2, <3>4, <3>5, DropKept DEF Tracked
  <2> QED
    BY <2>1, <2>2, <2>3
<1>6. Kept'
  <2>1. Ledger(op', Marked(active, p), cleanup, identities', nextGen)
    BY <1>5, MarkingKeeps
  <2>2. active' = Marked(active, p)
    BY <1>2 DEF GracefulStop, Marked
  <2> QED
    BY <2>1, <2>2, <1>1 DEF Kept
<1>7. TableTypes' /\ TaskShapes'
  BY <1>1, <1>5 DEF SessionsInv, TableTypes, TaskShapes, TaskShape
<1>8. Apart'
  BY <1>1, <1>2, MarkedApart
<1>9. Gone'
  <2>1. ASSUME NEW b \in active' PROVE Leased(b.profile)
    <3>1. PICK a \in active : b = (IF a.profile = p THEN [a EXCEPT !.stopping = TRUE] ELSE a)
      BY <1>2 DEF GracefulStop
    <3>2. a \in ActiveSession /\ Leased(a.profile)
      BY LedgerFacts, LeasedBy DEF SessionsInv, Kept
    <3>3. b.profile = a.profile
      BY <3>1, <3>2 DEF ActiveSession
    <3> QED
      BY <3>2, <3>3
  <2>2. \A q \in Profiles : op'[q] # None => Leased(q)
    BY <1>5, LeasedBy
  <2> QED
    BY <1>1, <2>1, <2>2, GoneStep, LeasedBy
<1> QED
  BY <1>5, <1>6, <1>7, <1>8, <1>9 DEF SessionsInv

\* Rows are independent: a step that touches one profile has one row to answer for.
LEMMA RowsFollow ==
  ASSUME SessionsInv, NEW p \in Profiles, \A q \in Profiles : q # p => SameRow(q), RowOf(p)'
  PROVE  Tracked'
<1>1. ASSUME NEW q \in Profiles PROVE RowOf(q)'
  <2>1. CASE q = p
    BY <2>1
  <2>2. CASE q # p
    <3>1. RowOf(q) /\ SameRow(q)
      BY <2>2 DEF SessionsInv, Tracked
    <3> QED
      BY <3>1, RowKept
  <2> QED
    BY <2>1, <2>2
<1> QED
  BY <1>1 DEF Tracked

\* A display or launch worker is always the one that its profile waits for.
LEMMA WorkerFacts ==
  ASSUME SessionsInv, NEW t \in tasks, t.kind \in WorkerKinds
  PROVE  LET p == t.profile IN
         /\ p \in Profiles /\ op[p] # None /\ op[p] \in Operation /\ t.gen = op[p].gen
         /\ \A u \in tasks : u.profile = p /\ u.kind \in WorkerKinds => u = t
         /\ t.kind = "check" => /\ p \in checks /\ t.ver = op[p].ver /\ validated[p] = None
                                /\ pendDisplay[p] = None /\ pendLaunch[p] = None /\ p \notin workers
         /\ t.kind = "display" => /\ t.slot = pendDisplay[p] /\ t.slot \in Slots /\ p \notin checks
                                  /\ pendLaunch[p] = None /\ p \notin workers /\ op[p].res # None
         /\ t.kind = "launch" => /\ t.slot = pendLaunch[p] /\ t.slot \in AllSlots /\ p \notin checks
                                 /\ pendDisplay[p] = None /\ validated[p] = None /\ op[p].res # None
                                 /\ t.ver = op[p].ver
<1> DEFINE p == t.profile
<1>1. p \in Profiles
  BY DEF SessionsInv, TaskShapes, TaskShape, WorkerKinds
<1>2. RowOf(p)
  BY <1>1 DEF SessionsInv, Tracked
<1>3. /\ t.kind = "check" => p \in checks /\ t = CheckOf(p, op[p])
      /\ t.kind = "display" => pendDisplay[p] # None /\ t = DisplayOf(p, op[p], pendDisplay[p])
      /\ t.kind = "launch" => pendLaunch[p] # None /\ t = LaunchOf(p, op[p], pendLaunch[p])
  BY <1>2 DEF RowOf, Row
<1>4. /\ t.kind = "check" => p \in checks /\ t.gen = op[p].gen /\ t.ver = op[p].ver
      /\ t.kind = "display" => pendDisplay[p] # None /\ t.gen = op[p].gen /\ t.slot = pendDisplay[p]
      /\ t.kind = "launch" => /\ pendLaunch[p] # None /\ t.gen = op[p].gen /\ t.slot = pendLaunch[p]
                              /\ t.ver = op[p].ver
  BY <1>3 DEF CheckOf, DisplayOf, LaunchOf, NewTask
<1>5. WorkerPending(p)
  BY <1>3 DEF WorkerPending, WorkerKinds
<1>6. op[p] # None /\ op[p] \in Operation
  BY <1>1, <1>5, RowFacts
<1>7. /\ p \in checks => validated[p] = None /\ pendDisplay[p] = None /\ pendLaunch[p] = None
      /\ pendDisplay[p] # None => pendLaunch[p] = None
      /\ pendLaunch[p] # None => validated[p] = None
      /\ p \in workers => pendLaunch[p] # None
      /\ pendDisplay[p] # None \/ pendLaunch[p] # None => op[p].res # None
  BY <1>2 DEF RowOf, Row, AllSlots
<1>8. \A u \in tasks : u.profile = p /\ u.kind \in WorkerKinds => u = t
  <2> TAKE u \in tasks
  <2> HAVE u.profile = p /\ u.kind \in WorkerKinds
  <2>1. /\ u.kind = "check" => p \in checks /\ u = CheckOf(p, op[p])
        /\ u.kind = "display" => pendDisplay[p] # None /\ u = DisplayOf(p, op[p], pendDisplay[p])
        /\ u.kind = "launch" => pendLaunch[p] # None /\ u = LaunchOf(p, op[p], pendLaunch[p])
    BY <1>2 DEF RowOf, Row
  <2> QED
    BY <1>3, <1>7, <2>1 DEF WorkerKinds
<1>9. /\ pendLaunch[p] # None => pendLaunch[p] \in AllSlots
      /\ pendDisplay[p] # None => pendDisplay[p] \in Slots
  BY <1>1, RowFacts
<1> QED
  BY <1>1, <1>4, <1>6, <1>7, <1>8, <1>9 DEF WorkerKinds

\* The reply of a dedicated display that failed keeps the invariant.
LEMMA DisplayFailedKeeps ==
  ASSUME SessionsInv, NEW t \in tasks, DedicatedDisplayFailed(t)
  PROVE  SessionsInv'
<1> DEFINE p == t.profile
<1>1. t.kind = "display" /\ tasks' = tasks \ {t}
  BY DEF DedicatedDisplayFailed, DisplayReply
<1>2. UNCHANGED <<checks, pendLaunch, workers, active, cleanup, nextGen, managed, pendManaged,
                  config, edits>>
  BY DEF DedicatedDisplayFailed, displayVars, configVars
<1>3. /\ p \in Profiles /\ op[p] # None /\ t.gen = op[p].gen /\ t.slot = pendDisplay[p]
      /\ t.slot \in Slots /\ p \notin checks /\ pendLaunch[p] = None /\ p \notin workers
      /\ \A u \in tasks : u.profile = p /\ u.kind \in WorkerKinds => u = t
  BY <1>1, WorkerFacts DEF WorkerKinds
<1>4. DisplayExpected(t)
  BY <1>3 DEF DisplayExpected, CurrentOperation
<1>5. /\ pendDisplay' = [pendDisplay EXCEPT ![p] = None]
      /\ DropOperation(p) /\ validated' = [validated EXCEPT ![p] = None]
  BY <1>4 DEF DedicatedDisplayFailed, DropLaunch, Clear
<1>6. TableTypes
  BY DEF SessionsInv
<1>7. /\ pendDisplay'[p] = None /\ validated'[p] = None
      /\ \A q \in Profiles : q # p => pendDisplay'[q] = pendDisplay[q] /\ validated'[q] = validated[q]
  BY <1>3, <1>5, <1>6 DEF TableTypes
<1>8. /\ Ledger(op', active, cleanup, identities', nextGen)
      /\ op'[p] = None /\ \A q \in Profiles : q # p => op'[q] = op[q]
  BY <1>3, <1>5, DropKept
<1>9. Kept'
  BY <1>2, <1>8 DEF Kept
<1>10. Tracked'
  <2>1. \A q \in Profiles : q # p => SameRow(q)
    BY <1>1, <1>2, <1>7, <1>8 DEF SameRow
  <2>2. RowOf(p)'
    BY <1>1, <1>2, <1>3, <1>7, <1>8, EmptyRow
  <2> QED
    BY <1>3, <2>1, <2>2, RowsFollow
<1>11. TableTypes' /\ TaskShapes'
  BY <1>1, <1>2, <1>3, <1>5 DEF SessionsInv, TableTypes, TaskShapes, TaskShape
<1>12. Apart'
  BY <1>2, <1>7, ApartShrinks DEF SessionsInv
<1>13. Gone'
  <2>1. \A q \in Profiles : op'[q] # None => Leased(q)
    BY <1>8, LeasedBy
  <2> QED
    BY <1>2, <2>1, GoneStep, LeasedBy
<1> QED
  BY <1>9, <1>10, <1>11, <1>12, <1>13 DEF SessionsInv

\* The operation of p goes into a cleanup job, after sessions X were reaped.
LEMMA MovingToJob ==
  ASSUME SessionsInv, NEW p \in Profiles, op[p] # None, NEW s \in AllSlots, NEW X \in SUBSET active,
         NEW i, i = None \/ (op[p].res # None /\ i = IdentOf[op[p].ver])
  PROVE  LET k == LaunchJob(p, s, op[p].gen, op[p].res, i) IN
         /\ Ledger([op EXCEPT ![p] = None], active \ X,
                   (cleanup \cup {SessionJob(a) : a \in X}) \cup {k}, identities, nextGen)
         /\ k.lease = p
<1> DEFINE k == LaunchJob(p, s, op[p].gen, op[p].res, i)
           C == cleanup \cup {SessionJob(a) : a \in X}
<1>1. Ledger(op, active \ X, C, identities, nextGen)
  BY ReapingKeeps DEF SessionsInv, Kept
<1>2. /\ op[p].gen \in Gens /\ op[p].res \in Reservation \cup {None} /\ IdentOf[op[p].ver] \in Idents
  BY LedgerFacts DEF SessionsInv, Kept
<1>3. k \in Job /\ k.gen = op[p].gen /\ k.lease = p /\ k.res = op[p].res /\ k.ident = i
  BY <1>2 DEF LaunchJob, Job
<1> HIDE DEF k, C
<1>4. Ledger([op EXCEPT ![p] = None], active \ X, C \cup {k}, identities, nextGen)
  BY <1>1, <1>3, BecomingJobKeeps
<1> QED
  BY <1>3, <1>4 DEF k, C

\* A display is up: its slot is taken by the launch on the worker of its own.
LEMMA ApartMoves ==
  ASSUME SessionsInv, NEW p \in Profiles, pendDisplay[p] # None, active' \subseteq active,
         pendDisplay' = [pendDisplay EXCEPT ![p] = None],
         pendLaunch' = [pendLaunch EXCEPT ![p] = pendDisplay[p]],
         workers' = workers \cup {p}, managed' = managed, managed[pendDisplay[p]] = 0
  PROVE  Apart'
<1>1. TableTypes /\ Apart
  BY DEF SessionsInv
<1>2. /\ pendDisplay'[p] = None /\ pendLaunch'[p] = pendDisplay[p]
      /\ \A q \in Profiles : q # p => pendDisplay'[q] = pendDisplay[q] /\ pendLaunch'[q] = pendLaunch[q]
  BY <1>1 DEF TableTypes
<1>3. \A a \in active : a.slot # None /\ a.profile \in Profiles
  BY LedgerFacts DEF SessionsInv, Kept
<1>4. \A q \in workers : q \in Profiles
  BY <1>1 DEF TableTypes
<1>5. \A a \in active' : /\ pendDisplay'[a.profile] = None /\ pendLaunch'[a.profile] = None
                         /\ a.own => a.slot \in Slots /\ managed'[a.slot] = 0
                         /\ \A q \in Profiles : pendDisplay'[q] # a.slot /\ pendLaunch'[q] # a.slot
  <2> TAKE a \in active'
  <2>1. /\ a \in active /\ pendDisplay[a.profile] = None /\ pendLaunch[a.profile] = None
        /\ a.own => a.slot \in Slots /\ managed[a.slot] = 0
        /\ \A q \in Profiles : pendDisplay[q] # a.slot /\ pendLaunch[q] # a.slot
    BY <1>1 DEF Apart
  <2> QED
    BY <1>2, <1>3, <2>1
<1>6. \A a, b \in active' : a.profile = b.profile \/ a.slot = b.slot => a = b
  BY <1>1 DEF Apart
<1>7. \A q, r \in Profiles : q # r =>
         /\ pendDisplay'[q] # None => pendDisplay'[r] # pendDisplay'[q] /\ pendLaunch'[r] # pendDisplay'[q]
         /\ pendLaunch'[q] # None => pendLaunch'[r] # pendLaunch'[q]
  BY <1>1, <1>2 DEF Apart
<1>8. \A q \in workers' : managed'[pendLaunch'[q]] = 0
  <2> TAKE q \in workers'
  <2>1. q = p \/ (q # p /\ q \in workers /\ q \in Profiles)
    BY <1>4
  <2> QED
    BY <1>1, <1>2, <2>1 DEF Apart
<1> QED
  BY <1>5, <1>6, <1>7, <1>8 DEF Apart

\* The reply of a dedicated display that started, expected or late, keeps the invariant.
LEMMA DisplayStartedKeeps ==
  ASSUME SessionsInv, NEW t \in tasks, DedicatedDisplayStarted(t)
  PROVE  SessionsInv'
<1> DEFINE p == t.profile
<1>1. t.kind = "display"
  BY DEF DedicatedDisplayStarted, DisplayReply
<1>2. UNCHANGED <<checks, nextGen, managed, pendManaged, config, edits>>
  BY DEF DedicatedDisplayStarted, displayVars, configVars
<1>3. /\ p \in Profiles /\ op[p] # None /\ op[p] \in Operation /\ t.gen = op[p].gen
      /\ t.slot = pendDisplay[p] /\ t.slot \in Slots /\ p \notin checks /\ pendLaunch[p] = None
      /\ p \notin workers /\ op[p].res # None
      /\ \A u \in tasks : u.profile = p /\ u.kind \in WorkerKinds => u = t
  BY <1>1, WorkerFacts DEF WorkerKinds
<1>4. DisplayExpected(t)
  BY <1>3 DEF DisplayExpected, CurrentOperation
<1>5. TableTypes /\ op \in [Profiles -> Entry]
  BY DEF SessionsInv, Kept, Ledger, LedgerTypes
<1>6. PICK X \in SUBSET active :
        LET jobs == cleanup \cup {SessionJob(a) : a \in X} IN
        /\ active' = active \ X
        /\ \/ AbandonDisplay(p, t, jobs)
           \/ /\ validated[p] # None /\ ~SlotTaken(p, t.slot)
              /\ LaunchOnWorker(p, t) /\ cleanup' = jobs
  <2>1. CASE op[p].cancelled \/ SlotTaken(p, t.slot)
    <3>1. AbandonDisplay(p, t, cleanup) /\ active' = active
      BY <2>1, <1>4 DEF DedicatedDisplayStarted
    <3>2. cleanup = cleanup \cup {SessionJob(a) : a \in {}} /\ active' = active \ {}
      BY <3>1
    <3>3. {} \in SUBSET active
      OBVIOUS
    <3> QED
      BY <3>1, <3>2, <3>3
  <2>2. CASE ~(op[p].cancelled \/ SlotTaken(p, t.slot))
    <3>1. PICK X \in SUBSET active :
            LET jobs == cleanup \cup {SessionJob(a) : a \in X} IN
            /\ active' = active \ X
            /\ IF \/ ActiveProfile(active', p) \/ ActiveOn(active', t.slot) \/ validated[p] = None
               THEN AbandonDisplay(p, t, jobs)
               ELSE LaunchOnWorker(p, t) /\ cleanup' = jobs
      BY <2>2, <1>4 DEF DedicatedDisplayStarted
    <3> QED
      BY <2>2, <3>1
  <2> QED
    BY <2>1, <2>2
<1>7. pendDisplay' = [pendDisplay EXCEPT ![p] = None]
  BY <1>4 DEF DedicatedDisplayStarted, Clear
<1>8. pendDisplay'[p] = None /\ \A q \in Profiles : q # p => pendDisplay'[q] = pendDisplay[q]
  BY <1>3, <1>5, <1>7 DEF TableTypes
<1> DEFINE jobs == cleanup \cup {SessionJob(a) : a \in X}
<1>9. ASSUME NEW j \in jobs PROVE Leased(j.lease)
  <2>1. j \in cleanup \/ \E a \in active : j = SessionJob(a)
    OBVIOUS
  <2> QED
    BY <2>1, LeasedBy DEF SessionJob
<1>10. CASE AbandonDisplay(p, t, jobs)
  <2> DEFINE k == LaunchJob(p, t.slot, op[p].gen, op[p].res, None)
  <2>1. /\ cleanup' = jobs \cup {k} /\ validated' = [validated EXCEPT ![p] = None]
        /\ op' = [op EXCEPT ![p] = None] /\ identities' = identities
        /\ tasks' = tasks \ {t} /\ UNCHANGED <<pendLaunch, workers>>
    BY <1>3, <1>10 DEF AbandonDisplay, MoveOperation, Clear
  <2>2. /\ op'[p] = None /\ \A q \in Profiles : q # p => op'[q] = op[q]
        /\ validated'[p] = None /\ \A q \in Profiles : q # p => validated'[q] = validated[q]
    BY <1>3, <1>5, <2>1 DEF TableTypes
  <2>3. t.slot \in AllSlots
    BY <1>3 DEF AllSlots
  <2>4. Ledger(op', active', cleanup', identities', nextGen) /\ k.lease = p
    <3>1. /\ Ledger([op EXCEPT ![p] = None], active \ X, jobs \cup {k}, identities, nextGen)
          /\ k.lease = p
      <4>1. /\ p \in Profiles /\ op[p] # None
        BY <1>3
      <4> HIDE DEF jobs, k
      <4>2. LET m == LaunchJob(p, t.slot, op[p].gen, op[p].res, None) IN
            /\ Ledger([op EXCEPT ![p] = None], active \ X,
                      (cleanup \cup {SessionJob(a) : a \in X}) \cup {m}, identities, nextGen)
            /\ m.lease = p
        BY <4>1, <2>3, MovingToJob
      <4> QED
        BY <4>2 DEF jobs, k
    <3> QED
      BY <3>1, <2>1, <1>6
  <2>5. Kept'
    BY <2>4, <1>2 DEF Kept
  <2>6. Tracked'
    <3>1. \A q \in Profiles : q # p => SameRow(q)
      BY <1>2, <1>8, <2>1, <2>2 DEF SameRow
    <3>2. RowOf(p)'
      BY <1>1, <1>2, <1>3, <1>8, <2>1, <2>2, EmptyRow
    <3> QED
      BY <1>3, <3>1, <3>2, RowsFollow
  <2>7. TableTypes' /\ TaskShapes'
    BY <1>2, <1>3, <1>7, <2>1 DEF SessionsInv, TableTypes, TaskShapes, TaskShape
  <2>8. Apart'
    BY <1>2, <1>6, <1>8, <2>1, ApartShrinks DEF SessionsInv
  <2>9. Gone'
    <3>1. \A q \in Profiles : op'[q] # None => Leased(q)
      BY <2>2, LeasedBy
    <3>2. \A j \in cleanup' : Leased(j.lease)
      BY <1>3, <1>9, <2>1, <2>4, LeasedBy
    <3>3. \A a \in active' : Leased(a.profile)
      BY <1>6, LeasedBy
    <3> QED
      BY <1>2, <3>1, <3>2, <3>3, GoneStep
  <2> QED
    BY <2>5, <2>6, <2>7, <2>8, <2>9 DEF SessionsInv
<1>11. CASE validated[p] # None /\ ~SlotTaken(p, t.slot) /\ LaunchOnWorker(p, t) /\ cleanup' = jobs
  <2> DEFINE t0 == NewTask("launch", p, t.gen, validated[p], t.slot)
  <2>1. /\ workers' = workers \cup {p} /\ pendLaunch' = [pendLaunch EXCEPT ![p] = t.slot]
        /\ validated' = [validated EXCEPT ![p] = None] /\ tasks' = (tasks \ {t}) \cup {t0}
        /\ UNCHANGED <<op, identities>>
    BY <1>11 DEF LaunchOnWorker, Clear
  <2>2. RowOf(p)
    BY <1>3 DEF SessionsInv, Tracked
  <2>3. validated[p] = op[p].ver /\ validated[p] \in Versions
    BY <1>3, <1>5, <1>11, <2>2 DEF RowOf, Row, TableTypes
  <2>4. /\ t0 = LaunchOf(p, op[p], t.slot) /\ t0.kind = "launch" /\ t0.profile = p /\ t0 \in Task
    <3>1. op[p].gen \in Nat
      BY <1>3 DEF Operation, Gens
    <3> QED
      BY <1>3, <2>3, <3>1 DEF NewTask, LaunchOf, Task, AllSlots
  <2> HIDE DEF t0
  <2>5. /\ pendLaunch'[p] = t.slot /\ validated'[p] = None /\ p \in workers' /\ t.slot # None
        /\ \A q \in Profiles : q # p => pendLaunch'[q] = pendLaunch[q] /\ validated'[q] = validated[q]
    BY <1>3, <1>5, <2>1 DEF TableTypes, AllSlots
  <2>6. Kept'
    <3>1. Ledger(op, active \ X, jobs, identities, nextGen)
      BY ReapingKeeps DEF SessionsInv, Kept
    <3> QED
      BY <1>2, <1>6, <1>11, <2>1, <3>1 DEF Kept
  <2>7. Tracked'
    <3>1. \A q \in Profiles : q # p => SameRow(q)
      BY <1>2, <1>8, <2>1, <2>4, <2>5 DEF SameRow
    <3>2. \A u \in tasks' : u.profile = p /\ u.kind \in WorkerKinds => u = t0
      BY <1>3, <2>1
    <3>3. RowOf(p)'
      BY <1>2, <1>3, <1>8, <2>1, <2>4, <2>5, <3>2 DEF RowOf, Row, WorkerKinds
    <3> QED
      BY <1>3, <3>1, <3>3, RowsFollow
  <2>8. TableTypes'
    BY <1>2, <1>3, <1>7, <2>1 DEF SessionsInv, TableTypes, AllSlots
  <2>9. TaskShapes'
    BY <1>3, <2>1, <2>4 DEF SessionsInv, TaskShapes, TaskShape
  <2>10. Apart'
    <3>1. managed[t.slot] = 0
      BY <1>11 DEF SlotTaken
    <3> QED
      BY <1>2, <1>3, <1>6, <1>7, <2>1, <2>5, <3>1, ApartMoves
  <2>11. Gone'
    <3>1. \A a \in active' : Leased(a.profile)
      BY <1>6, LeasedBy
    <3> QED
      BY <1>2, <1>9, <1>11, <2>1, <3>1, GoneStep, LeasedBy
  <2> QED
    BY <2>6, <2>7, <2>8, <2>9, <2>10, <2>11 DEF SessionsInv
<1> QED
  BY <1>6, <1>10, <1>11

\* A launched container becomes a session on the slot it was launched for.
LEMMA ApartSettles ==
  ASSUME SessionsInv, NEW p \in Profiles, pendLaunch[p] # None, NEW b \in ActiveSession,
         b.profile = p, b.slot = pendLaunch[p], b.own = (p \in workers),
         active' = active \cup {b}, pendLaunch' = [pendLaunch EXCEPT ![p] = None],
         workers' = workers \ {p}, UNCHANGED <<pendDisplay, managed>>
  PROVE  Apart'
<1>1. TableTypes /\ Apart /\ RowOf(p)
  BY DEF SessionsInv, Tracked
<1>2. /\ pendLaunch'[p] = None
      /\ \A q \in Profiles : q # p => pendLaunch'[q] = pendLaunch[q]
  BY <1>1 DEF TableTypes
<1>3. \A a \in active : a.slot # None /\ a.profile \in Profiles
  BY LedgerFacts DEF SessionsInv, Kept
<1>4. /\ pendDisplay[p] = None /\ (p \in workers => pendLaunch[p] \in Slots)
  BY <1>1 DEF RowOf, Row
<1>5. \A a \in active : /\ a.profile # p /\ a.slot # b.slot
                        /\ pendDisplay[a.profile] = None /\ pendLaunch[a.profile] = None
                        /\ a.own => a.slot \in Slots /\ managed[a.slot] = 0
                        /\ \A q \in Profiles : pendDisplay[q] # a.slot /\ pendLaunch[q] # a.slot
  BY <1>1 DEF Apart
<1>6. \A q \in Profiles : pendDisplay[q] # b.slot /\ (q # p => pendLaunch[q] # b.slot)
  <2>1. /\ b.slot = pendLaunch[p] /\ b.slot # None
    OBVIOUS
  <2>2. ASSUME NEW q \in Profiles, q # p PROVE pendDisplay[q] # b.slot /\ pendLaunch[q] # b.slot
    <3>1. /\ pendDisplay[q] # None => pendLaunch[p] # pendDisplay[q]
          /\ pendLaunch[p] # None => pendLaunch[q] # pendLaunch[p]
      BY <1>1, <2>2 DEF Apart
    <3> QED
      BY <2>1, <3>1
  <2> QED
    BY <2>1, <2>2, <1>4
<1>7. b.own => b.slot \in Slots /\ managed[b.slot] = 0
  <2>1. \A q \in workers : managed[pendLaunch[q]] = 0
    BY <1>1 DEF Apart
  <2> QED
    BY <1>4, <2>1
<1>8. \A a \in active' : /\ pendDisplay'[a.profile] = None /\ pendLaunch'[a.profile] = None
                         /\ a.own => a.slot \in Slots /\ managed'[a.slot] = 0
                         /\ \A q \in Profiles : pendDisplay'[q] # a.slot /\ pendLaunch'[q] # a.slot
  <2> TAKE a \in active'
  <2>1. CASE a = b
    <3>1. \A q \in Profiles : pendLaunch'[q] # b.slot
      BY <1>2, <1>6
    <3> QED
      BY <2>1, <3>1, <1>2, <1>4, <1>6, <1>7
  <2>2. CASE a \in active
    BY <2>2, <1>2, <1>3, <1>5
  <2> QED
    BY <2>1, <2>2
<1>9. \A a, c \in active' : a.profile = c.profile \/ a.slot = c.slot => a = c
  BY <1>1, <1>5 DEF Apart
<1>10. \A q, r \in Profiles : q # r =>
         /\ pendDisplay'[q] # None => pendDisplay'[r] # pendDisplay'[q] /\ pendLaunch'[r] # pendDisplay'[q]
         /\ pendLaunch'[q] # None => pendLaunch'[r] # pendLaunch'[q]
  BY <1>1, <1>2 DEF Apart
<1>11. \A q \in workers' : managed'[pendLaunch'[q]] = 0
  BY <1>1, <1>2 DEF Apart, TableTypes
<1> QED
  BY <1>8, <1>9, <1>10, <1>11 DEF Apart

\* The reply of a launch, kept or rolled back, keeps the invariant.
LEMMA LaunchFinishedKeeps ==
  ASSUME SessionsInv, NEW t \in tasks, NEW ok \in BOOLEAN, ContainerSessionLaunchFinished(t, ok)
  PROVE  SessionsInv'
<1> DEFINE p == t.profile
           k(i) == LaunchJob(p, t.slot, op[p].gen, op[p].res, i)
           b == [profile |-> p, gen |-> op[p].gen, ver |-> op[p].ver, slot |-> t.slot,
                 own |-> p \in workers, stopping |-> FALSE, res |-> op[p].res]
<1>1. t.kind = "launch" /\ tasks' = tasks \ {t}
  BY DEF ContainerSessionLaunchFinished
<1>2. UNCHANGED <<checks, validated, pendDisplay, nextGen, managed, pendManaged, config, edits>>
  BY DEF ContainerSessionLaunchFinished, displayVars, configVars
<1>3. /\ p \in Profiles /\ op[p] # None /\ op[p] \in Operation /\ t.gen = op[p].gen
      /\ t.slot = pendLaunch[p] /\ t.slot \in AllSlots /\ p \notin checks /\ t.ver = op[p].ver
      /\ pendDisplay[p] = None /\ validated[p] = None /\ op[p].res # None
      /\ \A u \in tasks : u.profile = p /\ u.kind \in WorkerKinds => u = t
  BY <1>1, WorkerFacts DEF WorkerKinds
<1>4. LaunchExpected(t)
  BY <1>3 DEF LaunchExpected, CurrentOperation
<1>5. TableTypes /\ op \in [Profiles -> Entry]
  BY DEF SessionsInv, Kept, Ledger, LedgerTypes
<1>6. pendLaunch' = [pendLaunch EXCEPT ![p] = None] /\ workers' = workers \ {p}
  BY <1>4 DEF ContainerSessionLaunchFinished, Clear
<1>7. pendLaunch'[p] = None /\ \A q \in Profiles : q # p => pendLaunch'[q] = pendLaunch[q]
  BY <1>3, <1>5, <1>6 DEF TableTypes
<1>8. \/ \E i \in {None, IdentOf[op[p].ver]} :
           /\ cleanup' = cleanup \cup {k(i)} /\ MoveOperation(p) /\ UNCHANGED active
      \/ /\ active' = active \cup {b} /\ MoveOperation(p) /\ UNCHANGED cleanup
      \/ DropOperation(p) /\ UNCHANGED <<active, cleanup>>
  <2>1. CASE MustRollBack(p)
    BY <1>3, <1>4, <2>1 DEF ContainerSessionLaunchFinished, Container
  <2>2. CASE ~MustRollBack(p)
    <3>1. CompleteLaunch(p, t, ok)
      BY <1>4, <2>2 DEF ContainerSessionLaunchFinished
    <3> QED
      BY <1>3, <3>1 DEF CompleteLaunch
  <2> QED
    BY <2>1, <2>2
<1>9. op'[p] = None /\ \A q \in Profiles : q # p => op'[q] = op[q]
  BY <1>3, <1>5, <1>8 DEF MoveOperation, DropOperation
<1>10. Tracked'
  <2>1. \A q \in Profiles : q # p => SameRow(q)
    BY <1>1, <1>2, <1>6, <1>7, <1>9 DEF SameRow
  <2>2. RowOf(p)'
    BY <1>1, <1>2, <1>3, <1>6, <1>7, <1>9, EmptyRow
  <2> QED
    BY <1>3, <2>1, <2>2, RowsFollow
<1>11. TableTypes' /\ TaskShapes'
  BY <1>1, <1>2, <1>3, <1>6 DEF SessionsInv, TableTypes, TaskShapes, TaskShape
<1>12. \A q \in Profiles : op'[q] # None => Leased(q)
  BY <1>9, LeasedBy
<1>13. CASE \E i \in {None, IdentOf[op[p].ver]} :
              /\ cleanup' = cleanup \cup {k(i)} /\ MoveOperation(p) /\ UNCHANGED active
  <2>1. PICK i \in {None, IdentOf[op[p].ver]} :
          /\ cleanup' = cleanup \cup {k(i)} /\ MoveOperation(p) /\ UNCHANGED active
    BY <1>13
  <2>2. LET m == LaunchJob(p, t.slot, op[p].gen, op[p].res, i) IN
        /\ Ledger([op EXCEPT ![p] = None], active \ {},
                  (cleanup \cup {SessionJob(a) : a \in {}}) \cup {m}, identities, nextGen)
        /\ m.lease = p
    <3> DEFINE X == {}
    <3>1. X \in SUBSET active
      OBVIOUS
    <3>2. /\ p \in Profiles /\ op[p] # None /\ t.slot \in AllSlots
          /\ i = None \/ (op[p].res # None /\ i = IdentOf[op[p].ver])
      BY <1>3
    <3> HIDE DEF p, X
    <3>3. LET m == LaunchJob(p, t.slot, op[p].gen, op[p].res, i) IN
          /\ Ledger([op EXCEPT ![p] = None], active \ X,
                    (cleanup \cup {SessionJob(a) : a \in X}) \cup {m}, identities, nextGen)
          /\ m.lease = p
      BY <3>1, <3>2, MovingToJob
    <3> QED
      BY <3>3 DEF X, p
  <2>3. Ledger(op', active', cleanup', identities', nextGen) /\ k(i).lease = p
    <3>1. active \ {} = active' /\ (cleanup \cup {SessionJob(a) : a \in {}}) \cup {k(i)} = cleanup'
      BY <2>1
    <3>2. op' = [op EXCEPT ![p] = None] /\ identities' = identities
      BY <2>1 DEF MoveOperation
    <3> QED
      BY <2>2, <3>1, <3>2
  <2>4. Kept'
    BY <2>3, <1>2 DEF Kept
  <2>5. Apart'
    BY <1>2, <1>6, <1>7, <2>1, ApartShrinks DEF SessionsInv
  <2>6. Gone'
    <3>1. \A j \in cleanup' : Leased(j.lease)
      BY <1>3, <2>1, <2>3, LeasedBy
    <3> QED
      BY <1>2, <1>12, <2>1, <3>1, GoneStep, LeasedBy
  <2> QED
    BY <1>10, <1>11, <2>4, <2>5, <2>6 DEF SessionsInv
<1>14. CASE active' = active \cup {b} /\ MoveOperation(p) /\ UNCHANGED cleanup
  <2>1. /\ b \in ActiveSession /\ b.profile = p /\ b.gen = op[p].gen /\ b.ver = op[p].ver
        /\ b.res = op[p].res /\ b.slot = pendLaunch[p] /\ b.own = (p \in workers)
    BY <1>3 DEF ActiveSession, Operation
  <2>2. op' = [op EXCEPT ![p] = None] /\ identities' = identities
    BY <1>14 DEF MoveOperation
  <2> HIDE DEF b
  <2>3. Ledger([op EXCEPT ![p] = None], active \cup {b}, cleanup, identities, nextGen)
    BY <1>3, <2>1, BecomingSessionKeeps DEF SessionsInv, Kept
  <2>4. Kept'
    BY <1>2, <1>14, <2>2, <2>3 DEF Kept
  <2>5. Apart'
    <3>1. pendLaunch[p] # None
      BY <1>3
    <3> HIDE DEF p
    <3> QED
      BY <1>2, <1>3, <1>6, <1>14, <2>1, <3>1, ApartSettles
  <2>6. Gone'
    <3>1. \A a \in active' : Leased(a.profile)
      BY <1>3, <1>14, <2>1, LeasedBy
    <3> QED
      BY <1>2, <1>12, <1>14, <3>1, GoneStep, LeasedBy
  <2> QED
    BY <1>10, <1>11, <2>4, <2>5, <2>6 DEF SessionsInv
<1>15. CASE DropOperation(p) /\ UNCHANGED <<active, cleanup>>
  <2>1. Ledger(op', active, cleanup, identities', nextGen)
    BY <1>3, <1>15, DropKept
  <2>2. Kept'
    BY <1>2, <1>15, <2>1 DEF Kept
  <2>3. Apart'
    BY <1>2, <1>6, <1>7, <1>15, ApartShrinks DEF SessionsInv
  <2>4. Gone'
    BY <1>2, <1>12, <1>15, GoneStep, LeasedBy
  <2> QED
    BY <1>10, <1>11, <2>2, <2>3, <2>4 DEF SessionsInv
<1> QED
  BY <1>8, <1>13, <1>14, <1>15

\* A check's operation becomes e, or nothing, with the check that goes with it.
LEMMA CheckAgainKept ==
  ASSUME SessionsInv, NEW p \in Profiles, op[p] # None, NEW v \in Versions, NEW t, CheckAgain(p, v, t)
  PROVE  /\ Ledger(op', active, cleanup, identities', nextGen')
         /\ \/ op' = [op EXCEPT ![p] = None] /\ checks' = checks \ {p} /\ tasks' = tasks \ {t}
            \/ \E e \in Operation :
                 /\ op' = [op EXCEPT ![p] = e] /\ e.gen = nextGen /\ e.ver = v
                 /\ e.launch => e.res # None
                 /\ checks' = checks
                 /\ tasks' = (tasks \ {t}) \cup {NewTask("check", p, nextGen, v, None)}
<1> DEFINE free == Release(identities, op[p].res)
           o == [op[p] EXCEPT !.ver = v, !.res = None, !.gen = nextGen]
           r == ReservationFor(p, o)
           o2 == [o EXCEPT !.res = r]
           gone == [op EXCEPT ![p] = None]
<1>1. op[p] \in Operation /\ op \in [Profiles -> Entry] /\ nextGen \in Gens
  BY RowFacts DEF SessionsInv, Kept, Ledger, LedgerTypes
<1>2. o \in Operation /\ o.ver = v /\ o.res = None /\ o.gen = nextGen
  BY <1>1 DEF Operation
<1>3. Ledger(gone, active, cleanup, free, nextGen)
  BY DroppingKeeps DEF SessionsInv, Kept
<1>4. gone[p] = None /\ gone \in [Profiles -> Entry]
  BY <1>1 DEF Entry
<1>5. r \in Reservation /\ r.ident = IdentOf[v] /\ r # None
  <2>1. r = [ident |-> IdentOf[v], profile |-> p, gen |-> nextGen] /\ IdentOf[v] \in Idents
    BY <1>2 DEF ReservationFor
  <2>2. r \in Reservation
    BY <1>1, <2>1 DEF Reservation
  <2> QED
    BY <2>1, <2>2
<1>6. /\ o2 \in Operation /\ o2.gen = o.gen /\ o2.ver = o.ver /\ o2.res = r
      /\ o.launch = o2.launch
  BY <1>2, <1>5 DEF Operation
<1>7. Reserved(p, o) = o2
  BY <1>2 DEF Reserved, Operation
<1> HIDE DEF o, o2, r
<1>8. Ledger([gone EXCEPT ![p] = o], active, cleanup, free, nextGen + 1)
  BY <1>2, <1>3, <1>4, NewOperationKeeps
<1>9. [gone EXCEPT ![p] = o] = [op EXCEPT ![p] = o]
  BY <1>1
<1>10. Ledger([op EXCEPT ![p] = o], active, cleanup, free, nextGen + 1)
  BY <1>8, <1>9
<1>11. Ledger(gone, active, cleanup, free, nextGen + 1)
  BY <1>3, LaterKeeps
<1>12. ASSUME free[IdentOf[v]] = None
       PROVE  Ledger([op EXCEPT ![p] = o2], active, cleanup, Reserve(free, r), nextGen + 1)
  <2> DEFINE f == [op EXCEPT ![p] = o]
  <2>1. f[p] = o /\ o # None
    BY <1>1, <1>2
  <2>2. [f EXCEPT ![p] = o2] = [op EXCEPT ![p] = o2]
    BY <1>1
  <2>3. Ledger(f, active, cleanup, free, nextGen + 1)
    BY <1>10
  <2>4. o2.res = ReservationFor(p, o)
    BY <1>6 DEF r
  <2> HIDE DEF f, free
  <2>5. Ledger([f EXCEPT ![p] = o2], active, cleanup, Reserve(free, o2.res), nextGen + 1)
    BY <1>2, <1>6, <1>12, <2>1, <2>3, <2>4, ReservingKeeps
  <2> QED
    BY <1>6, <2>2, <2>5
<1>13. nextGen' = nextGen + 1
  BY DEF CheckAgain
<1>14. CASE op' = gone /\ identities' = free /\ checks' = checks \ {p} /\ tasks' = tasks \ {t}
  BY <1>11, <1>13, <1>14
<1>15. CASE /\ o.launch => MayReserve(free, o)
            /\ op' = [op EXCEPT ![p] = IF o.launch THEN o2 ELSE o]
            /\ identities' = IF o.launch THEN Reserve(free, r) ELSE free
            /\ tasks' = (tasks \ {t}) \cup {NewTask("check", p, nextGen, v, None)}
            /\ checks' = checks
  <2>1. CASE o.launch
    <3>1. free[IdentOf[v]] = None
      BY <1>2, <1>15, <2>1 DEF MayReserve
    <3>2. Ledger(op', active, cleanup, identities', nextGen')
      BY <1>12, <1>13, <1>15, <2>1, <3>1
    <3>3. op' = [op EXCEPT ![p] = o2]
      BY <1>15, <2>1
    <3> QED
      BY <1>2, <1>5, <1>6, <1>15, <3>2, <3>3
  <2>2. CASE ~o.launch
    <3>1. op' = [op EXCEPT ![p] = o] /\ identities' = free
      BY <1>15, <2>2
    <3>2. Ledger(op', active, cleanup, identities', nextGen')
      BY <1>10, <1>13, <3>1
    <3> QED
      BY <1>2, <1>15, <2>2, <3>1, <3>2
  <2> QED
    BY <2>1, <2>2
<1> QED
  BY <1>7, <1>14, <1>15 DEF CheckAgain, Clear, o, r

\* The reply of a profile check keeps the invariant: it resumes, asks again or drops.
LEMMA CheckedKeeps ==
  ASSUME SessionsInv, NEW t \in tasks, ContainerSessionChecked(t)
  PROVE  SessionsInv'
<1> DEFINE p == t.profile
           t1 == NewTask("resume", p, t.gen, None, None)
<1>1. t.kind = "check"
  BY DEF ContainerSessionChecked
<1>2. UNCHANGED <<pendDisplay, pendLaunch, workers, active, cleanup, managed, pendManaged, config, edits>>
  BY DEF ContainerSessionChecked, displayVars, configVars
<1>3. /\ p \in Profiles /\ op[p] # None /\ op[p] \in Operation /\ t.gen = op[p].gen
      /\ p \in checks /\ t.ver = op[p].ver /\ validated[p] = None
      /\ pendDisplay[p] = None /\ pendLaunch[p] = None /\ p \notin workers
      /\ \A u \in tasks : u.profile = p /\ u.kind \in WorkerKinds => u = t
  BY <1>1, WorkerFacts DEF WorkerKinds
<1>4. CurrentOperation(p, t.gen)
  BY <1>3 DEF CurrentOperation
<1>5. TableTypes /\ op \in [Profiles -> Entry] /\ RowOf(p) /\ nextGen \in Gens
  BY <1>3 DEF SessionsInv, Kept, Ledger, LedgerTypes, Tracked
<1>6. \/ /\ DropOperation(p) /\ checks' = checks \ {p} /\ tasks' = tasks \ {t}
         /\ UNCHANGED <<validated, nextGen>>
      \/ /\ \E v \in Versions : CheckAgain(p, v, t)
         /\ UNCHANGED validated
      \/ /\ op[p].launch /\ checks' = checks \ {p} /\ validated' = [validated EXCEPT ![p] = t.ver]
         /\ tasks' = (tasks \ {t}) \cup {t1}
         /\ UNCHANGED <<op, identities, nextGen>>
  <2>1. PICK v \in Configured(p), ok \in BOOLEAN :
               \/ /\ DropOperation(p)
                  /\ checks' = checks \ {p}
                  /\ tasks' = tasks \ {t}
                  /\ UNCHANGED <<validated, nextGen>>
               \/ /\ ~op[p].cancelled /\ v \notin {None, op[p].ver}
                  /\ CheckAgain(p, v, t)
                  /\ UNCHANGED validated
               \/ /\ ~op[p].cancelled /\ v = op[p].ver /\ ok
                  /\ Checked(p, t)
                  /\ UNCHANGED nextGen
    BY <1>4 DEF ContainerSessionChecked
  <2>2. v # None => v \in Versions
    BY <1>3, <1>5, ConfiguredIs
  <2>3. CASE Checked(p, t) /\ UNCHANGED nextGen
    BY <2>3 DEF Checked
  <2> QED
    BY <2>1, <2>2, <2>3
<1>7. Ledger(op', active, cleanup, identities', nextGen')
  <2>1. CASE DropOperation(p) /\ UNCHANGED nextGen
    BY <1>3, <2>1, DropKept
  <2>2. CASE \E v \in Versions : CheckAgain(p, v, t)
    BY <1>3, <2>2, CheckAgainKept
  <2>3. CASE UNCHANGED <<op, identities, nextGen>>
    BY <2>3 DEF SessionsInv, Kept
  <2> QED
    BY <1>6, <2>1, <2>2, <2>3
<1>8. /\ \A q \in Profiles : q # p => op'[q] = op[q]
      /\ \A q \in Profiles : q # p => validated'[q] = validated[q] /\ (q \in checks' <=> q \in checks)
      /\ \A u \in tasks \cup tasks' : u.profile # p => (u \in tasks' <=> u \in tasks)
      /\ RowOf(p)' /\ validated' \in [Profiles -> Versions \cup {None}] /\ checks' \subseteq Profiles
      /\ \A u \in tasks' : TaskShape(u)
  <2>0. t.ver \in Versions /\ t.gen \in Nat /\ \A u \in tasks : TaskShape(u)
    BY <1>3 DEF Operation, Gens, SessionsInv, TaskShapes
  <2>1. CASE /\ op'[p] = None /\ \A q \in Profiles : q # p => op'[q] = op[q]
             /\ checks' = checks \ {p} /\ tasks' = tasks \ {t} /\ UNCHANGED validated
    <3>1. RowOf(p)'
      BY <1>1, <1>2, <1>3, <2>1, EmptyRow
    <3> QED
      BY <1>3, <1>5, <2>0, <2>1, <3>1 DEF TableTypes
  <2>2. CASE /\ UNCHANGED validated
             /\ \E v \in Versions, e \in Operation :
                 /\ op' = [op EXCEPT ![p] = e] /\ e.gen = nextGen /\ e.ver = v
                 /\ e.launch => e.res # None
                 /\ checks' = checks
                 /\ tasks' = (tasks \ {t}) \cup {NewTask("check", p, nextGen, v, None)}
    <3>1. PICK v \in Versions, e \in Operation :
                 /\ op' = [op EXCEPT ![p] = e] /\ e.gen = nextGen /\ e.ver = v
                 /\ e.launch => e.res # None
                 /\ checks' = checks
                 /\ tasks' = (tasks \ {t}) \cup {NewTask("check", p, nextGen, v, None)}
      BY <2>2
    <3> DEFINE t0 == NewTask("check", p, nextGen, v, None)
    <3>2. /\ t0 = CheckOf(p, e) /\ t0.kind = "check" /\ t0.profile = p /\ t0 \in Task
      BY <1>3, <1>5, <3>1 DEF NewTask, CheckOf, Task, Gens
    <3> HIDE DEF t0
    <3>3. op'[p] = e /\ e # None /\ \A q \in Profiles : q # p => op'[q] = op[q]
      BY <1>3, <1>5, <3>1
    <3>4. tasks' = (tasks \ {t}) \cup {t0}
      BY <3>1 DEF t0
    <3>5. \A u \in tasks' : u.profile = p /\ u.kind \in WorkerKinds => u = t0
      BY <1>3, <3>4
    <3>6. RowOf(p)'
      BY <1>2, <1>3, <2>2, <3>1, <3>2, <3>3, <3>4, <3>5 DEF RowOf, Row, WorkerKinds
    <3>7. \A u \in tasks' : TaskShape(u)
      BY <1>3, <2>0, <3>2, <3>4 DEF TaskShape
    <3>8. \A u \in tasks \cup tasks' : u.profile # p => (u \in tasks' <=> u \in tasks)
      BY <3>2, <3>4
    <3> QED
      BY <1>5, <2>2, <3>1, <3>3, <3>6, <3>7, <3>8 DEF TableTypes
  <2>3. CASE /\ op[p].launch /\ checks' = checks \ {p} /\ validated' = [validated EXCEPT ![p] = t.ver]
             /\ tasks' = (tasks \ {t}) \cup {t1} /\ UNCHANGED op
    <3>1. t1 \in Task /\ t1.kind = "resume" /\ t1.profile = p
      BY <1>3, <2>0 DEF NewTask, Task
    <3> HIDE DEF t1
    <3>2. validated'[p] = op[p].ver /\ \A q \in Profiles : q # p => validated'[q] = validated[q]
      BY <1>3, <1>5, <2>3 DEF TableTypes
    <3>3. \A u \in tasks' : u.profile = p => u.kind \notin WorkerKinds
      BY <1>3, <2>3, <3>1 DEF WorkerKinds
    <3>4. op[p].res # None
      BY <1>3, <1>5, <2>3 DEF RowOf, Row
    <3>5. RowOf(p)'
      BY <1>2, <1>3, <2>3, <3>2, <3>3, <3>4 DEF RowOf, Row, WorkerKinds
    <3>6. \A u \in tasks' : TaskShape(u)
      BY <1>3, <2>0, <2>3, <3>1 DEF TaskShape
    <3>7. \A u \in tasks \cup tasks' : u.profile # p => (u \in tasks' <=> u \in tasks)
      BY <2>3, <3>1
    <3> QED
      BY <1>3, <1>5, <2>0, <2>3, <3>2, <3>5, <3>6, <3>7 DEF TableTypes
  <2>4. CASE DropOperation(p) /\ checks' = checks \ {p} /\ tasks' = tasks \ {t} /\ UNCHANGED validated
    BY <1>3, <2>1, <2>4, DropKept
  <2>5. ASSUME NEW v \in Versions, CheckAgain(p, v, t), UNCHANGED validated
        PROVE \/ /\ op'[p] = None /\ \A q \in Profiles : q # p => op'[q] = op[q]
                 /\ checks' = checks \ {p} /\ tasks' = tasks \ {t} /\ UNCHANGED validated
              \/ \E w \in Versions, e \in Operation :
                 /\ op' = [op EXCEPT ![p] = e] /\ e.gen = nextGen /\ e.ver = w
                 /\ e.launch => e.res # None
                 /\ checks' = checks
                 /\ tasks' = (tasks \ {t}) \cup {NewTask("check", p, nextGen, w, None)}
    <3>1. \/ op' = [op EXCEPT ![p] = None] /\ checks' = checks \ {p} /\ tasks' = tasks \ {t}
          \/ \E e \in Operation :
                 /\ op' = [op EXCEPT ![p] = e] /\ e.gen = nextGen /\ e.ver = v
                 /\ e.launch => e.res # None
                 /\ checks' = checks
                 /\ tasks' = (tasks \ {t}) \cup {NewTask("check", p, nextGen, v, None)}
      BY <1>3, <2>5, CheckAgainKept
    <3>2. op' = [op EXCEPT ![p] = None] => op'[p] = None /\ \A q \in Profiles : q # p => op'[q] = op[q]
      BY <1>3, <1>5
    <3> QED
      BY <2>5, <3>1, <3>2
  <2> QED
    BY <1>6, <2>1, <2>2, <2>3, <2>4, <2>5
<1>9. Kept'
  BY <1>2, <1>7 DEF Kept
<1>10. Tracked'
  <2>1. \A q \in Profiles : q # p => SameRow(q)
    BY <1>2, <1>8 DEF SameRow
  <2> QED
    BY <1>3, <1>8, <2>1, RowsFollow
<1>11. TableTypes' /\ TaskShapes'
  BY <1>2, <1>5, <1>8 DEF TableTypes, TaskShapes, TaskShape
<1>12. Apart'
  BY <1>2, ApartShrinks DEF SessionsInv
<1>13. Gone'
  <2>1. \A q \in Profiles : op'[q] # None => Leased(q)
    BY <1>3, <1>8, LeasedBy
  <2> QED
    BY <1>2, <2>1, GoneStep, LeasedBy
<1> QED
  BY <1>9, <1>10, <1>11, <1>12, <1>13 DEF SessionsInv

\* Dropping an operation is sound for whatever sessions and jobs the handler has left.
LEMMA DropLedger ==
  ASSUME NEW p \in Profiles, NEW A, NEW C, Ledger(op, A, C, identities, nextGen), DropOperation(p)
  PROVE  Ledger(op', A, C, identities', nextGen)
<1>1. op' = [op EXCEPT ![p] = None] /\ op \in [Profiles -> Entry]
  BY DEF DropOperation, Ledger, LedgerTypes
<1>2. CASE op[p] = None
  <2>1. op' = op
    BY <1>1, <1>2
  <2> QED
    BY <2>1, <1>2 DEF DropOperation
<1>3. CASE op[p] # None
  <2>1. Ledger([op EXCEPT ![p] = None], A, C, Release(identities, op[p].res), nextGen)
    BY <1>3, DroppingKeeps
  <2> QED
    BY <2>1, <1>1, <1>3 DEF DropOperation
<1> QED
  BY <1>2, <1>3

\* Reserving for an operation: what it holds already is held, what it takes was free.
LEMMA ReservedKeeps ==
  ASSUME NEW o, NEW A, NEW C, NEW I, NEW n, Ledger(o, A, C, I, n), NEW p \in Profiles,
         o[p] # None, MayReserve(I, o[p]),
         NEW e \in Operation, e.gen = o[p].gen, e.ver = o[p].ver, e.res = Reserved(p, o[p]).res
  PROVE  Ledger([o EXCEPT ![p] = e], A, C, Reserve(I, e.res), n) /\ e.res # None
<1>1. o[p] \in Operation
  BY LedgerFacts
<1>2. CASE o[p].res = None
  <2>1. e.res = ReservationFor(p, o[p])
    BY <1>1, <1>2 DEF Reserved, Operation
  <2>2. I[IdentOf[o[p].ver]] = None
    BY <1>2 DEF MayReserve
  <2>3. e.res # None
    <3>1. o[p].gen \in Gens /\ IdentOf[o[p].ver] \in Idents
      BY LedgerFacts
    <3>2. e.res \in Reservation
      BY <2>1, <3>1 DEF ReservationFor, Reservation
    <3> QED
      BY <3>2
  <2> QED
    BY <1>2, <2>1, <2>2, <2>3, ReservingKeeps
<1>3. CASE o[p].res # None
  <2>1. e.res = o[p].res
    BY <1>1, <1>3 DEF Reserved, Operation
  <2>2. /\ o[p].res = [ident |-> IdentOf[o[p].ver], profile |-> p, gen |-> o[p].gen]
        /\ I[IdentOf[o[p].ver]] = [profile |-> p, gen |-> o[p].gen] /\ I \in [Idents -> Owned \cup {None}]
    BY <1>3 DEF Ledger, OpHolds, ReservationFor, LedgerTypes
  <2>3. Reserve(I, e.res) = I
    BY <2>1, <2>2 DEF Reserve, Owner
  <2>4. Ledger([o EXCEPT ![p] = e], A, C, I, n)
    BY <1>3, <2>1, FlagsKeep
  <2> QED
    BY <1>3, <2>1, <2>3, <2>4
<1> QED
  BY <1>2, <1>3

\* What a start leaves of the tables, given the ledger after reaping.
StartLedger == Ledger(op, active', cleanup', identities, nextGen)
Started == Ledger(op', active', cleanup', identities', nextGen')

\* Reserving changes nothing of an operation but its reservation.
LEMMA ReservedFacts ==
  ASSUME NEW p \in Profiles, NEW o \in Operation
  PROVE  /\ Reserved(p, o) \in Operation /\ Reserved(p, o).gen = o.gen /\ Reserved(p, o).ver = o.ver
         /\ Reserved(p, o).launch = o.launch
<1>1. ReservationFor(p, o) \in Reservation
  <2>1. o.gen \in Gens /\ o.ver \in Versions /\ IdentOf[o.ver] \in Idents
    BY DEF Operation
  <2> QED
    BY <2>1 DEF ReservationFor, Reservation
<1> DEFINE r == IF o.res = None THEN ReservationFor(p, o) ELSE o.res
<1>2. r \in Reservation \cup {None} /\ Reserved(p, o) = [o EXCEPT !.res = r]
  BY <1>1 DEF Operation, Reserved
<1> HIDE DEF r
<1> QED
  BY <1>2 DEF Operation

\* A launch queued behind a check reserves its identity at once.
LEMMA BehindCheckKeeps ==
  ASSUME SessionsInv, NEW p \in Profiles, StartLedger, op[p] # None, p \in checks, NEW taken,
         StartBehindCheck(p, taken)
  PROVE  Started /\ \E e \in Operation : /\ op' = [op EXCEPT ![p] = e] /\ e.gen = op[p].gen
                                         /\ e.ver = op[p].ver /\ (e.launch => e.res # None)
<1>1. op[p] \in Operation /\ op \in [Profiles -> Entry] /\ nextGen' = nextGen
  BY RowFacts DEF SessionsInv, Kept, Ledger, LedgerTypes, StartBehindCheck
<1> DEFINE o == Reserved(p, op[p])
           e == [o EXCEPT !.launch = TRUE]
<1>2. o \in Operation /\ o.gen = op[p].gen /\ o.ver = op[p].ver
  BY <1>1, ReservedFacts
<1>3. e \in Operation /\ e.gen = op[p].gen /\ e.ver = op[p].ver /\ e.res = o.res
  BY <1>2 DEF Operation
<1> HIDE DEF e
<1>4. CASE MayReserve(identities, op[p])
  <2>1. op' = [op EXCEPT ![p] = e] /\ identities' = Reserve(identities, o.res)
    BY <1>4 DEF StartBehindCheck, e
  <2>2. Ledger([op EXCEPT ![p] = e], active', cleanup', Reserve(identities, e.res), nextGen) /\ e.res # None
    BY <1>3, <1>4, ReservedKeeps DEF StartLedger
  <2> QED
    BY <1>1, <1>3, <2>1, <2>2 DEF Started
<1>5. CASE ~MayReserve(identities, op[p])
  <2>1. op' = op /\ identities' = identities
    BY <1>5 DEF StartBehindCheck
  <2>2. op' = [op EXCEPT ![p] = op[p]]
    BY <1>1, <2>1
  <2>3. op[p].launch => op[p].res # None
    <3>1. RowOf(p)
      BY DEF SessionsInv, Tracked
    <3> QED
      BY <3>1 DEF RowOf, Row
  <2> QED
    BY <1>1, <2>1, <2>2, <2>3 DEF StartLedger, Started
<1> QED
  BY <1>4, <1>5

\* A new operation, or one that was checked, and what it then reserves.
LEMMA BeginningKeeps ==
  ASSUME SessionsInv, NEW p \in Profiles, StartLedger, NEW v \in Versions, NEW o, NEW n,
         o = (IF op[p] = None THEN NewOperation(p, v, TRUE) ELSE op[p]),
         n = (IF op[p] = None THEN nextGen + 1 ELSE nextGen)
  PROVE  /\ o \in Operation
         /\ o.res = None => Ledger([op EXCEPT ![p] = None], active', cleanup', identities, n)
         /\ MayReserve(identities, o) =>
              LET e == Reserved(p, o)
                  J == Reserve(identities, e.res) IN
              /\ e.res # None
              /\ Ledger([op EXCEPT ![p] = e], active', cleanup', J, n)
              /\ Ledger([op EXCEPT ![p] = None], active', cleanup', Release(J, e.res), n)
<1> DEFINE f == [op EXCEPT ![p] = o]
           e == Reserved(p, o)
           J == Reserve(identities, e.res)
<1>1. op \in [Profiles -> Entry] /\ nextGen \in Gens
  BY DEF SessionsInv, Kept, Ledger, LedgerTypes
<1>2. o \in Operation
  <2>1. CASE op[p] = None
    BY <2>1, <1>1 DEF NewOperation, Operation
  <2>2. CASE op[p] # None
    BY <2>2, RowFacts
  <2> QED
    BY <2>1, <2>2
<1>3. f[p] = o /\ o # None /\ [f EXCEPT ![p] = None] = [op EXCEPT ![p] = None]
  BY <1>1, <1>2
<1>4. Ledger(f, active', cleanup', identities, n)
  <2>1. CASE op[p] = None
    <3>1. o.gen = nextGen /\ o.res = None /\ n = nextGen + 1
      BY <2>1 DEF NewOperation
    <3>2. Ledger([op EXCEPT ![p] = o], active', cleanup', identities, nextGen + 1)
      BY <1>2, <2>1, <3>1, NewOperationKeeps DEF StartLedger
    <3> QED
      BY <3>1, <3>2
  <2>2. CASE op[p] # None
    <3>1. f = op /\ n = nextGen
      BY <1>1, <2>2
    <3> QED
      BY <3>1 DEF StartLedger
  <2> QED
    BY <2>1, <2>2
<1>5. e \in Operation /\ e.gen = o.gen /\ e.ver = o.ver
  BY <1>2, ReservedFacts
<1>6. [f EXCEPT ![p] = e] = [op EXCEPT ![p] = e]
  BY <1>1
<1> HIDE DEF f, e
<1>7. o.res = None => Ledger([op EXCEPT ![p] = None], active', cleanup', identities, n)
  <2> HAVE o.res = None
  <2>1. Ledger([f EXCEPT ![p] = None], active', cleanup', Release(identities, f[p].res), n)
    BY <1>3, <1>4, DroppingKeeps
  <2>2. Release(identities, f[p].res) = identities
    BY <1>3 DEF Release
  <2> QED
    BY <1>3, <2>1, <2>2
<1>8. ASSUME MayReserve(identities, o)
      PROVE  /\ e.res # None /\ Ledger([op EXCEPT ![p] = e], active', cleanup', J, n)
             /\ Ledger([op EXCEPT ![p] = None], active', cleanup', Release(J, e.res), n)
  <2> HIDE DEF J
  <2>1. Ledger([f EXCEPT ![p] = e], active', cleanup', J, n) /\ e.res # None
    <3>1. MayReserve(identities, f[p]) /\ e.res = Reserved(p, f[p]).res /\ f[p] # None
      BY <1>3, <1>8 DEF e
    <3>2. e.gen = f[p].gen /\ e.ver = f[p].ver
      BY <1>3, <1>5
    <3> QED
      BY <1>4, <1>5, <3>1, <3>2, ReservedKeeps DEF J
  <2> DEFINE g == [op EXCEPT ![p] = e]
  <2>2. Ledger(g, active', cleanup', J, n)
    BY <1>6, <2>1
  <2>3. g[p] = e /\ e # None /\ [g EXCEPT ![p] = None] = [op EXCEPT ![p] = None]
    BY <1>1, <1>5
  <2> HIDE DEF g
  <2>4. Ledger([g EXCEPT ![p] = None], active', cleanup', Release(J, g[p].res), n)
    BY <2>2, <2>3, DroppingKeeps
  <2> QED
    BY <2>1, <2>2, <2>3, <2>4 DEF g
<1> QED
  BY <1>2, <1>7, <1>8 DEF e

\* The slot of a launch is nobody else's.
LEMMA SlotFree ==
  ASSUME SessionsInv, NEW p \in Profiles, NEW v \in Versions, ~ActiveProfile(active', p),
         pendDisplay[p] = None, pendLaunch[p] = None,
         ~DisplayConflict(p, v, active', cleanup')
  PROVE  LET s == Assignment(v, DefaultInUse) IN
         /\ s \in AllSlots
         /\ \A a \in active' : a.slot # s
         /\ \A q \in Profiles : pendDisplay[q] # s /\ pendLaunch[q] # s
<1> DEFINE others == {o \in Occupants(active') : o[1] # p}
           inUse == DisplayBusyIn(cleanup', Default) \/ \E o \in others : o[2] = Default
           s == Assignment(v, DefaultInUse)
<1>1. ASSUME NEW o \in Occupants(active'), o[1] = p PROVE o[2] = None
  <2>1. \/ \E a \in active' : o = <<a.profile, a.slot>>
        \/ \E q \in Profiles : o = <<q, pendDisplay[q]>>
        \/ \E q \in Profiles : o = <<q, pendLaunch[q]>>
    BY DEF Occupants
  <2> QED
    BY <1>1, <2>1 DEF ActiveProfile
<1>2. Default # None
  BY DEF AllSlots
<1>3. inUse <=> DefaultInUse
  BY <1>1, <1>2 DEF DefaultInUse
<1>4. \A o \in others : o[2] # Assignment(v, inUse)
  BY DEF DisplayConflict
<1>5. Assignment(v, inUse) = s
  BY <1>3 DEF Assignment
<1>6. s \in AllSlots /\ s # None
  BY DEF Assignment, AllSlots
<1>7. ASSUME NEW a \in active' PROVE a.slot # s
  <2>1. <<a.profile, a.slot>> \in Occupants(active') /\ a.profile # p
    BY DEF Occupants, ActiveProfile
  <2> QED
    BY <1>4, <1>5, <2>1
<1>8. ASSUME NEW q \in Profiles PROVE pendDisplay[q] # s /\ pendLaunch[q] # s
  <2>1. <<q, pendDisplay[q]>> \in Occupants(active') /\ <<q, pendLaunch[q]>> \in Occupants(active')
    BY DEF Occupants
  <2> QED
    BY <1>4, <1>5, <1>6, <2>1
<1> QED
  BY <1>6, <1>7, <1>8

\* A profile without a worker may take a slot that nobody uses.
LEMMA ApartTakes ==
  ASSUME SessionsInv, NEW p \in Profiles, NEW s \in AllSlots, active' \subseteq active,
         ~ActiveProfile(active', p), p \notin workers, pendDisplay[p] = None, pendLaunch[p] = None,
         \A a \in active' : a.slot # s,
         \A q \in Profiles : pendDisplay[q] # s /\ pendLaunch[q] # s,
         \A q \in Profiles : q # p => pendDisplay'[q] = pendDisplay[q] /\ pendLaunch'[q] = pendLaunch[q],
         {pendDisplay'[p], pendLaunch'[p]} = {s, None}, UNCHANGED <<workers, managed>>
  PROVE  Apart'
<1>1. TableTypes /\ Apart /\ s # None
  BY DEF SessionsInv
<1>2. \/ pendDisplay'[p] = s /\ pendLaunch'[p] = None
      \/ pendDisplay'[p] = None /\ pendLaunch'[p] = s
  BY <1>1
<1>3. \A a \in active : a.slot # None /\ a.profile \in Profiles
  BY LedgerFacts DEF SessionsInv, Kept
<1>4. \A a \in active' : /\ pendDisplay'[a.profile] = None /\ pendLaunch'[a.profile] = None
                         /\ a.own => a.slot \in Slots /\ managed'[a.slot] = 0
                         /\ \A q \in Profiles : pendDisplay'[q] # a.slot /\ pendLaunch'[q] # a.slot
  <2> TAKE a \in active'
  <2>1. /\ pendDisplay[a.profile] = None /\ pendLaunch[a.profile] = None
        /\ a.own => a.slot \in Slots /\ managed[a.slot] = 0
        /\ \A q \in Profiles : pendDisplay[q] # a.slot /\ pendLaunch[q] # a.slot
    BY <1>1 DEF Apart
  <2>2. a.profile # p /\ a.profile \in Profiles /\ a.slot # None /\ a.slot # s
    BY <1>3 DEF ActiveProfile
  <2>3. ASSUME NEW q \in Profiles PROVE pendDisplay'[q] # a.slot /\ pendLaunch'[q] # a.slot
    BY <1>2, <2>1, <2>2
  <2> QED
    BY <2>1, <2>2, <2>3
<1>5. \A a, b \in active' : a.profile = b.profile \/ a.slot = b.slot => a = b
  BY <1>1 DEF Apart
<1>6. ASSUME NEW q \in Profiles, NEW r \in Profiles, q # r
      PROVE  /\ pendDisplay'[q] # None => pendDisplay'[r] # pendDisplay'[q] /\ pendLaunch'[r] # pendDisplay'[q]
             /\ pendLaunch'[q] # None => pendLaunch'[r] # pendLaunch'[q]
  <2>1. CASE q = p
    BY <1>1, <1>2, <1>6, <2>1
  <2>2. CASE r = p
    BY <1>1, <1>2, <1>6, <2>2
  <2>3. CASE q # p /\ r # p
    BY <1>1, <1>6, <2>3 DEF Apart
  <2> QED
    BY <2>1, <2>2, <2>3
<1>7. \A q \in workers' : managed'[pendLaunch'[q]] = 0
  BY <1>1 DEF Apart, TableTypes
<1> QED
  BY <1>4, <1>5, <1>6, <1>7 DEF Apart

\* A start that leaves the operation and its row alone, or only raises its launch flag.
LEMMA StartQuiet ==
  ASSUME SessionsInv, NEW p \in Profiles, NEW taken, taken \subseteq tasks,
         \A u \in taken : u.kind \notin WorkerKinds, active' \subseteq active,
         tasks' = tasks \ taken, UNCHANGED <<managed, pendManaged, config, edits, workers>>,
         UNCHANGED <<checks, validated, pendDisplay, pendLaunch>>,
         \/ op' = op
         \/ \E e \in Operation : /\ p \in checks /\ op[p] # None
                                 /\ op' = [op EXCEPT ![p] = e] /\ e.gen = op[p].gen
                                 /\ e.ver = op[p].ver /\ (e.launch => e.res # None)
  PROVE  /\ TableTypes' /\ TaskShapes' /\ Tracked' /\ Apart'
         /\ \A q \in Profiles : op'[q] # None => op[q] # None
<1>1. TableTypes' /\ TaskShapes'
  BY DEF SessionsInv, TableTypes, TaskShapes, TaskShape
<1>2. Apart'
  BY ApartShrinks DEF SessionsInv
<1>3. \A u \in tasks \cup tasks' : u.kind \in WorkerKinds => (u \in tasks' <=> u \in tasks)
  OBVIOUS
<1>4. CASE op' = op
  <2>1. \A q \in Profiles : SameRow(q)
    BY <1>3, <1>4 DEF SameRow
  <2> QED
    BY <1>1, <1>2, <1>4, <2>1, AllRowsKept
<1>5. CASE \E e \in Operation : /\ p \in checks /\ op[p] # None
                                /\ op' = [op EXCEPT ![p] = e] /\ e.gen = op[p].gen
                                /\ e.ver = op[p].ver /\ (e.launch => e.res # None)
  <2>1. PICK e \in Operation : /\ p \in checks /\ op[p] # None
                               /\ op' = [op EXCEPT ![p] = e] /\ e.gen = op[p].gen
                               /\ e.ver = op[p].ver /\ (e.launch => e.res # None)
    BY <1>5
  <2>2. op \in [Profiles -> Entry] /\ RowOf(p)
    BY DEF SessionsInv, Kept, Ledger, LedgerTypes, Tracked
  <2>3. op'[p] = e /\ e # None /\ \A q \in Profiles : q # p => op'[q] = op[q]
    BY <2>1, <2>2
  <2>4. \A q \in Profiles : q # p => SameRow(q)
    BY <1>3, <2>3 DEF SameRow
  <2>5. CheckOf(p, e) = CheckOf(p, op[p]) /\ CheckOf(p, e).kind \in WorkerKinds
    BY <2>1 DEF CheckOf, NewTask, WorkerKinds
  <2>6. validated[p] = None /\ pendDisplay[p] = None /\ pendLaunch[p] = None /\ p \notin workers
    BY <2>1, <2>2 DEF RowOf, Row, AllSlots
  <2>7. CheckOf(p, e) \in tasks'
    BY <1>3, <2>1, <2>2, <2>5 DEF RowOf, Row
  <2>8. \A u \in tasks' : u.profile = p =>
          /\ u.kind = "check" => u = CheckOf(p, e)
          /\ u.kind # "display" /\ u.kind # "launch"
    BY <2>2, <2>5, <2>6 DEF RowOf, Row
  <2>9. RowOf(p)'
    BY <2>1, <2>3, <2>6, <2>7, <2>8 DEF RowOf, Row
  <2> QED
    BY <1>1, <1>2, <2>3, <2>1, <2>4, <2>9, RowsFollow
<1> QED
  BY <1>4, <1>5

\* A start of p changes its row: e is its operation now, and what it waits for is a check, a
\* display or a launch, or it is dropped.
RowMoves(p, e, taken) ==
    /\ e = op'[p] /\ (e = None \/ e \in Operation)
    /\ \A q \in Profiles : q # p =>
         /\ op'[q] = op[q] /\ validated'[q] = validated[q] /\ (q \in checks' <=> q \in checks)
         /\ pendDisplay'[q] = pendDisplay[q] /\ pendLaunch'[q] = pendLaunch[q]
    /\ validated' \in [Profiles -> Versions \cup {None}] /\ checks' \subseteq Profiles
    /\ pendDisplay' \in [Profiles -> Slots \cup {None}]
    /\ pendLaunch' \in [Profiles -> AllSlots \cup {None}]
    /\ \/ /\ e = None /\ tasks' = tasks \ taken
          /\ p \notin checks' /\ validated'[p] = None /\ pendDisplay'[p] = None /\ pendLaunch'[p] = None
       \/ /\ e # None /\ e.res # None /\ p \in checks'
          /\ validated'[p] = None /\ pendDisplay'[p] = None /\ pendLaunch'[p] = None
          /\ tasks' = (tasks \ taken) \cup {CheckOf(p, e)}
       \/ /\ e # None /\ e.res # None /\ p \notin checks'
          /\ validated'[p] \in {e.ver, None} /\ pendDisplay'[p] # None /\ pendLaunch'[p] = None
          /\ tasks' = (tasks \ taken) \cup {DisplayOf(p, e, pendDisplay'[p])}
       \/ /\ e # None /\ e.res # None /\ p \notin checks'
          /\ validated'[p] = None /\ pendDisplay'[p] = None /\ pendLaunch'[p] # None
          /\ tasks' = (tasks \ taken) \cup {LaunchOf(p, e, pendLaunch'[p])}

\* A start that moves a profile's row moves it to a true one.
LEMMA StartMoves ==
  ASSUME SessionsInv, NEW p \in Profiles, NEW taken, taken \subseteq tasks,
         \A u \in taken : u.kind \notin WorkerKinds, ~WorkerPending(p),
         UNCHANGED <<managed, pendManaged, config, edits, workers>>,
         NEW e, RowMoves(p, e, taken)
  PROVE  TableTypes' /\ TaskShapes' /\ Tracked'
<1>1. p \notin workers /\ \A u \in tasks : u.profile = p => u.kind \notin WorkerKinds
  BY RowFacts
<1>2. TableTypes'
  BY DEF SessionsInv, TableTypes, RowMoves
<1>3. e # None => e.gen \in Gens /\ e.gen \in Nat /\ e.ver \in Versions
  BY DEF Operation, Gens, RowMoves
<1>4. pendDisplay'[p] \in Slots \cup {None} /\ pendLaunch'[p] \in AllSlots \cup {None}
  BY DEF RowMoves
<1> DEFINE c == CheckOf(p, e)
           d == DisplayOf(p, e, pendDisplay'[p])
           l == LaunchOf(p, e, pendLaunch'[p])
<1>5. /\ c.profile = p /\ c.kind = "check" /\ d.profile = p /\ d.kind = "display"
      /\ l.profile = p /\ l.kind = "launch"
  BY DEF CheckOf, DisplayOf, LaunchOf, NewTask
<1>6. e # None => /\ c \in Task
                  /\ pendDisplay'[p] # None => d \in Task
                  /\ pendLaunch'[p] # None => l \in Task
  BY <1>3, <1>4 DEF CheckOf, DisplayOf, LaunchOf, NewTask, Task, AllSlots
<1> HIDE DEF c, d, l
<1>7. \A u \in tasks : TaskShape(u)
  BY DEF SessionsInv, TaskShapes
<1>8. \A u \in tasks' : u \in tasks \/ (u \in {c, d, l} /\ u \in Task)
  BY <1>6 DEF c, d, l, RowMoves
<1>9. TaskShapes'
  BY <1>5, <1>7, <1>8 DEF TaskShapes, TaskShape
<1>10. \A u \in tasks \cup tasks' : u.profile # p /\ u.kind \in WorkerKinds => (u \in tasks' <=> u \in tasks)
  <2>1. tasks \ taken \subseteq tasks'
    BY DEF RowMoves
  <2> QED
    BY <1>5, <1>8, <2>1
<1>11. \A q \in Profiles : q # p => SameRow(q)
  BY <1>10 DEF SameRow, RowMoves
<1>12. RowOf(p)'
  <2>0. e = op'[p]
    BY DEF RowMoves
  <2>1. CASE e = None
    <3>1. /\ op'[p] = None /\ tasks' = tasks \ taken
          /\ p \notin checks' /\ validated'[p] = None /\ pendDisplay'[p] = None /\ pendLaunch'[p] = None
      BY <2>1 DEF RowMoves
    <3> QED
      BY <1>1, <3>1, EmptyRow
  <2>2. CASE e # None /\ p \in checks'
    <3>1. /\ e.res # None /\ validated'[p] = None /\ pendDisplay'[p] = None /\ pendLaunch'[p] = None
          /\ tasks' = (tasks \ taken) \cup {c}
      BY <2>2 DEF c, RowMoves
    <3>2. \A u \in tasks' : u.profile = p /\ u.kind \in WorkerKinds => u = c
      BY <1>1, <3>1
    <3>3. c = CheckOf(p, op'[p]) /\ c \in tasks'
      BY <3>1, <2>0 DEF c
    <3> QED
      BY <1>1, <1>5, <2>2, <3>1, <3>2, <3>3, <2>0 DEF RowOf, Row, WorkerKinds
  <2>3. CASE e # None /\ p \notin checks' /\ pendDisplay'[p] # None
    <3>1. /\ e.res # None /\ validated'[p] \in {e.ver, None} /\ pendLaunch'[p] = None
          /\ tasks' = (tasks \ taken) \cup {d}
      BY <2>3 DEF d, RowMoves
    <3>2. \A u \in tasks' : u.profile = p /\ u.kind \in WorkerKinds => u = d
      BY <1>1, <3>1
    <3>3. d = DisplayOf(p, op'[p], pendDisplay'[p]) /\ d \in tasks'
      BY <3>1, <2>0 DEF d
    <3> QED
      BY <1>1, <1>5, <2>3, <3>1, <3>2, <3>3, <2>0 DEF RowOf, Row, WorkerKinds
  <2>4. CASE e # None /\ p \notin checks' /\ pendLaunch'[p] # None
    <3>1. /\ e.res # None /\ validated'[p] = None /\ pendDisplay'[p] = None
          /\ tasks' = (tasks \ taken) \cup {l}
      BY <2>4 DEF l, RowMoves
    <3>2. \A u \in tasks' : u.profile = p /\ u.kind \in WorkerKinds => u = l
      BY <1>1, <3>1
    <3>3. l = LaunchOf(p, op'[p], pendLaunch'[p]) /\ l \in tasks'
      BY <3>1, <2>0 DEF l
    <3> QED
      BY <1>1, <1>5, <2>4, <3>1, <3>2, <3>3, <2>0 DEF RowOf, Row, WorkerKinds
  <2> QED
    BY <2>1, <2>2, <2>3, <2>4 DEF RowMoves
<1> QED
  BY <1>2, <1>9, <1>11, <1>12, RowsFollow

\* The start handler, whichever of its ways it takes, keeps the invariant.
LEMMA StartKeeps ==
  ASSUME SessionsInv, NEW p \in Profiles, NEW taken, taken \subseteq tasks,
         \A u \in taken : u.kind \notin WorkerKinds, StartHandler(p, taken)
  PROVE  SessionsInv'
<1>1. UNCHANGED <<workers, managed, pendManaged, config, edits>>
  BY DEF StartHandler, displayVars, configVars
<1>2. TableTypes /\ op \in [Profiles -> Entry] /\ nextGen \in Gens /\ Apart
  BY DEF SessionsInv, Kept, Ledger, LedgerTypes
<1>3. PICK v \in Configured(p) :
        \/ StartIgnored(taken) /\ UNCHANGED <<active, cleanup>>
        \/ \E X \in SUBSET active :
              /\ v # None /\ ReapSessions(X)
              /\ \/ ActiveProfile(active', p) /\ StartAlreadyRunning(p, taken)
                 \/ /\ ~ActiveProfile(active', p)
                    /\ \/ op[p] # None /\ p \in checks /\ StartBehindCheck(p, taken)
                       \/ StartIgnored(taken)
                       \/ /\ ~(op[p] # None /\ ~op[p].cancelled /\ p \in checks) /\ ~StartMustWait(p)
                          /\ StartOperation(p, v, taken)
  BY DEF StartHandler
<1>4. PICK X \in SUBSET active :
        /\ active' = active \ X
        /\ cleanup' = cleanup \cup {SessionJob(a) : a \in X}
        /\ \/ StartIgnored(taken)
           \/ v # None /\ ActiveProfile(active', p) /\ StartAlreadyRunning(p, taken)
           \/ /\ v # None /\ ~ActiveProfile(active', p)
              /\ \/ op[p] # None /\ p \in checks /\ StartBehindCheck(p, taken)
                 \/ /\ ~(op[p] # None /\ ~op[p].cancelled /\ p \in checks) /\ ~StartMustWait(p)
                    /\ StartOperation(p, v, taken)
  <2>1. CASE StartIgnored(taken) /\ UNCHANGED <<active, cleanup>>
    <3>1. {} \in SUBSET active /\ active' = active \ {} /\ cleanup' = cleanup \cup {SessionJob(a) : a \in {}}
      BY <2>1
    <3> QED
      BY <2>1, <3>1
  <2>2. CASE ~(StartIgnored(taken) /\ UNCHANGED <<active, cleanup>>)
    BY <2>2, <1>3 DEF ReapSessions
  <2> QED
    BY <2>1, <2>2
<1>5. StartLedger
  <2>1. Ledger(op, active \ X, cleanup \cup {SessionJob(a) : a \in X}, identities, nextGen)
    BY ReapingKeeps DEF SessionsInv, Kept
  <2> QED
    BY <1>4, <2>1 DEF StartLedger
<1>6. active' \subseteq active
  BY <1>4
<1>7. v # None => v = config[p] /\ v \in Versions
  BY <1>2, ConfiguredIs
<1>8. SUFFICES /\ Started /\ TableTypes' /\ TaskShapes' /\ Tracked' /\ Apart'
               /\ \A q \in Profiles : op'[q] # None => op[q] # None \/ config[q] # None
  <2>1. ASSUME NEW j \in cleanup' PROVE Leased(j.lease)
    <3>1. j \in cleanup \/ \E a \in active : j = SessionJob(a)
      BY <1>4
    <3> QED
      BY <3>1, LeasedBy DEF SessionJob
  <2>2. \A a \in active' : Leased(a.profile)
    BY <1>6, LeasedBy
  <2>3. ASSUME \A q \in Profiles : op'[q] # None => op[q] # None \/ config[q] # None
        PROVE  Gone'
    <3>1. \A q \in Profiles : op'[q] # None => Leased(q) \/ config[q] # None
      BY <2>3, LeasedBy
    <3> QED
      BY <1>1, <2>1, <2>2, <3>1, GoneStep
  <2> QED
    BY <2>3 DEF SessionsInv, Started, Kept
<1>9. CASE StartIgnored(taken)
  <2>1. /\ tasks' = tasks \ taken
        /\ UNCHANGED <<op, identities, checks, validated, pendDisplay, pendLaunch, nextGen>>
    BY <1>9 DEF StartIgnored
  <2>2. TableTypes' /\ TaskShapes' /\ Tracked' /\ Apart'
    BY <1>1, <1>6, <2>1, StartQuiet
  <2> QED
    BY <1>5, <2>1, <2>2 DEF StartLedger, Started
<1>10. CASE v # None /\ ActiveProfile(active', p) /\ StartAlreadyRunning(p, taken)
  <2>1. tasks' = tasks \ taken /\ UNCHANGED <<checks, pendDisplay, pendLaunch, nextGen>>
    BY <1>10 DEF StartAlreadyRunning
  <2>2. CASE p \in checks
    <3>1. UNCHANGED <<op, identities, validated>>
      BY <1>10, <2>2 DEF StartAlreadyRunning
    <3>2. TableTypes' /\ TaskShapes' /\ Tracked' /\ Apart'
      BY <1>1, <1>6, <2>1, <3>1, StartQuiet
    <3> QED
      BY <1>5, <2>1, <3>1, <3>2 DEF StartLedger, Started
  <2>3. CASE p \notin checks
    <3>1. DropOperation(p) /\ validated' = [validated EXCEPT ![p] = None]
      BY <1>10, <2>3 DEF StartAlreadyRunning, DropLaunch, Clear
    <3>2. pendDisplay[p] = None /\ pendLaunch[p] = None
      BY <1>2, <1>6, <1>10 DEF Apart, ActiveProfile
    <3>3. ~WorkerPending(p)
      BY <2>3, <3>2 DEF WorkerPending
    <3>4. /\ op'[p] = None /\ \A q \in Profiles : q # p => op'[q] = op[q]
          /\ validated'[p] = None /\ \A q \in Profiles : q # p => validated'[q] = validated[q]
          /\ validated' \in [Profiles -> Versions \cup {None}]
      BY <1>2, <3>1 DEF DropOperation, TableTypes
    <3>5. Started
      BY <1>5, <2>1, <3>1, DropLedger DEF StartLedger, Started
    <3>6. TableTypes' /\ TaskShapes' /\ Tracked'
      <4>1. RowMoves(p, None, taken)
        BY <1>2, <2>1, <2>3, <3>2, <3>4 DEF TableTypes, RowMoves
      <4> QED
        BY <1>1, <3>3, <4>1, StartMoves
    <3>7. Apart'
      BY <1>1, <1>6, <2>1, ApartShrinks
    <3> QED
      BY <3>4, <3>5, <3>6, <3>7
  <2> QED
    BY <2>2, <2>3
<1>11. CASE op[p] # None /\ p \in checks /\ StartBehindCheck(p, taken)
  <2>1. tasks' = tasks \ taken /\ UNCHANGED <<checks, validated, pendDisplay, pendLaunch, nextGen>>
    BY <1>11 DEF StartBehindCheck
  <2>2. Started /\ \E e \in Operation : /\ op' = [op EXCEPT ![p] = e] /\ e.gen = op[p].gen
                                         /\ e.ver = op[p].ver /\ (e.launch => e.res # None)
    BY <1>5, <1>11, BehindCheckKeeps
  <2>3. /\ TableTypes' /\ TaskShapes' /\ Tracked' /\ Apart'
        /\ \A q \in Profiles : op'[q] # None => op[q] # None
    BY <1>1, <1>6, <1>11, <2>1, <2>2, StartQuiet
  <2> QED
    BY <2>2, <2>3
<1>12. CASE /\ v # None /\ ~ActiveProfile(active', p)
            /\ ~(op[p] # None /\ ~op[p].cancelled /\ p \in checks) /\ ~StartMustWait(p)
            /\ StartOperation(p, v, taken)
  <2> DEFINE o == IF op[p] = None THEN NewOperation(p, v, TRUE) ELSE op[p]
             n == IF op[p] = None THEN nextGen + 1 ELSE nextGen
             e == Reserved(p, o)
             J == Reserve(identities, e.res)
             gone == [op EXCEPT ![p] = None]
             held == [op EXCEPT ![p] = e]
  <2>1. /\ nextGen' = n
        /\ \/ /\ ~MayReserve(identities, o)
              /\ op' = gone
              /\ validated' = [validated EXCEPT ![p] = None]
              /\ tasks' = tasks \ taken
              /\ UNCHANGED <<identities, checks, pendDisplay, pendLaunch>>
           \/ /\ MayReserve(identities, o) /\ validated[p] = None
              /\ op' = held
              /\ identities' = J
              /\ checks' = checks \cup {p}
              /\ tasks' = (tasks \ taken) \cup {NewTask("check", p, o.gen, o.ver, None)}
              /\ UNCHANGED <<validated, pendDisplay, pendLaunch>>
           \/ /\ MayReserve(identities, o) /\ validated[p] # None
              /\ StartOnDisplay(p, o, taken)
              /\ UNCHANGED checks
    BY <1>12 DEF StartOperation, Clear
  <2>2. /\ o \in Operation
        /\ o.res = None => Ledger(gone, active', cleanup', identities, n)
        /\ MayReserve(identities, o) =>
             /\ e.res # None
             /\ Ledger(held, active', cleanup', J, n)
             /\ Ledger(gone, active', cleanup', Release(J, e.res), n)
    BY <1>5, <1>7, <1>12, BeginningKeeps
  <2>3. e \in Operation /\ e.gen = o.gen /\ e.ver = o.ver /\ e # None
    <3> HIDE DEF o, e
    <3>1. e = Reserved(p, o)
      BY DEF e
    <3>2. e \in Operation /\ e.gen = o.gen /\ e.ver = o.ver
      BY <2>2, <3>1, ReservedFacts
    <3> QED
      BY <3>2
  <2>4. /\ gone[p] = None /\ held[p] = e
        /\ \A q \in Profiles : q # p => gone[q] = op[q] /\ held[q] = op[q]
    BY <1>2
  <2>5. validated[p] # None => op[p] # None /\ o = op[p] /\ o.ver = validated[p]
    <3>1. RowOf(p)
      BY DEF SessionsInv, Tracked
    <3> QED
      BY <3>1 DEF RowOf, Row
  <2>6. /\ p \notin checks /\ pendDisplay[p] = None /\ pendLaunch[p] = None /\ ~WorkerPending(p)
        /\ p \notin workers
    <3>1. p \notin checks /\ pendDisplay[p] = None /\ pendLaunch[p] = None
      BY <1>12, RowFacts DEF StartMustWait, WorkerPending
    <3> QED
      BY <3>1, RowFacts DEF WorkerPending
  <2>7. config[p] # None
    BY <1>7, <1>12
  <2> DEFINE cleared == [validated EXCEPT ![p] = None]
  <2>8. /\ cleared[p] = None /\ \A q \in Profiles : q # p => cleared[q] = validated[q]
        /\ cleared \in [Profiles -> Versions \cup {None}]
    BY <1>2 DEF TableTypes
  <2>9. /\ CheckOf(p, e) = NewTask("check", p, o.gen, o.ver, None)
        /\ \A s : DisplayOf(p, e, s) = NewTask("display", p, o.gen, None, s)
        /\ \A s : LaunchOf(p, e, s) = NewTask("launch", p, o.gen, o.ver, s)
    BY <2>3 DEF CheckOf, DisplayOf, LaunchOf
  <2>10. /\ validated \in [Profiles -> Versions \cup {None}] /\ checks \subseteq Profiles
         /\ pendDisplay \in [Profiles -> Slots \cup {None}] /\ pendLaunch \in [Profiles -> AllSlots \cup {None}]
    BY <1>2 DEF TableTypes
  <2> HIDE DEF gone, held, e, cleared, J, o, n
  <2>11. CASE /\ op' = gone /\ validated' = cleared /\ tasks' = tasks \ taken
              /\ UNCHANGED <<checks, pendDisplay, pendLaunch>>
    <3>1. TableTypes' /\ TaskShapes' /\ Tracked'
      <4>1. RowMoves(p, None, taken)
        BY <2>4, <2>6, <2>8, <2>10, <2>11 DEF RowMoves
      <4> QED
        BY <1>1, <2>6, <4>1, StartMoves
    <3>2. Apart'
      BY <1>1, <1>6, <2>11, ApartShrinks
    <3>3. Started
      <4>1. CASE ~MayReserve(identities, o) /\ UNCHANGED identities
        <5>1. o.res = None
          BY <4>1 DEF MayReserve
        <5> QED
          BY <2>1, <2>2, <2>11, <4>1, <5>1 DEF Started
      <4>2. CASE MayReserve(identities, o) /\ identities' = Release(J, e.res)
        BY <2>1, <2>2, <2>11, <4>2 DEF Started
      <4>3. CASE MayReserve(identities, o) /\ validated[p] = None /\ p \in checks'
        BY <2>6, <2>11, <4>3
      <4>4. CASE MayReserve(identities, o) /\ StartOnDisplay(p, o, taken)
        <5>1. \/ identities' = Release(J, e.res)
              \/ op' = held
          BY <4>4 DEF StartOnDisplay, J, e, held
        <5>2. op' # held
          BY <2>3, <2>4, <2>11
        <5> QED
          BY <4>2, <4>4, <5>1, <5>2
      <4> QED
        BY <2>1, <4>1, <4>2, <4>3, <4>4
    <3> QED
      BY <2>4, <2>11, <3>1, <3>2, <3>3
  <2>12. CASE /\ MayReserve(identities, o) /\ validated[p] = None /\ op' = held /\ identities' = J
              /\ checks' = checks \cup {p}
              /\ tasks' = (tasks \ taken) \cup {NewTask("check", p, o.gen, o.ver, None)}
              /\ UNCHANGED <<validated, pendDisplay, pendLaunch>>
    <3>0. tasks' = (tasks \ taken) \cup {CheckOf(p, e)} /\ p \in checks' /\ checks' \subseteq Profiles
      BY <2>9, <2>10, <2>12
    <3>1. TableTypes' /\ TaskShapes' /\ Tracked'
      <4>1. RowMoves(p, e, taken)
        BY <2>2, <2>3, <2>4, <2>6, <2>10, <2>12, <3>0 DEF RowMoves
      <4> QED
        BY <1>1, <2>6, <4>1, StartMoves
    <3>2. Apart'
      BY <1>1, <1>6, <2>12, ApartShrinks
    <3>3. Started
      BY <2>1, <2>2, <2>12 DEF Started
    <3> QED
      BY <2>4, <2>7, <2>12, <3>1, <3>2, <3>3
  <2>13. CASE /\ MayReserve(identities, o) /\ validated[p] # None
              /\ StartOnDisplay(p, o, taken) /\ UNCHANGED checks
    <3> DEFINE slot == Assignment(o.ver, DefaultInUse)
    <3>1. \/ /\ op' = gone /\ validated' = cleared /\ tasks' = tasks \ taken
             /\ UNCHANGED <<pendDisplay, pendLaunch>>
          \/ /\ ~SlotRefused(p, o.ver, slot)
             /\ op' = held /\ identities' = J
             /\ \/ /\ validated' = cleared /\ pendLaunch' = [pendLaunch EXCEPT ![p] = slot]
                   /\ tasks' = (tasks \ taken) \cup {NewTask("launch", p, o.gen, validated[p], slot)}
                   /\ UNCHANGED pendDisplay
                \/ /\ slot # Default /\ pendDisplay' = [pendDisplay EXCEPT ![p] = slot]
                   /\ tasks' = (tasks \ taken) \cup {NewTask("display", p, o.gen, None, slot)}
                   /\ UNCHANGED <<validated, pendLaunch>>
      BY <2>13 DEF StartOnDisplay, Clear, gone, held, cleared, J, e
    <3>2. CASE /\ op' = gone /\ validated' = cleared /\ tasks' = tasks \ taken
               /\ UNCHANGED <<pendDisplay, pendLaunch>>
      BY <2>11, <2>13, <3>2
    <3>3. CASE ~SlotRefused(p, o.ver, slot) /\ op' = held /\ identities' = J
      <4>1. /\ slot \in AllSlots /\ slot # None
            /\ \A a \in active' : a.slot # slot
            /\ \A q \in Profiles : pendDisplay[q] # slot /\ pendLaunch[q] # slot
        <5>1. o.ver \in Versions
          BY <2>2 DEF Operation
        <5>2. ~DisplayConflict(p, o.ver, active', cleanup')
          BY <3>3 DEF SlotRefused
        <5> QED
          BY <1>12, <2>6, <5>1, <5>2, SlotFree
      <4> HIDE DEF slot
      <4>2. Started
        BY <2>1, <2>2, <2>13, <3>3 DEF Started
      <4>3. CASE /\ validated' = cleared /\ pendLaunch' = [pendLaunch EXCEPT ![p] = slot]
                 /\ tasks' = (tasks \ taken) \cup {NewTask("launch", p, o.gen, validated[p], slot)}
                 /\ UNCHANGED pendDisplay
        <5>1. /\ pendLaunch'[p] = slot /\ \A q \in Profiles : q # p => pendLaunch'[q] = pendLaunch[q]
              /\ pendLaunch' \in [Profiles -> AllSlots \cup {None}]
          BY <2>10, <4>1, <4>3
        <5>2. tasks' = (tasks \ taken) \cup {LaunchOf(p, e, slot)}
          BY <2>5, <2>9, <2>13, <4>3
        <5>3. TableTypes' /\ TaskShapes' /\ Tracked'
          <6>1. RowMoves(p, e, taken)
            BY <2>2, <2>3, <2>4, <2>6, <2>8, <2>10, <2>13, <3>3, <4>1, <4>3, <5>1, <5>2 DEF RowMoves
          <6> QED
            BY <1>1, <2>6, <6>1, StartMoves
        <5>4. Apart'
          BY <1>1, <1>6, <1>12, <2>6, <4>1, <4>3, <5>1, ApartTakes
        <5> QED
          BY <2>4, <2>7, <3>3, <4>2, <5>3, <5>4
      <4>4. CASE /\ slot # Default /\ pendDisplay' = [pendDisplay EXCEPT ![p] = slot]
                 /\ tasks' = (tasks \ taken) \cup {NewTask("display", p, o.gen, None, slot)}
                 /\ UNCHANGED <<validated, pendLaunch>>
        <5>1. /\ pendDisplay'[p] = slot /\ \A q \in Profiles : q # p => pendDisplay'[q] = pendDisplay[q]
              /\ pendDisplay' \in [Profiles -> Slots \cup {None}]
          BY <2>10, <4>1, <4>4 DEF AllSlots
        <5>2. tasks' = (tasks \ taken) \cup {DisplayOf(p, e, slot)} /\ validated'[p] = e.ver
          BY <2>3, <2>5, <2>9, <2>13, <4>4
        <5>3. TableTypes' /\ TaskShapes' /\ Tracked'
          <6>1. RowMoves(p, e, taken)
            BY <2>2, <2>3, <2>4, <2>6, <2>10, <2>13, <3>3, <4>1, <4>4, <5>1, <5>2 DEF RowMoves
          <6> QED
            BY <1>1, <2>6, <6>1, StartMoves
        <5>4. Apart'
          BY <1>1, <1>6, <1>12, <2>6, <4>1, <4>4, <5>1, ApartTakes
        <5> QED
          BY <2>4, <2>7, <3>3, <4>2, <5>3, <5>4
      <4> QED
        BY <3>1, <3>2, <4>3, <4>4 DEF slot
    <3> QED
      BY <3>1, <3>2, <3>3
  <2> QED
    BY <2>1, <2>11, <2>12, <2>13 DEF cleared
<1> QED
  BY <1>4, <1>9, <1>10, <1>11, <1>12

\* The resume message, current or stale, keeps the invariant and makes no session.
LEMMA ResumeKeeps ==
  ASSUME SessionsInv, NEW t \in tasks, ResumeContainerSession(t)
  PROVE  SessionsInv' /\ active' \subseteq active
<1>1. t.kind = "resume" /\ t.profile \in Profiles /\ {t} \subseteq tasks /\ t.kind \notin WorkerKinds
  BY DEF ResumeContainerSession, SessionsInv, TaskShapes, TaskShape, WorkerKinds
<1>2. CASE StartHandler(t.profile, {t})
  <2>1. \A u \in {t} : u.kind \notin WorkerKinds
    BY <1>1
  <2>2. SessionsInv'
    BY <1>1, <1>2, <2>1, StartKeeps
  <2>3. active' \subseteq active
    BY <1>2 DEF StartHandler, ReapSessions
  <2> QED
    BY <2>2, <2>3
<1>3. CASE StartIgnored({t}) /\ UNCHANGED <<active, cleanup, workers, displayVars, configVars>>
  <2> DEFINE taken == {t}
  <2>1. /\ UNCHANGED <<active, cleanup, workers, managed, pendManaged, config, edits>>
        /\ UNCHANGED <<op, identities, checks, validated, pendDisplay, pendLaunch, nextGen>>
        /\ tasks' = tasks \ taken
    BY <1>3 DEF StartIgnored, displayVars, configVars
  <2>2. taken \subseteq tasks /\ \A u \in taken : u.kind \notin WorkerKinds
    BY <1>1
  <2> HIDE DEF taken
  <2>2a. active' \subseteq active /\ op' = op /\ t.profile \in Profiles
    BY <1>1, <2>1
  <2>2b. /\ UNCHANGED <<managed, pendManaged, config, edits, workers>>
         /\ UNCHANGED <<checks, validated, pendDisplay, pendLaunch>>
    BY <2>1
  <2>3. TableTypes' /\ TaskShapes' /\ Tracked' /\ Apart'
    BY <2>1, <2>2, <2>2a, <2>2b, StartQuiet
  <2>4. Kept'
    BY <2>1 DEF SessionsInv, Kept
  <2>5. Gone'
    BY <2>1, GoneStep, LeasedBy
  <2> QED
    BY <2>1, <2>3, <2>4, <2>5 DEF SessionsInv
<1> QED
  BY <1>2, <1>3 DEF ResumeContainerSession

\* A session is new only when its launch, not cancelled, has finished, or when it was marked.
Settled == \A a \in active' \ active :
    \/ \E b \in active : a.gen = b.gen
    \/ \E q \in Profiles : op[q] # None /\ ~op[q].cancelled /\ a.gen = op[q].gen

\* A session that a launch makes is of an operation that was not cancelled.
LEMMA LaunchSettles ==
  ASSUME SessionsInv, NEW t \in tasks, NEW ok \in BOOLEAN, ContainerSessionLaunchFinished(t, ok)
  PROVE  Settled
<1> DEFINE p == t.profile
<1>1. p \in Profiles /\ op[p] # None
  BY WorkerFacts DEF ContainerSessionLaunchFinished, WorkerKinds
<1>2. SUFFICES ASSUME NEW a \in active', a \notin active PROVE ~op[p].cancelled /\ a.gen = op[p].gen
  BY <1>1 DEF Settled
<1>3. CompleteLaunch(p, t, ok) /\ ~MustRollBack(p)
  BY <1>2 DEF ContainerSessionLaunchFinished
<1>4. a.gen = op[p].gen
  BY <1>2, <1>3 DEF CompleteLaunch
<1> QED
  BY <1>3, <1>4 DEF MustRollBack

\* A stop makes no session: it marks those there are.
LEMMA StopSettles ==
  ASSUME SessionsInv, NEW p \in Profiles, StopHandler(p)
  PROVE  Settled
<1> SUFFICES ASSUME NEW a \in active' PROVE \E b \in active : a.gen = b.gen
  BY DEF Settled
<1>1. PICK b \in active : a = IF b.profile = p THEN [b EXCEPT !.stopping = TRUE] ELSE b
  BY DEF StopHandler, GracefulStop
<1>2. b \in ActiveSession
  BY LedgerFacts DEF SessionsInv, Kept
<1> QED
  BY <1>1, <1>2 DEF ActiveSession

\* Every step keeps the invariant, and makes sessions only of launches not cancelled.
LEMMA StepKeeps ==
  ASSUME SessionsInv, [Next]_vars
  PROVE  SessionsInv' /\ Settled
<1>0. ASSUME active' \subseteq active PROVE Settled
  BY <1>0 DEF Settled
<1>1. CASE UNCHANGED vars
  <2>1. SessionsInv'
    <3>1. \A q \in Profiles : SameRow(q)
      BY <1>1 DEF vars, SameRow
    <3>2. Tracked' /\ Apart'
      BY <1>1, <3>1, AllRowsKept, ApartShrinks DEF vars, SessionsInv
    <3> QED
      BY <1>1, <3>2, GoneStep, LeasedBy DEF vars, SessionsInv, Kept, TableTypes, TaskShapes, TaskShape
  <2> QED
    BY <1>0, <1>1, <2>1 DEF vars
<1>2. ASSUME NEW t \in tasks, Reply(t) PROVE SessionsInv' /\ Settled
  <2>1. CASE ContainerSessionChecked(t)
    BY <1>0, <2>1, CheckedKeeps DEF ContainerSessionChecked
  <2>2. CASE DedicatedDisplayStarted(t)
    <3>1. active' \subseteq active
      BY <2>2 DEF DedicatedDisplayStarted
    <3> QED
      BY <1>0, <2>2, <3>1, DisplayStartedKeeps
  <2>3. CASE DedicatedDisplayFailed(t)
    BY <1>0, <2>3, DisplayFailedKeeps DEF DedicatedDisplayFailed
  <2>4. ASSUME NEW ok \in BOOLEAN, ContainerSessionLaunchFinished(t, ok) PROVE SessionsInv' /\ Settled
    BY <2>4, LaunchFinishedKeeps, LaunchSettles
  <2>5. CASE ManagedDisplayStarted(t)
    BY <1>0, <2>5, ManagedStartedKeeps DEF ManagedDisplayStarted
  <2>6. CASE ManagedDisplayFailed(t)
    BY <1>0, <2>6, ManagedFailedKeeps DEF ManagedDisplayFailed
  <2> QED
    BY <1>2, <2>1, <2>2, <2>3, <2>4, <2>5, <2>6 DEF Reply
<1>3. ASSUME NEW t \in tasks, SelfMessage(t) PROVE SessionsInv' /\ Settled
  <2>1. CASE ResumeContainerSession(t)
    BY <1>0, <2>1, ResumeKeeps
  <2>2. CASE StopRequested(t)
    <3>1. t.profile \in Profiles /\ StopHandler(t.profile) /\ t.kind = "stop" /\ tasks' = tasks \ {t}
      BY <2>2 DEF StopRequested, SessionsInv, TaskShapes, TaskShape
    <3> QED
      BY <3>1, StopKeeps, StopSettles
  <2> QED
    BY <1>3, <2>1, <2>2 DEF SelfMessage
<1>4. ASSUME NEW p \in Profiles, UserRequest(p) PROVE SessionsInv' /\ Settled
  <2>1. CASE CheckContainerSession(p)
    BY <1>0, <2>1, CheckKeeps DEF CheckContainerSession
  <2>2. CASE StartContainerSession(p)
    <3>1. active' \subseteq active
      BY <2>2 DEF StartContainerSession, StartHandler, ReapSessions
    <3>2. StartHandler(p, {}) /\ {} \subseteq tasks /\ \A u \in {} : u.kind \notin WorkerKinds
      BY <2>2 DEF StartContainerSession
    <3> QED
      BY <1>0, <3>1, <3>2, StartKeeps
  <2>3. CASE StopContainerSession(p)
    BY <2>3, StopKeeps, StopSettles DEF StopContainerSession
  <2>4. CASE ForceStopContainerSession(p)
    <3>1. active' \subseteq active
      BY <2>4 DEF ForceStopContainerSession, ReapSessions
    <3> QED
      BY <1>0, <2>4, <3>1, ForceStopKeeps
  <2> QED
    BY <1>4, <2>1, <2>2, <2>3, <2>4 DEF UserRequest
<1>5. ASSUME NEW s \in Slots, CreateManagedDisplay(s) \/ CloseManagedDisplay(s)
      PROVE  SessionsInv' /\ Settled
  <2>1. CASE CreateManagedDisplay(s)
    <3>1. active' \subseteq active
      BY <2>1 DEF CreateManagedDisplay, Reap
    <3> QED
      BY <1>0, <2>1, <3>1, CreateManagedKeeps
  <2>2. CASE CloseManagedDisplay(s)
    BY <1>0, <2>2, CloseManagedKeeps DEF CloseManagedDisplay
  <2> QED
    BY <1>5, <2>1, <2>2
<1>6. CASE Maintenance
  <2>1. active' \subseteq active
    BY <1>6 DEF Maintenance, Reap
  <2> QED
    BY <1>0, <1>6, <2>1, MaintenanceKeeps
<1>7. ASSUME NEW p \in Profiles, (\E v \in Versions : EditProfile(p, v)) \/ DeleteProfile(p)
      PROVE  SessionsInv' /\ Settled
  <2>1. active' \subseteq active
    BY <1>7 DEF EditProfile, DeleteProfile, otherThanConfig
  <2> QED
    BY <1>0, <1>7, <2>1, ConfigKeeps
<1>8. ASSUME NEW j \in cleanup, CleanupDone(j) PROVE SessionsInv' /\ Settled
  BY <1>0, <1>8, CleanupDoneKeeps DEF CleanupDone
<1> QED
  BY <1>1, <1>2, <1>3, <1>4, <1>5, <1>6, <1>7, <1>8 DEF Next

\* The App starts with empty tables.
LEMMA InitKeeps ==
  ASSUME Init
  PROVE  SessionsInv
<1>1. TableTypes /\ TaskShapes
  BY DEF Init, TableTypes, TaskShapes
<1>2. Kept
  <2>1. LedgerTypes(op, active, cleanup, identities, nextGen)
    BY DEF Init, LedgerTypes, Entry, Gens
  <2>2. /\ OpHolds(op, identities, nextGen) /\ SessionHolds(active, identities, nextGen)
        /\ JobHolds(cleanup, identities, nextGen) /\ OneHolder(op, active, cleanup)
        /\ NoneLeaks(op, active, cleanup, identities)
    BY DEF Init, OpHolds, SessionHolds, JobHolds, OneHolder, NoneLeaks
  <2> QED
    BY <2>1, <2>2 DEF Kept, Ledger
<1>3. Tracked
  BY DEF Init, Tracked, RowOf, Row
<1>4. Apart
  BY DEF Init, Apart
<1>5. Gone
  BY DEF Init, Gone, Leased, ActiveProfile
<1> QED
  BY <1>1, <1>2, <1>3, <1>4, <1>5 DEF SessionsInv

\* The inductive invariant of the session orchestrator.
LEMMA SessionsInvHolds == Spec => []SessionsInv
<1>1. SessionsInv /\ [Next]_vars => SessionsInv'
  BY StepKeeps
<1> QED
  BY InitKeeps, <1>1, PTL DEF Spec

\* What sessions hold of a display: SlotExclusive follows.
LEMMA SlotsAreExclusive ==
  ASSUME SessionsInv
  PROVE  SlotExclusive
<1>1. Apart
  BY DEF SessionsInv
<1>2. \A a \in active : a \in ActiveSession /\ a.profile \in Profiles /\ a.slot \in AllSlots
  BY LedgerFacts DEF SessionsInv, Kept
<1>3. \A o \in Occupants(active) :
        \/ \E a \in active : o[1] = a.profile /\ o[2] = a.slot
        \/ \E p \in Profiles : o[1] = p /\ (o[2] = pendDisplay[p] \/ o[2] = pendLaunch[p])
  BY DEF Occupants
<1>4. \A p \in Profiles : pendDisplay[p] # None => pendLaunch[p] # pendDisplay[p]
  BY DEF SessionsInv, Tracked, RowOf, Row
<1>5. \A a, b \in active : a # b => a.profile # b.profile /\ a.slot # b.slot
  BY <1>1 DEF Apart
<1>6. ASSUME NEW o1 \in Occupants(active), NEW o2 \in Occupants(active),
             o1[2] = o2[2], o1[2] # None
      PROVE  o1[1] = o2[1]
  <2>1. ASSUME NEW a \in active, NEW q \in Profiles
        PROVE  pendDisplay[q] # a.slot /\ pendLaunch[q] # a.slot
    BY <1>1 DEF Apart
  <2>2. CASE \E a \in active : o1[1] = a.profile /\ o1[2] = a.slot
    <3>1. CASE \E b \in active : o2[1] = b.profile /\ o2[2] = b.slot
      <4>1. PICK a \in active : o1[1] = a.profile /\ o1[2] = a.slot
        BY <2>2
      <4>2. PICK b \in active : o2[1] = b.profile /\ o2[2] = b.slot
        BY <3>1
      <4>3. a.slot = b.slot
        BY <1>6, <4>1, <4>2
      <4>4. a = b
        BY <1>5, <4>3
      <4> QED
        BY <4>1, <4>2, <4>4
    <3>2. CASE \E p \in Profiles : o2[1] = p /\ (o2[2] = pendDisplay[p] \/ o2[2] = pendLaunch[p])
      BY <1>6, <2>1, <2>2, <3>2
    <3> QED
      BY <1>3, <3>1, <3>2
  <2>3. CASE \E p \in Profiles : o1[1] = p /\ (o1[2] = pendDisplay[p] \/ o1[2] = pendLaunch[p])
    <3>1. CASE \E b \in active : o2[1] = b.profile /\ o2[2] = b.slot
      BY <1>6, <2>1, <2>3, <3>1
    <3>2. CASE \E p \in Profiles : o2[1] = p /\ (o2[2] = pendDisplay[p] \/ o2[2] = pendLaunch[p])
      BY <1>1, <1>4, <1>6, <2>3, <3>2 DEF Apart
    <3> QED
      BY <1>3, <3>1, <3>2
  <2> QED
    BY <1>3, <2>2, <2>3
<1> QED
  BY <1>6, <1>5 DEF SlotExclusive

\* A set whose members are all one has at most one.
LEMMA AtMostOne ==
  ASSUME NEW S, \A x, y \in S : x = y
  PROVE  Cardinality(S) \in {0, 1} /\ (Cardinality(S) = 0 <=> S = {})
<1>1. CASE S = {}
  BY <1>1, FS_EmptySet
<1>2. ASSUME NEW x \in S PROVE Cardinality(S) \in {0, 1} /\ (Cardinality(S) = 0 <=> S = {})
  <2>1. S = {x}
    BY <1>2
  <2>2. Cardinality({x}) = 1
    BY FS_Singleton
  <2> QED
    BY <2>1, <2>2
<1> QED
  BY <1>1, <1>2

\* A slot has one display worker: a session's own, a launch's or the managed display.
LEMMA OneWorkerPerSlot ==
  ASSUME SessionsInv
  PROVE  OneDisplayPerSlot
<1>1. Apart /\ managed \in [Slots -> Nat]
  BY DEF SessionsInv, TableTypes
<1>2. SUFFICES ASSUME NEW s \in Slots
               PROVE  Cardinality({a \in active : a.own /\ a.slot = s})
                        + Cardinality({p \in workers : pendLaunch[p] = s})
                        + (IF managed[s] # 0 THEN 1 ELSE 0) <= 1
  BY DEF OneDisplayPerSlot
<1> DEFINE own == {a \in active : a.own /\ a.slot = s}
           launching == {p \in workers : pendLaunch[p] = s}
<1>3. \A a, b \in own : a = b
  BY <1>1 DEF Apart
<1>4. workers \subseteq Profiles /\ s # None
  BY DEF SessionsInv, TableTypes, AllSlots
<1>5. \A p, q \in launching : p = q
  BY <1>1, <1>4 DEF Apart
<1>6. ASSUME NEW a \in own PROVE managed[s] = 0 /\ launching = {}
  BY <1>1, <1>4 DEF Apart
<1>7. ASSUME NEW p \in launching PROVE managed[s] = 0
  BY <1>1 DEF Apart
<1> HIDE DEF own, launching
<1>8. Cardinality(own) \in {0, 1} /\ (Cardinality(own) = 0 <=> own = {})
  BY <1>3, AtMostOne
<1>9. Cardinality(launching) \in {0, 1} /\ (Cardinality(launching) = 0 <=> launching = {})
  BY <1>5, AtMostOne
<1>10. own # {} => managed[s] = 0 /\ launching = {}
  BY <1>6
<1>11. launching # {} => managed[s] = 0
  BY <1>7
<1>12. Cardinality(own) + Cardinality(launching) + (IF managed[s] # 0 THEN 1 ELSE 0) <= 1
  BY <1>8, <1>9, <1>10, <1>11
<1> QED
  BY <1>12 DEF own, launching

\* The launches, sessions and cleanups of an identity are of the generation that reserves it.
LEMMA ContainersHold ==
  ASSUME SessionsInv, NEW i \in Idents, NEW c \in ContainersOf(i)
  PROVE  /\ identities[i] # None /\ c[2] = identities[i].gen
         /\ \/ c[1] = "launch" /\ \E p \in Profiles : op[p] # None /\ op[p].gen = c[2]
            \/ c[1] = "session" /\ \E a \in active : a.gen = c[2]
            \/ c[1] = "cleanup" /\ \E j \in cleanup : j.res # None /\ j.gen = c[2]
         /\ c = <<c[1], c[2]>>
<1>1. Kept
  BY DEF SessionsInv
<1>2. CASE \E t \in tasks : t.kind = "launch" /\ IdentOf[t.ver] = i /\ c = <<"launch", t.gen>>
  <2>1. PICK t \in tasks : t.kind = "launch" /\ IdentOf[t.ver] = i /\ c = <<"launch", t.gen>>
    BY <1>2
  <2>2. /\ t.profile \in Profiles /\ op[t.profile] # None /\ op[t.profile].res # None
        /\ op[t.profile].gen = t.gen /\ op[t.profile].ver = t.ver
    BY <2>1, WorkerFacts DEF WorkerKinds
  <2>3. identities[i] = [profile |-> t.profile, gen |-> t.gen]
    BY <1>1, <2>1, <2>2 DEF Kept, Ledger, OpHolds
  <2>4. [profile |-> t.profile, gen |-> t.gen] # None
    BY <2>2, LedgerFacts, <1>1 DEF Kept
  <2> QED
    BY <2>1, <2>2, <2>3, <2>4
<1>3. CASE \E a \in active : IdentOf[a.ver] = i /\ c = <<"session", a.gen>>
  <2>1. PICK a \in active : IdentOf[a.ver] = i /\ c = <<"session", a.gen>>
    BY <1>3
  <2>2. identities[i] = [profile |-> a.profile, gen |-> a.gen]
    BY <1>1, <2>1 DEF Kept, Ledger, SessionHolds
  <2>3. [profile |-> a.profile, gen |-> a.gen] # None
    BY <2>1, LedgerFacts, <1>1 DEF Kept
  <2> QED
    BY <2>1, <2>2, <2>3
<1>4. CASE \E j \in cleanup : j.ident = i /\ c = <<"cleanup", j.gen>>
  <2>1. PICK j \in cleanup : j.ident = i /\ c = <<"cleanup", j.gen>>
    BY <1>4
  <2>2. j.ident # None
    BY <2>1
  <2>3. j.res # None /\ j.res.ident = i
    BY <1>1, <2>1, <2>2 DEF Kept, Ledger, JobHolds
  <2>4. identities[i] = [profile |-> j.lease, gen |-> j.gen]
    BY <1>1, <2>1, <2>3 DEF Kept, Ledger, JobHolds
  <2>5. [profile |-> j.lease, gen |-> j.gen] # None
    BY <2>1, <2>3, LedgerFacts, <1>1 DEF Kept
  <2> QED
    BY <2>1, <2>3, <2>4, <2>5
<1> QED
  BY <1>2, <1>3, <1>4 DEF ContainersOf

\* One container of an identity at a time.
LEMMA IdentitiesAreExclusive ==
  ASSUME SessionsInv
  PROVE  IdentityExclusive
<1>1. OneHolder(op, active, cleanup)
  BY DEF SessionsInv, Kept, Ledger
<1>2. SUFFICES ASSUME NEW i \in Idents PROVE Cardinality(ContainersOf(i)) <= 1
  BY DEF IdentityExclusive
<1>3. ASSUME NEW c \in ContainersOf(i), NEW d \in ContainersOf(i) PROVE c = d
  <2>1. c[2] = d[2] /\ c = <<c[1], c[2]>> /\ d = <<d[1], d[2]>>
    BY ContainersHold
  <2>2. /\ \/ c[1] = "launch" /\ \E p \in Profiles : op[p] # None /\ op[p].gen = c[2]
           \/ c[1] = "session" /\ \E a \in active : a.gen = c[2]
           \/ c[1] = "cleanup" /\ \E j \in cleanup : j.res # None /\ j.gen = c[2]
        /\ \/ d[1] = "launch" /\ \E p \in Profiles : op[p] # None /\ op[p].gen = d[2]
           \/ d[1] = "session" /\ \E a \in active : a.gen = d[2]
           \/ d[1] = "cleanup" /\ \E j \in cleanup : j.res # None /\ j.gen = d[2]
    BY ContainersHold
  <2>3. c[1] = d[1]
    BY <1>1, <2>1, <2>2 DEF OneHolder
  <2> QED
    BY <2>1, <2>3
<1> HIDE DEF ContainersOf
<1>4. Cardinality(ContainersOf(i)) \in {0, 1}
  BY <1>3, AtMostOne
<1> QED
  BY <1>4

\* No display slot, display worker or runtime identity is ever used by two sessions, launches or
\* cleanups, whatever the order of the replies of checks, displays and launches.
THEOREM NothingIsShared == Spec => []NothingShared
<1>1. SessionsInv => NothingShared
  BY SlotsAreExclusive, OneWorkerPerSlot, IdentitiesAreExclusive DEF NothingShared
<1> QED
  BY <1>1, SessionsInvHolds, PTL

\* The workers in flight are those the tables wait for.
LEMMA WorkersAreTracked ==
  ASSUME SessionsInv
  PROVE  WorkersTracked
<1>1. ASSUME NEW t \in tasks
      PROVE  /\ t.kind = "check" => CurrentOperation(t.profile, t.gen) /\ t.profile \in checks
             /\ t.kind = "display" => DisplayExpected(t)
             /\ t.kind = "launch" => LaunchExpected(t)
  <2>1. CASE t.kind \in WorkerKinds
    BY <2>1, WorkerFacts DEF CurrentOperation, DisplayExpected, LaunchExpected, WorkerKinds
  <2> QED
    BY <2>1 DEF WorkerKinds
<1>2. ASSUME NEW p \in Profiles, NEW k \in WorkerKinds, NEW w \in tasks, w.kind = k, w.profile = p
      PROVE  Cardinality({t \in tasks : t.kind = k /\ t.profile = p}) = 1
  <2> DEFINE S == {t \in tasks : t.kind = k /\ t.profile = p}
  <2>1. \A t \in tasks : t.profile = p /\ t.kind \in WorkerKinds => t = w
    BY <1>2, WorkerFacts
  <2>2. S = {w}
    BY <1>2, <2>1
  <2> HIDE DEF S
  <2>3. Cardinality(S) = 1
    BY <2>2, FS_Singleton
  <2> QED
    BY <2>3 DEF S
<1>3. ASSUME NEW p \in Profiles
      PROVE  /\ p \in checks => \E w \in tasks : w.kind = "check" /\ w.profile = p
             /\ pendDisplay[p] # None => \E w \in tasks : w.kind = "display" /\ w.profile = p
             /\ pendLaunch[p] # None => \E w \in tasks : w.kind = "launch" /\ w.profile = p
             /\ p \in workers => pendLaunch[p] # None
  <2>1. RowOf(p)
    BY DEF SessionsInv, Tracked
  <2>2. /\ CheckOf(p, op[p]).kind = "check" /\ CheckOf(p, op[p]).profile = p
        /\ DisplayOf(p, op[p], pendDisplay[p]).kind = "display"
        /\ DisplayOf(p, op[p], pendDisplay[p]).profile = p
        /\ LaunchOf(p, op[p], pendLaunch[p]).kind = "launch"
        /\ LaunchOf(p, op[p], pendLaunch[p]).profile = p
    BY DEF CheckOf, DisplayOf, LaunchOf, NewTask
  <2>3. p \in checks => CheckOf(p, op[p]) \in tasks
    BY <2>1 DEF RowOf, Row
  <2>4. pendDisplay[p] # None => DisplayOf(p, op[p], pendDisplay[p]) \in tasks
    BY <2>1 DEF RowOf, Row
  <2>5. pendLaunch[p] # None => LaunchOf(p, op[p], pendLaunch[p]) \in tasks
    BY <2>1 DEF RowOf, Row
  <2>6. p \in workers => pendLaunch[p] # None
    BY <2>1 DEF RowOf, Row, AllSlots
  <2> QED
    BY <2>2, <2>3, <2>4, <2>5, <2>6
<1>4. "check" \in WorkerKinds /\ "display" \in WorkerKinds /\ "launch" \in WorkerKinds
  BY DEF WorkerKinds
<1>5. ASSUME NEW p \in Profiles, p \in checks
      PROVE  Cardinality({t \in tasks : t.kind = "check" /\ t.profile = p}) = 1
  <2>1. PICK w \in tasks : w.kind = "check" /\ w.profile = p
    BY <1>3, <1>5
  <2> QED
    BY <1>2, <1>4, <2>1
<1>6. ASSUME NEW p \in Profiles, pendDisplay[p] # None
      PROVE  Cardinality({t \in tasks : t.kind = "display" /\ t.profile = p}) = 1
  <2>1. PICK w \in tasks : w.kind = "display" /\ w.profile = p
    BY <1>3, <1>6
  <2> QED
    BY <1>2, <1>4, <2>1
<1>7. ASSUME NEW p \in Profiles, pendLaunch[p] # None
      PROVE  Cardinality({t \in tasks : t.kind = "launch" /\ t.profile = p}) = 1
  <2>1. PICK w \in tasks : w.kind = "launch" /\ w.profile = p
    BY <1>3, <1>7
  <2> QED
    BY <1>2, <1>4, <2>1
<1>8. \A p \in Profiles : p \in workers => pendLaunch[p] # None
  BY <1>3
<1> QED
  BY <1>1, <1>5, <1>6, <1>7, <1>8 DEF WorkersTracked

\* The table of identities holds what operations, sessions and cleanups reserve, and no more.
LEMMA ReservationsAreSound ==
  ASSUME SessionsInv
  PROVE  ReservationSound
<1>1. Kept
  BY DEF SessionsInv
<1>2. /\ OpHolds(op, identities, nextGen) /\ SessionHolds(active, identities, nextGen)
      /\ JobHolds(cleanup, identities, nextGen) /\ NoneLeaks(op, active, cleanup, identities)
  BY <1>1 DEF Kept, Ledger
<1>3. SUFFICES ASSUME NEW i \in Idents
               PROVE  identities[i] # None <=> \E r \in Holders : /\ r # None /\ r.ident = i
                                                                  /\ Owner(r) = identities[i]
  BY DEF ReservationSound
<1>4. ASSUME NEW p \in Profiles, op[p] # None, op[p].res # None
      PROVE  /\ op[p].res \in Holders /\ op[p].res.ident = IdentOf[op[p].ver]
             /\ Owner(op[p].res) = identities[op[p].res.ident]
             /\ identities[op[p].res.ident] # None
  <2>1. op[p].res = [ident |-> IdentOf[op[p].ver], profile |-> p, gen |-> op[p].gen]
    BY <1>2, <1>4 DEF OpHolds, ReservationFor
  <2>2. identities[IdentOf[op[p].ver]] = [profile |-> p, gen |-> op[p].gen]
    BY <1>2, <1>4 DEF OpHolds
  <2>3. op[p].gen \in Gens
    BY <1>1, <1>4, LedgerFacts DEF Kept
  <2>4. [profile |-> p, gen |-> op[p].gen] # None
    BY <2>3
  <2>5. op[p].res \in Holders
    BY <1>4 DEF Holders
  <2> QED
    BY <2>1, <2>2, <2>4, <2>5 DEF Owner
<1>5. ASSUME NEW a \in active
      PROVE  /\ a.res \in Holders /\ a.res # None /\ a.res.ident = IdentOf[a.ver]
             /\ Owner(a.res) = identities[a.res.ident]
             /\ identities[a.res.ident] # None
  <2>1. a.res = [ident |-> IdentOf[a.ver], profile |-> a.profile, gen |-> a.gen]
    BY <1>2 DEF SessionHolds
  <2>2. identities[IdentOf[a.ver]] = [profile |-> a.profile, gen |-> a.gen]
    BY <1>2 DEF SessionHolds
  <2>3. a.profile \in Profiles /\ a.gen \in Gens /\ a.res # None
    BY <1>1, LedgerFacts DEF Kept
  <2>4. [profile |-> a.profile, gen |-> a.gen] # None
    BY <2>3
  <2>5. a.res \in Holders
    BY DEF Holders
  <2> QED
    BY <2>1, <2>2, <2>3, <2>4, <2>5 DEF Owner
<1>6. ASSUME NEW j \in cleanup, j.res # None
      PROVE  /\ j.res \in Holders /\ Owner(j.res) = identities[j.res.ident]
             /\ identities[j.res.ident] # None
  <2>1. /\ j.res.gen = j.gen /\ j.res.profile = j.lease
        /\ identities[j.res.ident] = [profile |-> j.lease, gen |-> j.gen]
    BY <1>2, <1>6 DEF JobHolds
  <2>2. j.lease \in Profiles /\ j.gen \in Gens
    BY <1>1, <1>6, LedgerFacts DEF Kept
  <2>3. [profile |-> j.lease, gen |-> j.gen] # None
    BY <2>2
  <2>4. j.res \in Holders
    BY DEF Holders
  <2> QED
    BY <2>1, <2>3, <2>4 DEF Owner
<1>7. ASSUME NEW r \in Holders, r # None, r.ident = i PROVE identities[i] # None
  <2>1. \/ \E p \in Profiles : op[p] # None /\ r = op[p].res
        \/ \E a \in active : r = a.res
        \/ \E j \in cleanup : r = j.res
    BY DEF Holders
  <2> QED
    BY <1>4, <1>5, <1>6, <1>7, <2>1
<1>8. ASSUME identities[i] # None
      PROVE  \E r \in Holders : r # None /\ r.ident = i /\ Owner(r) = identities[i]
  <2>1. \/ \E p \in Profiles : op[p] # None /\ op[p].res # None /\ IdentOf[op[p].ver] = i
        \/ \E a \in active : IdentOf[a.ver] = i
        \/ \E j \in cleanup : j.res # None /\ j.res.ident = i
    BY <1>2, <1>8 DEF NoneLeaks
  <2>2. CASE \E p \in Profiles : op[p] # None /\ op[p].res # None /\ IdentOf[op[p].ver] = i
    BY <1>4, <2>2
  <2>3. CASE \E a \in active : IdentOf[a.ver] = i
    BY <1>5, <2>3
  <2>4. CASE \E j \in cleanup : j.res # None /\ j.res.ident = i
    BY <1>6, <2>4
  <2> QED
    BY <2>1, <2>2, <2>3, <2>4
<1> QED
  BY <1>7, <1>8

\* What is launched has been checked, as it is.
LEMMA LaunchesAreChecked ==
  ASSUME SessionsInv
  PROVE  LaunchChecked
<1>1. ASSUME NEW p \in Profiles, validated[p] # None
      PROVE  op[p] # None /\ op[p].ver = validated[p] /\ op[p].res # None
  BY <1>1 DEF SessionsInv, Tracked, RowOf, Row
<1>2. ASSUME NEW t \in tasks, t.kind = "launch" PROVE op[t.profile].ver = t.ver
  BY <1>2, WorkerFacts DEF WorkerKinds
<1> QED
  BY <1>1, <1>2 DEF LaunchChecked

\* Nothing of a deleted profile is left in the tables or in flight.
LEMMA DeletedAreGone ==
  ASSUME SessionsInv
  PROVE  DeletedNeverLaunches
<1>1. SUFFICES ASSUME NEW p \in Profiles, config[p] = None
               PROVE  /\ ~Leased(p) /\ ~WorkerPending(p) /\ validated[p] = None
                      /\ \A t \in tasks : t.profile = p => t.kind \in {"resume", "stop"}
                      /\ \A i \in Idents : identities[i] # None => identities[i].profile # p
  BY DEF DeletedNeverLaunches
<1>2. ~Leased(p)
  BY <1>1 DEF SessionsInv, Gone
<1>3. op[p] = None /\ (\A a \in active : a.profile # p) /\ (\A j \in cleanup : j.lease # p)
  BY <1>2 DEF Leased, ActiveProfile
<1>4. ~WorkerPending(p) /\ validated[p] = None
  BY <1>3, RowFacts
<1>5. ASSUME NEW t \in tasks, t.profile = p PROVE t.kind \in {"resume", "stop"}
  <2>1. t.kind \notin WorkerKinds
    BY <1>4, <1>5, RowFacts
  <2>2. t.kind # "managed" /\ t \in Task
    BY <1>5 DEF SessionsInv, TaskShapes, TaskShape
  <2> QED
    BY <2>1, <2>2 DEF Task, WorkerKinds
<1>6. ASSUME NEW i \in Idents, identities[i] # None PROVE identities[i].profile # p
  <2>1. PICK r \in Holders : r # None /\ r.ident = i /\ Owner(r) = identities[i]
    BY <1>6, ReservationsAreSound DEF ReservationSound
  <2>2. identities[i].profile = r.profile
    BY <2>1 DEF Owner
  <2>3. CASE \E q \in Profiles : op[q] # None /\ r = op[q].res
    <3>1. PICK q \in Profiles : op[q] # None /\ r = op[q].res
      BY <2>3
    <3>2. r = ReservationFor(q, op[q])
      BY <2>1, <3>1 DEF SessionsInv, Kept, Ledger, OpHolds
    <3> QED
      BY <1>3, <2>2, <3>1, <3>2 DEF ReservationFor
  <2>4. CASE \E a \in active : r = a.res
    <3>1. PICK a \in active : r = a.res
      BY <2>4
    <3>2. a.res = [ident |-> IdentOf[a.ver], profile |-> a.profile, gen |-> a.gen]
      BY DEF SessionsInv, Kept, Ledger, SessionHolds
    <3> QED
      BY <1>3, <2>2, <3>1, <3>2
  <2>5. CASE \E j \in cleanup : r = j.res
    <3>1. PICK j \in cleanup : r = j.res
      BY <2>5
    <3>2. j.res.profile = j.lease
      BY <2>1, <3>1 DEF SessionsInv, Kept, Ledger, JobHolds
    <3> QED
      BY <1>3, <2>2, <3>1, <3>2
  <2> QED
    BY <2>3, <2>4, <2>5 DEF Holders
<1> QED
  BY <1>2, <1>4, <1>5, <1>6

\* The tables of the App agree with each other and with the workers in flight.
THEOREM SessionsAreKept == Spec => []SessionsInvariant
<1>1. ASSUME SessionsInv PROVE TypeOK
  <2>1. /\ op \in [Profiles -> Operation \cup {None}] /\ active \subseteq ActiveSession
        /\ cleanup \subseteq Job /\ nextGen \in Gens
        /\ identities \in [Idents -> [profile : Profiles, gen : Gens] \cup {None}]
    BY <1>1 DEF SessionsInv, Kept, Ledger, LedgerTypes, Entry, Owned
  <2>2. tasks \subseteq Task
    BY <1>1 DEF SessionsInv, TaskShapes, TaskShape
  <2> QED
    BY <1>1, <2>1, <2>2 DEF SessionsInv, TableTypes, TypeOK
<1>2. SessionsInv => SessionsInvariant
  BY <1>1, WorkersAreTracked, ReservationsAreSound, LaunchesAreChecked, DeletedAreGone
     DEF SessionsInvariant
<1> QED
  BY <1>2, SessionsInvHolds, PTL

\* A launch that was cancelled, while checked, while its display starts or while its container is
\* created, never becomes a session.
THEOREM CancelledIsNotRun == Spec => CancelledNeverRuns
<1>1. ASSUME SessionsInv, [Next]_vars
      PROVE  [\A p \in Profiles : op[p] # None /\ op[p].cancelled =>
                ~\E a \in active' \ active : a.gen = op[p].gen]_vars
  <2>1. Settled /\ OneHolder(op, active, cleanup)
    BY <1>1, StepKeeps DEF SessionsInv, Kept, Ledger
  <2>2. ASSUME NEW p \in Profiles, op[p] # None, op[p].cancelled,
               NEW a \in active' \ active, a.gen = op[p].gen
        PROVE  FALSE
    <3>1. CASE \E b \in active : a.gen = b.gen
      BY <2>1, <2>2, <3>1 DEF OneHolder
    <3>2. CASE \E q \in Profiles : op[q] # None /\ ~op[q].cancelled /\ a.gen = op[q].gen
      BY <2>1, <2>2, <3>2 DEF OneHolder
    <3> QED
      BY <2>1, <3>1, <3>2 DEF Settled
  <2> QED
    BY <2>2
<1> QED
  BY <1>1, SessionsInvHolds, PTL DEF Spec, CancelledNeverRuns
=============================================================================
