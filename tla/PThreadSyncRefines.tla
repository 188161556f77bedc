------------------------ MODULE PThreadSyncRefines ------------------------
(***************************************************************************)
(* PThreadSync implements ThreadSpec, the Larch specification of the       *)
(* Thread interface, for any numbers of threads, mutexes and conditions,   *)
(* as long as no AlertWait is alerted and signalled at the same time.      *)
(***************************************************************************)
EXTENDS PThreadSyncProofs

\* The variables of the interface, as Interface instantiates them.
Owners == [m \in Mutex |-> Owner(m)]
Waiting == [c \in Condition |-> Ring(c)]
Pending == {t \in Thread : alerted[t]}
Points == [t \in Thread |-> At(t)]

Unseen == UNCHANGED <<Owners, Waiting, Pending, Points>>
Seen == Interface!Next \/ Unseen

\* An alert that AlertWait has taken is raised when the mutex is locked again.
Raisings == \A t \in Thread : local[t].raising => pc[t] \in {"Lock", "LockWait"}

-----------------------------------------------------------------------------
(* The parts of the interface's state.                                     *)

\* Whoever has locked a mutex is its only owner.
LEMMA OwnerKnown ==
  ASSUME MutualExclusion, NEW m \in Mutex
  PROVE  /\ \A t \in Thread : m \in LL[t] => Owner(m) = t
         /\ (\A t \in Thread : m \notin LL[t]) => Owner(m) = NIL
<1>1. ASSUME NEW t \in Thread, m \in LL[t]  PROVE Owner(m) = t
  <2>1. \A u \in Thread : m \in LL[u] => u = t
    BY <1>1 DEF MutualExclusion
  <2> QED  BY <1>1, <2>1 DEF Owner
<1> QED  BY <1>1 DEF Owner

\* Taking a mutex that nobody has.
LEMMA OwnerTakes ==
  ASSUME Safe, Safe', NEW t \in Thread, NEW m \in Mutex,
         LL' = [LL EXCEPT ![t] = @ \union {m}], \A u \in Thread : m \notin LL[u]
  PROVE  Owners[m] = NIL /\ Owners' = [Owners EXCEPT ![m] = t]
<1>0. MutualExclusion /\ MutualExclusion' /\ LL \in [Thread -> SUBSET Mutex]
  BY DEF Safe, Sound, TypeOK
<1>1. Owners[m] = NIL
  BY <1>0, OwnerKnown DEF Owners
<1>2. Owner(m)' = t
  <2>1. \A u \in Thread : m \in LL'[u] => u = t
    BY <1>0
  <2>2. m \in LL'[t]
    BY <1>0
  <2> QED  BY <2>1, <2>2 DEF Owner
<1>3. ASSUME NEW k \in Mutex, k # m  PROVE Owner(k)' = Owner(k)
  <2>1. \A u \in Thread : k \in LL'[u] <=> k \in LL[u]
    BY <1>0, <1>3
  <2>2. CASE \E u \in Thread : k \in LL[u]
    <3>1. PICK u \in Thread : k \in LL[u]
      BY <2>2
    <3>2. \A v \in Thread : k \in LL[v] => v = u
      BY <1>0, <3>1 DEF MutualExclusion
    <3> QED  BY <2>1, <3>1, <3>2 DEF Owner
  <2>3. CASE ~\E u \in Thread : k \in LL[u]
    BY <2>1, <2>3 DEF Owner
  <2> QED  BY <2>2, <2>3
<1> QED  BY <1>1, <1>2, <1>3 DEF Owners

\* Giving up a mutex.
LEMMA OwnerGives ==
  ASSUME Safe, NEW t \in Thread, NEW m \in Mutex, m \in LL[t],
         LL' = [LL EXCEPT ![t] = @ \ {m}]
  PROVE  Owners[m] = t /\ Owners' = [Owners EXCEPT ![m] = NIL]
<1>0. MutualExclusion /\ LL \in [Thread -> SUBSET Mutex]
  BY DEF Safe, Sound, TypeOK
<1>1. Owners[m] = t
  BY <1>0, OwnerKnown DEF Owners
<1>2. Owner(m)' = NIL
  <2>1. \A u \in Thread : m \in LL[u] => u = t
    BY <1>0 DEF MutualExclusion
  <2>2. \A u \in Thread : m \notin LL'[u]
    BY <1>0, <2>1
  <2> QED  BY <2>2 DEF Owner
<1>3. ASSUME NEW k \in Mutex, k # m  PROVE Owner(k)' = Owner(k)
  <2>1. \A u \in Thread : k \in LL'[u] <=> k \in LL[u]
    BY <1>0, <1>3
  <2>2. CASE \E u \in Thread : k \in LL[u]
    <3>1. PICK u \in Thread : k \in LL[u]
      BY <2>2
    <3>2. \A v \in Thread : k \in LL[v] => v = u
      BY <1>0, <3>1 DEF MutualExclusion
    <3> QED  BY <2>1, <3>1, <3>2 DEF Owner
  <2>3. CASE ~\E u \in Thread : k \in LL[u]
    BY <2>1, <2>3 DEF Owner
  <2> QED  BY <2>2, <2>3
<1> QED  BY <1>1, <1>2, <1>3 DEF Owners

\* Giving up a mutex that is not in LL, and leaving LL alone.
LEMMA OwnersSame ==
  ASSUME LL' = LL
  PROVE  Owners' = Owners
BY DEF Owners, Owner

\* The wait sets of the interface are the queues of the conditions.
Agree == Waiting = [c \in Condition |-> Queued(c)]

LEMMA WaitingKnown == Safe => Agree
<1>1. ASSUME Safe, NEW c \in Condition  PROVE Ring(c) = Queued(c)
  BY <1>1, RingIsQueue DEF Safe, Object
<1> QED  BY <1>1 DEF Agree, Waiting

\* After a step likewise.
LEMMA WaitingThen == Safe' => Agree'
BY WaitingKnown, PTL

\* No queue of a condition has changed.
LEMMA WaitingSame ==
  ASSUME Safe, Safe', \A c \in Condition : Queued(c)' = Queued(c)
  PROVE  Waiting' = Waiting
BY WaitingKnown, WaitingThen DEF Agree

\* One queue of a condition has changed.
LEMMA WaitingMoves ==
  ASSUME Safe, Safe', NEW c \in Condition, NEW S, Queued(c)' = S,
         \A d \in Condition \ {c} : Queued(d)' = Queued(d)
  PROVE  Waiting' = [Waiting EXCEPT ![c] = S]
BY WaitingKnown, WaitingThen DEF Agree

\* Only the point of the thread that moves can change.
LEMMA PointMoves ==
  ASSUME NEW t \in Thread, Only(t)
  PROVE  /\ Points' = [Points EXCEPT ![t] = At(t)']
         /\ Points[t] = At(t)
<1>1. \A s \in Thread \ {t} : At(s)' = At(s)
  BY DEF At, Only
<1> QED  BY <1>1 DEF Points

\* Nothing that the interface shows has changed.
LEMMA NothingSeen ==
  ASSUME Safe, Safe', NEW t \in Thread, Only(t), At(t)' = At(t), LL' = LL,
         \A c \in Condition : Queued(c)' = Queued(c), alerted' = alerted
  PROVE  Seen
<1>1. Points' = Points
  BY PointMoves DEF Points
<1>2. Pending' = Pending
  BY DEF Pending
<1> QED  BY <1>1, <1>2, OwnersSame, WaitingSame DEF Seen, Unseen

\* Where a thread is between the actions of the interface.
LEMMA PointKnown ==
  ASSUME NEW t \in Thread
  PROVE  /\ pc[t] = "Pause" /\ local[t].c = NIL =>
              At(t) = Interface!Pausing(local[t].alertable)
         /\ pc[t] # "Pause" /\ local[t].c = NIL => At(t) = Interface!Idle
         /\ pc[t] # "Pause" /\ local[t].c # NIL =>
              \E step \in {"Resume", "ResumeAlerted", "Choose"} :
                /\ At(t) = Interface!Inside(step, local[t].m, local[t].c,
                                            local[t].alertable)
                /\ local[t].raising => step = "ResumeAlerted"
                /\ ~local[t].raising =>
                     step = IF local[t].alertable /\ pc[t] \notin {"Lock", "LockWait"}
                            THEN "Choose" ELSE "Resume"
<1>1. pc[t] = "Pause" /\ local[t].c = NIL =>
        At(t) = Interface!Pausing(local[t].alertable)
  BY DEF At, Interface!Pausing
<1>2. pc[t] # "Pause" /\ local[t].c = NIL => At(t) = Interface!Idle
  BY DEF At, Interface!Idle
<1>3. ASSUME pc[t] # "Pause", local[t].c # NIL
      PROVE  \E step \in {"Resume", "ResumeAlerted", "Choose"} :
                /\ At(t) = Interface!Inside(step, local[t].m, local[t].c,
                                            local[t].alertable)
                /\ local[t].raising => step = "ResumeAlerted"
                /\ ~local[t].raising =>
                     step = IF local[t].alertable /\ pc[t] \notin {"Lock", "LockWait"}
                            THEN "Choose" ELSE "Resume"
  <2>1. CASE local[t].raising
    BY <1>3, <2>1 DEF At, Interface!Inside
  <2>2. CASE ~local[t].raising /\ local[t].alertable
             /\ pc[t] \notin {"Lock", "LockWait"}
    BY <1>3, <2>2 DEF At, Interface!Inside
  <2>3. CASE ~local[t].raising /\ ~(local[t].alertable
             /\ pc[t] \notin {"Lock", "LockWait"})
    BY <1>3, <2>3 DEF At, Interface!Inside
  <2> QED  BY <2>1, <2>2, <2>3
<1> QED  BY <1>1, <1>2, <1>3

\* The same procedure, with the same arguments, at the same point.
LEMMA PointSame ==
  ASSUME NEW t \in Thread, pc[t] # "Pause", pc'[t] # "Pause",
         local'[t].m = local[t].m, local'[t].c = local[t].c,
         local'[t].alertable = local[t].alertable,
         local'[t].raising = local[t].raising,
         \/ pc[t] \in {"Lock", "LockWait"} <=> pc'[t] \in {"Lock", "LockWait"}
         \/ local[t].c = NIL
         \/ local[t].raising
         \/ ~local[t].alertable
  PROVE  At(t)' = At(t)
BY DEF At

\* The interface's step is taken by one of its threads.
LEMMA Taken ==
  ASSUME NEW t \in Thread, Interface!Step(t)
  PROVE  Seen
BY DEF Seen, Interface!Next

-----------------------------------------------------------------------------
(* Mutexes.                                                                *)

\* Acquire is Acquire when the mutex is free and nothing when it is not;
\* m.acquire () in XWait is Resume or nothing.
LEMMA LockMutexSeen ==
  ASSUME Safe, Safe', NEW t \in Thread, NEW m \in Mutex, LockMutex(t, m),
         \/ pc[t] = "Ready" /\ m \notin LL[t]
         \/ pc[t] = "Lock" /\ m = local[t].m,
         alerted' = alerted
  PROVE  Seen
<1>0. /\ TypeOK /\ Places /\ Holders /\ Sound /\ MutualExclusion
      /\ Place(t) /\ Holding(t) /\ m \in Object /\ m \notin Condition
  BY ObjectsDistinct DEF Safe, Sound, Places, Holders, Object
<1>1. /\ waitingOn[t] = NIL /\ nextWaiter[t] = NIL
      /\ pc[t] \notin InSecondSection /\ pc[t] # "Pause"
      /\ m \notin LL[t]
  BY <1>0 DEF Place, InSecondSection, Holding, Outside
<1>2. CASE holder[m] = NIL
  <2>1. /\ LL' = [LL EXCEPT ![t] = @ \union {m}]
        /\ pc' = [pc EXCEPT ![t] = "Ready"]
        /\ local' = [local EXCEPT ![t] = NoLocal]
        /\ UNCHANGED <<waiters, waitingOn, nextWaiter>>
    BY <1>2 DEF LockMutex, Return, Go
  <2>2. Only(t) /\ pc'[t] = "Ready" /\ local'[t].c = NIL
    BY <1>0, <2>1 DEF TypeOK, Only, Labels, NoLocal
  <2>3. \A o \in Object : Queued(o)' = Queued(o)
    BY <1>0, <1>1, <2>1, <2>2, QuietStep DEF InSecondSection
  <2>4. Waiting' = Waiting /\ Pending' = Pending
    BY <2>3, WaitingSame DEF Object, Pending
  <2>5. Owners[m] = NIL /\ Owners' = [Owners EXCEPT ![m] = t]
    <3>1. \A u \in Thread : m \notin LL[u]
      BY <1>0, <1>2, NilIsNothing DEF MutualExclusion
    <3> QED  BY <2>1, <3>1, OwnerTakes
  <2>6. Points' = [Points EXCEPT ![t] = Interface!Idle] /\ Points[t] = At(t)
    <3>1. At(t)' = Interface!Idle
      BY <2>2 DEF At, Interface!Idle
    <3> QED  BY <2>2, <3>1, PointMoves
  <2>7. CASE pc[t] = "Ready"
    <3>1. At(t) = Interface!Idle
      BY <1>0, <2>7, PointKnown DEF Place
    <3>2. Points' = Points
      BY <2>6, <3>1 DEF Points
    <3>3. Interface!Acquire(t, m)
      BY <2>4, <2>5, <2>6, <3>1, <3>2
      DEF Interface!Acquire, Owners, Waiting, Pending, Points
    <3> QED  BY <3>3, Taken DEF Interface!Step
  <2>8. CASE pc[t] = "Lock"
    <3>1. local[t].c \in Condition /\ local[t].c # NIL /\ local[t].m = m
      BY <1>0, <2>8, NilIsNothing DEF Place, Object
    <3>2. PICK step \in {"Resume", "ResumeAlerted"} :
            At(t) = Interface!Inside(step, m, local[t].c, local[t].alertable)
      <4>1. local[t].raising \in BOOLEAN
        BY <1>0 DEF TypeOK, Locals
      <4> QED  BY <2>8, <3>1, <4>1, PointKnown
    <3>3. /\ Points[t].step \in {"Resume", "ResumeAlerted"}
          /\ Points[t].m = m /\ Points[t].c = local[t].c
      BY <2>6, <3>2 DEF Interface!Inside
    <3>4. t \notin Waiting[local[t].c]
      <4>1. t \notin Queued(local[t].c)
        BY <1>1, <3>1 DEF Queued
      <4> QED  BY <3>1, <4>1, WaitingKnown DEF Agree
    <3>5. Interface!Resume(t)
      BY <2>4, <2>5, <2>6, <3>3, <3>4
      DEF Interface!Resume, Owners, Waiting, Pending, Points
    <3> QED  BY <3>5, Taken DEF Interface!Step
  <2> QED  BY <2>7, <2>8
<1>3. CASE holder[m] # NIL
  <2>1. /\ Enqueue(m, t)
        /\ pc' = [pc EXCEPT ![t] = "LockWait"]
        /\ local' = [local EXCEPT ![t].m = m]
        /\ LL' = LL
    BY <1>3 DEF LockMutex, Go
  <2>2. Only(t) /\ pc'[t] = "LockWait"
    BY <1>0, <2>1 DEF TypeOK, Only, Labels
  <2>3. \A c \in Condition : Queued(c)' = Queued(c)
    BY <1>0, <1>1, <2>1, <2>2, EnqueueStep DEF InSecondSection, Object
  <2>4. /\ local'[t].m = m /\ local'[t].c = local[t].c
        /\ local'[t].alertable = local[t].alertable
        /\ local'[t].raising = local[t].raising
    BY <1>0, <2>1 DEF TypeOK, Locals
  <2>5. At(t)' = At(t)
    <3>1. CASE pc[t] = "Ready"
      BY <1>0, <2>2, <2>4, <3>1 DEF At, Place
    <3>2. CASE pc[t] = "Lock"
      BY <2>2, <2>4, <3>2, PointSame
    <3> QED  BY <3>1, <3>2
  <2> QED  BY <2>1, <2>2, <2>3, <2>5, NothingSeen
<1> QED  BY <1>2, <1>3

\* The end of LockMutex is Acquire or Resume, a wakeup without a handoff is
\* nothing.
LEMMA LockWakeSeen ==
  ASSUME Safe, Safe', NEW t \in Thread, LockWake(t)
  PROVE  Seen
<1>0. /\ TypeOK /\ Places /\ Holders /\ Sound /\ MutualExclusion
      /\ Place(t) /\ Holding(t)
  BY DEF Safe, Sound, Places, Holders
<1>1. /\ pc[t] = "LockWait" /\ pc[t] \notin InSecondSection
      /\ UNCHANGED <<waiters, waitingOn, nextWaiter, alerted>>
  BY DEF LockWake, InSecondSection
<1>2. CASE ~OffList(t)
  <2>1. UNCHANGED <<pc, local, LL>>
    BY <1>2 DEF LockWake
  <2>2. Only(t) /\ At(t)' = At(t)
    BY <1>0, <2>1 DEF TypeOK, Only, At
  <2>3. \A o \in Object : Queued(o)' = Queued(o)
    BY <1>0, <1>1, <2>1, <2>2, QuietStep DEF InSecondSection
  <2> QED  BY <1>1, <2>1, <2>2, <2>3, NothingSeen DEF Object
<1>3. CASE OffList(t)
  <2>m. PICK m \in Mutex : m = local[t].m
    BY <1>0, <1>1 DEF Place
  <2>1. /\ LL' = [LL EXCEPT ![t] = @ \union {m}]
        /\ pc' = [pc EXCEPT ![t] = "Ready"]
        /\ local' = [local EXCEPT ![t] = NoLocal]
    BY <1>3, <2>m DEF LockWake, Return, Go
  <2>2. Only(t) /\ pc'[t] = "Ready" /\ local'[t].c = NIL
    BY <1>0, <2>1 DEF TypeOK, Only, Labels, NoLocal
  <2>3. \A o \in Object : Queued(o)' = Queued(o)
    BY <1>0, <1>1, <2>1, <2>2, QuietStep DEF InSecondSection
  <2>4. Waiting' = Waiting /\ Pending' = Pending
    BY <1>1, <2>3, WaitingSame DEF Object, Pending
  <2>5. Owners[m] = NIL /\ Owners' = [Owners EXCEPT ![m] = t]
    <3>1. waitingOn[t] = NIL /\ holder[m] = t /\ m \notin LL[t]
      BY <1>0, <1>1, <1>3, <2>m DEF OffList, Holding, Outside
    <3>2. \A u \in Thread : m \notin LL[u]
      BY <1>0, <3>1 DEF MutualExclusion
    <3> QED  BY <2>1, <3>2, OwnerTakes
  <2>6. Points' = [Points EXCEPT ![t] = Interface!Idle] /\ Points[t] = At(t)
    <3>1. At(t)' = Interface!Idle
      BY <2>2 DEF At, Interface!Idle
    <3> QED  BY <2>2, <3>1, PointMoves
  <2>7. CASE local[t].c = NIL
    <3>1. At(t) = Interface!Idle
      BY <1>1, <2>7, PointKnown
    <3>2. Points' = Points
      BY <2>6, <3>1 DEF Points
    <3>3. Interface!Acquire(t, m)
      BY <2>4, <2>5, <2>6, <3>1, <3>2
      DEF Interface!Acquire, Owners, Waiting, Pending, Points
    <3> QED  BY <3>3, Taken DEF Interface!Step
  <2>8. CASE local[t].c # NIL
    <3>1. local[t].c \in Condition /\ local[t].raising \in BOOLEAN
      BY <1>0, <2>8 DEF TypeOK, Locals
    <3>2. PICK step \in {"Resume", "ResumeAlerted"} :
            At(t) = Interface!Inside(step, m, local[t].c, local[t].alertable)
      BY <1>1, <2>m, <2>8, <3>1, PointKnown
    <3>3. /\ Points[t].step \in {"Resume", "ResumeAlerted"}
          /\ Points[t].m = m /\ Points[t].c = local[t].c
      BY <2>6, <3>2 DEF Interface!Inside
    <3>4. t \notin Waiting[local[t].c]
      <4>1. t \notin Queued(local[t].c)
        BY <1>3, <2>8 DEF OffList, Queued
      <4> QED  BY <3>1, <4>1, WaitingKnown DEF Agree
    <3>5. Interface!Resume(t)
      BY <2>4, <2>5, <2>6, <3>3, <3>4
      DEF Interface!Resume, Owners, Waiting, Pending, Points
    <3> QED  BY <3>5, Taken DEF Interface!Step
  <2> QED  BY <2>7, <2>8
<1> QED  BY <1>2, <1>3

\* UnlockMutex does nothing to the conditions, and its caller stays where it is.
LEMMA UnlockMutexUnseen ==
  ASSUME Safe, NEW t \in Thread, NEW m \in Mutex, UnlockMutex(t, m),
         pc[t] = "Ready" \/ (pc[t] = "Unlock" /\ m = local[t].m)
  PROVE  /\ Only(t) /\ At(t)' = At(t)
         /\ \A c \in Condition : Queued(c)' = Queued(c)
         /\ LL' = [LL EXCEPT ![t] = @ \ {m}] /\ alerted' = alerted
<1>0. /\ TypeOK /\ Sound /\ Place(t) /\ m \in Object /\ m \notin Condition
      /\ pc[t] \notin InSecondSection
  BY ObjectsDistinct DEF Safe, Sound, Places, Object, InSecondSection
<1>1. /\ LL' = [LL EXCEPT ![t] = @ \ {m}]
      /\ UNCHANGED <<waitingOn, alerted>>
  BY DEF UnlockMutex
<1>2. CASE waiters[m] = NIL
  <2>1. /\ pc' = [pc EXCEPT ![t] = AfterUnlock(t)]
        /\ UNCHANGED <<waiters, nextWaiter, local>>
    BY <1>2 DEF UnlockMutex, Go
  <2>2. pc'[t] \in {"Ready", "Waiting"} /\ Only(t)
    BY <1>0, <2>1 DEF AfterUnlock, TypeOK, Only, Labels
  <2>3. \A o \in Object : Queued(o)' = Queued(o)
    BY <1>0, <1>1, <2>1, <2>2, QuietStep DEF InSecondSection
  <2>4. At(t)' = At(t)
    BY <2>1, <2>2, PointSame
  <2> QED  BY <1>1, <2>2, <2>3, <2>4 DEF Object
<1>3. CASE waiters[m] # NIL
  <2>1. /\ Dequeue(m)
        /\ local' = [local EXCEPT ![t].m = m, ![t].t = Head(m)]
        /\ pc' = [pc EXCEPT ![t] = "Grant"]
    BY <1>3 DEF UnlockMutex, Go
  <2>2. Only(t) /\ pc'[t] = "Grant"
    BY <1>0, <2>1 DEF TypeOK, Only, Labels
  <2>3. /\ local'[t].m = m /\ local'[t].t = Head(m) /\ local'[t].c = local[t].c
        /\ local'[t].alertable = local[t].alertable
        /\ local'[t].raising = local[t].raising
    <3>1. local[t] \in Locals
      BY <1>0 DEF TypeOK
    <3>2. local'[t] = [local[t] EXCEPT !.m = m, !.t = Head(m)]
      BY <1>0, <2>1 DEF TypeOK
    <3> QED  BY <3>1, <3>2 DEF Locals
  <2>4. \A c \in Condition : Queued(c)' = Queued(c)
    BY <1>0, <1>1, <1>3, <2>1, <2>2, <2>3, DequeueStep DEF Object
  <2>5. At(t)' = At(t)
    <3>1. CASE pc[t] = "Ready"
      BY <1>0, <2>2, <2>3, <3>1 DEF At, Place
    <3>2. CASE pc[t] = "Unlock"
      BY <2>2, <2>3, <3>2, PointSame
    <3> QED  BY <3>1, <3>2
  <2> QED  BY <1>1, <2>2, <2>4, <2>5
<1> QED  BY <1>2, <1>3

\* Release is Release.
LEMMA ReleaseSeen ==
  ASSUME Safe, Safe', NEW t \in Thread, NEW m \in Mutex, Release(t, m)
  PROVE  Seen
<1>1. /\ pc[t] = "Ready" /\ m \in LL[t] /\ UnlockMutex(t, m) /\ local[t].c = NIL
  BY DEF Release, Safe, Sound, Places, Place
<1>2. /\ Only(t) /\ At(t)' = At(t)
      /\ \A c \in Condition : Queued(c)' = Queued(c)
      /\ LL' = [LL EXCEPT ![t] = @ \ {m}] /\ alerted' = alerted
  BY <1>1, UnlockMutexUnseen
<1>3. Waiting' = Waiting /\ Pending' = Pending
  BY <1>2, WaitingSame DEF Pending
<1>4. Owners[m] = t /\ Owners' = [Owners EXCEPT ![m] = NIL]
  BY <1>1, <1>2, OwnerGives
<1>5. Points' = Points /\ Points[t] = Interface!Idle
  BY <1>1, <1>2, PointMoves, PointKnown DEF Points
<1>6. Interface!Release(t, m)
  BY <1>3, <1>4, <1>5 DEF Interface!Release, Owners, Waiting, Pending, Points
<1> QED  BY <1>6, Taken DEF Interface!Step

\* m.release () in XWait shows nothing: the interface has given m up before.
LEMMA WaitReleaseSeen ==
  ASSUME Safe, Safe', NEW t \in Thread, WaitRelease(t)
  PROVE  Seen
<1>0. TypeOK /\ Place(t) /\ Holding(t)
  BY DEF Safe, Sound, Places, Holders
<1>1. PICK m \in Mutex : m = local[t].m
  BY <1>0 DEF WaitRelease, Place
<1>2. pc[t] = "Unlock" /\ UnlockMutex(t, m) /\ m \notin LL[t]
  BY <1>0, <1>1 DEF WaitRelease, Holding, Outside
<1>3. /\ Only(t) /\ At(t)' = At(t)
      /\ \A c \in Condition : Queued(c)' = Queued(c)
      /\ LL' = [LL EXCEPT ![t] = @ \ {m}] /\ alerted' = alerted
  BY <1>1, <1>2, UnlockMutexUnseen
<1>4. LL' = LL
  BY <1>0, <1>2, <1>3 DEF TypeOK
<1> QED  BY <1>3, <1>4, NothingSeen

\* Telling the new holder shows nothing.
LEMMA GrantSeen ==
  ASSUME Safe, Safe', NEW t \in Thread, Grant(t)
  PROVE  Seen
<1>0. TypeOK /\ Sound /\ FlightOK(t) /\ local[t] \in Locals
  BY DEF Safe, Sound, Flights, TypeOK
<1>1. PICK u \in Thread : u = local[t].t
  BY <1>0 DEF Grant, FlightOK
<1>2. /\ pc[t] = "Grant" /\ WakeUp(u)
      /\ pc' = [pc EXCEPT ![t] = AfterUnlock(t)]
      /\ local' = [local EXCEPT ![t] =
                     IF local[t].c = NIL THEN NoLocal ELSE [local[t] EXCEPT !.t = NIL]]
      /\ UNCHANGED <<waiters, alerted, LL>>
  BY <1>0, <1>1 DEF Grant, Go, TypeOK
<1>3. AfterUnlock(t) = IF local[t].c = NIL THEN "Ready" ELSE "Waiting"
  BY DEF AfterUnlock
<1>4. Only(t) /\ pc'[t] = AfterUnlock(t) /\ pc'[t] \notin InSecondSection
  BY <1>0, <1>2, <1>3 DEF TypeOK, Only, Labels, InSecondSection
<1>5. u \in Flight(t) /\ Flight(t)' = Flight(t) \ {u}
  BY <1>1, <1>2, <1>4, FlightNone DEF Flight
<1>6. \A o \in Object : Queued(o)' = Queued(o)
  BY <1>0, <1>2, <1>4, <1>5, WakeStep
<1>7. local'[t] = IF local[t].c = NIL THEN NoLocal ELSE [local[t] EXCEPT !.t = NIL]
  BY <1>0, <1>2 DEF TypeOK
<1>8. At(t)' = At(t)
  <2>1. CASE local[t].c = NIL
    <3>1. local'[t].c = NIL /\ pc'[t] = "Ready"
      BY <1>3, <1>4, <1>7, <2>1 DEF NoLocal
    <3> QED  BY <1>2, <2>1, <3>1 DEF At
  <2>2. CASE local[t].c # NIL
    <3>1. /\ local'[t].m = local[t].m /\ local'[t].c = local[t].c
          /\ local'[t].alertable = local[t].alertable
          /\ local'[t].raising = local[t].raising
      BY <1>0, <1>7, <2>2 DEF Locals
    <3> QED  BY <1>2, <1>3, <1>4, <2>2, <3>1, PointSame
  <2> QED  BY <2>1, <2>2
<1> QED  BY <1>2, <1>4, <1>6, <1>8, NothingSeen DEF Object

-----------------------------------------------------------------------------
(* Conditions.                                                             *)

\* The first section of Wait or AlertWait is Enqueue: the mutex is given up
\* for the interface, although UnlockMutex is still to come.
LEMMA XWaitSeen ==
  ASSUME Safe, Safe', NEW t \in Thread, NEW m \in Mutex, NEW c \in Condition,
         NEW b \in BOOLEAN, XWait(t, m, c, b)
  PROVE  Seen
<1>0. /\ TypeOK /\ Sound /\ Place(t) /\ c \in Object /\ c # NIL
      /\ \A d \in Condition : d \in Object
  BY NilIsNothing DEF Safe, Sound, Places, Object
<1>1. /\ pc[t] = "Ready" /\ pc[t] \notin InSecondSection /\ m \in LL[t]
      /\ waitingOn[t] = NIL /\ local[t].c = NIL
      /\ Enqueue(c, t)
      /\ LL' = [LL EXCEPT ![t] = @ \ {m}]
      /\ local' = [local EXCEPT ![t] = Arguments(m, c, b)]
      /\ pc' = [pc EXCEPT ![t] = "Unlock"]
      /\ alerted' = alerted
  BY <1>0 DEF XWait, Go, Place, InSecondSection
<1>2. /\ Only(t) /\ pc'[t] = "Unlock" /\ pc'[t] \notin InSecondSection
      /\ local'[t] = Arguments(m, c, b)
  BY <1>0, <1>1 DEF TypeOK, Only, Labels, InSecondSection
<1>3. /\ Queued(c)' = Queued(c) \union {t}
      /\ \A p \in Object \ {c} : Queued(p)' = Queued(p)
  BY <1>0, <1>1, <1>2, EnqueueStep
<1>4. Waiting' = [Waiting EXCEPT ![c] = @ \union {t}]
  <2>1. Waiting[c] = Queued(c)
    BY WaitingKnown DEF Agree
  <2>2. Waiting' = [Waiting EXCEPT ![c] = Queued(c) \union {t}]
    BY <1>0, <1>3, WaitingMoves
  <2> QED  BY <2>1, <2>2 DEF Waiting
<1>5. Owners[m] = t /\ Owners' = [Owners EXCEPT ![m] = NIL]
  BY <1>1, OwnerGives
<1>6. Points' = [Points EXCEPT ![t] =
                   Interface!Inside(IF b THEN "Choose" ELSE "Resume", m, c, b)]
      /\ Points[t] = Interface!Idle
  <2>1. /\ local'[t].m = m /\ local'[t].c = c /\ local'[t].alertable = b
        /\ local'[t].raising = FALSE
    BY <1>2 DEF Arguments, NoLocal
  <2>2. At(t)' = Interface!Inside(IF b THEN "Choose" ELSE "Resume", m, c, b)
    BY <1>0, <1>2, <2>1 DEF At, Interface!Inside
  <2> QED  BY <1>1, <1>2, <2>2, PointMoves, PointKnown
<1>7. Pending' = Pending
  BY <1>1 DEF Pending
<1>8. Interface!Enqueue(t, m, c, b)
  BY <1>4, <1>5, <1>6, <1>7
  DEF Interface!Enqueue, Owners, Waiting, Pending, Points
<1> QED  BY <1>8, Taken DEF Interface!Step

\* The loop of XWait: nothing, or ChooseSignal or ChooseAlert of AlertWait.
LEMMA WaitLoopSeen ==
  ASSUME Safe, Safe', Raisings, Undisturbed, NEW t \in Thread, WaitLoop(t)
  PROVE  Seen
<1>0. TypeOK /\ Sound /\ Place(t) /\ local[t] \in Locals
  BY DEF Safe, Sound, Places, TypeOK
<1>c. PICK c \in Condition : c = local[t].c
  BY <1>0 DEF WaitLoop, Place
<1>b. PICK b \in BOOLEAN : b = local[t].alertable
  BY <1>0 DEF Locals
<1>1. /\ pc[t] = "Waiting" /\ pc[t] \notin InSecondSection /\ LL' = LL
      /\ c \in Object /\ c # NIL /\ local[t].raising = FALSE
      /\ \A d \in Condition : d \in Object
  BY <1>0, <1>b, <1>c, NilIsNothing DEF WaitLoop, InSecondSection, Object, Raisings, Locals
<1>2. CASE KeepWaiting(t)
  <2>1. UNCHANGED <<waiters, waitingOn, nextWaiter, alerted, pc, local>>
    BY <1>2 DEF KeepWaiting
  <2>2. Only(t) /\ At(t)' = At(t)
    BY <1>0, <2>1 DEF TypeOK, Only, At
  <2>3. \A o \in Object : Queued(o)' = Queued(o)
    BY <1>0, <1>1, <2>1, <2>2, QuietStep DEF InSecondSection
  <2> QED  BY <1>1, <2>1, <2>2, <2>3, NothingSeen
<1>3. CASE WaitSignalled(t)
  <2>1. /\ waitingOn[t] = NIL /\ pc' = [pc EXCEPT ![t] = "Lock"]
        /\ UNCHANGED <<waiters, waitingOn, nextWaiter, alerted, local>>
    BY <1>3 DEF WaitSignalled, OffList, Go
  <2>2. Only(t) /\ pc'[t] = "Lock" /\ local'[t] = local[t]
    BY <1>0, <2>1 DEF TypeOK, Only, Labels
  <2>3. \A o \in Object : Queued(o)' = Queued(o)
    BY <1>0, <1>1, <2>1, <2>2, QuietStep DEF InSecondSection
  <2>4. CASE ~b
    <3>1. At(t)' = At(t)
      BY <1>b, <1>1, <2>2, <2>4, PointSame
    <3> QED  BY <1>1, <2>1, <2>2, <2>3, <3>1, NothingSeen
  <2>5. CASE b
    <3>1. /\ At(t) = Interface!Inside("Choose", local[t].m, c, b)
          /\ At(t)' = Interface!Inside("Resume", local[t].m, c, b)
      BY <1>1, <1>b, <1>c, <2>2, <2>5 DEF At, Interface!Inside
    <3>2. Points[t] = At(t) /\ Points' = [Points EXCEPT ![t] = At(t)']
      BY <2>2, PointMoves
    <3>3. Points[t].step = "Choose" /\ Points[t].c = c
          /\ Points' = [Points EXCEPT ![t].step = "Resume"]
      <4>1. Points[t] = Interface!Inside("Choose", local[t].m, c, b)
        BY <3>1, <3>2
      <4>2. Points' = [Points EXCEPT ![t] =
                            Interface!Inside("Resume", local[t].m, c, b)]
        BY <3>1, <3>2
      <4>3. [Points[t] EXCEPT !.step = "Resume"]
              = Interface!Inside("Resume", local[t].m, c, b)
        <5>1. PICK p, m : p = Points[t] /\ m = local[t].m
          OBVIOUS
        <5>2. p = Interface!Inside("Choose", m, c, b)
          BY <4>1, <5>1
        <5>3. [p EXCEPT !.step = "Resume"] = Interface!Inside("Resume", m, c, b)
          BY <5>2 DEF Interface!Inside
        <5> QED  BY <5>1, <5>3, Zenon
      <4>4. Points[t].step = "Choose" /\ Points[t].c = c
        BY <4>1 DEF Interface!Inside
      <4> QED  BY <4>2, <4>3, <4>4, Zenon
    <3>4. t \notin Waiting[c]
      BY <2>1, <1>1, WaitingKnown DEF Agree, Queued
    <3>5. Owners' = Owners /\ Waiting' = Waiting /\ Pending' = Pending
      BY <1>1, <2>1, <2>3, OwnersSame, WaitingSame DEF Pending
    <3>6. Interface!ChooseSignal(t)
      BY <3>3, <3>4, <3>5
      DEF Interface!ChooseSignal, Owners, Waiting, Pending, Points
    <3> QED  BY <3>6, Taken DEF Interface!Step
  <2> QED  BY <2>4, <2>5
<1>4. CASE MustRaise(t) /\ WaitAlerted(t)
  <2>1. t \in Ring(c) /\ b /\ alerted[t]
    <3>1. MustRaise(t)
      BY <1>4
    <3>2. t \in Ring(local[t].c)
      BY <1>1, <3>1 DEF Undisturbed
    <3>3. b /\ alerted[t]
      BY <1>b, <3>1, Zenon DEF MustRaise
    <3> QED  BY <1>c, <3>2, <3>3
  <2>2. ~OffList(t)
    <3>1. t \in Queued(c)
      BY <1>0, <1>1, <2>1, RingIsQueue
    <3> QED  BY <1>1, <3>1 DEF OffList, Queued
  <2>3. /\ Unlink(t, c)
        /\ waitingOn' = [waitingOn EXCEPT ![t] = NIL]
        /\ alerted' = [alerted EXCEPT ![t] = FALSE]
        /\ pc' = [pc EXCEPT ![t] = "Lock"]
        /\ local' = [local EXCEPT ![t].raising = TRUE]
    BY <1>4, <1>b, <1>c, <2>2 DEF WaitAlerted, Go
  <2>4. /\ Only(t) /\ pc'[t] = "Lock" /\ pc'[t] \notin InSecondSection
        /\ local'[t] = [local[t] EXCEPT !.raising = TRUE]
    BY <1>0, <2>3 DEF TypeOK, Only, Labels, InSecondSection
  <2>5. /\ Queued(c)' = Queued(c) \ {t}
        /\ \A o \in Object \ {c} : Queued(o)' = Queued(o)
    BY <1>0, <1>1, <2>1, <2>3, <2>4, UnlinkStep
  <2>6. Waiting' = [Waiting EXCEPT ![c] = @ \ {t}] /\ t \in Waiting[c]
    <3>1. Waiting[c] = Queued(c) /\ Queued(c) = Ring(c)
      BY <1>0, <1>1, WaitingKnown, RingIsQueue DEF Agree
    <3>2. Waiting' = [Waiting EXCEPT ![c] = Queued(c) \ {t}]
      BY <1>1, <2>5, WaitingMoves
    <3> QED  BY <2>1, <3>1, <3>2 DEF Waiting
  <2>7. /\ Points[t].step = "Choose" /\ Points[t].c = c
        /\ Points' = [Points EXCEPT ![t].step = "ResumeAlerted"]
    <3>0. /\ local'[t].m = local[t].m /\ local'[t].c = c
          /\ local'[t].alertable = b /\ local'[t].raising = TRUE
      BY <1>0, <1>b, <1>c, <2>1, <2>4 DEF Locals
    <3>1. /\ At(t) = Interface!Inside("Choose", local[t].m, c, b)
          /\ At(t)' = Interface!Inside("ResumeAlerted", local[t].m, c, b)
      BY <1>1, <1>b, <1>c, <2>1, <2>4, <3>0 DEF At, Interface!Inside
    <3>2. Points[t] = At(t) /\ Points' = [Points EXCEPT ![t] = At(t)']
      BY <2>4, PointMoves
    <3>3. Points[t] = Interface!Inside("Choose", local[t].m, c, b)
      BY <3>1, <3>2
    <3>4. Points' = [Points EXCEPT ![t] =
                       Interface!Inside("ResumeAlerted", local[t].m, c, b)]
      BY <3>1, <3>2
    <3>5. [Points[t] EXCEPT !.step = "ResumeAlerted"]
            = Interface!Inside("ResumeAlerted", local[t].m, c, b)
      <4>1. PICK p, m : p = Points[t] /\ m = local[t].m
        OBVIOUS
      <4>2. p = Interface!Inside("Choose", m, c, b)
        BY <3>3, <4>1
      <4>3. [p EXCEPT !.step = "ResumeAlerted"] = Interface!Inside("ResumeAlerted", m, c, b)
        BY <4>2 DEF Interface!Inside
      <4> QED  BY <4>1, <4>3, Zenon
    <3>6. Points[t].step = "Choose" /\ Points[t].c = c
      BY <3>3 DEF Interface!Inside
    <3> QED  BY <3>4, <3>5, <3>6, Zenon
  <2>8. /\ t \in Pending /\ Pending' = Pending \ {t}
    BY <1>0, <2>1, <2>3 DEF Pending, TypeOK
  <2>9. Owners' = Owners
    BY <1>1, OwnersSame
  <2>10. Interface!ChooseAlert(t)
    BY <2>6, <2>7, <2>8, <2>9
    DEF Interface!ChooseAlert, Owners, Waiting, Pending, Points
  <2> QED  BY <2>10, Taken DEF Interface!Step
<1> QED  BY <1>2, <1>3, <1>4 DEF WaitLoop

\* The first section of Signal is Signal: the head of the ring is no longer
\* waiting for the interface.
LEMMA SignalSeen ==
  ASSUME Safe, Safe', NEW t \in Thread, NEW c \in Condition, Signal(t, c)
  PROVE  Seen
<1>0. /\ TypeOK /\ Sound /\ Place(t) /\ RingOK(c) /\ local[t] \in Locals
      /\ c \in Object /\ \A d \in Condition : d \in Object
  BY DEF Safe, Sound, Places, Rings, TypeOK, Object
<1>1. /\ pc[t] = "Ready" /\ pc[t] \notin InSecondSection /\ local[t].c = NIL
      /\ UNCHANGED <<waitingOn, alerted, LL>>
  BY <1>0 DEF Signal, Place, InSecondSection
<1>2. Waiting[c] = Queued(c) /\ Points[t] = Interface!Idle
  BY <1>1, WaitingKnown, PointKnown DEF Agree, Points
<1>3. CASE waiters[c] = NIL
  <2>1. UNCHANGED <<waiters, nextWaiter, pc, local>>
    BY <1>3 DEF Signal
  <2>2. Only(t) /\ At(t)' = At(t)
    BY <1>0, <2>1 DEF TypeOK, Only, At
  <2>3. \A o \in Object : Queued(o)' = Queued(o)
    BY <1>0, <1>1, <2>1, <2>2, QuietStep
  <2> QED  BY <1>0, <1>1, <2>1, <2>2, <2>3, NothingSeen
<1>4. CASE waiters[c] # NIL
  <2>1. /\ Dequeue(c)
        /\ local' = [local EXCEPT ![t].t = Head(c)]
        /\ pc' = [pc EXCEPT ![t] = "Wake"]
    BY <1>4 DEF Signal, Go
  <2>2. Only(t) /\ pc'[t] = "Wake" /\ local'[t] = [local[t] EXCEPT !.t = Head(c)]
    BY <1>0, <2>1 DEF TypeOK, Only, Labels
  <2>3. local'[t].t = Head(c) /\ local'[t].c = NIL
    BY <1>0, <1>1, <2>2 DEF Locals
  <2>4. /\ Head(c) \in Queued(c)
        /\ Queued(c)' = Queued(c) \ {Head(c)}
        /\ \A o \in Object \ {c} : Queued(o)' = Queued(o)
    BY <1>0, <1>1, <1>4, <2>1, <2>2, <2>3, DequeueStep
  <2>5. PICK left \in SUBSET Waiting[c] :
          left # Waiting[c] /\ Waiting' = [Waiting EXCEPT ![c] = left]
    <3>1. Waiting' = [Waiting EXCEPT ![c] = Queued(c) \ {Head(c)}]
      BY <1>0, <2>4, WaitingMoves
    <3> QED  BY <1>2, <2>4, <3>1
  <2>6. Points' = Points
    <3>1. At(t)' = At(t)
      BY <1>1, <2>2, <2>3 DEF At
    <3> QED  BY <2>2, <3>1, PointMoves DEF Points
  <2>7. Owners' = Owners /\ Pending' = Pending
    BY <1>1, OwnersSame DEF Pending
  <2>8. Interface!Signal(t, c)
    BY <1>2, <2>5, <2>6, <2>7
    DEF Interface!Signal, Owners, Waiting, Pending, Points
  <2> QED  BY <2>8, Taken DEF Interface!Step
<1> QED  BY <1>3, <1>4

\* The first section of Broadcast is Broadcast.
LEMMA BroadcastSeen ==
  ASSUME Safe, Safe', NEW t \in Thread, NEW c \in Condition, Broadcast(t, c)
  PROVE  Seen
<1>0. /\ TypeOK /\ Sound /\ Place(t) /\ RingOK(c) /\ local[t] \in Locals
      /\ c \in Object /\ \A d \in Condition : d \in Object
  BY DEF Safe, Sound, Places, Rings, TypeOK, Object
<1>1. /\ pc[t] = "Ready" /\ pc[t] \notin InSecondSection /\ local[t].c = NIL
      /\ UNCHANGED <<waitingOn, nextWaiter, alerted, LL>>
  BY <1>0 DEF Broadcast, Place, InSecondSection
<1>2. Points[t] = Interface!Idle
  BY <1>1, PointKnown DEF Points
<1>3. CASE waiters[c] = NIL
  <2>1. UNCHANGED <<waiters, pc, local>>
    BY <1>3 DEF Broadcast
  <2>2. Only(t) /\ At(t)' = At(t)
    BY <1>0, <2>1 DEF TypeOK, Only, At
  <2>3. \A o \in Object : Queued(o)' = Queued(o)
    BY <1>0, <1>1, <2>1, <2>2, QuietStep
  <2> QED  BY <1>0, <1>1, <2>1, <2>2, <2>3, NothingSeen
<1>4. CASE waiters[c] # NIL
  <2>1. /\ waiters' = [waiters EXCEPT ![c] = NIL]
        /\ local' = [local EXCEPT ![t].t = waiters[c], ![t].start = waiters[c]]
        /\ pc' = [pc EXCEPT ![t] = "WakeAll"]
    BY <1>4 DEF Broadcast, Go
  <2>2. /\ Only(t) /\ pc'[t] = "WakeAll"
        /\ local'[t] = [local[t] EXCEPT !.t = waiters[c], !.start = waiters[c]]
    BY <1>0, <2>1 DEF TypeOK, Only, Labels
  <2>3. local'[t].t = waiters[c] /\ local'[t].start = waiters[c] /\ local'[t].c = NIL
    BY <1>0, <1>1, <2>2 DEF Locals
  <2>4. /\ Queued(c)' = {}
        /\ \A o \in Object \ {c} : Queued(o)' = Queued(o)
    BY <1>0, <1>1, <1>4, <2>1, <2>2, <2>3, DetachStep
  <2>5. Waiting' = [Waiting EXCEPT ![c] = {}]
    BY <1>0, <2>4, WaitingMoves
  <2>6. Points' = Points
    <3>1. At(t)' = At(t)
      BY <1>1, <2>2, <2>3 DEF At
    <3> QED  BY <2>2, <3>1, PointMoves DEF Points
  <2>7. Owners' = Owners /\ Pending' = Pending
    BY <1>1, OwnersSame DEF Pending
  <2>8. Interface!Broadcast(t, c)
    BY <1>2, <2>5, <2>6, <2>7
    DEF Interface!Broadcast, Owners, Waiting, Pending, Points
  <2> QED  BY <2>8, Taken DEF Interface!Step
<1> QED  BY <1>3, <1>4

\* Telling a thread that it was signalled shows nothing.
LEMMA WakenSeen ==
  ASSUME Safe, Safe', NEW t \in Thread, Wake(t) \/ WakeAll(t)
  PROVE  Seen
<1>0. /\ TypeOK /\ Sound /\ Place(t) /\ FlightOK(t) /\ local[t] \in Locals
      /\ nextWaiter \in Links /\ fault = "none" /\ fault' = "none"
  BY TypeLinks DEF Safe, Sound, Places, Flights, TypeOK
<1>1. PICK u \in Thread : u = local[t].t
  BY <1>0 DEF Wake, WakeAll, FlightOK
<1>2. /\ pc[t] \in {"Wake", "WakeAll"} /\ local[t].c = NIL
      /\ WakeUp(u)
      /\ UNCHANGED <<waiters, alerted, LL>>
  BY <1>0, <1>1 DEF Wake, WakeAll, Place
<1>3. CASE pc' = [pc EXCEPT ![t] = "Ready"]
           /\ local' = [local EXCEPT ![t] = NoLocal]
           /\ Flight(t) = {u}
  <2>1. Only(t) /\ pc'[t] = "Ready" /\ local'[t].c = NIL
    BY <1>0, <1>3 DEF TypeOK, Only, Labels, NoLocal
  <2>2. Flight(t)' = Flight(t) \ {u}
    BY <1>3, <2>1 DEF Flight
  <2>3. \A o \in Object : Queued(o)' = Queued(o)
    BY <1>0, <1>2, <1>3, <2>1, <2>2, WakeStep
  <2>4. At(t)' = At(t)
    BY <1>2, <2>1 DEF At
  <2> QED  BY <1>2, <2>1, <2>3, <2>4, NothingSeen DEF Object
<1>4. CASE Wake(t)
  <2>1. Flight(t) = {u}
    BY <1>1, <1>4 DEF Wake, Flight
  <2> QED  BY <1>3, <1>4, <2>1 DEF Wake, Return, Go
<1>5. CASE WakeAll(t)
  <2>0. PICK start \in Thread : start = local[t].start
    BY <1>0, <1>5 DEF WakeAll, FlightOK
  <2>1. /\ Flight(t) = Walk(nextWaiter, u, start)
        /\ Remainder(nextWaiter, Flight(t), u, start)
        /\ pc[t] = "WakeAll"
    BY <1>0, <1>1, <1>5, <2>0 DEF WakeAll, Flight, FlightOK
  <2>2. nextWaiter' = [nextWaiter EXCEPT ![u] = NIL]
    BY <1>2 DEF WakeUp
  <2>3. PICK next : next = nextWaiter[u]
    OBVIOUS
  <2>4. /\ next = start => Flight(t) = {u}
        /\ next # start => Walk(nextWaiter', next, start) = Flight(t) \ {u}
    <3> DEFINE R == Walk(nextWaiter, u, start)
               link2 == [nextWaiter EXCEPT ![u] = NIL]
    <3>1. Remainder(nextWaiter, R, u, start)
      BY <2>1
    <3>2. /\ nextWaiter[u] = start => R = {u}
          /\ nextWaiter[u] # start =>
               Walk(link2, nextWaiter[u], start) = R \ {u}
      BY <1>0, <3>1, RemainderStep, ZenonT(40)
    <3>3. nextWaiter' = link2 /\ Flight(t) = R
      BY <2>1, <2>2
    <3> HIDE DEF R, link2
    <3> QED  BY <2>3, <3>2, <3>3
  <2>5. CASE next = start
    BY <1>1, <1>3, <1>5, <2>0, <2>3, <2>4, <2>5
    DEF WakeAll, NextToWake, Return, Go
  <2>6. CASE next # start
    <3>1. local' = [local EXCEPT ![t].t = next] /\ pc' = pc
      BY <1>1, <1>5, <2>0, <2>3, <2>6 DEF WakeAll, NextToWake
    <3>2. Only(t) /\ pc'[t] = "WakeAll" /\ local'[t] = [local[t] EXCEPT !.t = next]
      BY <1>0, <2>1, <3>1 DEF TypeOK, Only
    <3>3. local'[t].t = next /\ local'[t].start = start /\ local'[t].c = NIL
      BY <1>0, <1>2, <2>0, <3>2 DEF Locals
    <3>4. Flight(t)' = Flight(t) \ {u}
      BY <2>4, <2>6, <3>2, <3>3 DEF Flight
    <3>5. u \in Flight(t)
      BY <2>1 DEF Remainder
    <3>6. \A o \in Object : Queued(o)' = Queued(o)
      BY <1>0, <1>2, <3>2, <3>4, <3>5, WakeStep
    <3>7. At(t)' = At(t)
      BY <1>2, <3>2, <3>3 DEF At
    <3> QED  BY <1>2, <3>2, <3>6, <3>7, NothingSeen DEF Object
  <2> QED  BY <2>5, <2>6
<1> QED  BY <1>4, <1>5

-----------------------------------------------------------------------------
(* Alerts and pauses.                                                      *)

\* Alert and TestAlert are themselves, a wakeup for no reason is nothing.
LEMMA AlertsSeen ==
  ASSUME Safe, Safe', NEW t \in Thread
  PROVE  /\ \A u \in Thread : Alert(t, u) => Seen
         /\ TestAlert(t) => Seen
         /\ SpuriousWakeup(t) => Seen
<1>0. TypeOK /\ Place(t)
  BY DEF Safe, Sound, Places
<1>1. ASSUME UNCHANGED <<waiters, waitingOn, nextWaiter, pc, local, LL>>
      PROVE  Owners' = Owners /\ Waiting' = Waiting /\ Points' = Points
  <2>1. \A s \in Thread : Flight(s)' = Flight(s)
    BY <1>1 DEF Flight
  <2>2. \A c \in Condition : Queued(c)' = Queued(c)
    BY <1>1, <2>1 DEF Queued, InFlight
  <2>3. Points' = Points
    BY <1>1 DEF Points, At
  <2> QED  BY <1>1, <2>2, <2>3, OwnersSame, WaitingSame
<1>2. pc[t] = "Ready" => Points[t] = Interface!Idle
  BY <1>0, PointKnown DEF Points, Place
<1>3. ASSUME NEW u \in Thread, Alert(t, u)  PROVE Seen
  <2>1. Owners' = Owners /\ Waiting' = Waiting /\ Points' = Points
    BY <1>1, <1>3 DEF Alert
  <2>2. Pending' = Pending \union {u}
    BY <1>0, <1>3 DEF Alert, Pending, TypeOK
  <2>3. Interface!Alert(t, u)
    BY <1>2, <1>3, <2>1, <2>2
    DEF Alert, Interface!Alert, Owners, Waiting, Pending, Points
  <2> QED  BY <2>3, Taken DEF Interface!Step
<1>4. ASSUME TestAlert(t)  PROVE Seen
  <2>1. Owners' = Owners /\ Waiting' = Waiting /\ Points' = Points
    BY <1>1, <1>4 DEF TestAlert
  <2>2. Pending' = Pending \ {t}
    BY <1>0, <1>4 DEF TestAlert, Pending, TypeOK
  <2>3. Interface!TestAlert(t)
    BY <1>2, <1>4, <2>1, <2>2
    DEF TestAlert, Interface!TestAlert, Owners, Waiting, Pending, Points
  <2> QED  BY <2>3, Taken DEF Interface!Step
<1>5. ASSUME SpuriousWakeup(t)  PROVE Seen
  <2>1. Owners' = Owners /\ Waiting' = Waiting /\ Points' = Points
    BY <1>1, <1>5 DEF SpuriousWakeup
  <2> QED  BY <1>5, <2>1 DEF SpuriousWakeup, Seen, Unseen, Pending
<1> QED  BY <1>3, <1>4, <1>5

\* What the pauses leave alone.
LEMMA BesidePauses ==
  ASSUME Safe, Safe', NEW t \in Thread, Only(t),
         pc[t] \in {"Ready", "Pause"}, pc'[t] \in {"Ready", "Pause"},
         UNCHANGED <<waiters, waitingOn, nextWaiter, LL>>
  PROVE  /\ Owners' = Owners /\ Waiting' = Waiting
         /\ Points' = [Points EXCEPT ![t] = At(t)'] /\ Points[t] = At(t)
<1>1. \A o \in Object : Queued(o)' = Queued(o)
  BY QuietStep DEF InSecondSection, Safe
<1>2. Waiting' = Waiting
  BY <1>1, WaitingSame DEF Object
<1> QED  BY <1>2, OwnersSame, PointMoves

\* XPause is Pause and then, unless it waits on, EndPause.
LEMMA PausesSeen ==
  ASSUME Safe, Safe', NEW t \in Thread
  PROVE  /\ \A b \in BOOLEAN : XPause(t, b) => Seen
         /\ PauseLoop(t) => Seen
         /\ PauseTimeout(t) => Seen
<1>0. TypeOK /\ Place(t) /\ local[t] \in Locals
  BY DEF Safe, Sound, Places, TypeOK
<1>1. ASSUME NEW b \in BOOLEAN, XPause(t, b)  PROVE Seen
  <2>1. /\ pc[t] = "Ready" /\ local[t].c = NIL
        /\ local' = [local EXCEPT ![t].alertable = b]
        /\ pc' = [pc EXCEPT ![t] = "Pause"]
        /\ UNCHANGED <<waiters, waitingOn, nextWaiter, alerted, LL>>
    BY <1>0, <1>1 DEF XPause, Go, Place
  <2>2. /\ Only(t) /\ pc'[t] = "Pause"
        /\ local'[t] = [local[t] EXCEPT !.alertable = b]
    BY <1>0, <2>1 DEF TypeOK, Only, Labels
  <2>3. local'[t].alertable = b /\ local'[t].c = NIL
    BY <1>0, <2>1, <2>2 DEF Locals
  <2>4. At(t) = Interface!Idle /\ At(t)' = Interface!Pausing(b)
    BY <2>1, <2>2, <2>3 DEF At, Interface!Idle, Interface!Pausing
  <2>5. /\ Owners' = Owners /\ Waiting' = Waiting
        /\ Points' = [Points EXCEPT ![t] = Interface!Pausing(b)]
        /\ Points[t] = Interface!Idle
    BY <2>1, <2>2, <2>4, BesidePauses
  <2>6. Interface!Pause(t, b)
    BY <2>1, <2>5 DEF Interface!Pause, Owners, Waiting, Pending, Points
  <2> QED  BY <2>6, Taken DEF Interface!Step
<1>2. ASSUME pc[t] = "Pause", pc' = [pc EXCEPT ![t] = "Ready"],
             local' = [local EXCEPT ![t] = NoLocal],
             UNCHANGED <<waiters, waitingOn, nextWaiter, LL>>
      PROVE  /\ Owners' = Owners /\ Waiting' = Waiting
             /\ Points' = [Points EXCEPT ![t] = Interface!Idle]
             /\ Points[t] = Interface!Pausing(local[t].alertable)
  <2>1. Only(t) /\ pc'[t] = "Ready" /\ local'[t].c = NIL
    BY <1>0, <1>2 DEF TypeOK, Only, Labels, NoLocal
  <2>2. At(t)' = Interface!Idle
    BY <2>1 DEF At, Interface!Idle
  <2>3. local[t].c = NIL
    BY <1>0, <1>2 DEF Place
  <2>4. At(t) = Interface!Pausing(local[t].alertable)
    BY <1>2, <2>3, PointKnown
  <2> QED  BY <1>2, <2>1, <2>2, <2>4, BesidePauses
<1>3. ASSUME PauseLoop(t)  PROVE Seen
  <2>1. CASE MustRaise(t)
    <3>1. /\ pc[t] = "Pause" /\ pc' = [pc EXCEPT ![t] = "Ready"]
          /\ local' = [local EXCEPT ![t] = NoLocal]
          /\ UNCHANGED <<waiters, waitingOn, nextWaiter, LL>>
          /\ alerted' = [alerted EXCEPT ![t] = FALSE]
      BY <1>3, <2>1 DEF PauseLoop, Return, Go
    <3>2. /\ Owners' = Owners /\ Waiting' = Waiting
          /\ Points' = [Points EXCEPT ![t] = Interface!Idle]
          /\ Points[t] = Interface!Pausing(local[t].alertable)
      BY <1>2, <3>1
    <3>3. local[t].alertable /\ alerted[t]
      BY <2>1 DEF MustRaise
    <3>4. t \in Pending /\ Pending' = Pending \ {t}
      BY <1>0, <3>1, <3>3 DEF TypeOK, Pending
    <3>5. Points[t].step = "Pause" /\ Points[t].alertable
      BY <3>2, <3>3 DEF Interface!Pausing
    <3>6. Interface!EndPause(t)
      BY <3>2, <3>4, <3>5
      DEF Interface!EndPause, Owners, Waiting, Pending, Points
    <3> QED  BY <3>6, Taken DEF Interface!Step
  <2>2. CASE ~MustRaise(t)
    <3>1. UNCHANGED <<waiters, waitingOn, nextWaiter, alerted, pc, local, LL>>
          /\ pc[t] = "Pause"
      BY <1>3, <2>2 DEF PauseLoop
    <3>2. Only(t) /\ At(t)' = At(t)
      BY <1>0, <3>1 DEF TypeOK, Only, At
    <3>3. \A o \in Object : Queued(o)' = Queued(o)
      BY <3>1, <3>2, QuietStep DEF InSecondSection, Safe
    <3> QED  BY <3>1, <3>2, <3>3, NothingSeen DEF Object
  <2> QED  BY <2>1, <2>2
<1>4. ASSUME PauseTimeout(t)  PROVE Seen
  <2>1. /\ pc[t] = "Pause" /\ pc' = [pc EXCEPT ![t] = "Ready"]
        /\ local' = [local EXCEPT ![t] = NoLocal]
        /\ UNCHANGED <<waiters, waitingOn, nextWaiter, LL, alerted>>
    BY <1>4 DEF PauseTimeout, Return, Go
  <2>2. /\ Owners' = Owners /\ Waiting' = Waiting
        /\ Points' = [Points EXCEPT ![t] = Interface!Idle]
        /\ Points[t].step = "Pause"
    BY <1>2, <2>1 DEF Interface!Pausing
  <2>3. Interface!EndPause(t)
    BY <2>1, <2>2 DEF Interface!EndPause, Owners, Waiting, Pending, Points
  <2> QED  BY <2>3, Taken DEF Interface!Step
<1> QED  BY <1>1, <1>3, <1>4

-----------------------------------------------------------------------------
(* The theorem.                                                            *)

\* A step that leaves the package in order is one of the interface, unless an
\* alert had met a signal before.
LEMMA StepSeen ==
  ASSUME Safe, Safe', Raisings, Undisturbed, NEW t \in Thread, Step(t)
  PROVE  Seen
<1>0. Place(t) /\ Holding(t)
  BY DEF Safe, Sound, Places, Holders
<1>1. ASSUME NEW m \in Mutex, Acquire(t, m)  PROVE Seen
  <2>1. m \notin LL[t]
    BY <1>1, MutexOrder DEF Acquire
  <2> QED  BY <1>1, <2>1, LockMutexSeen DEF Acquire
<1>2. ASSUME Reacquire(t)  PROVE Seen
  <2>1. PICK m \in Mutex : m = local[t].m
    BY <1>0, <1>2 DEF Place, Reacquire
  <2>2. pc[t] = "Lock" /\ LockMutex(t, m) /\ alerted' = alerted
    BY <1>2, <2>1 DEF Reacquire
  <2> QED  BY <2>1, <2>2, LockMutexSeen
<1>3. CASE Call(t)
  BY <1>1, <1>3, ReleaseSeen, XWaitSeen, SignalSeen, BroadcastSeen, AlertsSeen,
     PausesSeen DEF Call
<1>4. CASE Continue(t)
  BY <1>2, <1>4, LockWakeSeen, WaitReleaseSeen, GrantSeen, WaitLoopSeen,
     WakenSeen, PausesSeen DEF Continue
<1>5. CASE SpuriousWakeup(t)
  BY <1>5, AlertsSeen
<1> QED  BY <1>3, <1>4, <1>5 DEF Step

\* Only WaitAlerted sets raising, and it goes to lock the mutex again.
LEMMA RaisingsKept ==
  ASSUME IInv, Raisings, [Next]_vars
  PROVE  Raisings'
<1>0. local \in [Thread -> Locals] /\ pc \in [Thread -> Labels]
  BY DEF IInv, TypeOK
<1>1. CASE UNCHANGED <<pc, local>>
  BY <1>1 DEF Raisings
<1>2. ASSUME NEW t \in Thread, Step(t)  PROVE Raisings'
  <2>0. /\ local[t] \in Locals
        /\ local[t].raising => pc[t] \in {"Lock", "LockWait"}
    BY <1>0 DEF Raisings
  <2>1. ASSUME NEW p, NEW l, pc' = [pc EXCEPT ![t] = p],
               local' = [local EXCEPT ![t] = l],
               ~l.raising \/ p \in {"Lock", "LockWait"}
        PROVE  Raisings'
    BY <1>0, <2>1 DEF Raisings
  <2>2. ASSUME NEW p, pc' = [pc EXCEPT ![t] = p], local' = local,
               pc[t] \notin {"Lock", "LockWait"} \/ p \in {"Lock", "LockWait"}
        PROVE  Raisings'
    BY <1>0, <2>2 DEF Raisings
  <2>3. ASSUME Return(t)  PROVE Raisings'
    <3>1. pc' = [pc EXCEPT ![t] = "Ready"] /\ local' = [local EXCEPT ![t] = NoLocal]
      BY <2>3 DEF Return, Go
    <3>2. ~NoLocal.raising
      BY DEF NoLocal
    <3> QED  BY <2>1, <3>1, <3>2
  <2>4. ASSUME NEW m, LockMutex(t, m)  PROVE Raisings'
    <3>1. CASE ~Return(t)
      <4>1. /\ pc' = [pc EXCEPT ![t] = "LockWait"]
            /\ local' = [local EXCEPT ![t] = [local[t] EXCEPT !.m = m]]
        BY <2>4, <3>1 DEF LockMutex, Go
      <4> QED  BY <2>1, <4>1
    <3> QED  BY <2>3, <3>1
  <2>5. ASSUME NEW m, UnlockMutex(t, m), pc[t] \in {"Ready", "Unlock"}
        PROVE  Raisings'
    <3>1. CASE local' = local
      BY <2>2, <2>5, <3>1 DEF UnlockMutex, Go
    <3>2. CASE local' # local
      <4>1. /\ pc' = [pc EXCEPT ![t] = "Grant"]
            /\ local' = [local EXCEPT ![t] =
                           [local[t] EXCEPT !.m = m, !.t = Head(m)]]
        BY <1>0, <2>5, <3>2 DEF UnlockMutex, Go
      <4>2. ~[local[t] EXCEPT !.m = m, !.t = Head(m)].raising
        BY <2>0, <2>5 DEF Locals
      <4> QED  BY <2>1, <4>1, <4>2
    <3> QED  BY <3>1, <3>2
  <2>6. ASSUME NEW m, NEW c, NEW b, XWait(t, m, c, b)  PROVE Raisings'
    <3>1. /\ pc' = [pc EXCEPT ![t] = "Unlock"]
          /\ local' = [local EXCEPT ![t] = Arguments(m, c, b)]
      BY <2>6 DEF XWait, Go
    <3>2. ~Arguments(m, c, b).raising
      BY DEF Arguments, NoLocal
    <3> QED  BY <2>1, <3>1, <3>2
  <2>7. ASSUME NEW c, Signal(t, c)  PROVE Raisings'
    <3>1. CASE ~UNCHANGED <<pc, local>>
      <4>1. /\ pc' = [pc EXCEPT ![t] = "Wake"]
            /\ local' = [local EXCEPT ![t] = [local[t] EXCEPT !.t = Head(c)]]
            /\ pc[t] = "Ready"
        BY <2>7, <3>1 DEF Signal, Go
      <4>2. ~[local[t] EXCEPT !.t = Head(c)].raising
        BY <2>0, <4>1 DEF Locals
      <4> QED  BY <2>1, <4>1, <4>2
    <3> QED  BY <1>1, <3>1
  <2>8. ASSUME NEW c, Broadcast(t, c)  PROVE Raisings'
    <3>1. CASE ~UNCHANGED <<pc, local>>
      <4>1. /\ pc' = [pc EXCEPT ![t] = "WakeAll"]
            /\ local' = [local EXCEPT ![t] =
                           [local[t] EXCEPT !.t = waiters[c], !.start = waiters[c]]]
            /\ pc[t] = "Ready"
        BY <1>0, <2>8, <3>1 DEF Broadcast, Go
      <4>2. ~[local[t] EXCEPT !.t = waiters[c], !.start = waiters[c]].raising
        BY <2>0, <4>1 DEF Locals
      <4> QED  BY <2>1, <4>1, <4>2
    <3> QED  BY <1>1, <3>1
  <2>9. ASSUME NEW b, XPause(t, b)  PROVE Raisings'
    <3>1. /\ pc' = [pc EXCEPT ![t] = "Pause"] /\ pc[t] = "Ready"
          /\ local' = [local EXCEPT ![t] = [local[t] EXCEPT !.alertable = b]]
      BY <2>9 DEF XPause, Go
    <3>2. ~[local[t] EXCEPT !.alertable = b].raising
      BY <2>0, <3>1 DEF Locals
    <3> QED  BY <2>1, <3>1, <3>2
  <2>10. CASE Call(t)
    BY <1>1, <2>4, <2>5, <2>6, <2>7, <2>8, <2>9, <2>10
    DEF Call, Acquire, Release, Alert, TestAlert
  <2>11. ASSUME LockWake(t) \/ Wake(t) \/ PauseLoop(t) \/ PauseTimeout(t)
         PROVE  Raisings'
    BY <1>1, <2>3, <2>11 DEF LockWake, Wake, PauseLoop, PauseTimeout
  <2>12. ASSUME Grant(t)  PROVE Raisings'
    <3>1. /\ pc' = [pc EXCEPT ![t] = AfterUnlock(t)] /\ pc[t] = "Grant"
          /\ local' = [local EXCEPT ![t] =
                         IF local[t].c = NIL THEN NoLocal
                         ELSE [local[t] EXCEPT !.t = NIL]]
      BY <2>12 DEF Grant, Go
    <3>2. ~NoLocal.raising /\ ~[local[t] EXCEPT !.t = NIL].raising
      BY <2>0, <3>1 DEF Locals, NoLocal
    <3> QED  BY <2>1, <3>1, <3>2
  <2>13. ASSUME WaitLoop(t)  PROVE Raisings'
    <3>1. CASE WaitAlerted(t)
      <4>1. /\ pc' = [pc EXCEPT ![t] = "Lock"]
            /\ local' = [local EXCEPT ![t] = [local[t] EXCEPT !.raising = TRUE]]
        BY <3>1 DEF WaitAlerted, Go
      <4> QED  BY <2>1, <4>1
    <3>2. CASE WaitSignalled(t)
      BY <2>2, <3>2 DEF WaitSignalled, Go
    <3>3. CASE KeepWaiting(t)
      BY <1>1, <3>3 DEF KeepWaiting
    <3> QED  BY <2>13, <3>1, <3>2, <3>3 DEF WaitLoop
  <2>14. ASSUME WakeAll(t)  PROVE Raisings'
    <3>1. CASE ~Return(t)
      <4>1. PICK u : pc' = pc /\ local' = [local EXCEPT ![t] = [local[t] EXCEPT !.t = u]]
        BY <2>14, <3>1 DEF WakeAll
      <4>2. pc[t] = "WakeAll" /\ pc' = [pc EXCEPT ![t] = "WakeAll"]
        BY <1>0, <2>14, <4>1 DEF WakeAll
      <4>3. ~[local[t] EXCEPT !.t = u].raising
        BY <2>0, <4>2 DEF Locals
      <4> QED  BY <2>1, <4>1, <4>2, <4>3
    <3> QED  BY <2>3, <3>1
  <2>15. CASE Continue(t)
    BY <2>4, <2>5, <2>11, <2>12, <2>13, <2>14, <2>15
    DEF Continue, Reacquire, WaitRelease
  <2>16. CASE SpuriousWakeup(t)
    BY <1>1, <2>16 DEF SpuriousWakeup
  <2> QED  BY <1>2, <2>10, <2>15, <2>16 DEF Step
<1> QED  BY <1>1, <1>2 DEF Next, vars

\* The program starts where the interface starts.
LEMMA InitSeen == Init => Interface!Init /\ Raisings
<1> SUFFICES ASSUME Init PROVE Interface!Init /\ Raisings
  OBVIOUS
<1>1. \A m \in Mutex : Owner(m) = NIL
  BY DEF Init, Owner
<1>2. \A c \in Condition : Ring(c) = {}
  BY DEF Init, Ring, Object
<1>3. \A t \in Thread : At(t) = Interface!Idle
  BY DEF Init, NoLocal, At, Interface!Idle
<1>4. Raisings
  BY DEF Init, NoLocal, Raisings
<1>5. {t \in Thread : alerted[t]} = {}
  BY DEF Init
<1> QED  BY <1>1, <1>2, <1>3, <1>4, <1>5 DEF Interface!Init

\* Whatever the critical sections of ThreadPThread.m3 and their interleavings:
\* mutexes, conditions, alerts and pauses behave as Thread.lm3 specifies, one
\* atomic action at a time, as long as no AlertWait has been alerted and
\* signalled at once.
THEOREM SyncImplementsInterface == Spec => ImplementsInterface
<1>1. Spec => [](IInv /\ Raisings)
  <2>1. Init => IInv /\ Raisings
    BY InitSafe, SafeOrStopped, InitSeen
  <2>2. IInv /\ Raisings /\ [Next]_vars => (IInv /\ Raisings)'
    BY NextInv, RaisingsKept
  <2> QED  BY <2>1, <2>2, PTL DEF Spec
<1>2. ASSUME IInv, IInv', Raisings, [Next]_vars
      PROVE  [Undisturbed /\ Undisturbed' => Interface!Next]_(Interface!vars)
  <2>1. SUFFICES ASSUME Undisturbed
                 PROVE  Interface!Next \/ UNCHANGED Interface!vars
    OBVIOUS
  <2>2. CASE UNCHANGED vars
    <3>1. Unseen
      BY <2>2 DEF vars, Unseen, Owners, Owner, Waiting, Ring, Head, Pending, Points, At
    <3> QED  BY <3>1 DEF Unseen, Owners, Waiting, Pending, Points, Interface!vars
  <2>3. CASE Next
    <3>1. PICK t \in Thread : Step(t)
      BY <2>3 DEF Next
    <3>2. Safe
      BY <1>2, <3>1, SafeOrStopped DEF Step
    <3>3. Safe'
      <4>1. CASE pc[t] = "Waiting" /\ MustRaise(t) /\ InFlight(t)
        <5>1. local[t].c \in Object /\ t \in Ring(local[t].c)
          BY <2>1, <3>2, <4>1 DEF Undisturbed, Safe, Sound, Places, Place, Object
        <5>2. t \in Queued(local[t].c)
          BY <3>2, <5>1, RingIsQueue DEF Safe
        <5> QED  BY <4>1, <5>2 DEF Queued
      <4> QED  BY <3>1, <3>2, <4>1, EveryStep
    <3>4. Seen
      BY <1>2, <2>1, <3>1, <3>2, <3>3, StepSeen
    <3> QED
      BY <3>4 DEF Seen, Unseen, Owners, Waiting, Pending, Points, Interface!vars
  <2> QED  BY <1>2, <2>2, <2>3
<1>3. IInv /\ IInv' /\ Raisings /\ [Next]_vars
        => [Undisturbed /\ Undisturbed' => Interface!Next]_(Interface!vars)
  BY <1>2
<1> QED  BY <1>1, <1>3, InitSeen, PTL DEF Spec, ImplementsInterface
=============================================================================
