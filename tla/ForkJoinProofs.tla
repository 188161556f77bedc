--------------------------- MODULE ForkJoinProofs ---------------------------
(***************************************************************************)
(* IInv is an inductive invariant of ForkJoin; the safety properties of    *)
(* the slot table and of Join follow from it, and so does that Fork, Join  *)
(* and AlertJoin implement JoinSpec, for any number of threads and any     *)
(* size of the first table.                                                *)
(***************************************************************************)
EXTENDS ForkJoin, FiniteSetTheorems, TLAPS

-----------------------------------------------------------------------------
(* The inductive invariant.                                                *)

Forking == {"Assign", "NewTable", "Grow", "Create"}

\* A thread in Fork holds a T of its own, which no thread runs yet; the initial
\* thread begins with the T that it runs itself.
ForksApart ==
  /\ \A s \in Thread : pc[s] \in Forking =>
       \/ arg[s].t \in Thread \ {Main} /\ pc[arg[s].t] = "New"
       \/ arg[s].t = Main /\ s = Main /\ slot[Main] = 0 /\ pc[s] # "Create"
  /\ \A s, r \in Thread :
       pc[s] \in Forking /\ pc[r] \in Forking /\ arg[s].t = arg[r].t => s = r
  /\ \A s \in Thread : pc[s] = "Grow" => DOMAIN slots # {}
  /\ pc[Main] \in Forking \union Inside \union {"Ready"}
  /\ slot[Main] = 0 => pc[Main] \in Forking /\ arg[Main].t = Main

\* What NEW makes, or no table.
IsTable(t) ==
  Size(t) \in Nat /\ t \in [0 .. Size(t) - 1 -> Thread \union {NIL}]

\* Slots and threads that have one are in one-to-one correspondence.
TableExact ==
  /\ IsTable(slots)
  /\ \A t \in Slotted : slot[t] \in DOMAIN slots \ {0} /\ slots[slot[t]] = t
  /\ \A i \in DOMAIN slots :
       slots[i] # NIL => slots[i] \in Slotted /\ slot[slots[i]] = i
  /\ nSlotted = Cardinality(Slotted)
  /\ nextSlot = 1 \/ nextSlot \in DOMAIN slots

\* When a thread is in the ring, when its T has been given away, and when its
\* activation is disposed.
LivesApart ==
  /\ \A t \in active : pc[t] \notin {"Unborn", "New", "Base", "Dead"}
  /\ \A t \in held : pc[t] \notin {"Unborn", "New"}
  /\ "EarlyCleanup" \notin Adversity =>
       \A t \in disposed : pc[t] = "Dead" /\ t \notin held
  /\ "NoMemory" \notin Adversity => disposed \subseteq cleaned

\* A thread has one joiner at most, which holds the claim t.joined until Join
\* has returned; a thread is done once its result is set.  Without LateAlert an
\* alert that a joiner has not answered finds it still waiting, so that it gives
\* its claim back before the thread begins to tell.
JoinsApart ==
  /\ \A s \in Thread : pc[s] \in Inside => arg[s].t \in joined
  /\ \A s, r \in Thread :
       pc[s] \in Inside /\ pc[r] \in Inside /\ arg[s].t = arg[r].t => s = r
  /\ "JoinMain" \notin Adversity =>
       \A s \in Thread : pc[s] \in Inside => arg[s].t # Main
  /\ \A t \in Thread : waiting[t] # {} => t \notin ended
  /\ "LateAlert" \notin Adversity =>
       /\ \A s \in Thread : pc[s] = "Alerted" =>
            arg[s].t \notin ended /\ pc[arg[s].t] # "Tell"
       /\ \A s \in Thread : pc[s] = "AlertJoining" /\ s \in alerted =>
            s \in waiting[arg[s].t] /\ pc[arg[s].t] # "Tell"
       /\ \A t \in joined : got[t] = "none" => Joiners(t) # {}
  /\ \A t \in Thread \ {Main} :
       /\ pc[t] \in {"Notify", "Tell"} => t \in result
       /\ t \in ended => t \in result /\ pc[t] \in {"Free", "Leave", "Dead"}
       /\ pc[t] \in {"Free", "Leave"} => t \in ended
       /\ pc[t] = "Dead" /\ t \in held => t \in ended

IInv == TypeOK /\ ForksApart /\ TableExact /\ LivesApart /\ JoinsApart

-----------------------------------------------------------------------------
(* Sets of numbers and tables.                                             *)

\* The least element that Fork and AssignSlot search for.
LEMMA MinIsLeast ==
  ASSUME NEW S \in SUBSET Nat, S # {}
  PROVE  Min(S) \in S /\ \A y \in S : Min(S) <= y
<1> DEFINE Less == {p \in Nat \X Nat : p[1] < p[2]}
<1>1. IsWellFoundedOn(Less, Nat)
  BY NatLessThanWellFounded DEF OpToRel
<1>2. PICK x \in S : \A y \in S : ~(<<y, x>> \in Less)
  BY <1>1, WFMin
<1>3. ASSUME NEW y \in S  PROVE x <= y
  <2>1. <<y, x>> \in Nat \X Nat
    OBVIOUS
  <2>2. ~(y < x)
    BY <2>1, <1>2
  <2> QED  BY <2>2
<1> QED  BY <1>3 DEF Min

LEMMA ThreadsAreFinite ==
  ASSUME NEW S \in SUBSET Thread
  PROVE  IsFiniteSet(S) /\ Cardinality(S) \in Nat
<1>1. IsFiniteSet(Thread)
  BY FS_Interval, BoundsArePositive DEF Thread
<1> QED  BY <1>1, FS_Subset, FS_CardinalityType

\* No table is a table of no slots.
LEMMA NoTable ==
  /\ IsTable(<<>>) /\ DOMAIN <<>> = {}
  /\ \A t : IsTable(t) /\ DOMAIN t = {} => t = <<>>
<1>1. Size(<<>>) = 0
  BY FS_EmptySet DEF Size
<1> QED  BY <1>1 DEF IsTable

\* A table is known by its domain.
LEMMA TableSize ==
  ASSUME NEW n \in Nat, NEW t \in [0 .. n - 1 -> Thread \union {NIL}]
  PROVE  IsTable(t) /\ Size(t) = n
<1>1. Cardinality(0 .. n - 1) = n
  BY FS_Interval
<1> QED  BY <1>1 DEF IsTable, Size

\* t is the table, or a larger copy of it.
Covers(t) ==
  /\ IsTable(t)
  /\ DOMAIN slots \subseteq DOMAIN t
  /\ \A i \in DOMAIN t : t[i] = IF i \in DOMAIN slots THEN slots[i] ELSE NIL

LEMMA NewSlotsCovers ==
  ASSUME IsTable(slots), NEW n \in Nat, n >= Size(slots)
  PROVE  Covers(NewSlots(slots, n)) /\ Size(NewSlots(slots, n)) = n
<1>1. NewSlots(slots, n) \in [0 .. n - 1 -> Thread \union {NIL}]
  BY DEF NewSlots, IsTable
<1> QED  BY <1>1, TableSize DEF NewSlots, IsTable, Covers

\* The search of AssignSlot ends at a free slot.
LEMMA EmptySlotIsFree ==
  ASSUME NEW t, IsTable(t), FreeSlots(t) # {}
  PROVE  EmptySlot(t) \in DOMAIN t \ {0} /\ t[EmptySlot(t)] = NIL
<1>1. FreeSlots(t) \in SUBSET Nat
  BY DEF FreeSlots, IsTable
<1>2. EmptySlot(t) \in FreeSlots(t)
  BY <1>1, MinIsLeast DEF EmptySlot
<1> QED  BY <1>2 DEF FreeSlots, IsTable

-----------------------------------------------------------------------------
(* What the actions do, in the terms of the proof.                         *)

LEMMA Kinds == NIL \notin Thread /\ Main \in Thread
  BY BoundsArePositive DEF NIL, Thread, Main

\* Another try, or a table that is still to be made.
Moves(s) ==
  /\ pc' = [pc EXCEPT ![s] = "Assign"] \/ pc' = [pc EXCEPT ![s] = "NewTable"]
  /\ UNCHANGED <<table, arg>>

\* A table is in use, and a larger one is to be made.
Installs(s, t) ==
  /\ Covers(t) /\ DOMAIN t # {}
  /\ slots' = t
  /\ pc' = [pc EXCEPT ![s] = "Grow"]
  /\ arg' = [arg EXCEPT ![s].n = Size(t)]
  /\ UNCHANGED <<nSlotted, nextSlot, slot>>

\* The T of s gets slot i of the table t.
Takes(s, t, i) ==
  /\ Covers(t) /\ i \in DOMAIN t \ {0} /\ t[i] = NIL
  /\ slots' = [t EXCEPT ![i] = arg[s].t]
  /\ slot' = [slot EXCEPT ![arg[s].t] = i]
  /\ nextSlot' = i
  /\ nSlotted' = nSlotted + 1
  /\ IF arg[s].t = Main THEN pc' = [pc EXCEPT ![s] = "Ready"] /\ arg' = [arg EXCEPT ![s] = NoArg]
     ELSE pc' = [pc EXCEPT ![s] = "Create"] /\ UNCHANGED arg

Assigns(s) ==
  /\ pc[s] \in {"Assign", "NewTable", "Grow"}
  /\ Moves(s) \/ (\E t : Installs(s, t)) \/ \E t, i : Takes(s, t, i)
  /\ UNCHANGED <<joins, active, alerted, memory, fault>>

\* A table that is larger than the one in use, or not full, has a free slot:
\* the occupied ones are mapped into the threads that n_slotted counts.
LEMMA RoomIsLeft ==
  ASSUME IInv, NEW t, Covers(t),
         (DOMAIN slots # {} /\ Size(t) > Size(slots)) \/ nSlotted < Size(t) - 1
  PROVE  FreeSlots(t) # {}
<1>1. Size(t) \in Nat /\ DOMAIN t = 0 .. Size(t) - 1
  BY DEF Covers, IsTable
<1>2. Size(slots) \in Nat /\ DOMAIN slots = 0 .. Size(slots) - 1
  BY DEF IInv, TableExact, IsTable
<1>3. CASE DOMAIN slots # {} /\ Size(t) > Size(slots)
  <2>1. Size(slots) \in 1 .. Size(t) - 1 /\ Size(slots) \notin DOMAIN slots
    BY <1>1, <1>2, <1>3
  <2> QED  BY <1>1, <2>1 DEF FreeSlots, Covers
<1>4. CASE nSlotted < Size(t) - 1
  <2> SUFFICES ASSUME FreeSlots(t) = {}  PROVE FALSE
    OBVIOUS
  <2> DEFINE I == 1 .. Size(t) - 1
             f == [i \in I |-> t[i]]
  <2>1. \A i \in I : i \in DOMAIN slots /\ t[i] = slots[i] /\ slots[i] # NIL
    BY <1>1 DEF FreeSlots, Covers
  <2>2. \A i \in I : t[i] \in Slotted /\ slot[t[i]] = i
    BY <2>1 DEF IInv, TableExact
  <2>3. f \in Injection(I, Slotted)
    BY <2>2 DEF Injection, IsInjective
  <2>4. IsFiniteSet(Slotted)
    <3>1. Slotted \subseteq Thread
      BY Kinds DEF Slotted, IInv, ForksApart, Forking
    <3> QED  BY <3>1, ThreadsAreFinite
  <2>5. Cardinality(I) <= nSlotted
    BY <2>3, <2>4, FS_Injection DEF IInv, TableExact
  <2>6. Cardinality(I) = Size(t) - 1 \/ Size(t) = 0
    <3>1. Size(t) - 1 \in Int
      BY <1>1
    <3>2. Cardinality(I) = IF 1 > Size(t) - 1 THEN 0 ELSE (Size(t) - 1) - 1 + 1
      BY <3>1, FS_Interval
    <3> QED  BY <1>1, <3>2
  <2>7. nSlotted \in Nat
    BY DEF IInv, TypeOK
  <2> HIDE DEF I, f
  <2> QED  BY <2>5, <2>6, <2>7, <1>1, <1>4
<1> QED  BY <1>3, <1>4

LEMMA RegisterTakes ==
  ASSUME IInv, NEW s \in Thread, NEW t, Covers(t), Register(s, t),
         (DOMAIN slots # {} /\ Size(t) > Size(slots)) \/ nSlotted < Size(t) - 1
  PROVE  (\E i : Takes(s, t, i)) /\ fault' = fault
<1>1. FreeSlots(t) # {}
  BY RoomIsLeft
<1>2. EmptySlot(t) \in DOMAIN t \ {0} /\ t[EmptySlot(t)] = NIL
  BY <1>1, EmptySlotIsFree DEF Covers
<1>3. Takes(s, t, EmptySlot(t)) /\ fault' = fault
  BY <1>1, <1>2 DEF Register, Takes, Return, Goto
<1> QED  BY <1>3

\* AssignSlot in every interleaving: the search for a slot ends.
LEMMA AssigningEnds ==
  ASSUME IInv, NEW s \in Thread, AssignSlot(s) \/ NewTable(s) \/ Grow(s)
  PROVE  Assigns(s)
<1>1. IsTable(slots) /\ Covers(slots) /\ Size(slots) \in Nat /\ nSlotted \in Nat
  BY DEF IInv, TypeOK, TableExact, IsTable, Covers
<1>2. ASSUME NEW t, Covers(t), DOMAIN t # {}, RegisterOrGrow(s, t)
      PROVE  (Installs(s, t) \/ \E i : Takes(s, t, i)) /\ fault' = fault
  <2>1. CASE Full(t)
    BY <1>2, <2>1 DEF RegisterOrGrow, Installs, Goto
  <2>2. CASE ~Full(t)
    <3>1. nSlotted < Size(t) - 1
      BY <1>1, <1>2, <2>2 DEF Full, Covers, IsTable
    <3> QED  BY <1>2, <2>2, <3>1, RegisterTakes DEF RegisterOrGrow
  <2> QED  BY <2>1, <2>2
<1>3. CASE AssignSlot(s)
  <2>1. CASE slots = <<>>
    BY <1>3, <2>1 DEF AssignSlot, NotSlots, Assigns, Moves, Goto
  <2>2. CASE slots # <<>>
    <3>1. DOMAIN slots # {}
      BY <1>1, <2>2, NoTable
    <3>2. RegisterOrGrow(s, slots)
      BY <1>3, <2>2 DEF AssignSlot
    <3> QED  BY <1>1, <1>2, <1>3, <3>1, <3>2 DEF AssignSlot, NotSlots, Assigns
  <2> QED  BY <2>1, <2>2
<1>4. CASE NewTable(s)
  <2> DEFINE t == IF slots = <<>> THEN NewSlots(<<>>, InitialSize) ELSE slots
  <2>1. Covers(t) /\ DOMAIN t # {}
    <3>1. CASE slots = <<>>
      <4>1. Size(slots) = 0
        BY <3>1, FS_EmptySet, NoTable DEF Size
      <4> QED  BY <1>1, <3>1, <4>1, BoundsArePositive, NewSlotsCovers DEF NewSlots
    <3>2. CASE slots # <<>>
      BY <1>1, <3>2, NoTable
    <3> QED  BY <3>1, <3>2
  <2>2. RegisterOrGrow(s, t)
    BY <1>4 DEF NewTable
  <2> HIDE DEF t
  <2> QED  BY <1>2, <1>4, <2>1, <2>2 DEF NewTable, NotSlots, Assigns
<1>5. CASE Grow(s)
  <2>1. DOMAIN slots # {}
    BY <1>5 DEF Grow, IInv, ForksApart
  <2>2. CASE arg[s].n = Size(slots)
    <3>1. Size(slots) > 0
      BY <1>1, <2>1 DEF IsTable
    <3>2. Covers(NewSlots(slots, 2 * arg[s].n)) /\ Size(NewSlots(slots, 2 * arg[s].n)) > Size(slots)
      BY <1>1, <2>2, <3>1, NewSlotsCovers
    <3>3. Register(s, NewSlots(slots, 2 * arg[s].n))
      BY <1>5, <2>2 DEF Grow
    <3> QED  BY <1>5, <2>1, <3>2, <3>3, RegisterTakes DEF Grow, NotSlots, Assigns
  <2>3. CASE arg[s].n # Size(slots) /\ ~Full(slots)
    <3>1. nSlotted < Size(slots) - 1
      BY <1>1, <2>3 DEF Full
    <3> QED  BY <1>1, <1>5, <2>3, <3>1, RegisterTakes DEF Grow, NotSlots, Assigns
  <2>4. CASE arg[s].n # Size(slots) /\ Full(slots)
    BY <1>5, <2>4 DEF Grow, NotSlots, Assigns, Moves, Goto
  <2> QED  BY <2>2, <2>3, <2>4
<1> QED  BY <1>3, <1>4, <1>5

-----------------------------------------------------------------------------
(* Every step keeps the invariant.                                         *)

USE DEF Goto, Die, Return, memory, table, joins, Inside, Forking, Place, NoArg

\* The T that Fork makes is a new one.
LEMMA ForkMakes ==
  ASSUME IInv, NEW s \in Thread, Fork(s)
  PROVE  \E u \in Thread :
           /\ pc[s] = "Ready" /\ pc[u] = "Unborn" /\ u # Main
           /\ pc' = [pc EXCEPT ![s] = "Assign", ![u] = "New"]
           /\ arg' = [arg EXCEPT ![s].t = u]
<1>1. Unborn \in SUBSET Nat
  BY BoundsArePositive DEF Unborn, Thread
<1>2. Min(Unborn) \in Unborn
  BY <1>1, MinIsLeast DEF Fork
<1> QED  BY <1>2 DEF Fork, Unborn, IInv, ForksApart

\* XJoin: a claim on t.joined that exists already, a Join that returns at
\* once, or a joiner more.
LEMMA JoinCases ==
  ASSUME NEW s, NEW t, NEW alertable, XJoin(s, t, alertable)
  PROVE  /\ pc[s] = "Ready" /\ t \in held /\ got[t] = "none" /\ Joiners(t) = {}
         /\ JoinMuFree
         /\ t # Main \/ "JoinMain" \in Adversity
         /\ UNCHANGED <<table, ended, result, active, alerted, memory>>
         /\ \/ t \in joined /\ fault' = "joined" /\ UNCHANGED <<joined, got, waiting, pc, arg>>
            \/ /\ t \notin joined /\ t \in ended /\ joined' = joined \union {t}
               /\ got' = [got EXCEPT ![t] = IF t \in result THEN "result" ELSE "NIL"]
               /\ Return(s) /\ UNCHANGED <<waiting, fault>>
            \/ /\ t \notin joined /\ t \notin ended /\ joined' = joined \union {t}
               /\ \E place \in {"Joining", "AlertJoining"} : Goto(s, place)
               /\ waiting' = [waiting EXCEPT ![t] = @ \union {s}]
               /\ arg' = [arg EXCEPT ![s].t = t]
               /\ UNCHANGED <<got, fault>>
  BY DEF XJoin, JoinLoop

\* A joiner that was told returns or waits again.
LEMMA WakeCases ==
  ASSUME NEW s, JoinResumes(s)
  PROVE  /\ pc[s] \in {"Woken", "AlertWoken"} /\ JoinMuFree
         /\ UNCHANGED <<table, ended, joined, result, active, alerted, memory, fault>>
         /\ \/ /\ arg[s].t \in ended
               /\ got' = [got EXCEPT ![arg[s].t] = IF arg[s].t \in result THEN "result" ELSE "NIL"]
               /\ Return(s) /\ UNCHANGED waiting
            \/ /\ arg[s].t \notin ended
               /\ waiting' = [waiting EXCEPT ![arg[s].t] = @ \union {s}]
               /\ \E place \in {"Joining", "AlertJoining"} : Goto(s, place)
               /\ arg' = [arg EXCEPT ![s].t = arg[s].t]
               /\ UNCHANGED got
  BY DEF JoinResumes, JoinLoop

\* A joiner in XWait goes on when it was told, and an alert takes it out of the
\* waiters or finds the list gone.
LEMMA AlertCases ==
  ASSUME NEW s, ChooseAlert(s)
  PROVE  /\ pc[s] = "AlertJoining" /\ s \in alerted /\ alerted' = alerted \ {s}
         /\ UNCHANGED <<table, ended, joined, result, got, active, arg, memory>>
         /\ \/ /\ s \in waiting[arg[s].t] /\ pc[arg[s].t] = "Tell"
               /\ fault' = "prev" /\ UNCHANGED <<waiting, pc>>
            \/ /\ s \notin waiting[arg[s].t] \/ pc[arg[s].t] # "Tell"
               /\ waiting' = [waiting EXCEPT ![arg[s].t] = @ \ {s}]
               /\ pc' = [pc EXCEPT ![s] = "Alerted"] /\ UNCHANGED fault
  BY DEF ChooseAlert

\* Only AssignSlot and FreeSlot change which threads have a slot.
NoSlot == {"Unborn", "New", "Leave", "Dead"}

LEMMA SlottedFrom ==
  ASSUME slot' = slot,
         \A r \in Thread : pc'[r] = "Create" <=> pc[r] = "Create",
         \A r \in Thread : pc[r] = "Create" => arg'[r].t = arg[r].t,
         \A r \in Thread : pc'[r] \in NoSlot <=> pc[r] \in NoSlot
  PROVE  Slotted' = Slotted
<1>1. {r \in Thread : pc'[r] = "Create"} = {r \in Thread : pc[r] = "Create"}
  OBVIOUS
<1>2. {r \in Thread : pc'[r] \notin NoSlot /\ (r = Main => slot'[Main] # 0)}
      = {r \in Thread : pc[r] \notin NoSlot /\ (r = Main => slot[Main] # 0)}
  OBVIOUS
<1>3. {arg'[r].t : r \in {r \in Thread : pc'[r] = "Create"}}
      = {arg[r].t : r \in {r \in Thread : pc[r] = "Create"}}
  BY <1>1
<1> QED  BY <1>2, <1>3 DEF Slotted, NoSlot

LEMMA SlottedSame ==
  ASSUME IInv, NEW s \in Thread, Step(s),
         ~(AssignSlot(s) \/ NewTable(s) \/ Grow(s) \/ FreeSlot(s))
  PROVE  Slotted' = Slotted /\ UNCHANGED table
<1>0. pc \in [Thread -> Place] /\ arg \in [Thread -> [t : Thread \union {NIL}, n : Nat]]
  BY DEF IInv, TypeOK
<1> USE <1>0, SlottedFrom DEF NoSlot
<1>1. CASE Fork(s)
  <2>1. PICK u \in Thread :
          /\ pc[s] = "Ready" /\ pc[u] = "Unborn" /\ u # Main
          /\ pc' = [pc EXCEPT ![s] = "Assign", ![u] = "New"]
          /\ arg' = [arg EXCEPT ![s].t = u]
    BY <1>1, ForkMakes
  <2> QED  BY <1>1, <2>1 DEF Fork
<1>2. ASSUME NEW t \in Thread, NEW alertable \in BOOLEAN, XJoin(s, t, alertable)
      PROVE  Slotted' = Slotted /\ UNCHANGED table
  <2>1. CASE UNCHANGED <<pc, arg>>
    BY <1>2, <2>1, JoinCases
  <2>2. ASSUME NEW place \in {"Ready", "Joining", "AlertJoining"}, pc' = [pc EXCEPT ![s] = place]
        PROVE  Slotted' = Slotted /\ UNCHANGED table
    <3>1. pc[s] = "Ready"
      BY <1>2, JoinCases
    <3>2. \A r \in Thread : r # s => arg'[r].t = arg[r].t
      BY <1>2, JoinCases
    <3> QED  BY <1>2, <2>2, <3>1, <3>2, JoinCases
  <2> QED  BY <1>2, <2>1, <2>2, JoinCases
<1>3. CASE JoinResumes(s)
  <2>1. PICK place \in {"Ready", "Joining", "AlertJoining"} : pc' = [pc EXCEPT ![s] = place]
    BY <1>3, WakeCases
  <2>2. \A r \in Thread : r # s => arg'[r].t = arg[r].t
    BY <1>3, WakeCases
  <2> QED  BY <1>3, <2>1, <2>2, WakeCases
<1>4. CASE CreateThread(s)
  BY <1>4, Kinds DEF CreateThread, IInv, ForksApart, Slotted
<1>5. CASE ForkFails(s)
  BY <1>5 DEF ForkFails, IInv, ForksApart
<1>6. CASE Self(s) \/ Drop(s) \/ (\E t \in Thread : Alert(s, t)) \/ CleanThread(s)
  BY <1>6 DEF Self, Drop, Alert, CleanThread
<1>7. CASE Finish(s) \/ ThreadBase(s) \/ ReadSelf(s) \/ NotifyJoiner(s) \/ TellJoiner(s)
  BY <1>7 DEF Finish, ThreadBase, ReadSelf, NotifyJoiner, TellJoiner
<1>8. CASE LeaveRing(s) \/ JoinWake(s) \/ ChooseAlert(s) \/ JoinRaises(s)
  BY <1>8 DEF LeaveRing, JoinWake, ChooseAlert, JoinRaises
<1> QED  BY <1>1, <1>2, <1>3, <1>4, <1>5, <1>6, <1>7, <1>8 DEF Step, Call, Continue

LEMMA SlottedThreads ==
  ASSUME IInv
  PROVE  Slotted \subseteq Thread /\ IsFiniteSet(Slotted) /\ nSlotted = Cardinality(Slotted)
<1>1. Slotted \subseteq Thread
  BY Kinds DEF Slotted, IInv, ForksApart
<1> QED  BY <1>1, ThreadsAreFinite DEF IInv, TableExact

LEMMA TableKept ==
  ASSUME IInv, NEW s \in Thread, Step(s)
  PROVE  TableExact' /\ nSlotted' \in Nat
<1> USE Kinds
<1>1. Slotted \subseteq Thread /\ IsFiniteSet(Slotted) /\ nSlotted = Cardinality(Slotted) /\ nSlotted \in Nat
  BY SlottedThreads DEF IInv, TypeOK
<1>2. CASE ~(AssignSlot(s) \/ NewTable(s) \/ Grow(s) \/ FreeSlot(s))
  <2>1. Slotted' = Slotted /\ UNCHANGED table
    BY <1>2, SlottedSame
  <2> QED  BY <1>1, <2>1 DEF IInv, TableExact, IsTable, Size
<1>3. CASE AssignSlot(s) \/ NewTable(s) \/ Grow(s)
  <2>1. Assigns(s)
    BY <1>3, AssigningEnds
  <2>2. pc \in [Thread -> Place] /\ arg \in [Thread -> [t : Thread \union {NIL}, n : Nat]]
        /\ slot \in [Thread -> {0} \union DOMAIN slots]
    BY DEF IInv, TypeOK
  <2>3. CASE Moves(s)
    <3>1. Slotted' = Slotted /\ UNCHANGED table
      BY <2>1, <2>2, <2>3 DEF Moves, Assigns, Slotted
    <3> QED  BY <1>1, <3>1 DEF IInv, TableExact, IsTable, Size
  <2>4. ASSUME NEW t, Installs(s, t)  PROVE TableExact' /\ nSlotted' \in Nat
    <3>1. Slotted' = Slotted
      BY <2>1, <2>2, <2>4 DEF Installs, Assigns, Slotted
    <3>2. IsTable(slots')
      BY <2>4 DEF Installs, Covers
    <3> QED  BY <1>1, <2>4, <3>1, <3>2 DEF Installs, Covers, IInv, TableExact
  <2>5. ASSUME NEW t, NEW i, Takes(s, t, i)  PROVE TableExact' /\ nSlotted' \in Nat
    <3> DEFINE x == arg[s].t
    <3>1. x \in Thread \ Slotted
      BY <2>1, <2>2 DEF Assigns, IInv, ForksApart, Slotted
    <3>2. Slotted' = Slotted \union {x}
      <4>1. CASE x = Main
        <5>1. s = Main /\ slot'[Main] # 0 /\ slot' = [slot EXCEPT ![Main] = i]
          BY <2>1, <2>2, <2>5, <4>1 DEF Takes, Assigns, IInv, ForksApart
        <5> QED  BY <2>1, <2>2, <2>5, <4>1, <5>1 DEF Takes, Assigns, Slotted, IInv, ForksApart
      <4>2. CASE x # Main
        <5>1. pc' = [pc EXCEPT ![s] = "Create"] /\ arg' = arg /\ slot'[Main] = slot[Main]
          BY <2>2, <2>5, <3>1, <4>2 DEF Takes
        <5>2. s = Main => slot[Main] # 0
          BY <2>1, <4>2 DEF Assigns, IInv, ForksApart
        <5> QED  BY <2>1, <2>2, <5>1, <5>2 DEF Assigns, Slotted
      <4> QED  BY <4>1, <4>2
    <3>3. nSlotted' = Cardinality(Slotted') /\ nSlotted' \in Nat
      <4>1. Cardinality(Slotted \union {x}) = Cardinality(Slotted) + 1
        BY <1>1, <3>1, FS_AddElement
      <4>2. nSlotted' = nSlotted + 1
        BY <2>5 DEF Takes
      <4> QED  BY <1>1, <3>2, <4>1, <4>2
    <3>4. IsTable(slots') /\ DOMAIN slots' = DOMAIN t
      <4>1. Size(t) \in Nat /\ t \in [0 .. Size(t) - 1 -> Thread \union {NIL}]
        BY <2>5 DEF Takes, Covers, IsTable
      <4>2. slots' = [t EXCEPT ![i] = x]
        BY <2>5 DEF Takes
      <4>3. slots' \in [0 .. Size(t) - 1 -> Thread \union {NIL}]
        BY <3>1, <4>1, <4>2
      <4> QED  BY <4>1, <4>3, TableSize
    <3>5. \A r \in Slotted' : slot'[r] \in DOMAIN slots' \ {0} /\ slots'[slot'[r]] = r
      BY <2>2, <2>5, <3>1, <3>2, <3>4, <1>1 DEF Takes, Covers, IInv, TableExact
    <3>6. \A j \in DOMAIN slots' :
            slots'[j] # NIL => slots'[j] \in Slotted' /\ slot'[slots'[j]] = j
      BY <2>2, <2>5, <3>1, <3>2, <3>4, <1>1 DEF Takes, Covers, IInv, TableExact
    <3> QED  BY <2>5, <3>3, <3>4, <3>5, <3>6 DEF Takes, TableExact
  <2> QED  BY <2>1, <2>3, <2>4, <2>5 DEF Assigns
<1>4. CASE FreeSlot(s)
  <2>1. /\ pc \in [Thread -> Place] /\ arg \in [Thread -> [t : Thread \union {NIL}, n : Nat]]
        /\ slot \in [Thread -> {0} \union DOMAIN slots] /\ pc[s] = "Free" /\ s # Main
    BY <1>4 DEF IInv, TypeOK, FreeSlot, ForksApart
  <2>2. s \in Slotted /\ slots[slot[s]] = s /\ slot[s] \in DOMAIN slots
    BY <2>1 DEF Slotted, IInv, TableExact
  <2>3. /\ slots' = [slots EXCEPT ![slot[s]] = NIL] /\ slot' = [slot EXCEPT ![s] = 0]
        /\ pc' = [pc EXCEPT ![s] = "Leave"]
        /\ nSlotted' = nSlotted - 1 /\ UNCHANGED <<arg, nextSlot>>
    BY <1>4, <2>2 DEF FreeSlot
  <2>4. Slotted' = Slotted \ {s}
    BY <2>1, <2>3 DEF Slotted, IInv, ForksApart
  <2>5. nSlotted' = Cardinality(Slotted') /\ nSlotted' \in Nat
    <3>1. IsFiniteSet(Slotted \ {s}) /\ Cardinality(Slotted \ {s}) = Cardinality(Slotted) - 1
      BY <1>1, <2>2, FS_RemoveElement
    <3>2. Cardinality(Slotted \ {s}) \in Nat
      BY <3>1, FS_CardinalityType
    <3> QED  BY <1>1, <2>3, <2>4, <3>1, <3>2
  <2>6. IsTable(slots') /\ DOMAIN slots' = DOMAIN slots
    BY <2>3, TableSize DEF IInv, TableExact, IsTable
  <2>7. \A r \in Slotted' : slot'[r] \in DOMAIN slots' \ {0} /\ slots'[slot'[r]] = r
    BY <1>1, <2>1, <2>2, <2>3, <2>4, <2>6 DEF IInv, TableExact
  <2>8. \A j \in DOMAIN slots' :
          slots'[j] # NIL => slots'[j] \in Slotted' /\ slot'[slots'[j]] = j
    BY <1>1, <2>1, <2>2, <2>3, <2>4, <2>6 DEF IInv, TableExact
  <2> QED  BY <2>3, <2>5, <2>6, <2>7, <2>8 DEF IInv, TableExact
<1> QED  BY <1>2, <1>3, <1>4

\* What the steps of AssignSlot leave alone, and where they go.
LEMMA AssignsKeeps ==
  ASSUME IInv, NEW s \in Thread, Assigns(s)
  PROVE  /\ arg[s].t \in Thread
         /\ arg' \in [Thread -> [t : Thread \union {NIL}, n : Nat]]
         /\ slot' \in [Thread -> {0} \union DOMAIN slots']
         /\ nextSlot' \in Nat \ {0}
         /\ \A r \in Thread \ {s} : arg'[r] = arg[r]
         /\ \A r \in Thread \ {arg[s].t} : slot'[r] = slot[r]
         /\ \E place \in Place : pc' = [pc EXCEPT ![s] = place] /\
              \/ arg[s].t = Main /\ place = "Ready" /\ slot'[Main] # 0
              \/ arg[s].t # Main /\ place = "Create" /\ arg' = arg
              \/ /\ place \in {"Assign", "NewTable", "Grow"}
                 /\ arg'[s].t = arg[s].t /\ slot' = slot
                 /\ place = "Grow" => DOMAIN slots' # {}
<1> USE Kinds DEF IInv
<1>1. arg[s].t \in Thread
  BY DEF Assigns, ForksApart
<1>2. /\ pc \in [Thread -> Place] /\ arg \in [Thread -> [t : Thread \union {NIL}, n : Nat]]
      /\ slot \in [Thread -> {0} \union DOMAIN slots] /\ nextSlot \in Nat \ {0}
  BY DEF TypeOK
<1>3. CASE Moves(s)
  BY <1>1, <1>2, <1>3 DEF Moves
<1>4. ASSUME NEW t, Installs(s, t)
      PROVE  /\ DOMAIN slots \subseteq DOMAIN slots' /\ DOMAIN slots' # {} /\ Size(t) \in Nat
             /\ slot' = slot /\ nextSlot' = nextSlot
             /\ arg' = [arg EXCEPT ![s].n = Size(t)] /\ pc' = [pc EXCEPT ![s] = "Grow"]
  BY <1>4 DEF Installs, Covers, IsTable
<1>5. ASSUME NEW t, NEW i, Takes(s, t, i)
      PROVE  /\ i \in DOMAIN slots' \ {0} /\ i \in Nat \ {0} /\ DOMAIN slots \subseteq DOMAIN slots'
             /\ slot' = [slot EXCEPT ![arg[s].t] = i] /\ nextSlot' = i
             /\ IF arg[s].t = Main
                THEN pc' = [pc EXCEPT ![s] = "Ready"] /\ arg' = [arg EXCEPT ![s] = NoArg]
                ELSE pc' = [pc EXCEPT ![s] = "Create"] /\ arg' = arg
  BY <1>5 DEF Takes, Covers, IsTable
<1>6. CASE \E t : Installs(s, t)
  BY <1>1, <1>2, <1>4, <1>6
<1>7. CASE \E t, i : Takes(s, t, i)
  BY <1>1, <1>2, <1>5, <1>7
<1> QED  BY <1>3, <1>6, <1>7 DEF Assigns

Args == [Thread -> [t : Thread \union {NIL}, n : Nat]]

LEMMA ArgSet ==
  ASSUME arg \in Args, NEW s \in Thread, NEW u \in Thread, arg' = [arg EXCEPT ![s].t = u]
  PROVE  arg' \in Args /\ arg'[s].t = u /\ \A r \in Thread \ {s} : arg'[r] = arg[r]
<1>1. arg'[s] = [arg[s] EXCEPT !.t = u] /\ \A r \in Thread \ {s} : arg'[r] = arg[r]
  BY DEF Args
<1>2. arg'[s] \in [t : Thread \union {NIL}, n : Nat] /\ arg'[s].t = u
  BY <1>1 DEF Args
<1> QED  BY <1>1, <1>2 DEF Args

LEMMA PcSet ==
  ASSUME IInv, NEW s \in Thread, NEW place \in Place, pc' = [pc EXCEPT ![s] = place]
  PROVE  pc' \in [Thread -> Place]
<1>1. pc \in [Thread -> Place]
  BY DEF IInv, TypeOK
<1> HIDE DEF Place
<1> QED  BY <1>1

LEMMA TypeKept ==
  ASSUME IInv, NEW s \in Thread, Step(s)
  PROVE  TypeOK'
<1> USE Kinds DEF IInv
<1>0. /\ slots' \in [DOMAIN slots' -> Thread \union {NIL}]
      /\ DOMAIN slots' = 0 .. Size(slots') - 1
      /\ nSlotted' \in Nat
  BY TableKept DEF TableExact, IsTable
<1> USE <1>0 DEF TypeOK
<1>1. CASE AssignSlot(s) \/ NewTable(s) \/ Grow(s)
  <2>1. Assigns(s)
    BY <1>1, AssigningEnds
  <2>2. pc' \in [Thread -> Place]
    BY <2>1, AssignsKeeps
  <2> QED  BY <2>1, <2>2, AssignsKeeps DEF Assigns
<1>2. CASE Fork(s)
  <2>1. PICK u \in Thread :
          /\ pc' = [pc EXCEPT ![s] = "Assign", ![u] = "New"]
          /\ arg' = [arg EXCEPT ![s].t = u]
    BY <1>2, ForkMakes
  <2>2. arg' \in Args
    BY <2>1, ArgSet DEF Args
  <2>3. pc' \in [Thread -> Place]
    BY <2>1
  <2> QED  BY <1>2, <2>2, <2>3 DEF Fork, Args
<1>3. ASSUME NEW t \in Thread, NEW alertable \in BOOLEAN, XJoin(s, t, alertable)
      PROVE  TypeOK'
  <2>0. (\E place \in Place : pc' = [pc EXCEPT ![s] = place]) \/ pc' = pc
    BY <1>3, JoinCases
  <2>1. joined' \subseteq Thread /\ pc' \in [Thread -> Place]
    BY <1>3, <2>0, JoinCases, PcSet, SMTT(30)
  <2>2. arg' \in Args
    <3>1. CASE arg' = [arg EXCEPT ![s] = NoArg]
      BY <3>1 DEF Args
    <3>2. CASE arg' = [arg EXCEPT ![s].t = t]
      BY <3>2, ArgSet DEF Args
    <3> QED  BY <1>3, <3>1, <3>2, JoinCases DEF Args
  <2>3. waiting' \in [Thread -> SUBSET Thread] /\ got' \in [Thread -> {"none", "result", "NIL"}]
    <3>1. CASE UNCHANGED waiting
      <4>1. UNCHANGED got \/ got' = [got EXCEPT ![t] = IF t \in result THEN "result" ELSE "NIL"]
        BY <1>3, JoinCases
      <4> QED  BY <3>1, <4>1
    <3>2. CASE UNCHANGED got /\ waiting' = [waiting EXCEPT ![t] = @ \union {s}]
      BY <3>2
    <3> QED  BY <1>3, <3>1, <3>2, JoinCases
  <2>4. fault' \in {"none", "endless", "slot", "joined", "prev", "disposed"}
    BY <1>3, JoinCases
  <2> QED  BY <1>3, <2>1, <2>2, <2>3, <2>4, JoinCases DEF Args
<1>4. CASE JoinResumes(s)
  <2>1. arg[s].t \in Thread
    BY <1>4 DEF JoinResumes, JoinsApart
  <2>2. pc' \in [Thread -> Place]
    BY <1>4, WakeCases
  <2>4. arg' \in Args
    <3>1. CASE arg' = [arg EXCEPT ![s] = NoArg]
      BY <3>1 DEF Args
    <3>2. CASE arg' = [arg EXCEPT ![s].t = arg[s].t]
      BY <2>1, <3>2, ArgSet DEF Args
    <3> QED  BY <1>4, <3>1, <3>2, WakeCases
  <2>3. waiting' \in [Thread -> SUBSET Thread] /\ got' \in [Thread -> {"none", "result", "NIL"}]
    <3>1. CASE UNCHANGED waiting
      BY <1>4, <2>1, <3>1, WakeCases
    <3>2. CASE UNCHANGED got /\ waiting' = [waiting EXCEPT ![arg[s].t] = @ \union {s}]
      BY <2>1, <3>2
    <3> QED  BY <1>4, <3>1, <3>2, WakeCases
  <2> QED  BY <1>4, <2>2, <2>3, <2>4, WakeCases DEF Args
<1>5. CASE FreeSlot(s)
  <2>1. DOMAIN slots' = DOMAIN slots
    BY <1>5 DEF FreeSlot
  <2> QED  BY <1>5, <2>1 DEF FreeSlot
<1>6. CASE ChooseAlert(s)
  <2>1. arg[s].t \in Thread
    BY <1>6, AlertCases DEF JoinsApart
  <2>2. pc' \in [Thread -> Place]
    BY <1>6, AlertCases
  <2>3. waiting' \in [Thread -> SUBSET Thread]
    BY <1>6, <2>1, AlertCases
  <2> QED  BY <1>6, <2>2, <2>3, AlertCases
<1>7. CASE ForkFails(s)
  BY <1>7 DEF ForkFails, ForksApart
<1>8. CASE CreateThread(s)
  BY <1>8 DEF CreateThread, ForksApart
<1>9. CASE Self(s) \/ Finish(s) \/ Drop(s) \/ (\E t \in Thread : Alert(s, t)) \/ CleanThread(s)
  BY <1>9, ZenonT(40) DEF Self, Finish, Drop, Alert, CleanThread
<1>10. CASE ThreadBase(s)
  BY <1>10 DEF ThreadBase
<1>11. CASE ReadSelf(s)
  BY <1>11 DEF ReadSelf
<1>12. CASE NotifyJoiner(s) \/ JoinWake(s)
  BY <1>12 DEF NotifyJoiner, JoinWake
<1>13. CASE TellJoiner(s)
  BY <1>13 DEF TellJoiner
<1>14. CASE LeaveRing(s)
  BY <1>14 DEF LeaveRing
<1>15. CASE JoinRaises(s)
  BY <1>15 DEF JoinRaises
<1> QED  BY <1>1, <1>2, <1>3, <1>4, <1>5, <1>6, <1>7, <1>8, <1>9, <1>10, <1>11, <1>12,
            <1>13, <1>14, <1>15
         DEF Step, Call, Continue

\* A step of XJoin moves its thread only.
LEMMA JoinMoves ==
  ASSUME IInv, NEW s \in Thread,
         JoinResumes(s) \/ \E t \in Thread, alertable \in BOOLEAN : XJoin(s, t, alertable)
  PROVE  /\ pc[s] \in {"Ready", "Woken", "AlertWoken"}
         /\ \/ pc' = pc
            \/ \E place \in {"Ready", "Joining", "AlertJoining"} : pc' = [pc EXCEPT ![s] = place]
         /\ \A r \in Thread \ {s} : arg'[r] = arg[r]
         /\ UNCHANGED <<table, ended, result, active, alerted, memory>>
<1>0. arg \in Args
  BY DEF IInv, TypeOK, Args
<1>1. CASE JoinResumes(s)
  <2>1. \A r \in Thread \ {s} : arg'[r] = arg[r]
    BY <1>0, <1>1, WakeCases DEF Args
  <2> QED  BY <1>1, <2>1, WakeCases
<1>2. ASSUME NEW t \in Thread, NEW alertable \in BOOLEAN, XJoin(s, t, alertable)
      PROVE  /\ pc[s] \in {"Ready", "Woken", "AlertWoken"}
             /\ \/ pc' = pc
                \/ \E place \in {"Ready", "Joining", "AlertJoining"} : pc' = [pc EXCEPT ![s] = place]
             /\ \A r \in Thread \ {s} : arg'[r] = arg[r]
             /\ UNCHANGED <<table, ended, result, active, alerted, memory>>
  <2>1. \A r \in Thread \ {s} : arg'[r] = arg[r]
    BY <1>0, <1>2, JoinCases DEF Args
  <2> QED  BY <1>2, <2>1, JoinCases
<1> QED  BY <1>1, <1>2

LEMMA ForksKept ==
  ASSUME IInv, NEW s \in Thread, Step(s)
  PROVE  ForksApart'
<1> USE Kinds DEF IInv
<1>0. /\ pc \in [Thread -> Place] /\ arg \in Args
      /\ slot \in [Thread -> {0} \union DOMAIN slots]
  BY DEF TypeOK, Args
<1> USE <1>0 DEF ForksApart
<1>1. CASE AssignSlot(s) \/ NewTable(s) \/ Grow(s)
  <2>1. Assigns(s) /\ pc[s] \in {"Assign", "NewTable", "Grow"}
    BY <1>1, AssigningEnds DEF Assigns
  <2>2. DOMAIN slots \subseteq DOMAIN slots'
    BY <2>1 DEF Assigns, Moves, Installs, Takes, Covers
  <2>3. PICK place \in Place :
          /\ pc' = [pc EXCEPT ![s] = place]
          /\ \/ arg[s].t = Main /\ place = "Ready" /\ slot'[Main] # 0
             \/ arg[s].t # Main /\ place = "Create" /\ arg' = arg
             \/ /\ place \in {"Assign", "NewTable", "Grow"}
                /\ arg'[s].t = arg[s].t /\ slot' = slot
                /\ place = "Grow" => DOMAIN slots' # {}
    BY <2>1, AssignsKeeps
  <2>4. /\ \A r \in Thread \ {s} : arg'[r] = arg[r]
        /\ \A r \in Thread \ {arg[s].t} : slot'[r] = slot[r]
    BY <2>1, AssignsKeeps
  <2>5. CASE arg[s].t = Main /\ place = "Ready" /\ slot'[Main] # 0
    BY <2>1, <2>2, <2>3, <2>4, <2>5
  <2>6. CASE arg[s].t # Main /\ place = "Create" /\ arg' = arg
    BY <2>1, <2>2, <2>3, <2>4, <2>6
  <2>7. CASE /\ place \in {"Assign", "NewTable", "Grow"}
             /\ arg'[s].t = arg[s].t /\ slot' = slot
             /\ place = "Grow" => DOMAIN slots' # {}
    BY <2>1, <2>2, <2>3, <2>4, <2>7
  <2> QED  BY <2>3, <2>5, <2>6, <2>7
<1>2. CASE Fork(s)
  <2>1. PICK u \in Thread :
          /\ pc[s] = "Ready" /\ pc[u] = "Unborn" /\ u # Main
          /\ pc' = [pc EXCEPT ![s] = "Assign", ![u] = "New"]
          /\ arg' = [arg EXCEPT ![s].t = u]
    BY <1>2, ForkMakes
  <2>2. arg'[s].t = u /\ \A r \in Thread \ {s} : arg'[r] = arg[r]
    BY <2>1, ArgSet
  <2>3. UNCHANGED table
    BY <1>2 DEF Fork
  <2> QED  BY <2>1, <2>2, <2>3
<1>3. CASE JoinResumes(s) \/ \E t \in Thread, alertable \in BOOLEAN : XJoin(s, t, alertable)
  <2>1. /\ pc[s] \in {"Ready", "Woken", "AlertWoken"}
        /\ \/ pc' = pc
           \/ \E place \in {"Ready", "Joining", "AlertJoining"} : pc' = [pc EXCEPT ![s] = place]
        /\ \A r \in Thread \ {s} : arg'[r] = arg[r]
        /\ UNCHANGED table
    BY <1>3, JoinMoves
  <2> QED  BY <2>1
<1>5. CASE FreeSlot(s)
  <2>1. s # Main /\ pc[s] = "Free"
    BY <1>5 DEF FreeSlot
  <2>2. /\ DOMAIN slots' = DOMAIN slots /\ slot'[Main] = slot[Main] /\ arg' = arg
        /\ pc' = [pc EXCEPT ![s] = "Leave"] \/ pc' = pc
    BY <1>5, <2>1 DEF FreeSlot
  <2> QED  BY <2>1, <2>2
<1>6. CASE ForkFails(s)
  BY <1>6 DEF ForkFails
<1>7. CASE CreateThread(s)
  BY <1>7 DEF CreateThread
<1>8. CASE Self(s) \/ Drop(s) \/ (\E t \in Thread : Alert(s, t)) \/ CleanThread(s)
  BY <1>8 DEF Self, Drop, Alert, CleanThread
<1>9. CASE Finish(s) \/ ThreadBase(s) \/ NotifyJoiner(s) \/ TellJoiner(s) \/ LeaveRing(s)
  BY <1>9 DEF Finish, ThreadBase, NotifyJoiner, TellJoiner, LeaveRing
<1>10. CASE ReadSelf(s)
  BY <1>10 DEF ReadSelf
<1>11. CASE ChooseAlert(s) \/ JoinWake(s)
  BY <1>11 DEF ChooseAlert, JoinWake
<1>12. CASE JoinRaises(s)
  BY <1>12 DEF JoinRaises
<1> QED  BY <1>1, <1>2, <1>3, <1>5, <1>6, <1>7, <1>8, <1>9, <1>10, <1>11, <1>12
         DEF Step, Call, Continue

LEMMA LivesKept ==
  ASSUME IInv, NEW s \in Thread, Step(s)
  PROVE  LivesApart'
<1> USE Kinds DEF IInv
<1>0. /\ pc \in [Thread -> Place] /\ arg \in Args
      /\ active \subseteq Thread /\ held \subseteq Thread /\ disposed \subseteq Thread
  BY DEF TypeOK, Args
<1> USE <1>0 DEF LivesApart
<1>1. CASE AssignSlot(s) \/ NewTable(s) \/ Grow(s)
  <2>1. Assigns(s) /\ pc[s] \in {"Assign", "NewTable", "Grow"} /\ UNCHANGED <<active, held, disposed, cleaned>>
    BY <1>1, AssigningEnds DEF Assigns
  <2>2. \E place \in {"Assign", "NewTable", "Grow", "Create", "Ready"} : pc' = [pc EXCEPT ![s] = place]
    BY <2>1, AssignsKeeps
  <2> QED  BY <2>1, <2>2
<1>2. CASE Fork(s)
  <2>1. PICK u \in Thread :
          /\ pc[s] = "Ready" /\ pc[u] = "Unborn" /\ u # Main
          /\ pc' = [pc EXCEPT ![s] = "Assign", ![u] = "New"]
    BY <1>2, ForkMakes
  <2> QED  BY <1>2, <2>1 DEF Fork
<1>3. CASE JoinResumes(s) \/ \E t \in Thread, alertable \in BOOLEAN : XJoin(s, t, alertable)
  BY <1>3, JoinMoves
<1>5. CASE ForkFails(s)
  BY <1>5 DEF ForkFails, ForksApart
<1>6. CASE CreateThread(s)
  BY <1>6 DEF CreateThread, ForksApart
<1>7. CASE CleanThread(s)
  BY <1>7 DEF CleanThread, Reachable
<1>8. CASE Self(s) \/ Drop(s) \/ (\E t \in Thread : Alert(s, t))
  BY <1>8 DEF Self, Drop, Alert
<1>9. CASE Finish(s) \/ ThreadBase(s) \/ ReadSelf(s) \/ NotifyJoiner(s) \/ TellJoiner(s)
  BY <1>9 DEF Finish, ThreadBase, ReadSelf, NotifyJoiner, TellJoiner
<1>10. CASE FreeSlot(s) \/ LeaveRing(s) \/ JoinWake(s) \/ ChooseAlert(s) \/ JoinRaises(s)
  BY <1>10 DEF FreeSlot, LeaveRing, JoinWake, ChooseAlert, JoinRaises
<1> QED  BY <1>1, <1>2, <1>3, <1>5, <1>6, <1>7, <1>8, <1>9, <1>10
         DEF Step, Call, Continue

\* Joiners and claims do not depend on threads outside XJoin that only move on.
LEMMA JoinsFrom ==
  ASSUME IInv, NEW s \in Thread, pc[s] \notin Inside \union {"Notify", "Tell", "Free", "Leave"},
         NEW place \in {"Assign", "NewTable", "Grow", "Create", "Ready", "Base", "ReadSelf", "Notify", "New"},
         pc' = [pc EXCEPT ![s] = place],
         \A r \in Thread \ {s} : arg'[r] = arg[r],
         place = "Notify" /\ s # Main => s \in result',
         result \subseteq result', held' \subseteq held \union {s}, pc[s] # "Dead",
         UNCHANGED <<ended, joined, waiting, got, alerted>>
  PROVE  JoinsApart'
<1>0. pc \in [Thread -> Place] /\ joined \subseteq Thread
  BY DEF IInv, TypeOK
<1>1. \A r \in Thread : pc'[r] \in Inside <=> pc[r] \in Inside
  BY <1>0
<1>2. \A r \in Thread : pc[r] \in Inside => arg'[r] = arg[r] /\ pc'[r] = pc[r]
  BY <1>0
<1>3. \A t \in Thread : Joiners(t)' = Joiners(t)
  BY <1>1, <1>2 DEF Joiners
<1>4. s # Main => s \notin ended
  BY DEF IInv, JoinsApart
<1> QED  BY <1>0, <1>1, <1>2, <1>3, <1>4 DEF IInv, JoinsApart

LEMMA JoinsKept ==
  ASSUME IInv, NEW s \in Thread, Step(s)
  PROVE  JoinsApart'
<1> USE Kinds DEF IInv
<1>0. /\ pc \in [Thread -> Place] /\ arg \in Args
      /\ joined \subseteq Thread /\ waiting \in [Thread -> SUBSET Thread]
      /\ got \in [Thread -> {"none", "result", "NIL"}]
  BY DEF TypeOK, Args
<1> USE <1>0
<1>1. CASE AssignSlot(s) \/ NewTable(s) \/ Grow(s)
  <2>1. Assigns(s) /\ pc[s] \in {"Assign", "NewTable", "Grow"}
    BY <1>1, AssigningEnds DEF Assigns
  <2>2. \E place \in {"Assign", "NewTable", "Grow", "Create", "Ready"} : pc' = [pc EXCEPT ![s] = place]
    BY <2>1, AssignsKeeps
  <2>3. \A r \in Thread \ {s} : arg'[r] = arg[r]
    BY <2>1, AssignsKeeps
  <2> QED  BY <2>1, <2>2, <2>3, JoinsFrom DEF Assigns
<1>2. CASE Fork(s)
  <2>1. PICK u \in Thread :
          /\ pc[s] = "Ready" /\ pc[u] = "Unborn" /\ u # Main
          /\ pc' = [pc EXCEPT ![s] = "Assign", ![u] = "New"]
          /\ arg' = [arg EXCEPT ![s].t = u]
    BY <1>2, ForkMakes
  <2>2. \A r \in Thread \ {s} : arg'[r] = arg[r]
    BY <2>1, ArgSet
  <2>3. \A r \in Thread : pc[r] \in Inside => arg'[r] = arg[r] /\ pc'[r] = pc[r]
    BY <2>1, <2>2
  <2>4. \A r \in Thread : pc'[r] \in Inside <=> pc[r] \in Inside
    BY <2>1
  <2>5. \A t \in Thread : Joiners(t)' = Joiners(t)
    BY <2>3, <2>4 DEF Joiners
  <2> QED  BY <1>2, <2>1, <2>3, <2>4, <2>5 DEF Fork, JoinsApart
<1>3. ASSUME NEW t \in Thread, NEW alertable \in BOOLEAN, XJoin(s, t, alertable)
      PROVE  JoinsApart'
  <2>1. /\ pc[s] = "Ready" /\ t \in held /\ got[t] = "none" /\ Joiners(t) = {}
        /\ t # Main \/ "JoinMain" \in Adversity
        /\ pc[t] # "Tell"
        /\ UNCHANGED <<ended, result, held, alerted>>
    BY <1>3, JoinCases DEF JoinMuFree
  <2>2. \A r \in Thread : pc[r] \in Inside => arg[r].t # t
    BY <2>1 DEF Joiners
  <2>3. CASE UNCHANGED <<joined, got, waiting, pc, arg>>
    BY <2>1, <2>3 DEF JoinsApart, Joiners
  <2>4. CASE /\ t \notin joined /\ t \in ended /\ joined' = joined \union {t}
             /\ got' = [got EXCEPT ![t] = IF t \in result THEN "result" ELSE "NIL"]
             /\ Return(s) /\ UNCHANGED <<waiting, fault>>
    <3>1. \A r \in Thread : r # s => pc'[r] = pc[r] /\ arg'[r] = arg[r]
      BY <2>4
    <3>2. pc'[s] = "Ready"
      BY <2>4
    <3>3. \A r \in Thread : Joiners(r)' = Joiners(r)
      BY <2>1, <3>1, <3>2 DEF Joiners
    <3>4. got'[t] # "none" /\ \A r \in Thread \ {t} : got'[r] = got[r]
      BY <2>4
    <3> QED  BY <2>1, <2>4, <3>1, <3>2, <3>3, <3>4 DEF JoinsApart
  <2>5. CASE /\ t \notin joined /\ t \notin ended /\ joined' = joined \union {t}
             /\ \E place \in {"Joining", "AlertJoining"} : Goto(s, place)
             /\ waiting' = [waiting EXCEPT ![t] = @ \union {s}]
             /\ arg' = [arg EXCEPT ![s].t = t]
             /\ UNCHANGED <<got, fault>>
    <3>1. arg'[s].t = t /\ \A r \in Thread \ {s} : arg'[r] = arg[r] /\ pc'[r] = pc[r]
      BY <2>5, ArgSet
    <3>2. pc'[s] \in {"Joining", "AlertJoining"}
      BY <2>5
    <3>3. s \in Joiners(t)' /\ \A r \in Thread \ {t} : Joiners(r)' = Joiners(r)
      BY <2>1, <3>1, <3>2 DEF Joiners
    <3>4. \A r \in Thread \ {t} : waiting'[r] = waiting[r]
      BY <2>5
    <3> QED  BY <2>1, <2>2, <2>5, <3>1, <3>2, <3>3, <3>4 DEF JoinsApart
  <2> QED  BY <1>3, <2>3, <2>4, <2>5, JoinCases
<1>4. CASE JoinResumes(s)
  <2> DEFINE t == arg[s].t
  <2>1. t \in Thread /\ t \in joined /\ pc[s] \in {"Woken", "AlertWoken"} /\ pc[t] # "Tell"
    BY <1>4, WakeCases DEF JoinsApart, JoinMuFree
  <2>2. UNCHANGED <<ended, joined, result, held, alerted>>
    BY <1>4, WakeCases
  <2>3. CASE /\ t \in ended
             /\ got' = [got EXCEPT ![t] = IF t \in result THEN "result" ELSE "NIL"]
             /\ Return(s) /\ UNCHANGED waiting
    <3>1. \A r \in Thread : r # s => pc'[r] = pc[r] /\ arg'[r] = arg[r]
      BY <2>3
    <3>2. pc'[s] = "Ready"
      BY <2>3
    <3>3. \A r \in Thread \ {t} : Joiners(r)' = Joiners(r)
      BY <2>1, <3>1, <3>2 DEF Joiners
    <3>4. got'[t] # "none" /\ \A r \in Thread \ {t} : got'[r] = got[r]
      BY <2>1, <2>3
    <3> QED  BY <2>1, <2>2, <2>3, <3>1, <3>2, <3>3, <3>4 DEF JoinsApart
  <2>4. CASE /\ t \notin ended
             /\ waiting' = [waiting EXCEPT ![t] = @ \union {s}]
             /\ \E place \in {"Joining", "AlertJoining"} : Goto(s, place)
             /\ arg' = [arg EXCEPT ![s].t = t]
             /\ UNCHANGED got
    <3>1. /\ pc'[s] \in {"Joining", "AlertJoining"}
          /\ \A r \in Thread \ {s} : pc'[r] = pc[r]
          /\ \A r \in Thread : arg'[r].t = arg[r].t
      BY <2>1, <2>4, ArgSet
    <3>2. \A r \in Thread : Joiners(r)' = Joiners(r)
      BY <2>1, <3>1 DEF Joiners
    <3>3. /\ \A r \in Thread : waiting[r] \subseteq waiting'[r]
          /\ \A r \in Thread \ {t} : waiting'[r] = waiting[r]
          /\ s \in waiting'[t]
      BY <2>1, <2>4
    <3> QED  BY <2>1, <2>2, <2>4, <3>1, <3>2, <3>3 DEF JoinsApart
  <2> QED  BY <1>4, <2>3, <2>4, WakeCases
<1>5. CASE ForkFails(s)
  <2>1. /\ pc' = [pc EXCEPT ![s] = "Ready", ![arg[s].t] = "Dead"]
        /\ arg' = [arg EXCEPT ![s] = NoArg] /\ pc[s] = "Grow"
        /\ arg[s].t \in Thread \ {Main} /\ pc[arg[s].t] = "New" /\ arg[s].t \notin held
    BY <1>5 DEF ForkFails, ForksApart, LivesApart
  <2>2. \A r \in Thread : pc[r] \in Inside => arg'[r] = arg[r] /\ pc'[r] = pc[r]
    BY <2>1
  <2>3. \A r \in Thread : pc'[r] \in Inside <=> pc[r] \in Inside
    BY <2>1
  <2>4. \A t \in Thread : Joiners(t)' = Joiners(t)
    BY <2>2, <2>3 DEF Joiners
  <2> QED  BY <1>5, <2>1, <2>2, <2>3, <2>4 DEF ForkFails, JoinsApart
<1>6. CASE CreateThread(s)
  <2>1. /\ pc' = [pc EXCEPT ![s] = "Ready", ![arg[s].t] = "Base"]
        /\ arg' = [arg EXCEPT ![s] = NoArg] /\ pc[s] = "Create"
        /\ arg[s].t \in Thread \ {Main} /\ pc[arg[s].t] = "New"
    BY <1>6 DEF CreateThread, ForksApart
  <2>2. \A r \in Thread : pc[r] \in Inside => arg'[r] = arg[r] /\ pc'[r] = pc[r]
    BY <2>1
  <2>3. \A r \in Thread : pc'[r] \in Inside <=> pc[r] \in Inside
    BY <2>1
  <2>4. \A t \in Thread : Joiners(t)' = Joiners(t)
    BY <2>2, <2>3 DEF Joiners
  <2> QED  BY <1>6, <2>1, <2>2, <2>3, <2>4 DEF CreateThread, JoinsApart
<1>7. CASE ThreadBase(s) \/ Finish(s)
  BY <1>7, JoinsFrom DEF ThreadBase, Finish
<1>8. CASE ReadSelf(s)
  BY <1>8, JoinsFrom DEF ReadSelf, JoinsApart, Joiners
<1>9. CASE Self(s) \/ Drop(s) \/ CleanThread(s)
  BY <1>9 DEF Self, Drop, CleanThread, JoinsApart, Joiners
<1>10. CASE NotifyJoiner(s)
  <2>1. /\ pc[s] = "Notify" /\ pc' = [pc EXCEPT ![s] = "Tell"]
        /\ "LateAlert" \notin Adversity => \A r \in Joiners(s) :
             pc[r] # "Alerted" /\ ~(pc[r] = "AlertJoining" /\ r \in alerted)
        /\ UNCHANGED <<arg, waiting, ended, joined, result, got, held, alerted>> /\ s # Main
    BY <1>10 DEF NotifyJoiner, ForksApart
  <2>2. \A t \in Thread : Joiners(t)' = Joiners(t)
    BY <2>1 DEF Joiners
  <2>3. \A r \in Thread : r # s => pc'[r] = pc[r]
    BY <2>1
  <2>4. "LateAlert" \notin Adversity =>
          \A r \in Thread :
            pc[r] = "Alerted" \/ (pc[r] = "AlertJoining" /\ r \in alerted) => arg[r].t # s
    BY <2>1 DEF Joiners
  <2> QED  BY <2>1, <2>2, <2>3, <2>4 DEF JoinsApart
<1>11. CASE FreeSlot(s) \/ LeaveRing(s)
  <2>1. /\ pc[s] \in {"Free", "Leave"} /\ arg' = arg
        /\ pc' = pc \/ pc' = [pc EXCEPT ![s] = "Leave"] \/ pc' = [pc EXCEPT ![s] = "Dead"]
        /\ UNCHANGED <<ended, joined, result, waiting, got, held, alerted>> /\ s # Main
    BY <1>11 DEF FreeSlot, LeaveRing, ForksApart
  <2>2. \A t \in Thread : Joiners(t)' = Joiners(t)
    BY <2>1 DEF Joiners
  <2> QED  BY <2>1, <2>2 DEF JoinsApart
<1>12. CASE ChooseAlert(s)
  <2> DEFINE t == arg[s].t
  <2>1. /\ pc[s] = "AlertJoining" /\ s \in alerted /\ alerted' = alerted \ {s}
        /\ t \in Thread
        /\ UNCHANGED <<arg, ended, joined, result, got, held>>
    BY <1>12, AlertCases DEF JoinsApart
  <2>2. CASE UNCHANGED <<waiting, pc>>
    <3>1. \A r \in Thread : Joiners(r)' = Joiners(r)
      BY <2>1, <2>2 DEF Joiners
    <3> QED  BY <2>1, <2>2, <3>1 DEF JoinsApart
  <2>3. CASE waiting' = [waiting EXCEPT ![t] = @ \ {s}] /\ pc' = [pc EXCEPT ![s] = "Alerted"]
    <3>1. \A r \in Thread : Joiners(r)' = Joiners(r)
      BY <2>1, <2>3 DEF Joiners
    <3>2. \A r \in Thread : waiting'[r] # {} => waiting[r] # {}
      BY <2>1, <2>3
    <3>3. \A r \in Thread : (pc'[r] \in Inside <=> pc[r] \in Inside) /\ (r # s => pc'[r] = pc[r])
      BY <2>1, <2>3
    <3>4. "LateAlert" \notin Adversity => t \notin ended /\ pc'[t] # "Tell"
      BY <2>1, <2>3 DEF JoinsApart
    <3>5. \A r \in Thread \ {s} : r \in waiting[arg[r].t] /\ arg[r].t \in Thread
                                   => r \in waiting'[arg[r].t]
      BY <2>1, <2>3
    <3> QED  BY <2>1, <2>3, <3>1, <3>2, <3>3, <3>4, <3>5 DEF JoinsApart
  <2> QED  BY <1>12, <2>2, <2>3, AlertCases
<1>13. CASE JoinRaises(s)
  <2> DEFINE t == arg[s].t
  <2>1. /\ pc[s] = "Alerted" /\ pc' = [pc EXCEPT ![s] = "Ready"] /\ arg' = [arg EXCEPT ![s] = NoArg]
        /\ joined' = IF t \in ended THEN joined ELSE joined \ {t}
        /\ t \in Thread
        /\ UNCHANGED <<ended, result, waiting, got, held, alerted>>
    BY <1>13 DEF JoinRaises, JoinsApart
  <2>2. \A r \in Thread : r # s => pc'[r] = pc[r] /\ arg'[r] = arg[r]
    BY <2>1
  <2>3. \A r \in Thread \ {t} : Joiners(r)' = Joiners(r)
    BY <2>1, <2>2 DEF Joiners
  <2> QED  BY <2>1, <2>2, <2>3 DEF JoinsApart
<1>14. CASE TellJoiner(s)
  <2>1. /\ pc[s] = "Tell" /\ pc' = [pc EXCEPT ![s] = "Free"] /\ s # Main
        /\ waiting' = [waiting EXCEPT ![s] = {}] /\ ended' = ended \union {s}
        /\ UNCHANGED <<arg, joined, result, got, held, alerted>>
    BY <1>14 DEF TellJoiner, ForksApart
  <2>2. \A t \in Thread : Joiners(t)' = Joiners(t)
    BY <2>1 DEF Joiners
  <2>3. \A r \in Thread : r # s => pc'[r] = pc[r]
    BY <2>1
  <2>4. /\ waiting'[s] = {}
        /\ \A r \in Thread : r # s => waiting'[r] = waiting[r]
    BY <2>1
  <2> QED  BY <2>1, <2>2, <2>3, <2>4 DEF JoinsApart
<1>15. CASE JoinWake(s)
  <2>1. /\ pc[s] \in {"Joining", "AlertJoining"}
        /\ \E place \in {"Woken", "AlertWoken"} : pc' = [pc EXCEPT ![s] = place]
        /\ UNCHANGED <<arg, ended, joined, result, waiting, got, held, alerted>>
    BY <1>15 DEF JoinWake
  <2>2. \A t \in Thread : Joiners(t)' = Joiners(t)
    BY <2>1 DEF Joiners
  <2> QED  BY <2>1, <2>2 DEF JoinsApart
<1>16. ASSUME NEW t \in Thread, Alert(s, t)
       PROVE  JoinsApart'
  <2>1. /\ alerted' = alerted \union {t}
        /\ "LateAlert" \notin Adversity /\ pc[t] = "AlertJoining" =>
             t \in waiting[arg[t].t] /\ pc[arg[t].t] # "Tell"
        /\ UNCHANGED <<pc, arg, ended, joined, result, waiting, got, held>>
    BY <1>16 DEF Alert, AlertIsLate
  <2>2. \A r \in Thread : Joiners(r)' = Joiners(r)
    BY <2>1 DEF Joiners
  <2> QED  BY <2>1, <2>2 DEF JoinsApart
<1> QED  BY <1>1, <1>2, <1>3, <1>4, <1>5, <1>6, <1>7, <1>8, <1>9, <1>10, <1>11, <1>12, <1>13,
            <1>14, <1>15, <1>16
         DEF Step, Call, Continue

LEMMA InitIInv ==
  ASSUME Init
  PROVE  IInv
<1> USE Kinds DEF Init
<1>1. IsTable(slots) /\ DOMAIN slots = {} /\ Size(slots) = 0
  BY NoTable, FS_EmptySet DEF Size
<1>2. TypeOK
  <2>1. slots \in [DOMAIN slots -> Thread \union {NIL}] /\ DOMAIN slots = 0 .. Size(slots) - 1
    BY <1>1 DEF IsTable
  <2> QED  BY <1>1, <2>1 DEF TypeOK
<1>3. ForksApart
  BY DEF ForksApart
<1>4. TableExact
  <2>1. Slotted = {}
    BY DEF Slotted
  <2>2. Cardinality({}) = 0
    BY FS_EmptySet
  <2> QED  BY <1>1, <2>1, <2>2 DEF TableExact
<1>5. LivesApart /\ JoinsApart
  BY DEF LivesApart, JoinsApart, Joiners
<1> QED  BY <1>2, <1>3, <1>4, <1>5 DEF IInv

LEMMA NextIInv ==
  ASSUME IInv, [Next]_vars
  PROVE  IInv'
<1>1. CASE UNCHANGED vars
  <2>1. TypeOK'
    BY <1>1 DEF vars, IInv, TypeOK, Size
  <2>2. ForksApart' /\ LivesApart'
    BY <1>1 DEF vars, IInv, ForksApart, LivesApart
  <2>3. TableExact'
    BY <1>1 DEF vars, IInv, TableExact, IsTable, Size, Slotted
  <2>4. JoinsApart'
    BY <1>1 DEF vars, joins, IInv, JoinsApart, Joiners
  <2> QED  BY <2>1, <2>2, <2>3, <2>4 DEF IInv
<1>2. ASSUME NEW s \in Thread, Step(s)
      PROVE  IInv'
  BY <1>2, TypeKept, ForksKept, TableKept, LivesKept, JoinsKept DEF IInv
<1> QED  BY <1>1, <1>2 DEF Next

\* The invariant of Fork, Join and the slot table: every step of any number of
\* threads keeps it, whatever failures and coincidences happen.
THEOREM Invariance == Spec => []IInv
<1> QED  BY InitIInv, NextIInv, PTL DEF Spec

-----------------------------------------------------------------------------
(* What follows from it.                                                   *)

\* The variables always hold what the declarations of ThreadPThread.m3 let them
\* hold.
THEOREM TypeCorrect == Spec => []TypeOK
<1>1. IInv => TypeOK
  BY DEF IInv
<1> QED  BY <1>1, Invariance, PTL

\* For any number of threads and any size of the first table, the slot table
\* (AssignSlot, FreeSlot) holds each registered thread once, at its act.slot,
\* and nobody else, and n_slotted counts them, also when a larger table is
\* installed by another thread, or when there is no memory for one.
THEOREM SlotTableExact == Spec => []SlotsExact
<1>1. ASSUME IInv  PROVE SlotsExact
  <2>1. ASSUME NEW i \in DOMAIN slots, slots[i] # NIL
        PROVE  i \in {slot[t] : t \in Slotted}
    BY <1>1, <2>1 DEF IInv, TableExact
  <2>2. ASSUME NEW t \in Slotted
        PROVE  slot[t] \in {i \in DOMAIN slots : slots[i] # NIL}
    BY <1>1, <2>2, SlottedThreads, Kinds DEF IInv, TableExact
  <2>3. {i \in DOMAIN slots : slots[i] # NIL} = {slot[t] : t \in Slotted}
    BY <2>1, <2>2
  <2> QED  BY <1>1, <2>3 DEF IInv, TableExact, SlotsExact
<1> QED  BY <1>1, Invariance, PTL

\* The search of AssignSlot ends, no Die of Self, FreeSlot or XJoin is reached,
\* XWait in a join follows no NIL and no activation is disposed twice, when a
\* larger table can be had and the end of a thread never meets an alert of its
\* joiner.
THEOREM NobodyEverDies ==
  ASSUME {"NoMemory", "LateAlert"} \intersect Adversity = {}
  PROVE  Spec => []NobodyDies
<1>1. Init => NobodyDies
  BY DEF Init, NobodyDies
<1>2. ASSUME IInv, NobodyDies, NEW s \in Thread, Step(s)
      PROVE  NobodyDies'
  <2> USE <1>2 DEF NobodyDies
  <2>0. ASSUME pc[s] \in {"ReadSelf", "Ready", "Free"}  PROVE slots[slot[s]] = s
    BY <2>0 DEF IInv, TableExact, ForksApart, Slotted
  <2>1. CASE AssignSlot(s) \/ NewTable(s) \/ Grow(s)
    BY <2>1, AssigningEnds DEF Assigns
  <2>2. CASE ReadSelf(s) \/ Self(s) \/ FreeSlot(s)
    BY <2>0, <2>2 DEF ReadSelf, Self, FreeSlot
  <2>3. ASSUME NEW t \in Thread, NEW alertable \in BOOLEAN, XJoin(s, t, alertable)
        PROVE  fault' = "none"
    BY <2>3, JoinCases DEF IInv, JoinsApart
  <2>4. CASE CleanThread(s)
    BY <2>4 DEF CleanThread, IInv, LivesApart
  <2>5. CASE JoinResumes(s) \/ ChooseAlert(s)
    BY <2>5, WakeCases, AlertCases DEF IInv, JoinsApart
  <2>6. CASE Fork(s) \/ CreateThread(s) \/ ThreadBase(s) \/ ForkFails(s) \/ Drop(s)
             \/ (\E t \in Thread : Alert(s, t))
    BY <2>6 DEF Fork, CreateThread, ThreadBase, ForkFails, Drop, Alert
  <2>7. CASE Finish(s) \/ NotifyJoiner(s) \/ TellJoiner(s) \/ LeaveRing(s) \/ JoinWake(s)
             \/ JoinRaises(s)
    BY <2>7 DEF Finish, NotifyJoiner, TellJoiner, LeaveRing, JoinWake, JoinRaises
  <2> QED  BY <2>1, <2>2, <2>3, <2>4, <2>5, <2>6, <2>7 DEF Step, Call, Continue
<1>3. IInv /\ NobodyDies /\ [Next]_vars => NobodyDies'
  BY <1>2 DEF Next, vars, NobodyDies
<1> QED  BY <1>1, <1>3, Invariance, PTL DEF Spec

\* CleanThread disposes no activation that its thread, the ring of active
\* threads or a client still uses, when the collector does not find the T
\* unreachable before its thread has left the ring.
THEOREM ActivationsLive ==
  ASSUME "EarlyCleanup" \notin Adversity
  PROVE  Spec => []ActivationLives
<1>1. IInv => ActivationLives
  BY DEF IInv, LivesApart, ActivationLives
<1> QED  BY <1>1, Invariance, PTL

-----------------------------------------------------------------------------
(* Fork, Join and AlertJoin implement the interface.                       *)

\* What JoinSpec sees of a state.
LifeNow == [t \in Thread |-> Life(t)]
JoinedNow == {t \in joined : Joiners(t) = {}}
DeliveredNow == {t \in Thread : got[t] = "result"}

Unmade == {"Unborn", "New", "Dead"}
Born(t) == pc[t] \notin Unmade \/ t \in ended

\* A step that JoinSpec does not see.
Hidden == UNCHANGED <<LifeNow, JoinedNow, DeliveredNow, alerted>>

LEMMA LifeCases ==
  ASSUME NEW t \in Thread
  PROVE  Life(t) = IF ~Born(t) THEN "unborn"
                   ELSE IF t \in ended \ {Main} THEN "done" ELSE "running"
BY DEF Life, Born, Unmade

\* The threads are as alive as before, and their joiners are the same.
LEMMA HiddenFrom ==
  ASSUME \A t \in Thread : Born(t)' <=> Born(t),
         \A t \in joined \union joined' : Joiners(t)' = Joiners(t) /\ t \in Thread,
         UNCHANGED <<ended, joined, got, alerted>>
  PROVE  Hidden
<1>1. \A t \in Thread : Life(t)' = Life(t)
  BY DEF Life, Born, Unmade
<1> QED  BY <1>1 DEF Hidden, LifeNow, JoinedNow, DeliveredNow

LEMMA PromiseStep ==
  ASSUME IInv, NEW s \in Thread, Step(s),
         {"LateAlert", "JoinMain"} \intersect Adversity = {}
  PROVE  Promise!Next \/ Hidden
<1>0. /\ pc \in [Thread -> Place] /\ arg \in Args
      /\ joined \subseteq Thread /\ got \in [Thread -> {"none", "result", "NIL"}]
  BY DEF IInv, TypeOK, Args
<1> USE <1>0, Kinds
<1>1. CASE AssignSlot(s) \/ NewTable(s) \/ Grow(s)
  <2>1. Assigns(s) /\ pc[s] \in {"Assign", "NewTable", "Grow"}
    BY <1>1, AssigningEnds DEF Assigns
  <2>2. \E place \in {"Assign", "NewTable", "Grow", "Create", "Ready"} : pc' = [pc EXCEPT ![s] = place]
    BY <2>1, AssignsKeeps
  <2>3. \A r \in Thread \ {s} : arg'[r] = arg[r]
    BY <2>1, AssignsKeeps
  <2>4. \A t \in Thread : Joiners(t)' = Joiners(t)
    BY <2>1, <2>2, <2>3 DEF Joiners
  <2>5. \A t \in Thread : Born(t)' <=> Born(t)
    BY <2>1, <2>2 DEF Assigns, Born, Unmade
  <2> QED  BY <2>1, <2>4, <2>5, HiddenFrom DEF Assigns
<1>2. CASE Fork(s)
  <2>1. PICK u \in Thread :
          /\ pc[s] = "Ready" /\ pc[u] = "Unborn" /\ u # Main
          /\ pc' = [pc EXCEPT ![s] = "Assign", ![u] = "New"]
          /\ arg' = [arg EXCEPT ![s].t = u]
    BY <1>2, ForkMakes
  <2>2. \A r \in Thread \ {s} : arg'[r] = arg[r]
    BY <2>1, ArgSet
  <2>3. \A t \in Thread : Joiners(t)' = Joiners(t)
    BY <2>1, <2>2 DEF Joiners
  <2>4. \A t \in Thread : Born(t)' <=> Born(t)
    BY <1>2, <2>1 DEF Fork, Born, Unmade
  <2> QED  BY <1>2, <2>3, <2>4, HiddenFrom DEF Fork
<1>3. CASE ForkFails(s)
  <2>1. /\ pc' = [pc EXCEPT ![s] = "Ready", ![arg[s].t] = "Dead"]
        /\ arg' = [arg EXCEPT ![s] = NoArg] /\ pc[s] = "Grow"
        /\ arg[s].t \in Thread \ {Main} /\ pc[arg[s].t] = "New"
    BY <1>3 DEF ForkFails, IInv, ForksApart
  <2>2. \A t \in Thread : Joiners(t)' = Joiners(t)
    BY <2>1 DEF Joiners
  <2>3. \A t \in Thread : Born(t)' <=> Born(t)
    BY <1>3, <2>1 DEF ForkFails, Born, Unmade
  <2> QED  BY <1>3, <2>2, <2>3, HiddenFrom DEF ForkFails
<1>4. CASE CreateThread(s)
  <2>0. PICK u \in Thread : u = arg[s].t
    BY <1>4 DEF CreateThread, IInv, ForksApart
  <2>1. /\ pc' = [pc EXCEPT ![s] = "Ready", ![u] = "Base"]
        /\ arg' = [arg EXCEPT ![s] = NoArg] /\ pc[s] = "Create"
        /\ u \in Thread \ {Main} /\ pc[u] = "New" /\ u \notin ended
        /\ UNCHANGED <<ended, joined, got, alerted>>
    BY <1>4, <2>0 DEF CreateThread, IInv, ForksApart, JoinsApart
  <2>2. \A t \in Thread : Joiners(t)' = Joiners(t)
    BY <2>1 DEF Joiners
  <2>3. UNCHANGED <<JoinedNow, DeliveredNow>>
    BY <2>1, <2>2 DEF JoinedNow, DeliveredNow
  <2>4. /\ Life(u) = "unborn" /\ Life(u)' = "running"
        /\ \A t \in Thread \ {u} : Life(t)' = Life(t)
    BY <2>1 DEF Life
  <2>5. LifeNow' = [LifeNow EXCEPT ![u] = "running"]
    BY <2>1, <2>4 DEF LifeNow
  <2>6. LifeNow[u] = "unborn"
    BY <2>1, <2>4 DEF LifeNow
  <2>7. Promise!Fork(u)
    BY <2>1, <2>3, <2>5, <2>6 DEF Promise!Fork, LifeNow, JoinedNow, DeliveredNow
  <2> QED  BY <2>1, <2>7 DEF Promise!Next
<1>5. CASE ThreadBase(s) \/ ReadSelf(s) \/ Finish(s)
  <2>1. /\ pc[s] \in {"Base", "ReadSelf", "Ready"}
        /\ pc' = pc \/ \E place \in {"ReadSelf", "Ready", "Notify"} : pc' = [pc EXCEPT ![s] = place]
        /\ UNCHANGED <<ended, joined, got, alerted, arg>>
    BY <1>5 DEF ThreadBase, ReadSelf, Finish
  <2>2. \A t \in Thread : Joiners(t)' = Joiners(t)
    BY <2>1 DEF Joiners
  <2>3. \A t \in Thread : Born(t)' <=> Born(t)
    BY <2>1 DEF Born, Unmade
  <2> QED  BY <2>1, <2>2, <2>3, HiddenFrom
<1>6. CASE FreeSlot(s) \/ LeaveRing(s)
  <2>1. /\ pc[s] \in {"Free", "Leave"} /\ s \in ended
        /\ pc' = pc \/ \E place \in {"Leave", "Dead"} : pc' = [pc EXCEPT ![s] = place]
        /\ UNCHANGED <<ended, joined, got, alerted, arg>>
    BY <1>6 DEF FreeSlot, LeaveRing, IInv, ForksApart, JoinsApart
  <2>2. \A t \in Thread : Joiners(t)' = Joiners(t)
    BY <2>1 DEF Joiners
  <2>3. \A t \in Thread : Born(t)' <=> Born(t)
    BY <2>1 DEF Born, Unmade
  <2> QED  BY <2>1, <2>2, <2>3, HiddenFrom
<1>7. CASE Self(s) \/ Drop(s) \/ CleanThread(s)
  <2>1. UNCHANGED <<pc, arg, ended, joined, got, alerted>>
    BY <1>7 DEF Self, Drop, CleanThread
  <2>2. \A t \in Thread : Joiners(t)' = Joiners(t)
    BY <2>1 DEF Joiners
  <2>3. \A t \in Thread : Born(t)' <=> Born(t)
    BY <2>1 DEF Born, Unmade
  <2> QED  BY <2>1, <2>2, <2>3, HiddenFrom
<1>8. CASE TellJoiner(s)
  <2>1. /\ pc[s] = "Tell" /\ pc' = [pc EXCEPT ![s] = "Free"] /\ s # Main /\ s \notin ended
        /\ ended' = ended \union {s} /\ UNCHANGED <<joined, got, alerted, arg>>
    BY <1>8 DEF TellJoiner, IInv, ForksApart, JoinsApart
  <2>2. \A t \in Thread : Joiners(t)' = Joiners(t)
    BY <2>1 DEF Joiners
  <2>3. UNCHANGED <<JoinedNow, DeliveredNow>>
    BY <2>1, <2>2 DEF JoinedNow, DeliveredNow
  <2>4. /\ Life(s) = "running" /\ Life(s)' = "done"
        /\ \A t \in Thread \ {s} : Life(t)' = Life(t)
    BY <2>1 DEF Life
  <2>5. LifeNow' = [LifeNow EXCEPT ![s] = "done"] /\ LifeNow[s] = "running"
    BY <2>1, <2>4 DEF LifeNow
  <2>6. Promise!Finish(s)
    BY <2>1, <2>3, <2>5 DEF Promise!Finish, LifeNow, JoinedNow, DeliveredNow
  <2> QED  BY <2>6 DEF Promise!Next
<1>9. ASSUME NEW t \in Thread, t \notin JoinedNow, t \in ended \ {Main}, t \in result,
             JoinedNow' = JoinedNow \union {t},
             got' = [got EXCEPT ![t] = IF t \in result THEN "result" ELSE "NIL"],
             pc[s] \in {"Ready", "Woken", "AlertWoken"}, pc' = [pc EXCEPT ![s] = "Ready"],
             UNCHANGED <<ended, alerted>>
      PROVE  Promise!Next
  <2>1. LifeNow[t] = "done"
    BY <1>9 DEF LifeNow, Life, IInv, JoinsApart
  <2>2. \A r \in Thread : Life(r)' = Life(r)
    BY <1>9 DEF Life
  <2>3. UNCHANGED LifeNow
    BY <2>2 DEF LifeNow
  <2>4. DeliveredNow' = DeliveredNow \union {t}
    BY <1>9 DEF DeliveredNow
  <2>5. Promise!Join(t)
    BY <1>9, <2>1, <2>3, <2>4 DEF Promise!Join, LifeNow, JoinedNow, DeliveredNow
  <2> QED  BY <2>5 DEF Promise!Next
<1>10. ASSUME NEW t \in Thread, NEW alertable \in BOOLEAN, XJoin(s, t, alertable)
       PROVE  Promise!Next \/ Hidden
  <2>1. /\ pc[s] = "Ready" /\ t \in held /\ got[t] = "none" /\ Joiners(t) = {} /\ t # Main
        /\ UNCHANGED <<ended, result, held, alerted>>
    BY <1>10, JoinCases
  <2>2. CASE UNCHANGED <<joined, got, waiting, pc, arg>>
    <3>1. \A r \in Thread : Joiners(r)' = Joiners(r) /\ (Born(r)' <=> Born(r))
      BY <2>1, <2>2 DEF Joiners, Born
    <3> QED  BY <2>1, <2>2, <3>1, HiddenFrom
  <2>3. CASE /\ t \notin joined /\ t \in ended /\ joined' = joined \union {t}
             /\ got' = [got EXCEPT ![t] = IF t \in result THEN "result" ELSE "NIL"]
             /\ Return(s) /\ UNCHANGED <<waiting, fault>>
    <3>1. \A r \in Thread : Joiners(r)' = Joiners(r)
      BY <2>1, <2>3 DEF Joiners
    <3>2. JoinedNow' = JoinedNow \union {t} /\ t \notin JoinedNow
      BY <2>1, <2>3, <3>1 DEF JoinedNow
    <3>3. t \in result
      BY <2>1, <2>3 DEF IInv, JoinsApart
    <3> QED  BY <1>9, <2>1, <2>3, <3>2, <3>3
  <2>4. CASE /\ t \notin joined /\ t \notin ended /\ joined' = joined \union {t}
             /\ \E place \in {"Joining", "AlertJoining"} : Goto(s, place)
             /\ waiting' = [waiting EXCEPT ![t] = @ \union {s}]
             /\ arg' = [arg EXCEPT ![s].t = t]
             /\ UNCHANGED <<got, fault>>
    <3>1. arg'[s].t = t /\ \A r \in Thread \ {s} : arg'[r] = arg[r] /\ pc'[r] = pc[r]
      BY <2>4, ArgSet
    <3>2. pc'[s] \in {"Joining", "AlertJoining"}
      BY <2>4
    <3>3. s \in Joiners(t)' /\ \A r \in Thread \ {t} : Joiners(r)' = Joiners(r)
      BY <2>1, <3>1, <3>2 DEF Joiners
    <3>4. JoinedNow' = JoinedNow
      BY <2>4, <3>3 DEF JoinedNow
    <3>5. \A r \in Thread : Life(r)' = Life(r)
      BY <2>1, <3>1, <3>2 DEF Life
    <3> QED  BY <2>1, <2>4, <3>4, <3>5 DEF Hidden, LifeNow, DeliveredNow
  <2> QED  BY <1>10, <2>2, <2>3, <2>4, JoinCases
<1>11. CASE JoinResumes(s)
  <2>0. PICK t \in Thread : t = arg[s].t
    BY <1>11, WakeCases DEF IInv, JoinsApart
  <2>1. /\ t \in Thread /\ t \in joined /\ t # Main /\ pc[s] \in {"Woken", "AlertWoken"}
        /\ UNCHANGED <<ended, joined, result, alerted>> /\ s \in Joiners(t)
    BY <1>11, <2>0, WakeCases DEF IInv, JoinsApart, Joiners
  <2>2. CASE /\ t \in ended
             /\ got' = [got EXCEPT ![t] = IF t \in result THEN "result" ELSE "NIL"]
             /\ Return(s) /\ UNCHANGED waiting
    <3>1. \A r \in Thread : r # s => pc'[r] = pc[r] /\ arg'[r] = arg[r]
      BY <2>2
    <3>2. pc'[s] = "Ready"
      BY <2>2
    <3>3. Joiners(t)' = {} /\ \A r \in Thread \ {t} : Joiners(r)' = Joiners(r)
      BY <2>0, <2>1, <3>1, <3>2 DEF Joiners, IInv, JoinsApart
    <3>4. JoinedNow' = JoinedNow \union {t} /\ t \notin JoinedNow
      BY <2>1, <3>3 DEF JoinedNow
    <3>5. t \in result
      BY <2>1, <2>2 DEF IInv, JoinsApart
    <3> QED  BY <1>9, <2>1, <2>2, <3>4, <3>5
  <2>3. CASE /\ t \notin ended
             /\ waiting' = [waiting EXCEPT ![t] = @ \union {s}]
             /\ \E place \in {"Joining", "AlertJoining"} : Goto(s, place)
             /\ arg' = [arg EXCEPT ![s].t = t]
             /\ UNCHANGED got
    <3>1. /\ \E place \in {"Joining", "AlertJoining"} : pc' = [pc EXCEPT ![s] = place]
          /\ \A r \in Thread : arg'[r].t = arg[r].t
      <4>1. \A r \in Thread : arg'[r].t = arg[r].t
        BY <2>0, <2>1, <2>3, ArgSet
      <4> QED  BY <2>3, <4>1
    <3>2. \A r \in Thread : Joiners(r)' = Joiners(r) /\ (Born(r)' <=> Born(r))
      BY <2>1, <3>1 DEF Joiners, Born, Unmade
    <3> QED  BY <2>1, <2>3, <3>2, HiddenFrom
  <2> QED  BY <1>11, <2>0, <2>2, <2>3, WakeCases
<1>12. CASE ChooseAlert(s)
  <2>1. /\ pc[s] = "AlertJoining"
        /\ pc' = pc \/ pc' = [pc EXCEPT ![s] = "Alerted"]
        /\ s \in alerted /\ alerted' = alerted \ {s} /\ UNCHANGED <<ended, joined, got, arg>>
    BY <1>12, AlertCases
  <2>2. \A r \in Thread : Joiners(r)' = Joiners(r) /\ Life(r)' = Life(r)
    BY <2>1 DEF Joiners, Life
  <2>3. UNCHANGED <<LifeNow, JoinedNow, DeliveredNow>>
    BY <2>1, <2>2 DEF LifeNow, JoinedNow, DeliveredNow
  <2>4. Promise!AlertJoinRaises(s)
    BY <2>1, <2>3 DEF Promise!AlertJoinRaises, LifeNow, JoinedNow, DeliveredNow
  <2> QED  BY <2>4 DEF Promise!Next
<1>13. CASE JoinRaises(s)
  <2>0. PICK t \in Thread : t = arg[s].t
    BY <1>13 DEF JoinRaises, IInv, JoinsApart
  <2>1. /\ pc[s] = "Alerted" /\ pc' = [pc EXCEPT ![s] = "Ready"] /\ t \notin ended /\ t \in Thread
        /\ joined' = joined \ {t} /\ arg' = [arg EXCEPT ![s] = NoArg]
        /\ UNCHANGED <<ended, got, alerted>> /\ s \in Joiners(t)
    BY <1>13, <2>0 DEF JoinRaises, IInv, JoinsApart, Joiners
  <2>2. \A r \in Thread : r # s => pc'[r] = pc[r] /\ arg'[r] = arg[r]
    BY <2>1
  <2>3. \A r \in Thread \ {t} : Joiners(r)' = Joiners(r)
    BY <2>1, <2>2 DEF Joiners
  <2>4. JoinedNow' = JoinedNow
    BY <2>1, <2>3 DEF JoinedNow
  <2>5. \A r \in Thread : Life(r)' = Life(r)
    BY <2>1 DEF Life
  <2> QED  BY <2>1, <2>4, <2>5 DEF Hidden, LifeNow, DeliveredNow
<1>14. ASSUME NEW t \in Thread, Alert(s, t)
       PROVE  Promise!Next
  <2>1. t \in held /\ alerted' = alerted \union {t} /\ UNCHANGED <<pc, arg, ended, joined, got>>
    BY <1>14 DEF Alert
  <2>2. \A r \in Thread : Joiners(r)' = Joiners(r) /\ Life(r)' = Life(r)
    BY <2>1 DEF Joiners, Life
  <2>3. UNCHANGED <<LifeNow, JoinedNow, DeliveredNow>>
    BY <2>1, <2>2 DEF LifeNow, JoinedNow, DeliveredNow
  <2>4. Born(t)
    BY <2>1 DEF Born, Unmade, IInv, LivesApart, JoinsApart, ForksApart
  <2>5. LifeNow[t] # "unborn"
    BY <2>4, LifeCases DEF LifeNow
  <2>6. Promise!Alert(t)
    BY <2>1, <2>3, <2>5 DEF Promise!Alert, LifeNow, JoinedNow, DeliveredNow
  <2> QED  BY <2>6 DEF Promise!Next
<1>15. CASE NotifyJoiner(s) \/ JoinWake(s)
  <2>1. /\ \/ pc[s] = "Notify" /\ pc' = [pc EXCEPT ![s] = "Tell"]
           \/ /\ pc[s] \in {"Joining", "AlertJoining"}
              /\ \E place \in {"Woken", "AlertWoken"} : pc' = [pc EXCEPT ![s] = place]
        /\ UNCHANGED <<ended, joined, got, alerted, arg>>
    BY <1>15 DEF NotifyJoiner, JoinWake
  <2>2. \A t \in Thread : Joiners(t)' = Joiners(t)
    BY <2>1 DEF Joiners
  <2>3. \A t \in Thread : Born(t)' <=> Born(t)
    BY <2>1 DEF Born, Unmade
  <2> QED  BY <2>1, <2>2, <2>3, HiddenFrom
<1> QED  BY <1>1, <1>2, <1>3, <1>4, <1>5, <1>6, <1>7, <1>8, <1>10, <1>11, <1>12, <1>13, <1>14,
            <1>15
         DEF Step, Call, Continue

\* Fork, Join and AlertJoin implement the Thread interface: a Join returns once,
\* after the end of its thread and with its result, and an AlertJoin that raises
\* leaves the thread to be joined.  It holds for any number of threads when the
\* end of a thread never meets an alert of its joiner and nobody joins the
\* initial thread; the first of these is what the run with LateAlert shows to
\* be needed.
THEOREM JoinImplementsInterface ==
  ASSUME {"LateAlert", "JoinMain"} \intersect Adversity = {}
  PROVE  Spec => ImplementsJoin
<1>1. Init => Promise!Init
  <2> SUFFICES ASSUME Init  PROVE Promise!Init
    OBVIOUS
  <2>1. LifeNow = [t \in Thread |-> IF t = Main THEN "running" ELSE "unborn"]
    BY DEF Init, LifeNow, Life
  <2>2. JoinedNow = {} /\ DeliveredNow = {} /\ alerted = {}
    BY DEF Init, JoinedNow, DeliveredNow
  <2> QED  BY <2>1, <2>2 DEF Promise!Init, LifeNow, JoinedNow, DeliveredNow
<1>2. IInv /\ [Next]_vars => [Promise!Next]_(Promise!vars)
  <2> SUFFICES ASSUME IInv, [Next]_vars  PROVE [Promise!Next]_(Promise!vars)
    OBVIOUS
  <2>1. Hidden => UNCHANGED Promise!vars
    BY DEF Hidden, Promise!vars, LifeNow, JoinedNow, DeliveredNow
  <2>2. CASE UNCHANGED vars
    <3>1. \A t \in Thread : Life(t)' = Life(t) /\ Joiners(t)' = Joiners(t)
      BY <2>2 DEF vars, Life, Joiners
    <3>2. Hidden
      BY <2>2, <3>1 DEF vars, joins, Hidden, LifeNow, JoinedNow, DeliveredNow, IInv, TypeOK
    <3> QED  BY <2>1, <3>2
  <2>3. ASSUME NEW s \in Thread, Step(s)
        PROVE  Promise!Next \/ Hidden
    BY <2>3, PromiseStep
  <2> QED  BY <2>1, <2>2, <2>3 DEF Next
<1> QED  BY <1>1, <1>2, Invariance, PTL DEF Spec, ImplementsJoin, Promise!Spec

=============================================================================
