-------------------------- MODULE PThreadSyncFifo --------------------------
(***************************************************************************)
(* The rings of PThreadSync are served first in, first out: no step lets a *)
(* thread overtake another one on a ring, for any numbers of threads,      *)
(* mutexes and conditions.                                                 *)
(***************************************************************************)
EXTENDS PThreadSyncProofs

\* What a step keeps of the order of the ring of o (the body of NoOvertaking).
Kept(o) ==
  \A u \in Ring(o) : \A v \in Thread \ {u} :
    u \in Ring(o)' =>
      /\ v \notin Ring(o) /\ v \in Ring(o)' => Before(o, u, v)'
      /\ Before(o, u, v) => Before(o, u, v)' \/ (alerted[v] /\ ~alerted'[v])

\* Who may leave the ring of o: its head, and a thread whose alert is taken.
MayLeave(o, t) == t = Head(o) \/ (alerted[t] /\ ~alerted'[t])

-----------------------------------------------------------------------------
(* The order of a cycle.                                                   *)

\* A new tail t behind the old tail p comes after everybody else, and whoever
\* was met before v from the head still is.
LEMMA InsertOrder ==
  ASSUME NEW link \in Links, NEW link2 \in Links, NEW Q \in SUBSET Thread,
         NEW p \in Q, NEW t \in Thread, t \notin Q, NEW h, h = link[p],
         Cycle(link, Q), link2[p] = t,
         \A x \in Q \ {p} : link2[x] = link[x]
  PROVE  /\ h \in Q
         /\ Q \subseteq Walk(link2, h, t)
         /\ \A v \in Q : Walk(link, h, v) \subseteq Walk(link2, h, v)
<1>1. h \in Q /\ h \in Thread
  BY DEF Cycle
<1>2. \A x \in Q : link[x] \in Q /\ link[x] \notin {NIL, t}
  BY NilIsNothing DEF Cycle
<1>3. Q \subseteq Walk(link2, h, t)
  <2>1. PICK W : W = Walk(link2, h, t)
    OBVIOUS
  <2>2. /\ h \in W
        /\ \A x \in W : link2[x] \notin {NIL, t} => link2[x] \in W
    BY <1>1, <2>1, WalkClosed
  <2>3. \A x \in W \intersect Q : link[x] \in W \intersect Q
    BY <1>2, <2>2
  <2>4. W \intersect Q = Q
    BY <1>1, <2>2, <2>3 DEF Cycle
  <2> QED  BY <2>1, <2>4
<1>4. ASSUME NEW v \in Q  PROVE Walk(link, h, v) \subseteq Walk(link2, h, v)
  <2>1. PICK W, V : W = Walk(link2, h, v) /\ V = Walk(link, h, v)
    OBVIOUS
  <2>2. /\ h \in W /\ W \subseteq Thread
        /\ \A x \in W : link2[x] \notin {NIL, v} => link2[x] \in W
    BY <1>1, <2>1, WalkClosed
  <2>3. \A S \in SUBSET Thread :
          h \in S /\ (\A x \in S : link[x] \notin {NIL, v} => link[x] \in S)
          => V \subseteq S
    BY <1>1, <2>1, WalkClosed
  <2>4. \A x \in W \intersect Q : link[x] \notin {NIL, v} => link[x] \in W \intersect Q
    BY <1>1, <1>2, <2>2
  <2>5. V \subseteq W \intersect Q
    BY <1>1, <2>2, <2>3, <2>4
  <2> QED  BY <2>1, <2>5
<1> QED  BY <1>1, <1>3, <1>4

\* When t leaves, whoever else was met before v still is; the head is the old
\* one, or the one behind it when t was the head.
LEMMA RemoveOrder ==
  ASSUME NEW link \in Links, NEW link2 \in Links, NEW Q \in SUBSET Thread,
         NEW t \in Q, NEW prev \in Q, prev # t, Cycle(link, Q),
         link[prev] = t, link2[prev] = link[t],
         \A x \in Q \ {prev, t} : link2[x] = link[x],
         NEW h \in Q, NEW h2, h2 = IF h = t THEN link[t] ELSE h,
         NEW u \in Q \ {t}, NEW v \in Q \ {t}, u \in Walk(link, h, v)
  PROVE  v # h => v # h2 /\ u \in Walk(link2, h2, v)
<1> DEFINE R == Q \ {t}
<1>1. \A x \in Q : link[x] \in Q /\ link[x] # NIL /\ (x # prev => link[x] # t)
  BY NilIsNothing DEF Cycle
<1>2. \A x \in R : link2[x] \in R
  BY <1>1
<1>3. h2 \in R /\ h2 \in Thread
  BY <1>1
<1>4. PICK W, V : W = Walk(link2, h2, v) \intersect R /\ V = Walk(link, h, v)
  OBVIOUS
<1>5. /\ h2 \in W /\ W \subseteq R
      /\ \A x \in W : link2[x] # v => link2[x] \in W
  BY <1>2, <1>3, <1>4, <1>1, WalkClosed
<1>6. /\ h \in V
      /\ \A S \in SUBSET Thread :
           h \in S /\ (\A x \in S : link[x] \notin {NIL, v} => link[x] \in S)
           => V \subseteq S
  BY <1>4, WalkClosed
<1>7. CASE h = t
  <2>1. v # h2
    <3> SUFFICES ASSUME v = h2 PROVE FALSE
      OBVIOUS
    <3>1. link[h] = v /\ {h} \in SUBSET Thread
      BY <1>7
    <3>2. V \subseteq {h}
      BY <1>6, <3>1
    <3> QED  BY <3>2, <1>4, <1>7
  <2>2. \A x \in W \union {t} : link[x] \notin {NIL, v} => link[x] \in W \union {t}
    BY <1>5, <1>7
  <2>3. V \subseteq W \union {t}
    <3>1. W \union {t} \in SUBSET Thread /\ h \in W \union {t}
      BY <1>5, <1>7
    <3> QED  BY <3>1, <2>2, <1>6
  <2> QED  BY <2>1, <2>3, <1>4
<1>8. CASE h # t
  <2>1. PICK S : S = W \union {x \in {t} : prev \in W}
    OBVIOUS
  <2>2. \A x \in S : link[x] \notin {NIL, v} => link[x] \in S
    BY <1>5, <2>1
  <2>3. V \subseteq S
    <3>1. S \in SUBSET Thread /\ h \in S
      BY <1>5, <1>8, <2>1
    <3> QED  BY <3>1, <2>2, <1>6
  <2> QED  BY <1>4, <1>8, <2>1, <2>3
<1> QED  BY <1>7, <1>8

-----------------------------------------------------------------------------
(* What a step does to one ring.                                           *)

\* A ring that nobody joins or leaves.
LEMMA KeptSame ==
  ASSUME Sound, NEW o \in Object, nextWaiter' \in Links,
         waiters'[o] = waiters[o],
         \A x \in Queued(o) : nextWaiter'[x] = nextWaiter[x]
  PROVE  Kept(o)
<1>1. nextWaiter \in Links /\ Ring(o) = Queued(o) /\ RingOK(o)
  BY TypeLinks, RingIsQueue DEF Sound, Rings
<1>2. CASE waiters[o] = NIL
  BY <1>2 DEF Ring, Kept
<1>3. CASE waiters[o] # NIL
  <2>1. PICK p, Q : p = waiters[o] /\ Q = Queued(o)
    OBVIOUS
  <2>2. /\ p \in Q /\ Q \in SUBSET Thread /\ Cycle(nextWaiter, Q)
        /\ \A x \in Q : nextWaiter'[x] = nextWaiter[x]
    BY <1>1, <1>3, <2>1 DEF RingOK, Queued
  <2>3. Cycle(nextWaiter', Q)
    BY <2>2 DEF Cycle
  <2>4. Ring(o)' = Q /\ Ring(o) = Q
    BY <1>1, <1>3, <2>1, <2>2, <2>3, CycleWalk DEF Ring
  <2>5. PICK h : h = nextWaiter[p]
    OBVIOUS
  <2>6. Head(o) = h /\ Head(o)' = h /\ h \in Q
    BY <2>1, <2>2, <2>5 DEF Head, Cycle
  <2>7. ASSUME NEW u \in Q, NEW v \in Q, Before(o, u, v)
        PROVE  Before(o, u, v)'
    <3>1. v # h /\ u \in Walk(nextWaiter, h, v)
      BY <2>6, <2>7 DEF Before
    <3>2. Walk(nextWaiter, h, v) \subseteq Q
      BY <1>1, <2>2, <2>6, WalkClosed DEF Cycle
    <3>3. Walk(nextWaiter', h, v) = Walk(nextWaiter, h, v)
      BY <1>1, <2>2, <2>6, <3>2, WalkSame
    <3> QED  BY <2>4, <2>6, <3>1, <3>3 DEF Before
  <2> QED  BY <2>4, <2>7 DEF Kept, Before
<1> QED  BY <1>2, <1>3

\* A ring that is taken away as a whole.
LEMMA KeptEmptied ==
  ASSUME NEW o, waiters'[o] = NIL
  PROVE  Kept(o)
BY DEF Kept, Ring

\* A thread joins a ring at the tail (LockMutex and XWait).
LEMMA KeptJoined ==
  ASSUME Sound, NEW t \in Thread, NEW o \in Object, waitingOn[t] = NIL,
         Enqueue(o, t)
  PROVE  nextWaiter' \in Links /\ \A q \in Object : Kept(q)
<1>0. /\ nextWaiter \in Links /\ nextWaiter \in [Thread -> Thread \union {NIL}]
      /\ waiters \in [Object -> Thread \union {NIL}]
      /\ \A q \in Object : q # NIL
  BY TypeLinks, NilIsNothing DEF Sound, TypeOK
<1>1. \A q \in Object : t \notin Queued(q)
  BY <1>0 DEF Queued
<1>2. waiters' = [waiters EXCEPT ![o] = t]
  BY DEF Enqueue
<1>3. CASE waiters[o] = NIL
  <2>1. nextWaiter' = [nextWaiter EXCEPT ![t] = t]
    BY <1>3 DEF Enqueue
  <2>2. nextWaiter' \in Links
    BY <1>0, <2>1 DEF Links
  <2>3. Kept(o)
    BY <1>3 DEF Kept, Ring
  <2>4. ASSUME NEW q \in Object \ {o}  PROVE Kept(q)
    <3>1. \A x \in Queued(q) : nextWaiter'[x] = nextWaiter[x]
      BY <1>0, <1>1, <2>1 DEF Queued
    <3> QED  BY <1>0, <1>2, <2>2, <3>1, KeptSame
  <2> QED  BY <2>2, <2>3, <2>4
<1>4. CASE waiters[o] # NIL
  <2>1. PICK p, Q : p = waiters[o] /\ Q = Queued(o)
    OBVIOUS
  <2>2. /\ p \in Q /\ Q \in SUBSET Thread /\ Cycle(nextWaiter, Q) /\ Ring(o) = Q
    BY <1>4, <2>1, RingIsQueue DEF Sound, Rings, RingOK, Queued
  <2>3. PICK h : h = nextWaiter[p]
    OBVIOUS
  <2>4. h \in Q /\ Head(o) = h /\ t \notin Q
    BY <1>1, <2>1, <2>2, <2>3 DEF Cycle, Head
  <2>5. nextWaiter' = [nextWaiter EXCEPT ![t] = h, ![p] = t]
    BY <1>4, <2>1, <2>4 DEF Enqueue
  <2>6. /\ nextWaiter' \in Links
        /\ nextWaiter'[t] = h /\ nextWaiter'[p] = t
        /\ \A x \in Thread \ {t, p} : nextWaiter'[x] = nextWaiter[x]
    BY <1>0, <2>2, <2>4, <2>5 DEF Links
  <2>7. Cycle(nextWaiter', Q \union {t})
    BY <2>2, <2>3, <2>4, <2>6, CycleInsert
  <2>8. Ring(o)' = Q \union {t} /\ Head(o)' = h
    <3>1. waiters'[o] = t /\ t # NIL
      BY <1>0, <1>2, NilIsNothing
    <3>2. Walk(nextWaiter', t, t) = Q \union {t}
      BY <2>2, <2>6, <2>7, CycleWalk
    <3> QED  BY <2>6, <3>1, <3>2 DEF Ring, Head
  <2>9. /\ Q \subseteq Walk(nextWaiter', h, t)
        /\ \A v \in Q : Walk(nextWaiter, h, v) \subseteq Walk(nextWaiter', h, v)
    BY <1>0, <2>2, <2>3, <2>4, <2>6, InsertOrder
  <2>10. ASSUME NEW u \in Q, NEW v \in (Q \union {t}) \ {u},
                v \notin Q \/ Before(o, u, v)
         PROVE  Before(o, u, v)'
    <3>1. CASE v = t
      BY <2>4, <2>8, <2>9, <3>1 DEF Before
    <3>2. CASE v # t
      <4>1. v \in Q /\ v # h /\ u \in Walk(nextWaiter, h, v)
        BY <2>4, <2>10, <3>2 DEF Before
      <4> QED  BY <2>8, <2>9, <4>1 DEF Before
    <3> QED  BY <3>1, <3>2
  <2>11. Kept(o)
    <3>1. ASSUME NEW u \in Q, NEW v \in Thread \ {u}
          PROVE  /\ v \notin Ring(o) /\ v \in Ring(o)' => Before(o, u, v)'
                 /\ Before(o, u, v) => Before(o, u, v)'
      <4>1. Before(o, u, v) => v \in Q
        BY <2>2 DEF Before
      <4> QED  BY <2>2, <2>8, <2>10, <4>1
    <3> QED  BY <2>2, <3>1 DEF Kept
  <2>12. ASSUME NEW q \in Object \ {o}  PROVE Kept(q)
    <3>1. \A x \in Queued(q) : nextWaiter'[x] = nextWaiter[x]
      BY <1>1, <2>1, <2>2, <2>6 DEF Queued
    <3> QED  BY <1>0, <1>2, <2>6, <3>1, KeptSame
  <2> QED  BY <2>6, <2>11, <2>12
<1> QED  BY <1>3, <1>4

\* A thread t leaves a ring: it is the head, or it has been alerted.
LEMMA KeptLeft ==
  ASSUME Sound, NEW o \in Object, waiters[o] # NIL,
         NEW t \in Queued(o), NEW prev \in Queued(o),
         nextWaiter[prev] = t, prev # t,
         nextWaiter' \in Links, nextWaiter'[prev] = nextWaiter[t],
         \A x \in Queued(o) \ {prev, t} : nextWaiter'[x] = nextWaiter[x],
         waiters'[o] = TailWithout(o, t, prev),
         MayLeave(o, t)
  PROVE  Kept(o)
<1>1. PICK p, Q : p = waiters[o] /\ Q = Queued(o)
  OBVIOUS
<1>2. /\ p \in Q /\ Q \in SUBSET Thread /\ Cycle(nextWaiter, Q) /\ Ring(o) = Q
      /\ nextWaiter \in Links /\ t \in Q /\ prev \in Q
  BY <1>1, RingIsQueue, TypeLinks DEF Sound, Rings, RingOK, Queued
<1>3. PICK h, h2 : h = nextWaiter[p] /\ h2 = IF h = t THEN nextWaiter[t] ELSE h
  OBVIOUS
<1>4. h \in Q /\ Head(o) = h
  BY <1>1, <1>2, <1>3 DEF Head, Cycle
<1>5. waiters'[o] = IF p = t THEN prev ELSE p
  BY <1>1 DEF TailWithout
<1>6. Cycle(nextWaiter', Q \ {t})
  BY <1>1, <1>2, CycleRemove
<1>7. Ring(o)' = Q \ {t}
  <2>1. PICK r \in Q \ {t} : r = waiters'[o]
    BY <1>2, <1>5
  <2>2. r # NIL /\ Q \ {t} \in SUBSET Thread
    BY <1>2, NilIsNothing
  <2>3. Walk(nextWaiter', r, r) = Q \ {t}
    BY <1>6, <2>2, CycleWalk
  <2> QED  BY <2>1, <2>2, <2>3 DEF Ring
<1>8. Head(o)' = h2
  <2>1. CASE p = t
    BY <1>2, <1>3, <1>5, <2>1 DEF Head, Cycle
  <2>2. CASE p # t /\ p = prev
    BY <1>3, <1>5, <2>2 DEF Head
  <2>3. CASE p # t /\ p # prev
    BY <1>1, <1>2, <1>3, <1>5, <2>3 DEF Head, Cycle
  <2> QED  BY <2>1, <2>2, <2>3
<1>9. ASSUME NEW u \in Q \ {t}, NEW v \in Q \ {t}, Before(o, u, v)
      PROVE  Before(o, u, v)'
  <2>1. v # h /\ u \in Walk(nextWaiter, h, v)
    BY <1>4, <1>9 DEF Before
  <2>2. \A x \in Q \ {prev, t} : nextWaiter'[x] = nextWaiter[x]
    BY <1>1
  <2>3. v # h2 /\ u \in Walk(nextWaiter', h2, v)
    BY <1>2, <1>3, <1>4, <2>1, <2>2, RemoveOrder
  <2> QED  BY <1>7, <1>8, <2>3 DEF Before
<1>10. ASSUME NEW u, Before(o, u, t)  PROVE alerted[t] /\ ~alerted'[t]
  BY <1>10 DEF Before, MayLeave
<1> QED  BY <1>2, <1>7, <1>9, <1>10 DEF Kept, Before

\* The head is taken off a ring (UnlockMutex and Signal).
LEMMA KeptDequeued ==
  ASSUME Sound, NEW o \in Object, waiters[o] # NIL, Dequeue(o)
  PROVE  \A q \in Object : Kept(q)
<1>0. /\ nextWaiter \in Links /\ nextWaiter \in [Thread -> Thread \union {NIL}]
      /\ waiters \in [Object -> Thread \union {NIL}]
  BY TypeLinks DEF Sound, TypeOK
<1>1. PICK p, h : p = waiters[o] /\ h = Head(o)
  OBVIOUS
<1>2. /\ p \in Queued(o) /\ h \in Queued(o) /\ h = nextWaiter[p]
      /\ p \in Thread /\ h \in Thread /\ nextWaiter[h] \in Thread
  <2>1. p \in Queued(o) /\ Cycle(nextWaiter, Queued(o))
    BY <1>1 DEF Sound, Rings, RingOK
  <2> QED  BY <1>1, <2>1 DEF Cycle, Head, Queued
<1>3. \/ /\ h = p
         /\ waiters' = [waiters EXCEPT ![o] = NIL] /\ nextWaiter' = nextWaiter
      \/ /\ h # p
         /\ nextWaiter' = [nextWaiter EXCEPT ![p] = nextWaiter[h]]
         /\ waiters' = waiters
  BY <1>1 DEF Dequeue
<1>4. /\ nextWaiter' \in Links
      /\ \A x \in Thread \ {p} : nextWaiter'[x] = nextWaiter[x]
      /\ \A q \in Object \ {o} : waiters'[q] = waiters[q]
  BY <1>0, <1>2, <1>3 DEF Links
<1>5. Kept(o)
  <2>1. CASE h = p
    BY <1>0, <1>3, <2>1, KeptEmptied
  <2>2. CASE h # p
    <3>1. /\ nextWaiter'[p] = nextWaiter[h]
          /\ waiters'[o] = TailWithout(o, h, p)
      BY <1>0, <1>1, <1>2, <1>3, <2>2 DEF TailWithout
    <3>2. \A x \in Queued(o) \ {p, h} : nextWaiter'[x] = nextWaiter[x]
      BY <1>4 DEF Queued
    <3>3. MayLeave(o, h)
      BY <1>1 DEF MayLeave
    <3> QED  BY <1>1, <1>2, <1>4, <2>2, <3>1, <3>2, <3>3, KeptLeft
  <2> QED  BY <2>1, <2>2
<1>6. ASSUME NEW q \in Object \ {o}  PROVE Kept(q)
  <2>1. \A x \in Queued(q) : nextWaiter'[x] = nextWaiter[x]
    BY <1>2, <1>4 DEF Queued
  <2> QED  BY <1>4, <2>1, KeptSame
<1> QED  BY <1>5, <1>6

\* An alerted thread takes itself off, or looks for itself on a ring where it
\* is not: what is left of that ring then is in order or lost altogether.
LEMMA KeptUnlinked ==
  ASSUME Sound, NEW t \in Thread, NEW c \in Object, waitingOn[t] = c,
         alerted[t], alerted' = [alerted EXCEPT ![t] = FALSE], Unlink(t, c)
  PROVE  \A q \in Object : Kept(q)
<1>0. /\ nextWaiter \in Links /\ nextWaiter \in [Thread -> Thread \union {NIL}]
      /\ waiters \in [Object -> Thread \union {NIL}]
      /\ ~alerted'[t] /\ Ring(c) = Queued(c)
  BY TypeLinks, RingIsQueue DEF Sound, TypeOK
<1>1. ASSUME NEW q \in Object \ {c}, nextWaiter' \in Links, waiters'[q] = waiters[q],
             \A x \in Thread : nextWaiter'[x] # nextWaiter[x] => x = t \/ x \in Queued(c)
      PROVE  Kept(q)
  <2>1. \A x \in Queued(q) : x \in Thread /\ x # t /\ x \notin Queued(c)
    BY DEF Queued
  <2>2. \A x \in Queued(q) : nextWaiter'[x] = nextWaiter[x]
    BY <1>1, <2>1
  <2> QED  BY <1>1, <2>2, KeptSame
<1>2. CASE t \notin Ring(c)
  <2>1. \/ waiters' = waiters /\ nextWaiter' = nextWaiter
        \/ /\ waiters' = [waiters EXCEPT ![c] = NIL]
           /\ nextWaiter' = [nextWaiter EXCEPT ![t] = NIL]
    BY <1>2 DEF Unlink
  <2>2. /\ nextWaiter' \in Links
        /\ \A q \in Object \ {c} : waiters'[q] = waiters[q]
        /\ \A x \in Thread : nextWaiter'[x] # nextWaiter[x] => x = t
    BY <1>0, <2>1 DEF Links
  <2>3. Kept(c)
    BY <1>0, <2>1, <2>2, KeptSame, KeptEmptied
  <2> QED  BY <1>1, <2>2, <2>3
<1>3. CASE waiters' = [waiters EXCEPT ![c] = NIL]
           /\ nextWaiter' = [nextWaiter EXCEPT ![t] = NIL]
  <2>1. /\ nextWaiter' \in Links
        /\ \A q \in Object \ {c} : waiters'[q] = waiters[q]
        /\ \A x \in Thread : nextWaiter'[x] # nextWaiter[x] => x = t
    BY <1>0, <1>3 DEF Links
  <2> QED  BY <1>0, <1>1, <1>3, <2>1, KeptEmptied
<1>4. CASE /\ t \in Ring(c) /\ Head(c) # waiters[c]
           /\ \E prev \in Ring(c) :
                /\ nextWaiter[prev] = t
                /\ nextWaiter' = [nextWaiter EXCEPT ![prev] = nextWaiter[t], ![t] = NIL]
                /\ waiters' = [waiters EXCEPT ![c] = TailWithout(c, t, prev)]
  <2>1. t \in Queued(c) /\ waiters[c] # NIL
    BY <1>0, <1>4 DEF Ring
  <2>2. waiters[c] \in Queued(c) /\ Cycle(nextWaiter, Queued(c))
    BY <2>1 DEF Sound, Rings, RingOK
  <2>3. ASSUME NEW prev \in Ring(c), nextWaiter[prev] = t,
               nextWaiter' = [nextWaiter EXCEPT ![prev] = nextWaiter[t], ![t] = NIL],
               waiters' = [waiters EXCEPT ![c] = TailWithout(c, t, prev)]
        PROVE  \A q \in Object : Kept(q)
    <3>1. prev \in Queued(c) /\ prev \in Thread /\ nextWaiter[t] \in Thread
      BY <1>0, <2>1, <2>2 DEF Queued, Cycle
    <3>2. prev # t
      <4>1. ASSUME prev = t  PROVE Queued(c) = {t}
        BY <4>1, <2>1, <2>2, <2>3, CycleAlone
      <4> QED  BY <4>1, <1>4, <2>2, <2>3 DEF Head
    <3>3. /\ nextWaiter' \in Links
          /\ nextWaiter'[prev] = nextWaiter[t]
          /\ \A x \in Thread \ {prev, t} : nextWaiter'[x] = nextWaiter[x]
          /\ waiters'[c] = TailWithout(c, t, prev)
          /\ \A q \in Object \ {c} : waiters'[q] = waiters[q]
      BY <1>0, <2>3, <3>1, <3>2 DEF Links
    <3>4. \A x \in Queued(c) \ {prev, t} : nextWaiter'[x] = nextWaiter[x]
      BY <3>3 DEF Queued
    <3>5. Kept(c)
      <4>1. MayLeave(c, t)
        BY <1>0, Zenon DEF MayLeave
      <4> QED  BY <2>1, <2>3, <3>1, <3>2, <3>3, <3>4, <4>1, KeptLeft, ZenonT(40)
    <3>6. \A x \in Thread : nextWaiter'[x] # nextWaiter[x] => x = t \/ x \in Queued(c)
      BY <3>1, <3>3
    <3> QED  BY <1>1, <3>3, <3>5, <3>6
  <2> QED  BY <1>4, <2>3
<1> QED  BY <1>2, <1>3, <1>4 DEF Unlink

\* A thread in flight is told: it is on no ring any more.
LEMMA KeptWoken ==
  ASSUME Sound, NEW t \in Thread, NEW u \in Flight(t), WakeUp(u), waiters' = waiters
  PROVE  \A q \in Object : Kept(q)
<1>1. nextWaiter \in Links /\ nextWaiter' = [nextWaiter EXCEPT ![u] = NIL]
  BY TypeLinks DEF Sound, WakeUp
<1>2. /\ nextWaiter' \in Links
      /\ \A x \in Thread \ {u} : nextWaiter'[x] = nextWaiter[x]
  BY <1>1 DEF Links
<1>3. ASSUME NEW q \in Object  PROVE Kept(q)
  <2>1. \A x \in Queued(q) : nextWaiter'[x] = nextWaiter[x]
    BY <1>2, FlightWaits DEF Queued
  <2> QED  BY <1>2, <2>1, KeptSame
<1> QED  BY <1>3

\* Steps that touch no link.
LEMMA KeptUntouched ==
  ASSUME Sound, UNCHANGED <<waiters, nextWaiter>>
  PROVE  \A q \in Object : Kept(q)
<1>1. nextWaiter \in Links
  BY TypeLinks DEF Sound
<1> QED  BY <1>1, KeptSame

-----------------------------------------------------------------------------
(* The theorem.                                                            *)

\* No step of the package lets a thread overtake another.
LEMMA StepKeeps ==
  ASSUME Safe, NEW t \in Thread, Step(t)
  PROVE  \A q \in Object : Kept(q)
<1>0. /\ Sound /\ TypeOK /\ Place(t) /\ FlightOK(t)
      /\ \A m \in Mutex : m \in Object
      /\ \A c \in Condition : c \in Object
  BY DEF Safe, Sound, Places, Flights, Object
<1>1. ASSUME NEW m \in Mutex, LockMutex(t, m), pc[t] \in {"Ready", "Lock"}
      PROVE  \A q \in Object : Kept(q)
  <2>1. waitingOn[t] = NIL
    BY <1>0, <1>1 DEF Place
  <2> QED  BY <1>0, <1>1, <2>1, KeptJoined, KeptUntouched DEF LockMutex
<1>2. ASSUME NEW m \in Mutex, UnlockMutex(t, m)
      PROVE  \A q \in Object : Kept(q)
  BY <1>0, <1>2, KeptDequeued, KeptUntouched DEF UnlockMutex
<1>3. ASSUME NEW m \in Mutex, NEW c \in Condition, NEW b \in BOOLEAN, XWait(t, m, c, b)
      PROVE  \A q \in Object : Kept(q)
  <2>1. waitingOn[t] = NIL
    BY <1>0, <1>3 DEF Place, XWait
  <2> QED  BY <1>0, <1>3, <2>1, KeptJoined DEF XWait
<1>4. ASSUME NEW c \in Condition, Signal(t, c)
      PROVE  \A q \in Object : Kept(q)
  BY <1>0, <1>4, KeptDequeued, KeptUntouched DEF Signal
<1>5. ASSUME NEW c \in Condition, Broadcast(t, c)
      PROVE  \A q \in Object : Kept(q)
  <2>1. CASE waiters' = waiters
    BY <1>0, <1>5, <2>1, KeptUntouched DEF Broadcast
  <2>2. CASE waiters' = [waiters EXCEPT ![c] = NIL]
    <3>1. /\ waiters'[c] = NIL /\ nextWaiter' = nextWaiter /\ nextWaiter \in Links
          /\ \A q \in Object \ {c} : waiters'[q] = waiters[q]
      BY <1>0, <1>5, <2>2, TypeLinks DEF Broadcast, TypeOK
    <3> QED  BY <1>0, <3>1, KeptEmptied, KeptSame
  <2> QED  BY <1>5, <2>1, <2>2 DEF Broadcast
<1>6. ASSUME (\E u \in Thread : Alert(t, u)) \/ TestAlert(t)
             \/ (\E b \in BOOLEAN : XPause(t, b)) \/ LockWake(t) \/ PauseLoop(t)
             \/ PauseTimeout(t) \/ SpuriousWakeup(t)
      PROVE  \A q \in Object : Kept(q)
  BY <1>0, <1>6, KeptUntouched
  DEF Alert, TestAlert, XPause, LockWake, PauseLoop, PauseTimeout, SpuriousWakeup
<1>7. CASE Call(t)
  BY <1>1, <1>2, <1>3, <1>4, <1>5, <1>6, <1>7 DEF Call, Acquire, Release
<1>8. ASSUME Reacquire(t)  PROVE \A q \in Object : Kept(q)
  <2>1. PICK m \in Mutex : m = local[t].m
    BY <1>0, <1>8 DEF Place, Reacquire
  <2> QED  BY <1>1, <1>8, <2>1 DEF Reacquire
<1>9. ASSUME WaitRelease(t)  PROVE \A q \in Object : Kept(q)
  <2>1. PICK m \in Mutex : m = local[t].m
    BY <1>0, <1>9 DEF Place, WaitRelease
  <2> QED  BY <1>2, <1>9, <2>1 DEF WaitRelease
<1>10. ASSUME Grant(t) \/ Wake(t) \/ WakeAll(t)  PROVE \A q \in Object : Kept(q)
  <2>1. local[t].t \in Flight(t)
    BY <1>0, <1>10 DEF Grant, Wake, WakeAll, Flight, FlightOK, Remainder
  <2> QED  BY <1>0, <1>10, <2>1, KeptWoken DEF Grant, Wake, WakeAll
<1>11. ASSUME WaitLoop(t)  PROVE \A q \in Object : Kept(q)
  <2>1. PICK c \in Condition : c = local[t].c
    BY <1>0, <1>11 DEF Place, WaitLoop
  <2>2. CASE WaitSignalled(t) \/ KeepWaiting(t)
    BY <1>0, <2>2, KeptUntouched DEF WaitSignalled, KeepWaiting
  <2>3. CASE MustRaise(t) /\ WaitAlerted(t)
    <3>1. alerted[t] /\ alerted' = [alerted EXCEPT ![t] = FALSE]
      BY <2>3 DEF MustRaise, WaitAlerted
    <3>2. CASE ~OffList(t)
      <4>1. waitingOn[t] = c
        BY <1>0, <1>11, <2>1, <3>2 DEF Place, OffList, WaitLoop
      <4>2. Unlink(t, c)
        BY <2>1, <2>3, <3>2 DEF WaitAlerted
      <4> QED  BY <1>0, <3>1, <4>1, <4>2, KeptUnlinked
    <3>3. CASE OffList(t)
      BY <1>0, <2>3, <3>3, KeptUntouched DEF WaitAlerted
    <3> QED  BY <3>2, <3>3
  <2> QED  BY <1>11, <2>2, <2>3 DEF WaitLoop
<1>12. CASE Continue(t)
  BY <1>6, <1>8, <1>9, <1>10, <1>11, <1>12 DEF Continue
<1> QED  BY <1>6, <1>7, <1>12 DEF Step

\* Whoever waits on a mutex or on a condition is never overtaken: a new waiter
\* comes after all the others, and nobody leaves before a thread ahead of it
\* except by its own alert, whatever the critical sections of LockMutex,
\* UnlockMutex, XWait, Signal and Broadcast interleave with.
THEOREM FirstInFirstOut == Spec => NoOvertaking
<1>1. ASSUME IInv, [Next]_vars
      PROVE  [\A o \in Object : Kept(o)]_vars
  <2>1. CASE UNCHANGED vars
    BY <2>1
  <2>2. CASE Next
    <3>1. PICK t \in Thread : Step(t)
      BY <2>2 DEF Next
    <3>2. Safe
      BY <1>1, <3>1, SafeOrStopped DEF Step
    <3> QED  BY <3>1, <3>2, StepKeeps
  <2> QED  BY <1>1, <2>1, <2>2
<1>2. IInv /\ [Next]_vars => [\A o \in Object : Kept(o)]_vars
  BY <1>1
<1> QED  BY <1>2, Invariance, PTL DEF Spec, NoOvertaking, Kept
=============================================================================
