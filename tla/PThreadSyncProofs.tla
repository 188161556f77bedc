------------------------- MODULE PThreadSyncProofs -------------------------
(***************************************************************************)
(* IInv is an inductive invariant of PThreadSync, and the safety           *)
(* properties of the package follow from it, for any numbers of threads,   *)
(* mutexes and conditions.                                                 *)
(***************************************************************************)
EXTENDS PThreadSyncInv, TLAPS

Links == [Thread -> Thread \union {NIL}]

-----------------------------------------------------------------------------
(* Walks and cycles.                                                       *)

\* A walk holds its first element, every followed link, and nothing that some
\* closed set leaves out (the search loop of XWait, the loop of Broadcast).
LEMMA WalkClosed ==
  ASSUME NEW link \in Links, NEW first \in Thread, NEW stop
  PROVE  LET W == Walk(link, first, stop) IN
         /\ W \subseteq Thread
         /\ first \in W
         /\ \A x \in W : link[x] \notin {NIL, stop} => link[x] \in W
         /\ \A S \in SUBSET Thread :
              first \in S /\ (\A x \in S : link[x] \notin {NIL, stop} => link[x] \in S)
              => W \subseteq S
<1> DEFINE W == Walk(link, first, stop)
<1>1. W \subseteq Thread /\ first \in W
  BY DEF Walk
<1>2. ASSUME NEW x \in W, link[x] \notin {NIL, stop}  PROVE link[x] \in W
  <2>1. x \in Thread /\ link[x] \in Thread
    BY <1>1, <1>2 DEF Links
  <2> QED  BY <2>1, <1>2 DEF Walk
<1>3. ASSUME NEW S \in SUBSET Thread, first \in S,
             \A x \in S : link[x] \notin {NIL, stop} => link[x] \in S
      PROVE  W \subseteq S
  BY <1>3 DEF Walk
<1> QED  BY <1>1, <1>2, <1>3

\* Links changed elsewhere do not change a walk.
LEMMA WalkSame ==
  ASSUME NEW link \in Links, NEW link2 \in Links, NEW first \in Thread, NEW stop,
         \A x \in Walk(link, first, stop) : link2[x] = link[x]
  PROVE  Walk(link2, first, stop) = Walk(link, first, stop)
<1> DEFINE W == Walk(link, first, stop)
           W2 == Walk(link2, first, stop)
<1> HIDE DEF W, W2
<1>1. /\ W \subseteq Thread /\ first \in W
      /\ \A x \in W : link[x] \notin {NIL, stop} => link[x] \in W
      /\ \A S \in SUBSET Thread :
           first \in S /\ (\A x \in S : link[x] \notin {NIL, stop} => link[x] \in S)
           => W \subseteq S
  BY WalkClosed DEF W
<1>2. /\ W2 \subseteq Thread /\ first \in W2
      /\ \A x \in W2 : link2[x] \notin {NIL, stop} => link2[x] \in W2
      /\ \A S \in SUBSET Thread :
           first \in S /\ (\A x \in S : link2[x] \notin {NIL, stop} => link2[x] \in S)
           => W2 \subseteq S
  BY WalkClosed DEF W2
<1>3. \A x \in W : link2[x] = link[x]
  BY DEF W
<1>4. W2 \subseteq W
  BY <1>1, <1>2, <1>3
<1>5. W \subseteq W2 \intersect W
  <2>1. \A x \in W2 \intersect W :
          link[x] \notin {NIL, stop} => link[x] \in W2 \intersect W
    BY <1>1, <1>2, <1>3
  <2> QED  BY <2>1, <1>1, <1>2
<1> QED  BY <1>4, <1>5 DEF W, W2

\* A walk round a cycle meets all of it.
LEMMA CycleWalk ==
  ASSUME NEW link \in Links, NEW Q \in SUBSET Thread, NEW p \in Q, Cycle(link, Q)
  PROVE  Walk(link, p, p) = Q
<1> DEFINE W == Walk(link, p, p)
<1> HIDE DEF W
<1>1. /\ W \subseteq Thread /\ p \in W
      /\ \A x \in W : link[x] \notin {NIL, p} => link[x] \in W
      /\ \A S \in SUBSET Thread :
           p \in S /\ (\A x \in S : link[x] \notin {NIL, p} => link[x] \in S)
           => W \subseteq S
  BY WalkClosed DEF W
<1>2. W \subseteq Q
  BY <1>1 DEF Cycle
<1>3. \A x \in W : link[x] \in W
  BY <1>1, <1>2, NilIsNothing DEF Cycle
<1> QED  BY <1>1, <1>2, <1>3 DEF Cycle, W

\* LockMutex and XWait: a new tail between the old tail and the head.
LEMMA CycleInsert ==
  ASSUME NEW link, NEW link2, NEW Q, NEW p \in Q, NEW t, t \notin Q,
         Cycle(link, Q),
         link2[t] = link[p], link2[p] = t,
         \A x \in Q \ {p} : link2[x] = link[x]
  PROVE  Cycle(link2, Q \union {t})
<1> DEFINE Q2 == Q \union {t}
<1>1. \A x \in Q2 : link2[x] \in Q2
  BY DEF Cycle
<1>2. \A x, y \in Q2 : link2[x] = link2[y] => x = y
  BY DEF Cycle
<1>3. ASSUME NEW S \in SUBSET Q2, S # {}, \A x \in S : link2[x] \in S
      PROVE  S = Q2
  <2> DEFINE S1 == S \ {t}
  <2>1. S1 \in SUBSET Q
    OBVIOUS
  <2>2. S1 # {}
    BY <1>3 DEF Cycle
  <2>3. \A x \in S1 : link[x] \in S1
    BY <1>3 DEF Cycle
  <2>4. S1 = Q
    BY <2>1, <2>2, <2>3 DEF Cycle
  <2> QED  BY <2>4, <1>3
<1> QED  BY <1>1, <1>2, <1>3 DEF Cycle

\* The first waiter of an empty ring.
LEMMA CycleSingleton ==
  ASSUME NEW link, NEW t, link[t] = t
  PROVE  Cycle(link, {t})
<1>1. \A S \in SUBSET {t} : S # {} => S = {t}
  OBVIOUS
<1> QED  BY <1>1 DEF Cycle

\* UnlockMutex, Signal and the alert branch of XWait: the successor of p goes.
LEMMA CycleRemove ==
  ASSUME NEW link, NEW link2, NEW Q, NEW p \in Q, link[p] # p,
         Cycle(link, Q),
         link2[p] = link[link[p]],
         \A x \in Q \ {p, link[p]} : link2[x] = link[x]
  PROVE  Cycle(link2, Q \ {link[p]})
<1> DEFINE h == link[p]
           Q2 == Q \ {h}
<1>1. \A x \in Q2 : link2[x] \in Q2
  BY DEF Cycle
<1>2. \A x, y \in Q2 : link2[x] = link2[y] => x = y
  BY DEF Cycle
<1>3. ASSUME NEW S \in SUBSET Q2, S # {}, \A x \in S : link2[x] \in S
      PROVE  S = Q2
  <2>0. h \in Q
    BY DEF Cycle
  <2>1. CASE p \in S
    <3> DEFINE S1 == S \union {h}
    <3>1. S1 \in SUBSET Q /\ S1 # {}
      BY <2>0
    <3>2. \A x \in S1 : link[x] \in S1
      BY <1>3, <2>1
    <3>3. S1 = Q
      BY <3>1, <3>2 DEF Cycle
    <3> QED  BY <3>3
  <2>2. CASE p \notin S
    <3>1. S \in SUBSET Q /\ \A x \in S : link[x] \in S
      BY <1>3, <2>2
    <3>2. S = Q
      BY <3>1, <1>3 DEF Cycle
    <3> QED  BY <3>2, <2>0
  <2> QED  BY <2>1, <2>2
<1> QED  BY <1>1, <1>2, <1>3 DEF Cycle

\* A link from p to itself closes the whole cycle.
LEMMA CycleAlone ==
  ASSUME NEW link, NEW Q, NEW p \in Q, Cycle(link, Q), link[p] = p
  PROVE  Q = {p}
BY {p} \in SUBSET Q DEF Cycle

\* Broadcast starts with the whole ring.
LEMMA CycleRemainder ==
  ASSUME NEW link, NEW Q, NEW p \in Q, Cycle(link, Q)
  PROVE  Remainder(link, Q, p, p)
BY DEF Cycle, Remainder

\* Broadcast goes on from one activation to the next and leaves none out.
LEMMA RemainderStep ==
  ASSUME NEW link \in Links, NEW cur \in Thread, NEW start \in Thread,
         Remainder(link, Walk(link, cur, start), cur, start)
  PROVE  LET R == Walk(link, cur, start)
             link2 == [link EXCEPT ![cur] = NIL]
         IN /\ link[cur] = start => R = {cur}
            /\ link[cur] # start =>
                 /\ link[cur] \in Thread
                 /\ Walk(link2, link[cur], start) = R \ {cur}
                 /\ Remainder(link2, R \ {cur}, link[cur], start)
<1> DEFINE R == Walk(link, cur, start)
           link2 == [link EXCEPT ![cur] = NIL]
           next == link[cur]
           R2 == Walk(link2, next, start)
<1> HIDE DEF R, R2
<1>0. link2 \in Links
  BY DEF Links
<1>1. /\ R \subseteq Thread /\ cur \in R
      /\ \A x \in R : link[x] \notin {NIL, start} => link[x] \in R
      /\ \A S \in SUBSET Thread :
           cur \in S /\ (\A x \in S : link[x] \notin {NIL, start} => link[x] \in S)
           => R \subseteq S
  BY WalkClosed DEF R
<1>2. Remainder(link, R, cur, start)
  BY DEF R
<1>3. CASE next = start
  <2>1. R \subseteq {cur}
    BY <1>1, <1>3
  <2> QED  BY <2>1, <1>1, <1>3 DEF R
<1>4. CASE next # start
  <2>1. next \in R /\ next # cur /\ next \in Thread
    BY <1>1, <1>2, <1>4 DEF Remainder
  <2>2. /\ R2 \subseteq Thread /\ next \in R2
        /\ \A x \in R2 : link2[x] \notin {NIL, start} => link2[x] \in R2
        /\ \A S \in SUBSET Thread :
             next \in S /\ (\A x \in S : link2[x] \notin {NIL, start} => link2[x] \in S)
             => R2 \subseteq S
    BY <1>0, <2>1, WalkClosed, ZenonT(40) DEF R2
  <2>3. \A x \in R : x # cur => link2[x] = link[x]
    BY <1>1 DEF Links
  <2>4. R2 \subseteq R \ {cur}
    <3>1. \A x \in R \ {cur} :
            link2[x] \notin {NIL, start} => link2[x] \in R \ {cur}
      BY <1>1, <1>2, <2>3 DEF Remainder
    <3>2. R \ {cur} \in SUBSET Thread /\ next \in R \ {cur}
      BY <1>1, <2>1
    <3> QED  BY <3>1, <3>2, <2>2
  <2>5. R \ {cur} \subseteq R2
    <3> DEFINE S == R2 \union {cur}
    <3>1. S \in SUBSET Thread /\ cur \in S
      BY <2>2
    <3>2. \A x \in S : link[x] \notin {NIL, start} => link[x] \in S
      BY <2>2, <2>3, <2>4
    <3> QED  BY <3>1, <3>2, <1>1
  <2>6. Remainder(link2, R \ {cur}, next, start)
    BY <1>1, <1>2, <2>1, <2>3 DEF Remainder
  <2> QED  BY <2>1, <2>4, <2>5, <2>6, <1>4 DEF R, R2
<1> QED  BY <1>3, <1>4 DEF R, R2

-----------------------------------------------------------------------------
(* What the critical sections do to the rings and to the threads in flight. *)

Sound == TypeOK /\ Places /\ Holders /\ Flights /\ Rings

InSecondSection == {"Grant", "Wake", "WakeAll"}

\* Only t moves.
Only(t) ==
  /\ pc' \in [Thread -> Labels]
  /\ \A s \in Thread \ {t} : pc'[s] = pc[s] /\ local'[s] = local[s]

\* The links of the activations are a function on the threads.
LEMMA TypeLinks ==
  ASSUME TypeOK
  PROVE  nextWaiter \in Links
BY DEF TypeOK, Links

\* A thread in flight still waits; a queued thread is not in flight.
LEMMA FlightWaits ==
  ASSUME Sound, NEW s \in Thread
  PROVE  /\ Flight(s) \subseteq Thread
         /\ \A u \in Flight(s) : waitingOn[u] # NIL
         /\ \A u \in Flight(s), o \in Object : u \notin Queued(o)
<1>0. pc[s] = "WakeAll" => Flight(s) \subseteq Thread
  <2>1. ASSUME pc[s] = "WakeAll"  PROVE Flight(s) \subseteq Thread
    <3>1. Flight(s) = Walk(nextWaiter, local[s].t, local[s].start)
      BY <2>1 DEF Flight
    <3> QED  BY <3>1 DEF Walk
  <2> QED  BY <2>1
<1>1. pc[s] \in {"Grant", "Wake"} => Flight(s) = {local[s].t}
  BY DEF Flight
<1>2. pc[s] \notin InSecondSection => Flight(s) = {}
  BY DEF Flight, InSecondSection
<1>3. FlightOK(s) /\ Place(s)
  BY DEF Sound, Flights, Places
<1>4. \A u \in Flight(s) : u \in Thread /\ waitingOn[u] # NIL
  BY <1>0, <1>1, <1>2, <1>3, NilIsNothing
  DEF FlightOK, Place, InSecondSection, Object
<1> QED  BY <1>4 DEF Queued, InFlight

\* A thread whose variables and links are left alone keeps what it took.
LEMMA FlightSame ==
  ASSUME Sound, nextWaiter' \in Links, NEW s \in Thread,
         pc'[s] = pc[s], local'[s] = local[s],
         \A u \in Flight(s) : nextWaiter'[u] = nextWaiter[u]
  PROVE  Flight(s)' = Flight(s)
<1>1. CASE pc[s] = "WakeAll"
  <2>1. local[s].t \in Thread
    BY <1>1 DEF Sound, Flights, FlightOK
  <2>2. Flight(s) = Walk(nextWaiter, local[s].t, local[s].start)
    BY <1>1 DEF Flight
  <2>3. Flight(s)' = Walk(nextWaiter', local[s].t, local[s].start)
    BY <1>1 DEF Flight
  <2>4. nextWaiter \in Links
    BY TypeLinks DEF Sound
  <2> QED  BY <2>1, <2>2, <2>3, <2>4, WalkSame
<1>2. CASE pc[s] # "WakeAll"
  BY <1>2 DEF Flight
<1> QED  BY <1>1, <1>2

\* A thread outside the second sections has nobody in flight.
LEMMA FlightNone ==
  ASSUME NEW s \in Thread
  PROVE  /\ pc[s] \notin InSecondSection => Flight(s) = {}
         /\ pc'[s] \notin InSecondSection => Flight(s)' = {}
BY DEF Flight, InSecondSection

\* The same threads in flight, waiting on the same objects: the same queues.
LEMMA QueuedSame ==
  ASSUME NEW o, \A u \in Thread : waitingOn'[u] = o <=> waitingOn[u] = o,
         \A s \in Thread : Flight(s)' = Flight(s)
  PROVE  Queued(o)' = Queued(o)
BY DEF Queued, InFlight

\* A ring whose members, links and tail are left alone is still in order.
LEMMA RingSame ==
  ASSUME NEW o, RingOK(o), Queued(o)' = Queued(o), waiters'[o] = waiters[o],
         \A u \in Queued(o) : nextWaiter'[u] = nextWaiter[u]
  PROVE  RingOK(o)'
BY DEF RingOK, Cycle

\* Steps that touch no list.
LEMMA QuietStep ==
  ASSUME Sound, NEW t \in Thread, Only(t),
         pc[t] \notin InSecondSection, pc'[t] \notin InSecondSection,
         UNCHANGED <<waiters, waitingOn, nextWaiter>>
  PROVE  /\ \A s \in Thread : Flight(s)' = Flight(s)
         /\ \A o \in Object : Queued(o)' = Queued(o)
         /\ Rings'
<1>0. nextWaiter \in Links
  BY TypeLinks DEF Sound
<1>1. ASSUME NEW s \in Thread  PROVE Flight(s)' = Flight(s)
  <2>1. CASE s = t
    BY <2>1, FlightNone
  <2>2. CASE s # t
    BY <2>2, <1>0, FlightSame DEF Only
  <2> QED  BY <2>1, <2>2
<1>2. ASSUME NEW o \in Object  PROVE Queued(o)' = Queued(o)
  BY <1>1, QueuedSame
<1>3. ASSUME NEW o \in Object  PROVE RingOK(o)'
  <2>1. RingOK(o)
    BY DEF Sound, Rings
  <2> QED  BY <2>1, <1>2, RingSame
<1> QED  BY <1>1, <1>2, <1>3 DEF Rings

\* LockMutex and XWait: t joins the ring of o.
LEMMA EnqueueStep ==
  ASSUME Sound, NEW t \in Thread, NEW o \in Object, Only(t),
         pc[t] \notin InSecondSection, pc'[t] \notin InSecondSection,
         waitingOn[t] = NIL, Enqueue(o, t)
  PROVE  /\ nextWaiter' \in Links
         /\ nextWaiter'[t] # NIL
         /\ \A u \in Thread \ {t} : nextWaiter'[u] = NIL <=> nextWaiter[u] = NIL
         /\ \A s \in Thread : Flight(s)' = Flight(s)
         /\ Queued(o)' = Queued(o) \union {t}
         /\ \A p \in Object \ {o} : Queued(p)' = Queued(p)
         /\ Rings'
<1>0. nextWaiter \in Links /\ nextWaiter \in [Thread -> Thread \union {NIL}]
  BY TypeLinks DEF Sound, TypeOK
<1>a. waiters \in [Object -> Thread \union {NIL}]
      /\ waitingOn \in [Thread -> Object \union {NIL}]
  BY DEF Sound, TypeOK
<1>b. o # NIL
  BY NilIsNothing
<1>c. /\ \A s \in Thread : Flight(s) \subseteq Thread /\ t \notin Flight(s)
      /\ t \notin Queued(o)
      /\ \A p \in Object : t \notin Queued(p)
  BY FlightWaits, NilIsNothing, <1>b DEF Queued
<1>d. RingOK(o)
  BY DEF Sound, Rings
<1>1. CASE waiters[o] = NIL
  <2>1. Queued(o) = {}
    BY <1>1, <1>d DEF RingOK
  <2>2. /\ nextWaiter' = [nextWaiter EXCEPT ![t] = t]
        /\ waiters' = [waiters EXCEPT ![o] = t]
        /\ waitingOn' = [waitingOn EXCEPT ![t] = o]
    BY <1>1 DEF Enqueue
  <2>3. nextWaiter' \in Links /\ nextWaiter'[t] = t
        /\ \A u \in Thread \ {t} : nextWaiter'[u] = nextWaiter[u]
    BY <2>2, <1>0 DEF Links
  <2>4. ASSUME NEW s \in Thread  PROVE Flight(s)' = Flight(s)
    <3>1. CASE s = t
      BY <3>1, FlightNone
    <3>2. CASE s # t
      BY <3>2, <2>3, <1>c, FlightSame DEF Only
    <3> QED  BY <3>1, <3>2
  <2>5. Queued(o)' = {t}
    <3>1. Queued(o)' = Queued(o) \union {t}
      BY <2>2, <2>4, <1>a, <1>c DEF Queued, InFlight
    <3> QED  BY <3>1, <2>1
  <2>6. ASSUME NEW p \in Object \ {o}  PROVE Queued(p)' = Queued(p)
    <3>1. \A u \in Thread : waitingOn'[u] = p <=> waitingOn[u] = p
      BY <2>2, <1>a, NilIsNothing
    <3> QED  BY <3>1, <2>4, QueuedSame
  <2>7. RingOK(o)'
    <3>1. Cycle(nextWaiter', {t})
      BY <2>3, CycleSingleton
    <3>2. waiters'[o] = t /\ t # NIL
      BY <2>2, <1>a, NilIsNothing
    <3> QED  BY <3>1, <3>2, <2>5 DEF RingOK
  <2>8. ASSUME NEW p \in Object \ {o}  PROVE RingOK(p)'
    <3>1. RingOK(p) /\ waiters'[p] = waiters[p]
      BY <2>2, <1>a DEF Sound, Rings
    <3>2. \A u \in Queued(p) : nextWaiter'[u] = nextWaiter[u]
      BY <2>3, <1>c DEF Queued
    <3> QED  BY <3>1, <3>2, <2>6, RingSame
  <2>9. \A u \in Thread \ {t} : nextWaiter'[u] = NIL <=> nextWaiter[u] = NIL
    BY <2>3
  <2> QED  BY <2>1, <2>3, <2>4, <2>5, <2>6, <2>7, <2>8, <2>9, NilIsNothing DEF Rings
<1>2. CASE waiters[o] # NIL
  <2> DEFINE p == waiters[o]
  <2>1. p \in Queued(o) /\ Cycle(nextWaiter, Queued(o)) /\ p \in Thread /\ p # t
    BY <1>2, <1>d, <1>a, <1>c DEF RingOK
  <2>2. /\ nextWaiter' = [nextWaiter EXCEPT ![t] = nextWaiter[p], ![p] = t]
        /\ waiters' = [waiters EXCEPT ![o] = t]
        /\ waitingOn' = [waitingOn EXCEPT ![t] = o]
    BY <1>2 DEF Enqueue, Head
  <2> HIDE DEF p
  <2>a. nextWaiter[p] \in Queued(o)
    BY <2>1 DEF Cycle
  <2>b. nextWaiter[p] \in Thread
    BY <2>a DEF Queued
  <2>3. nextWaiter' \in Links /\ nextWaiter'[t] = nextWaiter[p] /\ nextWaiter'[p] = t
        /\ \A u \in Thread \ {t, p} : nextWaiter'[u] = nextWaiter[u]
    BY <2>1, <2>2, <2>b, <1>0 DEF Links
  <2>4. ASSUME NEW s \in Thread  PROVE Flight(s)' = Flight(s)
    <3>1. CASE s = t
      BY <3>1, FlightNone
    <3>2. CASE s # t
      <4>1. p \notin Flight(s)
        BY <2>1, FlightWaits
      <4> QED  BY <3>2, <4>1, <2>3, <1>c, FlightSame DEF Only
    <3> QED  BY <3>1, <3>2
  <2>5. Queued(o)' = Queued(o) \union {t}
    BY <2>2, <2>4, <1>a, <1>c DEF Queued, InFlight
  <2>6. ASSUME NEW q \in Object \ {o}  PROVE Queued(q)' = Queued(q)
    <3>1. \A u \in Thread : waitingOn'[u] = q <=> waitingOn[u] = q
      BY <2>2, <1>a, NilIsNothing
    <3> QED  BY <3>1, <2>4, QueuedSame
  <2>7. RingOK(o)'
    <3>0. \A x \in Queued(o) \ {p} : nextWaiter'[x] = nextWaiter[x]
      BY <2>3, <1>c DEF Queued
    <3>1. Cycle(nextWaiter', Queued(o) \union {t})
      BY <3>0, <2>1, <2>3, <1>c, CycleInsert
    <3>2. waiters'[o] = t /\ t # NIL
      BY <2>2, <1>a, NilIsNothing
    <3> QED  BY <3>1, <3>2, <2>5 DEF RingOK
  <2>8. ASSUME NEW q \in Object \ {o}  PROVE RingOK(q)'
    <3>1. RingOK(q) /\ waiters'[q] = waiters[q]
      BY <2>2, <1>a DEF Sound, Rings
    <3>2. \A u \in Queued(q) : u # p /\ u # t /\ u \in Thread
      BY <2>1, <1>c DEF Queued
    <3>3. \A u \in Queued(q) : nextWaiter'[u] = nextWaiter[u]
      BY <2>3, <3>2
    <3> QED  BY <3>1, <3>3, <2>6, RingSame
  <2>9. /\ nextWaiter'[t] # NIL
        /\ \A u \in Thread \ {t} : nextWaiter'[u] = NIL <=> nextWaiter[u] = NIL
    <3>1. p \in Thread => nextWaiter[p] # NIL /\ nextWaiter'[p] # NIL
      BY <2>3, <2>b, NilIsNothing
    <3> QED  BY <3>1, <2>3, <2>b, NilIsNothing
  <2> QED  BY <2>3, <2>4, <2>5, <2>6, <2>7, <2>8, <2>9 DEF Rings
<1> QED  BY <1>1, <1>2

\* UnlockMutex and Signal: t takes the head off the ring of o.
LEMMA DequeueStep ==
  ASSUME Sound, NEW t \in Thread, NEW o \in Object, Only(t),
         pc[t] \notin InSecondSection, pc'[t] \in {"Grant", "Wake"},
         local'[t].t = Head(o),
         waiters[o] # NIL, Dequeue(o), waitingOn' = waitingOn
  PROVE  /\ Head(o) \in Queued(o)
         /\ nextWaiter' \in Links
         /\ \A u \in Thread : nextWaiter'[u] = NIL <=> nextWaiter[u] = NIL
         /\ \A s \in Thread \ {t} : Flight(s)' = Flight(s)
         /\ Flight(t) = {} /\ Flight(t)' = {Head(o)}
         /\ Queued(o)' = Queued(o) \ {Head(o)}
         /\ \A p \in Object \ {o} : Queued(p)' = Queued(p)
         /\ Rings'
<1> DEFINE p == waiters[o]
           h == nextWaiter[p]
<1>0. nextWaiter \in Links /\ nextWaiter \in [Thread -> Thread \union {NIL}]
      /\ waiters \in [Object -> Thread \union {NIL}]
  BY TypeLinks DEF Sound, TypeOK
<1>1. p \in Queued(o) /\ Cycle(nextWaiter, Queued(o)) /\ p \in Thread
  BY <1>0 DEF Sound, Rings, RingOK
<1>2. h \in Queued(o) /\ h = Head(o) /\ nextWaiter[h] \in Queued(o)
  BY <1>1 DEF Cycle, Head
<1>3. h \in Thread /\ nextWaiter[h] \in Thread
  BY <1>2 DEF Queued
<1>4. /\ h = p => waiters' = [waiters EXCEPT ![o] = NIL] /\ nextWaiter' = nextWaiter
      /\ h # p => /\ nextWaiter' = [nextWaiter EXCEPT ![p] = nextWaiter[h]]
                  /\ waiters' = waiters
  BY <1>2 DEF Dequeue, Head
<1>5. Flight(t) = {} /\ Flight(t)' = {h}
  BY <1>2, FlightNone DEF Flight
<1> HIDE DEF p, h
<1>6. nextWaiter' \in Links
      /\ \A u \in Thread : nextWaiter'[u] = NIL <=> nextWaiter[u] = NIL
  <2>1. h \in Thread /\ nextWaiter[p] = h
    BY <1>3 DEF h
  <2> QED  BY <2>1, <1>0, <1>1, <1>3, <1>4, NilIsNothing DEF Links
<1>7. \A u \in Thread \ {p} : nextWaiter'[u] = nextWaiter[u]
  BY <1>0, <1>4 DEF Links
<1>8. ASSUME NEW s \in Thread \ {t}  PROVE Flight(s)' = Flight(s)
  <2>1. p \notin Flight(s) /\ Flight(s) \subseteq Thread
    BY <1>1, FlightWaits
  <2> QED  BY <2>1, <1>6, <1>7, FlightSame DEF Only
<1>9. \A u \in Thread : InFlight(u)' <=> InFlight(u) \/ u = h
  BY <1>5, <1>8 DEF InFlight
<1>10. Queued(o)' = Queued(o) \ {h}
  BY <1>9 DEF Queued
<1>11. ASSUME NEW q \in Object \ {o}  PROVE Queued(q)' = Queued(q)
  <2>1. h \notin Queued(q)
    BY <1>2 DEF Queued
  <2> QED  BY <1>9, <2>1 DEF Queued
<1>12. RingOK(o)'
  <2>1. CASE h = p
    <3>1. Queued(o) = {p}
      BY <2>1, <1>1, CycleAlone DEF h
    <3>2. waiters'[o] = NIL
      BY <2>1, <1>0, <1>4
    <3> QED  BY <3>1, <3>2, <2>1, <1>10 DEF RingOK
  <2>2. CASE h # p
    <3>1. waiters'[o] = p /\ p # NIL
      BY <2>2, <1>4, <1>1, NilIsNothing DEF p
    <3>2. nextWaiter'[p] = nextWaiter[h]
      BY <2>2, <1>0, <1>1, <1>4
    <3>3. \A x \in Queued(o) \ {p, h} : nextWaiter'[x] = nextWaiter[x]
      BY <1>7 DEF Queued
    <3>4. nextWaiter[p] = h
      BY DEF h
    <3>5. Cycle(nextWaiter', Queued(o) \ {h})
      BY <2>2, <3>2, <3>3, <3>4, <1>1, CycleRemove
    <3> QED  BY <3>1, <3>5, <2>2, <1>1, <1>10 DEF RingOK
  <2> QED  BY <2>1, <2>2
<1>13. ASSUME NEW q \in Object \ {o}  PROVE RingOK(q)'
  <2>1. RingOK(q) /\ waiters'[q] = waiters[q]
    BY <1>0, <1>4 DEF Sound, Rings
  <2>2. \A u \in Queued(q) : u # p /\ u \in Thread
    BY <1>1 DEF Queued
  <2>3. \A u \in Queued(q) : nextWaiter'[u] = nextWaiter[u]
    BY <1>7, <2>2
  <2> QED  BY <2>1, <2>3, <1>11, RingSame
<1> QED
  BY <1>2, <1>5, <1>6, <1>8, <1>10, <1>11, <1>12, <1>13 DEF Rings

\* Broadcast: t detaches the whole ring of c.
LEMMA DetachStep ==
  ASSUME Sound, NEW t \in Thread, NEW c \in Object, Only(t),
         pc[t] \notin InSecondSection, pc'[t] = "WakeAll",
         local'[t].t = waiters[c], local'[t].start = waiters[c],
         waiters[c] # NIL, waiters' = [waiters EXCEPT ![c] = NIL],
         UNCHANGED <<waitingOn, nextWaiter>>
  PROVE  /\ waiters[c] \in Queued(c)
         /\ \A s \in Thread \ {t} : Flight(s)' = Flight(s)
         /\ Flight(t) = {} /\ Flight(t)' = Queued(c)
         /\ Remainder(nextWaiter, Queued(c), waiters[c], waiters[c])
         /\ Queued(c)' = {}
         /\ \A p \in Object \ {c} : Queued(p)' = Queued(p)
         /\ Rings'
<1>0. nextWaiter \in Links /\ waiters \in [Object -> Thread \union {NIL}]
  BY TypeLinks DEF Sound, TypeOK
<1>1. waiters[c] \in Queued(c) /\ Cycle(nextWaiter, Queued(c))
  BY DEF Sound, Rings, RingOK
<1>2. Flight(t) = {}
  BY FlightNone
<1>3. Flight(t)' = Queued(c)
  <2>1. Flight(t)' = Walk(nextWaiter, waiters[c], waiters[c])
    BY DEF Flight
  <2>2. Queued(c) \in SUBSET Thread
    BY DEF Queued
  <2> QED  BY <2>1, <2>2, <1>0, <1>1, CycleWalk
<1>4. ASSUME NEW s \in Thread \ {t}  PROVE Flight(s)' = Flight(s)
  BY <1>0, FlightSame DEF Only
<1>5. Remainder(nextWaiter, Queued(c), waiters[c], waiters[c])
  BY <1>1, CycleRemainder
<1>6. \A u \in Thread : InFlight(u)' <=> InFlight(u) \/ u \in Queued(c)
  BY <1>2, <1>3, <1>4 DEF InFlight
<1>7. Queued(c)' = {}
  BY <1>6 DEF Queued
<1>8. ASSUME NEW p \in Object \ {c}  PROVE Queued(p)' = Queued(p)
  <2>1. \A u \in Queued(c) : waitingOn[u] # p
    BY DEF Queued
  <2> QED  BY <1>6, <2>1 DEF Queued
<1>9. RingOK(c)'
  <2>1. waiters'[c] = NIL
    BY <1>0
  <2> QED  BY <2>1, <1>7 DEF RingOK
<1>10. ASSUME NEW p \in Object \ {c}  PROVE RingOK(p)'
  <2>1. RingOK(p) /\ waiters'[p] = waiters[p]
    BY <1>0 DEF Sound, Rings
  <2> QED  BY <2>1, <1>8, RingSame
<1> QED  BY <1>1, <1>2, <1>3, <1>4, <1>5, <1>7, <1>8, <1>9, <1>10 DEF Rings

\* Grant, Wake and WakeAll: t tells one of the threads it took off a list.
LEMMA WakeStep ==
  ASSUME Sound, NEW t \in Thread, NEW u \in Flight(t), Only(t),
         WakeUp(u), waiters' = waiters, Flight(t)' = Flight(t) \ {u}
  PROVE  /\ u \in Thread
         /\ waitingOn' = [waitingOn EXCEPT ![u] = NIL]
         /\ nextWaiter' = [nextWaiter EXCEPT ![u] = NIL]
         /\ nextWaiter' \in Links
         /\ \A s \in Thread \ {t} : Flight(s)' = Flight(s) /\ u \notin Flight(s)
         /\ \A o \in Object : Queued(o)' = Queued(o) /\ u \notin Queued(o)
         /\ Rings'
<1>0. nextWaiter \in Links /\ waitingOn \in [Thread -> Object \union {NIL}]
  BY TypeLinks DEF Sound, TypeOK
<1>1. u \in Thread /\ \A o \in Object : u \notin Queued(o)
  BY FlightWaits
<1>2. /\ waitingOn' = [waitingOn EXCEPT ![u] = NIL]
      /\ nextWaiter' = [nextWaiter EXCEPT ![u] = NIL]
  BY DEF WakeUp
<1>3. nextWaiter' \in Links /\ \A x \in Thread \ {u} : nextWaiter'[x] = nextWaiter[x]
  BY <1>0, <1>2 DEF Links
<1>4. ASSUME NEW s \in Thread \ {t}
      PROVE  Flight(s)' = Flight(s) /\ u \notin Flight(s)
  <2>1. u \notin Flight(s)
    BY DEF Sound, Flights
  <2>2. Flight(s) \subseteq Thread
    BY FlightWaits
  <2> QED  BY <2>1, <2>2, <1>3, FlightSame DEF Only
<1>5. \A x \in Thread : InFlight(x)' <=> InFlight(x) /\ x # u
  BY <1>4 DEF InFlight
<1>6. ASSUME NEW o \in Object  PROVE Queued(o)' = Queued(o)
  <2>1. o # NIL
    BY NilIsNothing
  <2>2. \A x \in Thread : waitingOn'[x] = o <=> waitingOn[x] = o /\ x # u
    BY <2>1, <1>0, <1>2
  <2> QED  BY <2>2, <1>1, <1>5 DEF Queued
<1>7. ASSUME NEW o \in Object  PROVE RingOK(o)'
  <2>1. RingOK(o) /\ \A x \in Queued(o) : x # u /\ x \in Thread
    BY <1>1 DEF Sound, Rings, Queued
  <2> QED  BY <2>1, <1>3, <1>6, RingSame
<1> QED  BY <1>1, <1>2, <1>3, <1>4, <1>6, <1>7 DEF Rings

\* The ring of o holds exactly the threads that are queued on o.
LEMMA RingIsQueue ==
  ASSUME Sound, NEW o \in Object
  PROVE  Ring(o) = Queued(o)
<1>1. nextWaiter \in Links /\ RingOK(o)
  BY TypeLinks DEF Sound, Rings
<1>2. CASE waiters[o] = NIL
  BY <1>1, <1>2 DEF Ring, RingOK
<1>3. CASE waiters[o] # NIL
  <2>1. waiters[o] \in Queued(o) /\ Cycle(nextWaiter, Queued(o))
    BY <1>1, <1>3 DEF RingOK
  <2>2. Queued(o) \in SUBSET Thread
    BY DEF Queued
  <2> QED  BY <1>1, <1>3, <2>1, <2>2, CycleWalk DEF Ring
<1> QED  BY <1>2, <1>3

\* The alert branch of XWait, when t is still on the ring of c.
LEMMA UnlinkStep ==
  ASSUME Sound, NEW t \in Thread, NEW c \in Object, Only(t),
         pc[t] \notin InSecondSection, pc'[t] \notin InSecondSection,
         t \in Ring(c), Unlink(t, c),
         waitingOn' = [waitingOn EXCEPT ![t] = NIL]
  PROVE  /\ fault' = fault
         /\ nextWaiter' \in Links
         /\ waiters' \in [Object -> Thread \union {NIL}]
         /\ nextWaiter'[t] = NIL
         /\ \A u \in Thread \ {t} : nextWaiter'[u] = NIL <=> nextWaiter[u] = NIL
         /\ \A s \in Thread : Flight(s)' = Flight(s)
         /\ Queued(c)' = Queued(c) \ {t}
         /\ \A o \in Object \ {c} : Queued(o)' = Queued(o)
         /\ Rings'
<1>0. nextWaiter \in Links /\ waiters \in [Object -> Thread \union {NIL}]
      /\ waitingOn \in [Thread -> Object \union {NIL}]
      /\ nextWaiter \in [Thread -> Thread \union {NIL}]
  BY TypeLinks DEF Sound, TypeOK
<1>1. Ring(c) = Queued(c) /\ t \in Queued(c)
  BY RingIsQueue
<1>2. waiters[c] \in Queued(c) /\ Cycle(nextWaiter, Queued(c)) /\ waiters[c] \in Thread
  BY <1>0, <1>1 DEF Sound, Rings, RingOK
<1>3. waitingOn[t] = c
  BY <1>1 DEF Queued
<1>4. Queued(c) \subseteq Thread /\ \A x \in Queued(c) : nextWaiter[x] \in Queued(c)
  BY <1>2 DEF Queued, Cycle
<1>5. \/ /\ Queued(c) = {t}
         /\ waiters' = [waiters EXCEPT ![c] = NIL]
         /\ nextWaiter' = [nextWaiter EXCEPT ![t] = NIL]
         /\ fault' = fault
      \/ /\ nextWaiter[waiters[c]] # waiters[c]
         /\ \E prev \in Queued(c) :
              /\ nextWaiter[prev] = t
              /\ nextWaiter' = [nextWaiter EXCEPT ![prev] = nextWaiter[t], ![t] = NIL]
              /\ waiters' = [waiters EXCEPT ![c] = TailWithout(c, t, prev)]
         /\ fault' = fault
  BY <1>1, <1>3 DEF Unlink, Check, Head
<1>6. SUFFICES ASSUME NEW prev \in Queued(c),
                      fault' = fault,
                      \/ /\ Queued(c) = {t}
                         /\ waiters' = [waiters EXCEPT ![c] = NIL]
                         /\ nextWaiter' = [nextWaiter EXCEPT ![t] = NIL]
                      \/ /\ nextWaiter[prev] = t /\ prev # t
                         /\ nextWaiter' = [nextWaiter EXCEPT ![prev] = nextWaiter[t],
                                                             ![t] = NIL]
                         /\ waiters' = [waiters EXCEPT ![c] = TailWithout(c, t, prev)]
               PROVE  /\ fault' = fault
                      /\ nextWaiter' \in Links
                      /\ waiters' \in [Object -> Thread \union {NIL}]
                      /\ nextWaiter'[t] = NIL
                      /\ \A u \in Thread \ {t} :
                           nextWaiter'[u] = NIL <=> nextWaiter[u] = NIL
                      /\ \A s \in Thread : Flight(s)' = Flight(s)
                      /\ Queued(c)' = Queued(c) \ {t}
                      /\ \A o \in Object \ {c} : Queued(o)' = Queued(o)
                      /\ Rings'
  <2>1. ASSUME nextWaiter[waiters[c]] # waiters[c],
               NEW prev \in Queued(c), nextWaiter[prev] = t
        PROVE  prev # t
    BY <2>1, <1>1, <1>2, CycleAlone
  <2> QED  BY <2>1, <1>1, <1>5
<1>7. /\ nextWaiter' \in Links
      /\ waiters' \in [Object -> Thread \union {NIL}]
      /\ nextWaiter'[t] = NIL
      /\ \A u \in Thread \ {t, prev} : nextWaiter'[u] = nextWaiter[u]
      /\ \A o \in Object \ {c} : waiters'[o] = waiters[o]
  BY <1>0, <1>2, <1>4, <1>6, <1>1 DEF Links, TailWithout
<1>8. \A u \in Thread \ {t} : nextWaiter'[u] = NIL <=> nextWaiter[u] = NIL
  BY <1>0, <1>1, <1>4, <1>6, NilIsNothing
<1>9. ASSUME NEW s \in Thread  PROVE Flight(s)' = Flight(s)
  <2>1. CASE s = t
    BY <2>1, FlightNone
  <2>2. CASE s # t
    <3>1. prev \notin Flight(s) /\ t \notin Flight(s) /\ Flight(s) \subseteq Thread
      BY <1>1, FlightWaits
    <3> QED  BY <2>2, <3>1, <1>7, FlightSame DEF Only
  <2> QED  BY <2>1, <2>2
<1>10. Queued(c)' = Queued(c) \ {t}
  <2>1. c # NIL
    BY NilIsNothing
  <2>2. \A x \in Thread : waitingOn'[x] = c <=> waitingOn[x] = c /\ x # t
    BY <2>1, <1>0
  <2> QED  BY <2>2, <1>9 DEF Queued, InFlight
<1>11. ASSUME NEW o \in Object \ {c}  PROVE Queued(o)' = Queued(o)
  <2>1. o # NIL
    BY NilIsNothing
  <2>2. \A x \in Thread : waitingOn'[x] = o <=> waitingOn[x] = o
    BY <2>1, <1>0, <1>3
  <2> QED  BY <2>2, <1>9, QueuedSame
<1>12. RingOK(c)'
  <2>1. CASE Queued(c) = {t}
    <3>1. waiters[c] = t /\ prev = t
      BY <2>1, <1>2
    <3>2. waiters'[c] = NIL
      BY <3>1, <1>0, <1>6
    <3> QED  BY <3>2, <2>1, <1>10 DEF RingOK
  <2>2. CASE Queued(c) # {t}
    <3>1. /\ nextWaiter[prev] = t /\ prev # t
          /\ nextWaiter'[prev] = nextWaiter[t]
          /\ waiters'[c] = TailWithout(c, t, prev)
      BY <2>2, <1>0, <1>4, <1>6
    <3>2. waiters'[c] \in Queued(c) \ {t} /\ waiters'[c] # NIL
      BY <3>1, <1>2, <1>4, NilIsNothing DEF TailWithout
    <3>3. \A x \in Queued(c) \ {prev, t} : nextWaiter'[x] = nextWaiter[x]
      BY <1>4, <1>7
    <3>4. Cycle(nextWaiter', Queued(c) \ {t})
      BY <3>1, <3>3, <1>2, CycleRemove
    <3> QED  BY <3>2, <3>4, <1>10 DEF RingOK
  <2> QED  BY <2>1, <2>2
<1>13. ASSUME NEW o \in Object \ {c}  PROVE RingOK(o)'
  <2>1. RingOK(o)
    BY DEF Sound, Rings
  <2>2. \A x \in Queued(o) : x \in Thread /\ x # t /\ x # prev
    BY <1>1 DEF Queued
  <2> QED  BY <2>1, <2>2, <1>7, <1>11, RingSame
<1> QED  BY <1>6, <1>7, <1>8, <1>9, <1>10, <1>11, <1>12, <1>13 DEF Rings

-----------------------------------------------------------------------------
(* Updates of the local variables of a thread.                             *)

\* What the procedures assign to their variables has the declared types.
LEMMA LocalUpdates ==
  ASSUME NEW l \in Locals
  PROVE  /\ \A m \in Mutex \union {NIL} : [l EXCEPT !.m = m] \in Locals
         /\ \A u \in Thread \union {NIL} : [l EXCEPT !.t = u] \in Locals
         /\ \A m \in Mutex \union {NIL}, u \in Thread \union {NIL} :
              [l EXCEPT !.m = m, !.t = u] \in Locals
         /\ \A u, v \in Thread \union {NIL} :
              [l EXCEPT !.t = u, !.start = v] \in Locals
         /\ \A b \in BOOLEAN : [l EXCEPT !.raising = b] \in Locals
         /\ \A b \in BOOLEAN : [l EXCEPT !.alertable = b] \in Locals
BY DEF Locals

\* So have the variables of a procedure that has not started.
LEMMA NoLocalTyped == NoLocal \in Locals
BY DEF NoLocal, Locals

-----------------------------------------------------------------------------
(* Every step preserves the invariant, one lemma for each action.          *)

Safe == Sound /\ MutualExclusion /\ fault = "none"

\* What s will find has not been disturbed.
LEMMA FlightOKSame ==
  ASSUME Sound, NEW s \in Thread, pc'[s] = pc[s], local'[s] = local[s],
         Flight(s)' = Flight(s),
         \A u \in Flight(s) : nextWaiter'[u] = nextWaiter[u] /\ waitingOn'[u] = waitingOn[u],
         pc[s] = "Grant" => holder'[local[s].m] = holder[local[s].m]
  PROVE  FlightOK(s)'
<1>1. FlightOK(s)
  BY DEF Sound, Flights
<1>2. CASE pc[s] = "WakeAll"
  <2>1. pc'[s] = "WakeAll"
    BY <1>2
  <2>2. Remainder(nextWaiter, Flight(s), local[s].t, local[s].start)
    BY <1>1, <1>2 DEF FlightOK
  <2>3. Remainder(nextWaiter', Flight(s), local[s].t, local[s].start)
    BY <2>2 DEF Remainder
  <2> QED  BY <1>1, <1>2, <2>1, <2>3 DEF FlightOK
<1>3. CASE pc[s] \in {"Grant", "Wake"}
  <2>1. Flight(s) = {local[s].t}
    BY <1>3 DEF Flight
  <2> QED  BY <1>1, <1>3, <2>1 DEF FlightOK
<1>4. CASE pc[s] \notin InSecondSection
  BY <1>4 DEF FlightOK, InSecondSection
<1> QED  BY <1>2, <1>3, <1>4 DEF InSecondSection

\* The holder of a mutex that is being granted is parked in LockMutex.
LEMMA GrantedHolder ==
  ASSUME Safe, NEW s \in Thread, pc[s] = "Grant"
  PROVE  /\ holder[local[s].m] \in Thread
         /\ pc[holder[local[s].m]] = "LockWait"
<1>1. FlightOK(s) /\ Place(s)
  BY DEF Safe, Sound, Flights, Places
<1>2. local[s].t \in Thread /\ waitingOn[local[s].t] = local[s].m
      /\ holder[local[s].m] = local[s].t /\ local[s].m \in Mutex
  BY <1>1 DEF FlightOK, Place
<1>3. Place(local[s].t)
  BY <1>2 DEF Safe, Sound, Places
<1>4. local[local[s].t].c \in Condition \union {NIL}
  BY <1>2 DEF Safe, Sound, TypeOK, Locals
<1> QED
  BY <1>2, <1>3, <1>4, NilIsNothing, ObjectsDistinct DEF Place, Object

\* Acquire and m.acquire () in XWait.
LEMMA LockMutexStep ==
  ASSUME Safe, NEW t \in Thread, NEW m \in Mutex, LockMutex(t, m),
         pc[t] \in {"Ready", "Lock"}, m \notin LL[t], alerted' = alerted
  PROVE  Safe'
<1>0. /\ TypeOK /\ Places /\ Holders /\ Flights /\ Rings /\ Sound
      /\ MutualExclusion /\ fault = "none"
  BY DEF Safe, Sound
<1>1. /\ waitingOn[t] = NIL /\ nextWaiter[t] = NIL /\ holder[m] # t
      /\ pc[t] \notin InSecondSection
  BY <1>0 DEF Places, Place, Holders, Holding, InSecondSection
<1>t. m # NIL /\ m \in Object /\ NIL \notin Thread
  BY NilIsNothing DEF Object
<1>2. CASE holder[m] = NIL
  <2>1. /\ holder' = [holder EXCEPT ![m] = t]
        /\ LL' = [LL EXCEPT ![t] = @ \union {m}]
        /\ pc' = [pc EXCEPT ![t] = "Ready"]
        /\ local' = [local EXCEPT ![t] = NoLocal]
        /\ UNCHANGED <<waiters, waitingOn, nextWaiter, parked, fault>>
    BY <1>2 DEF LockMutex, Return, Go
  <2>2. TypeOK'
    BY <1>0, <2>1, NoLocalTyped DEF TypeOK, Labels
  <2>3. Only(t) /\ pc'[t] \notin InSecondSection
    BY <1>0, <2>1 DEF TypeOK, Only, Labels, InSecondSection
  <2>4. /\ \A s \in Thread : Flight(s)' = Flight(s)
        /\ \A o \in Object : Queued(o)' = Queued(o)
        /\ Rings'
    BY <1>0, <1>1, <2>1, <2>3, QuietStep
  <2>5. Places'
    BY <1>0, <1>1, <2>1 DEF TypeOK, Places, Place, NoLocal
  <2>6. MutualExclusion'
    BY <1>0, <1>2, <1>t, <2>1 DEF TypeOK, MutualExclusion
  <2>7. Holders'
    <3>1. ASSUME NEW s \in Thread  PROVE Holding(s)'
      <4>1. CASE s = t
        BY <4>1, <1>0, <1>2, <2>1 DEF TypeOK, Holders, Holding, Outside, NoLocal
      <4>2. CASE s # t
        <5>1. pc'[s] = pc[s] /\ local'[s] = local[s] /\ LL'[s] = LL[s]
              /\ waitingOn' = waitingOn
          BY <4>2, <1>0, <2>1 DEF TypeOK
        <5>2. \A k \in Mutex : holder'[k] = s <=> holder[k] = s
          BY <4>2, <1>0, <1>2, <1>t, <2>1 DEF TypeOK
        <5>3. Holding(s) /\ Place(s)
          BY <1>0 DEF Holders, Places
        <5> QED  BY <5>1, <5>2, <5>3 DEF Holding, Outside, Place
      <4> QED  BY <4>1, <4>2
    <3>2. ASSUME NEW k \in Mutex, Queued(k)' # {}
          PROVE  holder'[k] \notin Queued(k)' \union {NIL}
      <4>1. k \in Object /\ Queued(k)' = Queued(k)
        BY <2>4 DEF Object
      <4>2. holder[k] \notin Queued(k) \union {NIL}
        BY <1>0, <3>2, <4>1 DEF Holders
      <4> QED  BY <1>0, <1>2, <2>1, <4>1, <4>2 DEF TypeOK
    <3> QED  BY <3>1, <3>2 DEF Holders
  <2>8. Flights'
    <3>1. ASSUME NEW s \in Thread  PROVE FlightOK(s)'
      <4>1. CASE s = t
        BY <4>1, <2>3 DEF FlightOK, InSecondSection
      <4>2. CASE s # t
        <5>1. pc[s] = "Grant" => holder'[local[s].m] = holder[local[s].m]
          BY <1>2, <1>t, <1>0, <2>1, GrantedHolder DEF TypeOK
        <5> QED  BY <4>2, <5>1, <1>0, <2>1, <2>3, <2>4, FlightOKSame DEF Only
      <4> QED  BY <4>1, <4>2
    <3> QED  BY <3>1, <2>4, <1>0 DEF Flights
  <2> QED  BY <1>0, <2>1, <2>2, <2>4, <2>5, <2>6, <2>7, <2>8 DEF Safe, Sound
<1>3. CASE holder[m] # NIL
  <2>1. /\ Enqueue(m, t)
        /\ parked' = parked \union {t}
        /\ pc' = [pc EXCEPT ![t] = "LockWait"]
        /\ local' = [local EXCEPT ![t].m = m]
        /\ fault' = fault
        /\ UNCHANGED <<holder, LL>>
    BY <1>1, <1>3 DEF LockMutex, Check, Go
  <2>2. Only(t) /\ pc'[t] \notin InSecondSection
    BY <1>0, <2>1 DEF TypeOK, Only, Labels, InSecondSection
  <2>3. /\ nextWaiter' \in Links
        /\ nextWaiter'[t] # NIL
        /\ \A u \in Thread \ {t} : nextWaiter'[u] = NIL <=> nextWaiter[u] = NIL
        /\ \A s \in Thread : Flight(s)' = Flight(s)
        /\ Queued(m)' = Queued(m) \union {t}
        /\ \A p \in Object \ {m} : Queued(p)' = Queued(p)
        /\ Rings'
    BY <1>0, <1>1, <1>t, <2>1, <2>2, EnqueueStep
  <2>4. /\ waitingOn' = [waitingOn EXCEPT ![t] = m]
        /\ waiters' = [waiters EXCEPT ![m] = t]
    BY <2>1 DEF Enqueue
  <2>5. TypeOK'
    <3>1. [local[t] EXCEPT !.m = m] \in Locals
      BY <1>0, LocalUpdates DEF TypeOK
    <3>2. local' \in [Thread -> Locals]
      BY <1>0, <2>1, <3>1 DEF TypeOK
    <3> QED
      BY <1>0, <1>t, <2>1, <2>3, <2>4, <3>2 DEF TypeOK, Labels, Links
  <2>6. Places'
    <3>1. Place(t)'
      BY <1>0, <1>t, <2>1, <2>3, <2>4 DEF TypeOK, Place
    <3>2. ASSUME NEW s \in Thread \ {t}  PROVE Place(s)'
      <4>1. Place(s)
        BY <1>0 DEF Places
      <4> QED  BY <4>1, <1>0, <2>2, <2>3, <2>4 DEF TypeOK, Place, Only
    <3> QED  BY <3>1, <3>2 DEF Places
  <2>7. MutualExclusion'
    BY <1>0, <2>1 DEF MutualExclusion
  <2>8. Holders'
    <3>1. ASSUME NEW s \in Thread  PROVE Holding(s)'
      <4>1. Holding(s)
        BY <1>0 DEF Holders
      <4>2. CASE s = t
        BY <4>1, <4>2, <1>0, <1>1, <1>t, <2>1, <2>4 DEF TypeOK, Holding, Outside
      <4>3. CASE s # t
        BY <4>1, <4>3, <1>0, <2>1, <2>2, <2>4 DEF TypeOK, Holding, Outside, Only
      <4> QED  BY <4>2, <4>3
    <3>2. ASSUME NEW k \in Mutex, Queued(k)' # {}
          PROVE  holder'[k] \notin Queued(k)' \union {NIL}
      <4>1. k \in Object
        BY DEF Object
      <4>2. CASE k = m
        BY <4>2, <1>0, <1>1, <1>3, <2>1, <2>3 DEF Holders
      <4>3. CASE k # m
        BY <4>1, <4>3, <1>0, <2>1, <2>3, <3>2 DEF Holders
      <4> QED  BY <4>2, <4>3
    <3> QED  BY <3>1, <3>2 DEF Holders
  <2>9. Flights'
    <3>1. ASSUME NEW s \in Thread  PROVE FlightOK(s)'
      <4>1. CASE s = t
        BY <4>1, <2>2 DEF FlightOK, InSecondSection
      <4>2. CASE s # t
        <5>0. Flight(s) \subseteq Thread /\ t \notin Flight(s)
              /\ waiters[m] \notin Flight(s)
          BY <1>0, <1>1, <1>t, <2>3, FlightWaits DEF Rings, RingOK
        <5>1. \A u \in Flight(s) :
                nextWaiter'[u] = nextWaiter[u] /\ waitingOn'[u] = waitingOn[u]
          BY <5>0, <1>0, <2>1 DEF TypeOK, Enqueue
        <5> QED  BY <4>2, <5>1, <1>0, <2>1, <2>2, <2>3, FlightOKSame DEF Only
      <4> QED  BY <4>1, <4>2
    <3> QED  BY <3>1, <2>3, <1>0 DEF Flights
  <2> QED  BY <1>0, <2>1, <2>3, <2>5, <2>6, <2>7, <2>8, <2>9 DEF Safe, Sound
<1> QED  BY <1>2, <1>3

\* LockMutex returns: the thread holds the mutex it was handed.
LEMMA LockWakeStep ==
  ASSUME Safe, NEW t \in Thread, LockWake(t)
  PROVE  Safe'
<1>0. /\ TypeOK /\ Places /\ Holders /\ Flights /\ Rings /\ Sound
      /\ MutualExclusion /\ fault = "none"
  BY DEF Safe, Sound
<1>1. /\ pc[t] = "LockWait" /\ pc[t] \notin InSecondSection
      /\ UNCHANGED <<holder, waiters, waitingOn, nextWaiter, alerted>>
  BY DEF LockWake, InSecondSection
<1>2. CASE ~OffList(t)
  <2>1. parked' = parked \union {t} /\ UNCHANGED <<pc, local, LL, fault>>
    BY <1>2 DEF LockWake
  <2>2. Only(t) /\ pc'[t] \notin InSecondSection
    BY <1>0, <1>1, <2>1 DEF Only, TypeOK
  <2>3. (\A s \in Thread : Flight(s)' = Flight(s)) /\ Rings'
        /\ \A o \in Object : Queued(o)' = Queued(o)
    BY <1>0, <1>1, <2>2, QuietStep
  <2>4. TypeOK' /\ Places' /\ MutualExclusion'
    BY <1>0, <1>1, <2>1 DEF TypeOK, Places, Place, MutualExclusion
  <2>5. Holders'
    <3>1. \A s \in Thread : Holding(s)'
      BY <1>0, <1>1, <2>1 DEF Holders, Holding, Outside
    <3>2. \A m \in Mutex : Queued(m)' = Queued(m)
      BY <2>3 DEF Object
    <3> QED  BY <1>0, <1>1, <3>1, <3>2 DEF Holders
  <2>6. Flights'
    <3>1. \A s \in Thread : FlightOK(s)'
      BY <1>0, <1>1, <2>1, <2>3, FlightOKSame
    <3> QED  BY <1>0, <2>3, <3>1 DEF Flights
  <2> QED  BY <1>0, <2>1, <2>3, <2>4, <2>5, <2>6 DEF Safe, Sound
<1>3. CASE OffList(t)
  <2> DEFINE m == local[t].m
  <2>1. /\ m \in Mutex /\ holder[m] = t /\ nextWaiter[t] = NIL /\ waitingOn[t] = NIL
    BY <1>0, <1>1, <1>3 DEF OffList, Places, Place, Holders, Holding
  <2>2. /\ LL' = [LL EXCEPT ![t] = @ \union {m}]
        /\ pc' = [pc EXCEPT ![t] = "Ready"]
        /\ local' = [local EXCEPT ![t] = NoLocal]
        /\ UNCHANGED <<parked, fault>>
    BY <1>3, <2>1 DEF LockWake, Check, Return, Go
  <2> HIDE DEF m
  <2>3. Only(t) /\ pc'[t] \notin InSecondSection
    BY <1>0, <2>2 DEF Only, TypeOK, Labels, InSecondSection
  <2>4. (\A s \in Thread : Flight(s)' = Flight(s)) /\ Rings'
        /\ \A o \in Object : Queued(o)' = Queued(o)
    BY <1>0, <1>1, <2>3, QuietStep
  <2>5. TypeOK'
    BY <1>0, <1>1, <2>1, <2>2, NoLocalTyped DEF TypeOK, Labels
  <2>6. Places'
    BY <1>0, <1>1, <2>1, <2>2 DEF TypeOK, Places, Place, NoLocal
  <2>7. MutualExclusion'
    BY <1>0, <1>1, <2>1, <2>2 DEF TypeOK, MutualExclusion
  <2>8. Holders'
    <3>1. ASSUME NEW s \in Thread  PROVE Holding(s)'
      <4>0. Holding(s)
        BY <1>0 DEF Holders
      <4>1. CASE s = t
        BY <4>0, <4>1, <1>0, <1>1, <2>1, <2>2
        DEF TypeOK, Holding, Outside, NoLocal, m
      <4>2. CASE s # t
        BY <4>0, <4>2, <1>0, <1>1, <2>2, <2>3 DEF TypeOK, Holding, Outside, Only
      <4> QED  BY <4>1, <4>2
    <3>2. \A k \in Mutex : Queued(k)' = Queued(k)
      BY <2>4 DEF Object
    <3> QED  BY <1>0, <1>1, <3>1, <3>2 DEF Holders
  <2>9. Flights'
    <3>1. ASSUME NEW s \in Thread  PROVE FlightOK(s)'
      <4>1. CASE s = t
        BY <4>1, <2>3 DEF FlightOK, InSecondSection
      <4>2. CASE s # t
        BY <4>2, <1>0, <1>1, <2>3, <2>4, FlightOKSame DEF Only
      <4> QED  BY <4>1, <4>2
    <3> QED  BY <1>0, <2>4, <3>1 DEF Flights
  <2> QED  BY <1>0, <2>2, <2>4, <2>5, <2>6, <2>7, <2>8, <2>9 DEF Safe, Sound
<1> QED  BY <1>2, <1>3

\* Release and m.release () in XWait.
LEMMA UnlockMutexStep ==
  ASSUME Safe, NEW t \in Thread, NEW m \in Mutex, UnlockMutex(t, m),
         \/ pc[t] = "Ready" /\ m \in LL[t]
         \/ pc[t] = "Unlock" /\ m = local[t].m
  PROVE  Safe'
<1>0. /\ TypeOK /\ Places /\ Holders /\ Flights /\ Rings /\ Sound
      /\ MutualExclusion /\ fault = "none"
  BY DEF Safe, Sound
<1>t. m # NIL /\ m \in Object /\ NIL \notin Thread
  BY NilIsNothing DEF Object
<1>1. holder[m] = t /\ pc[t] \notin InSecondSection /\ Place(t) /\ Holding(t)
  BY <1>0 DEF Places, Holders, Holding, MutualExclusion, InSecondSection
<1>2. /\ fault' = fault
      /\ LL' = [LL EXCEPT ![t] = @ \ {m}]
      /\ holder' = [holder EXCEPT ![m] = Successor(m)]
      /\ UNCHANGED <<waitingOn, alerted, parked>>
  BY <1>1 DEF UnlockMutex, Check
<1>3. \A s \in Thread : pc[s] = "Grant" => local[s].m # m
  <2>1. pc[t] # "LockWait"
    OBVIOUS
  <2> QED  BY <1>1, <2>1, GrantedHolder
<1>4. MutualExclusion'
  BY <1>0, <1>1, <1>2 DEF TypeOK, MutualExclusion
<1>5. CASE waiters[m] = NIL
  <2>1. /\ holder' = [holder EXCEPT ![m] = NIL]
        /\ pc' = [pc EXCEPT ![t] = AfterUnlock(t)]
        /\ UNCHANGED <<waiters, nextWaiter, local>>
    BY <1>2, <1>5 DEF UnlockMutex, Successor, Go
  <2>a. /\ pc[t] = "Ready" => AfterUnlock(t) = "Ready"
        /\ pc[t] = "Unlock" => AfterUnlock(t) = "Waiting"
    BY <1>1, NilIsNothing DEF AfterUnlock, Place, Object
  <2>2. Only(t) /\ pc'[t] \notin InSecondSection
    BY <1>0, <2>1, <2>a DEF Only, TypeOK, Labels, InSecondSection
  <2>3. (\A s \in Thread : Flight(s)' = Flight(s)) /\ Rings'
        /\ \A o \in Object : Queued(o)' = Queued(o)
    BY <1>0, <1>1, <1>2, <2>1, <2>2, QuietStep
  <2>4. TypeOK'
    BY <1>0, <1>2, <2>1, <2>a DEF TypeOK, Labels
  <2>5. Places'
    <3>1. Place(t)'
      BY <1>0, <1>1, <1>2, <2>1, <2>a DEF TypeOK, Place
    <3>2. ASSUME NEW s \in Thread \ {t}  PROVE Place(s)'
      BY <1>0, <1>2, <2>1, <2>2 DEF TypeOK, Places, Place, Only
    <3> QED  BY <3>1, <3>2 DEF Places
  <2>6. Holders'
    <3>1. ASSUME NEW s \in Thread  PROVE Holding(s)'
      <4>0. Holding(s)
        BY <1>0 DEF Holders
      <4>1. CASE s = t
        BY <4>0, <4>1, <1>0, <1>1, <1>2, <1>t, <2>1, <2>a
        DEF TypeOK, Holding, Outside, Place
      <4>2. CASE s # t
        <5>1. \A k \in Mutex : holder'[k] = s <=> holder[k] = s
          BY <4>2, <1>0, <1>1, <1>t, <2>1 DEF TypeOK
        <5>2. Place(s)
          BY <1>0 DEF Places
        <5> QED
          BY <4>0, <4>2, <5>1, <5>2, <1>0, <1>2, <2>1, <2>2
          DEF TypeOK, Holding, Outside, Only, Place
      <4> QED  BY <4>1, <4>2
    <3>2. ASSUME NEW k \in Mutex, Queued(k)' # {}
          PROVE  holder'[k] \notin Queued(k)' \union {NIL}
      <4>1. k \in Object /\ Queued(k)' = Queued(k)
        BY <2>3 DEF Object
      <4>2. k # m
        BY <1>0, <1>5, <1>t, <3>2, <4>1 DEF Rings, RingOK
      <4> QED  BY <1>0, <2>1, <3>2, <4>1, <4>2 DEF TypeOK, Holders
    <3> QED  BY <3>1, <3>2 DEF Holders
  <2>7. Flights'
    <3>1. ASSUME NEW s \in Thread  PROVE FlightOK(s)'
      <4>1. CASE s = t
        BY <4>1, <2>2 DEF FlightOK, InSecondSection
      <4>2. CASE s # t
        <5>1. pc[s] = "Grant" => holder'[local[s].m] = holder[local[s].m]
          BY <1>0, <1>3, <2>1 DEF TypeOK
        <5> QED  BY <4>2, <5>1, <1>0, <1>2, <2>1, <2>2, <2>3, FlightOKSame DEF Only
      <4> QED  BY <4>1, <4>2
    <3> QED  BY <1>0, <2>3, <3>1 DEF Flights
  <2> QED  BY <1>0, <1>2, <1>4, <2>3, <2>4, <2>5, <2>6, <2>7 DEF Safe, Sound
<1>6. CASE waiters[m] # NIL
  <2> DEFINE h == Head(m)
  <2>1. /\ holder' = [holder EXCEPT ![m] = h]
        /\ Dequeue(m)
        /\ local' = [local EXCEPT ![t].m = m, ![t].t = h]
        /\ pc' = [pc EXCEPT ![t] = "Grant"]
    BY <1>2, <1>6 DEF UnlockMutex, Successor, Go
  <2> HIDE DEF h
  <2>a. h \in Thread \union {NIL}
    BY <1>0, <1>6, <1>t DEF h, Head, TypeOK
  <2>b. /\ local'[t].m = m /\ local'[t].t = h /\ local'[t].c = local[t].c
        /\ local' \in [Thread -> Locals]
    <3>1. [local[t] EXCEPT !.m = m, !.t = h] \in Locals
      BY <1>0, <2>a, LocalUpdates DEF TypeOK
    <3>2. local' = [local EXCEPT ![t] = [local[t] EXCEPT !.m = m, !.t = h]]
      BY <2>1, <1>0 DEF TypeOK
    <3>3. local'[t] = [local[t] EXCEPT !.m = m, !.t = h] /\ local[t] \in Locals
      BY <1>0, <3>2 DEF TypeOK
    <3> QED  BY <1>0, <3>1, <3>2, <3>3 DEF TypeOK, Locals
  <2>2. Only(t) /\ pc'[t] = "Grant"
    BY <1>0, <2>1 DEF Only, TypeOK, Labels
  <2>3. /\ h \in Queued(m)
        /\ nextWaiter' \in Links
        /\ \A u \in Thread : nextWaiter'[u] = NIL <=> nextWaiter[u] = NIL
        /\ \A s \in Thread \ {t} : Flight(s)' = Flight(s)
        /\ Flight(t) = {} /\ Flight(t)' = {h}
        /\ Queued(m)' = Queued(m) \ {h}
        /\ \A p \in Object \ {m} : Queued(p)' = Queued(p)
        /\ Rings'
    BY <1>0, <1>1, <1>2, <1>6, <1>t, <2>1, <2>2, <2>b, DequeueStep DEF h
  <2>4. h \in Thread /\ waitingOn[h] = m /\ h # t
    <3>1. holder[m] \notin Queued(m)
      BY <1>0, <2>3 DEF Holders
    <3> QED  BY <1>1, <2>3, <3>1 DEF Queued
  <2>5. pc[h] = "LockWait" /\ local[h].m = m
    <3>1. Place(h) /\ local[h].c \in Condition \union {NIL}
      BY <1>0, <2>4 DEF Places, TypeOK, Locals
    <3> QED  BY <2>4, <3>1, <1>t, ObjectsDistinct DEF Place
  <2>6. TypeOK'
    <3>1. waiters' \in [Object -> Thread \union {NIL}]
      BY <1>0, <2>1 DEF TypeOK, Dequeue
    <3> QED  BY <1>0, <1>2, <2>1, <2>3, <2>4, <2>b, <3>1 DEF TypeOK, Labels, Links
  <2>7. Places'
    <3>1. Place(t)'
      BY <1>0, <1>1, <1>2, <2>2, <2>3, <2>b DEF Place
    <3>2. ASSUME NEW s \in Thread \ {t}  PROVE Place(s)'
      BY <1>0, <1>2, <2>2, <2>3 DEF Places, Place, Only
    <3> QED  BY <3>1, <3>2 DEF Places
  <2>8. Holders'
    <3>1. ASSUME NEW s \in Thread  PROVE Holding(s)'
      <4>0. Holding(s) /\ Place(s)
        BY <1>0 DEF Holders, Places
      <4>1. CASE s = t
        <5>1. \A k \in Mutex : holder'[k] = t => k # m /\ holder[k] = t
          BY <1>0, <2>1, <2>4 DEF TypeOK
        <5>2. m \notin LL'[t] /\ \A k \in Mutex \ {m} : k \in LL'[t] <=> k \in LL[t]
          BY <1>0, <1>2 DEF TypeOK
        <5> QED  BY <4>0, <4>1, <5>1, <5>2, <2>2, <2>b DEF Holding, Outside
      <4>2. CASE s # t
        <5>1. LL'[s] = LL[s] /\ pc'[s] = pc[s] /\ local'[s] = local[s]
              /\ waitingOn'[s] = waitingOn[s]
          BY <4>2, <1>0, <1>2, <2>2 DEF TypeOK, Only
        <5>2. \A k \in Mutex : holder'[k] = s => holder[k] = s \/ (k = m /\ s = h)
          BY <1>0, <2>1 DEF TypeOK
        <5>3. \A k \in Mutex : holder[k] = s => holder'[k] = s
          BY <4>2, <1>0, <1>1, <2>1 DEF TypeOK
        <5> QED
          BY <4>0, <5>1, <5>2, <5>3, <2>5 DEF Holding, Outside, Place
      <4> QED  BY <4>1, <4>2
    <3>2. ASSUME NEW k \in Mutex, Queued(k)' # {}
          PROVE  holder'[k] \notin Queued(k)' \union {NIL}
      <4>1. k \in Object
        BY DEF Object
      <4>2. CASE k = m
        BY <4>2, <1>0, <1>t, <2>1, <2>3, <2>4 DEF TypeOK
      <4>3. CASE k # m
        BY <4>1, <4>3, <1>0, <2>1, <2>3, <3>2 DEF TypeOK, Holders
      <4> QED  BY <4>2, <4>3
    <3> QED  BY <3>1, <3>2 DEF Holders
  <2>9. Flights'
    <3>1. FlightOK(t)'
      <4>1. holder'[m] = h /\ waitingOn'[h] = m
        BY <1>0, <1>2, <2>1, <2>4 DEF TypeOK
      <4> QED  BY <4>1, <2>2, <2>4, <2>b DEF FlightOK
    <3>2. ASSUME NEW s \in Thread \ {t}  PROVE FlightOK(s)'
      <4>1. pc[s] = "Grant" => holder'[local[s].m] = holder[local[s].m]
        BY <1>0, <1>3, <2>1 DEF TypeOK
      <4>2. Flight(s) \subseteq Thread /\ waiters[m] \notin Flight(s)
        BY <1>0, <1>6, <1>t, FlightWaits DEF Rings, RingOK
      <4>3. \A u \in Flight(s) : nextWaiter'[u] = nextWaiter[u]
        BY <4>2, <1>0, <2>1 DEF TypeOK, Dequeue
      <4> QED  BY <4>1, <4>3, <1>0, <1>2, <2>2, <2>3, FlightOKSame DEF Only
    <3>3. ASSUME NEW s \in Thread \ {t}
          PROVE  Flight(s)' \intersect Flight(t)' = {}
      <4>1. h \notin Flight(s)
        BY <1>0, <1>t, <2>3, FlightWaits
      <4> QED  BY <4>1, <2>3
    <3> QED  BY <1>0, <2>3, <3>1, <3>2, <3>3 DEF Flights
  <2> QED  BY <1>0, <1>2, <1>4, <2>3, <2>6, <2>7, <2>8, <2>9 DEF Safe, Sound
<1> QED  BY <1>5, <1>6

\* The new holder is told.
LEMMA GrantStep ==
  ASSUME Safe, NEW t \in Thread, Grant(t)
  PROVE  Safe'
<1>0. /\ TypeOK /\ Places /\ Holders /\ Flights /\ Rings /\ Sound
      /\ MutualExclusion /\ fault = "none"
  BY DEF Safe, Sound
<1> DEFINE u == local[t].t
           m == local[t].m
<1>1. /\ pc[t] = "Grant" /\ Place(t) /\ Holding(t)
      /\ u \in Thread /\ waitingOn[u] = m /\ holder[m] = u /\ m \in Mutex
  BY <1>0 DEF Grant, Flights, FlightOK, Places, Place, Holders
<1>2. /\ fault' = fault
      /\ WakeUp(u)
      /\ pc' = [pc EXCEPT ![t] = AfterUnlock(t)]
      /\ local' = [local EXCEPT ![t] =
                     IF local[t].c = NIL THEN NoLocal ELSE [local[t] EXCEPT !.t = NIL]]
      /\ UNCHANGED <<holder, waiters, alerted, LL>>
  BY <1>0, <1>1 DEF Grant, Check, Go, TypeOK
<1>3. Flight(t) = {u}
  BY <1>1 DEF Flight
<1> HIDE DEF u, m
<1>4. pc[u] = "LockWait" /\ local[u].m = m /\ u # t
  <2>1. Place(u) /\ local[u].c \in Condition \union {NIL}
    BY <1>0, <1>1 DEF Places, TypeOK, Locals
  <2> QED  BY <1>1, <2>1, NilIsNothing, ObjectsDistinct DEF Place, Object
<1>5. AfterUnlock(t) = IF local[t].c = NIL THEN "Ready" ELSE "Waiting"
  BY DEF AfterUnlock
<1>6. /\ local' \in [Thread -> Locals]
      /\ local[t].c = NIL => local'[t].c = NIL
      /\ local[t].c # NIL => local'[t].c = local[t].c /\ local'[t].m = local[t].m
  <2>0. local[t] \in Locals
    BY <1>0 DEF TypeOK
  <2>1. [local[t] EXCEPT !.t = NIL] \in Locals
    BY <2>0, LocalUpdates
  <2>2. local'[t] = IF local[t].c = NIL THEN NoLocal ELSE [local[t] EXCEPT !.t = NIL]
    BY <1>0, <1>2 DEF TypeOK
  <2>3. local' \in [Thread -> Locals]
    BY <1>0, <1>2, <2>1, NoLocalTyped DEF TypeOK
  <2>4. CASE local[t].c = NIL
    BY <2>2, <2>3, <2>4 DEF NoLocal
  <2>5. CASE local[t].c # NIL
    BY <2>0, <2>2, <2>3, <2>5 DEF Locals
  <2> QED  BY <2>3, <2>4, <2>5
<1>7. Only(t) /\ pc'[t] \notin InSecondSection /\ pc'[t] = AfterUnlock(t)
  BY <1>0, <1>2, <1>5 DEF Only, TypeOK, Labels, InSecondSection
<1>8. Flight(t)' = Flight(t) \ {u}
  BY <1>3, <1>7, FlightNone
<1>9. /\ waitingOn' = [waitingOn EXCEPT ![u] = NIL]
      /\ nextWaiter' = [nextWaiter EXCEPT ![u] = NIL]
      /\ nextWaiter' \in Links
      /\ \A s \in Thread \ {t} : Flight(s)' = Flight(s) /\ u \notin Flight(s)
      /\ \A o \in Object : Queued(o)' = Queued(o) /\ u \notin Queued(o)
      /\ Rings'
  BY <1>0, <1>2, <1>3, <1>7, <1>8, WakeStep
<1>10. TypeOK'
  <2>1. parked' \subseteq Thread
    BY <1>0, <1>2 DEF TypeOK, WakeUp, CondSignal
  <2> QED  BY <1>0, <1>2, <1>5, <1>6, <1>7, <1>9, <2>1 DEF TypeOK, Labels, Links
<1>11. Places'
  <2>1. Place(t)'
    BY <1>0, <1>1, <1>4, <1>5, <1>6, <1>7, <1>9 DEF TypeOK, Place, Locals
  <2>2. ASSUME NEW s \in Thread \ {t}  PROVE Place(s)'
    BY <1>0, <1>1, <1>7, <1>9 DEF TypeOK, Places, Place, Only
  <2> QED  BY <2>1, <2>2 DEF Places
<1>12. MutualExclusion'
  BY <1>0, <1>2 DEF MutualExclusion
<1>13. Holders'
  <2>1. ASSUME NEW s \in Thread  PROVE Holding(s)'
    <3>0. Holding(s)
      BY <1>0 DEF Holders
    <3>1. CASE s = t
      BY <3>0, <3>1, <1>1, <1>2, <1>5, <1>6, <1>7 DEF Holding, Outside
    <3>2. CASE s # t
      <4>1. pc'[s] = pc[s] /\ local'[s] = local[s]
        BY <3>2, <1>7 DEF Only
      <4>2. s # u => waitingOn'[s] = waitingOn[s]
        BY <1>0, <1>9 DEF TypeOK
      <4> QED  BY <3>0, <4>1, <4>2, <1>1, <1>2, <1>4 DEF Holding, Outside
    <3> QED  BY <3>1, <3>2
  <2>2. \A k \in Mutex : Queued(k)' = Queued(k)
    BY <1>9 DEF Object
  <2> QED  BY <1>0, <1>2, <2>1, <2>2 DEF Holders
<1>14. Flights'
  <2>1. FlightOK(t)'
    BY <1>7 DEF FlightOK, InSecondSection
  <2>2. ASSUME NEW s \in Thread \ {t}  PROVE FlightOK(s)'
    <3>1. \A x \in Flight(s) :
            nextWaiter'[x] = nextWaiter[x] /\ waitingOn'[x] = waitingOn[x]
      <4>1. Flight(s) \subseteq Thread
        BY <1>0, FlightWaits
      <4> QED  BY <4>1, <1>0, <1>9 DEF TypeOK
    <3> QED  BY <3>1, <1>0, <1>2, <1>7, <1>9, FlightOKSame DEF Only
  <2> QED  BY <2>1, <2>2, <1>0, <1>3, <1>8, <1>9 DEF Flights
<1> QED  BY <1>0, <1>2, <1>9, <1>10, <1>11, <1>12, <1>13, <1>14 DEF Safe, Sound

\* Wait and AlertWait: the thread queues on c and gives m up.
LEMMA XWaitStep ==
  ASSUME Safe, NEW t \in Thread, NEW m \in Mutex, NEW c \in Condition,
         NEW alertable \in BOOLEAN, XWait(t, m, c, alertable)
  PROVE  Safe'
<1>0. /\ TypeOK /\ Places /\ Holders /\ Flights /\ Rings /\ Sound
      /\ MutualExclusion /\ fault = "none"
  BY DEF Safe, Sound
<1>t. c # NIL /\ c \in Object /\ c \notin Mutex
  BY NilIsNothing, ObjectsDistinct DEF Object
<1>1. /\ pc[t] = "Ready" /\ m \in LL[t] /\ pc[t] \notin InSecondSection
      /\ waitingOn[t] = NIL /\ nextWaiter[t] = NIL /\ holder[m] = t
      /\ Place(t) /\ Holding(t)
  BY <1>0 DEF XWait, Places, Place, Holders, MutualExclusion, InSecondSection
<1>2. /\ fault' = fault
      /\ Enqueue(c, t)
      /\ LL' = [LL EXCEPT ![t] = @ \ {m}]
      /\ local' = [local EXCEPT ![t] = Arguments(m, c, alertable)]
      /\ pc' = [pc EXCEPT ![t] = "Unlock"]
      /\ UNCHANGED <<holder, alerted, parked>>
  BY <1>1 DEF XWait, Check, Go
<1>3. Only(t) /\ pc'[t] = "Unlock" /\ pc'[t] \notin InSecondSection
  BY <1>0, <1>2 DEF Only, TypeOK, Labels, InSecondSection
<1>4. /\ Arguments(m, c, alertable) \in Locals
      /\ Arguments(m, c, alertable).m = m
      /\ Arguments(m, c, alertable).c = c
  BY DEF Arguments, NoLocal, Locals
<1>5. /\ nextWaiter' \in Links
      /\ nextWaiter'[t] # NIL
      /\ \A u \in Thread \ {t} : nextWaiter'[u] = NIL <=> nextWaiter[u] = NIL
      /\ \A s \in Thread : Flight(s)' = Flight(s)
      /\ Queued(c)' = Queued(c) \union {t}
      /\ \A p \in Object \ {c} : Queued(p)' = Queued(p)
      /\ Rings'
  BY <1>0, <1>1, <1>t, <1>2, <1>3, EnqueueStep
<1>6. /\ waitingOn' = [waitingOn EXCEPT ![t] = c]
      /\ waiters' = [waiters EXCEPT ![c] = t]
  BY <1>2 DEF Enqueue
<1>7. local' \in [Thread -> Locals] /\ local'[t].m = m /\ local'[t].c = c
  BY <1>0, <1>2, <1>4 DEF TypeOK
<1>8. TypeOK'
  BY <1>0, <1>t, <1>2, <1>5, <1>6, <1>7 DEF TypeOK, Labels, Links
<1>9. Places'
  <2>1. Place(t)'
    BY <1>0, <1>t, <1>3, <1>5, <1>6, <1>7 DEF TypeOK, Place
  <2>2. ASSUME NEW s \in Thread \ {t}  PROVE Place(s)'
    BY <1>0, <1>3, <1>5, <1>6 DEF TypeOK, Places, Place, Only
  <2> QED  BY <2>1, <2>2 DEF Places
<1>10. MutualExclusion'
  BY <1>0, <1>2 DEF TypeOK, MutualExclusion
<1>11. Holders'
  <2>1. ASSUME NEW s \in Thread  PROVE Holding(s)'
    <3>0. Holding(s)
      BY <1>0 DEF Holders
    <3>1. CASE s = t
      BY <3>0, <3>1, <1>0, <1>1, <1>2, <1>3, <1>7 DEF TypeOK, Holding, Outside
    <3>2. CASE s # t
      BY <3>0, <3>2, <1>0, <1>2, <1>3, <1>6 DEF TypeOK, Holding, Outside, Only
    <3> QED  BY <3>1, <3>2
  <2>2. \A k \in Mutex : Queued(k)' = Queued(k)
    BY <1>5, <1>t DEF Object
  <2> QED  BY <1>0, <1>2, <2>1, <2>2 DEF Holders
<1>12. Flights'
  <2>1. FlightOK(t)'
    BY <1>3 DEF FlightOK, InSecondSection
  <2>2. ASSUME NEW s \in Thread \ {t}  PROVE FlightOK(s)'
    <3>0. Flight(s) \subseteq Thread /\ t \notin Flight(s) /\ waiters[c] \notin Flight(s)
      BY <1>0, <1>1, <1>t, <1>5, FlightWaits, NilIsNothing DEF Rings, RingOK
    <3>1. \A u \in Flight(s) :
            nextWaiter'[u] = nextWaiter[u] /\ waitingOn'[u] = waitingOn[u]
      BY <3>0, <1>0, <1>2 DEF TypeOK, Enqueue
    <3> QED  BY <3>1, <1>0, <1>2, <1>3, <1>5, FlightOKSame DEF Only
  <2> QED  BY <2>1, <2>2, <1>0, <1>5 DEF Flights
<1> QED  BY <1>0, <1>2, <1>5, <1>8, <1>9, <1>10, <1>11, <1>12 DEF Safe, Sound

\* A thread that is no longer on the list goes on to lock its mutex again.
LEMMA LeaveWait ==
  ASSUME Safe, NEW t \in Thread, pc[t] = "Waiting", waitingOn[t] = NIL,
         pc' = [pc EXCEPT ![t] = "Lock"],
         local' \in [Thread -> Locals], Only(t),
         local'[t].m = local[t].m, local'[t].c = local[t].c,
         alerted' \in [Thread -> BOOLEAN],
         UNCHANGED <<holder, waiters, waitingOn, nextWaiter, parked, LL, fault>>
  PROVE  Safe'
<1>0. /\ TypeOK /\ Places /\ Holders /\ Flights /\ Rings /\ Sound
      /\ MutualExclusion /\ fault = "none"
  BY DEF Safe, Sound
<1>1. pc'[t] = "Lock" /\ pc[t] \notin InSecondSection /\ pc'[t] \notin InSecondSection
  BY <1>0 DEF TypeOK, InSecondSection
<1>2. (\A s \in Thread : Flight(s)' = Flight(s)) /\ Rings'
      /\ \A o \in Object : Queued(o)' = Queued(o)
  BY <1>0, <1>1, QuietStep
<1>3. TypeOK'
  BY <1>0 DEF TypeOK, Labels
<1>4. Places'
  BY <1>0, <1>1 DEF Places, Place, Only
<1>5. MutualExclusion'
  BY <1>0 DEF MutualExclusion
<1>6. Holders'
  <2>1. ASSUME NEW s \in Thread  PROVE Holding(s)'
    BY <1>0, <1>1 DEF Holders, Holding, Outside, Only
  <2>2. \A k \in Mutex : Queued(k)' = Queued(k)
    BY <1>2 DEF Object
  <2> QED  BY <1>0, <2>1, <2>2 DEF Holders
<1>7. Flights'
  <2>1. ASSUME NEW s \in Thread  PROVE FlightOK(s)'
    <3>1. CASE s = t
      BY <3>1, <1>1 DEF FlightOK, InSecondSection
    <3>2. CASE s # t
      BY <3>2, <1>0, <1>2, FlightOKSame DEF Only
    <3> QED  BY <3>1, <3>2
  <2> QED  BY <2>1, <1>0, <1>2 DEF Flights
<1> QED  BY <1>0, <1>2, <1>3, <1>4, <1>5, <1>6, <1>7 DEF Safe, Sound

\* The loop of XWait: either everything is in order afterwards, or an alerted
\* thread looked for itself on a list that it had been taken off.
LEMMA WaitLoopStep ==
  ASSUME Safe, NEW t \in Thread, WaitLoop(t)
  PROVE  \/ Safe'
         \/ /\ MustRaise(t) /\ InFlight(t)
            /\ TypeOK' /\ MutualExclusion' /\ NeverIdle'
            /\ fault' \in {"nil", "lost", "endless"}
<1>0. /\ TypeOK /\ Places /\ Holders /\ Flights /\ Rings /\ Sound
      /\ MutualExclusion /\ fault = "none"
  BY DEF Safe, Sound
<1>c. PICK c \in Condition : c = local[t].c
  BY <1>0 DEF WaitLoop, Places, Place
<1>1. /\ pc[t] = "Waiting" /\ pc[t] \notin InSecondSection
      /\ Place(t) /\ Holding(t)
      /\ c \in Condition /\ c \in Object /\ c # NIL /\ c \notin Mutex
      /\ waitingOn[t] \in {NIL, c}
      /\ UNCHANGED <<holder, LL>>
  BY <1>0, <1>c, NilIsNothing, ObjectsDistinct
  DEF WaitLoop, Places, Place, Holders, InSecondSection, Object
<1>2. CASE KeepWaiting(t)
  <2>1. parked' = parked \union {t}
        /\ UNCHANGED <<waiters, waitingOn, nextWaiter, alerted, pc, local, fault>>
    BY <1>2 DEF KeepWaiting
  <2>2. Only(t) /\ pc'[t] \notin InSecondSection
    BY <1>0, <1>1, <2>1 DEF Only, TypeOK
  <2>3. (\A s \in Thread : Flight(s)' = Flight(s)) /\ Rings'
        /\ \A o \in Object : Queued(o)' = Queued(o)
    BY <1>0, <1>1, <2>1, <2>2, QuietStep
  <2>4. TypeOK' /\ Places' /\ MutualExclusion'
    BY <1>0, <1>1, <2>1 DEF TypeOK, Places, Place, MutualExclusion
  <2>5. Holders'
    <3>1. \A s \in Thread : Holding(s)'
      BY <1>0, <1>1, <2>1 DEF Holders, Holding, Outside
    <3>2. \A m \in Mutex : Queued(m)' = Queued(m)
      BY <2>3 DEF Object
    <3> QED  BY <1>0, <1>1, <3>1, <3>2 DEF Holders
  <2>6. Flights'
    <3>1. \A s \in Thread : FlightOK(s)'
      BY <1>0, <1>1, <2>1, <2>3, FlightOKSame
    <3> QED  BY <1>0, <2>3, <3>1 DEF Flights
  <2> QED  BY <1>0, <2>1, <2>3, <2>4, <2>5, <2>6 DEF Safe, Sound
<1>3. CASE WaitSignalled(t)
  <2>1. /\ waitingOn[t] = NIL /\ nextWaiter[t] = NIL
        /\ pc' = [pc EXCEPT ![t] = "Lock"]
        /\ UNCHANGED <<waiters, waitingOn, nextWaiter, alerted, parked, local, fault>>
    BY <1>1, <1>3 DEF WaitSignalled, OffList, Place, Check, Go
  <2>2. Only(t) /\ local' \in [Thread -> Locals] /\ alerted' \in [Thread -> BOOLEAN]
    BY <1>0, <2>1 DEF Only, TypeOK, Labels
  <2>3. local'[t].m = local[t].m /\ local'[t].c = local[t].c
    BY <2>1
  <2> QED  BY <1>1, <2>1, <2>2, <2>3, LeaveWait
<1>4. CASE MustRaise(t) /\ WaitAlerted(t)
  <2>1. /\ alerted' = [alerted EXCEPT ![t] = FALSE]
        /\ pc' = [pc EXCEPT ![t] = "Lock"]
        /\ local' = [local EXCEPT ![t].raising = TRUE]
        /\ parked' = parked
    BY <1>4 DEF WaitAlerted, Go
  <2>2. /\ local' \in [Thread -> Locals]
        /\ local'[t].m = local[t].m /\ local'[t].c = local[t].c
    <3>1. local[t] \in Locals
      BY <1>0 DEF TypeOK
    <3>2. [local[t] EXCEPT !.raising = TRUE] \in Locals
      BY <3>1, LocalUpdates
    <3>3. local'[t] = [local[t] EXCEPT !.raising = TRUE]
      BY <1>0, <2>1 DEF TypeOK
    <3>4. local' \in [Thread -> Locals]
      BY <1>0, <2>1, <3>2 DEF TypeOK
    <3> QED  BY <3>1, <3>3, <3>4 DEF Locals
  <2>3. Only(t) /\ pc'[t] = "Lock" /\ pc'[t] \notin InSecondSection
    BY <1>0, <2>1 DEF Only, TypeOK, Labels, InSecondSection
  <2>4. alerted' \in [Thread -> BOOLEAN]
    BY <1>0, <2>1 DEF TypeOK
  <2>5. CASE OffList(t)
    <3>1. waitingOn[t] = NIL /\ nextWaiter[t] = NIL
      BY <1>1, <2>5 DEF OffList, Place
    <3>2. UNCHANGED <<waiters, waitingOn, nextWaiter, fault>>
      BY <1>4, <2>5, <3>1 DEF WaitAlerted, Check
    <3> QED  BY <1>1, <2>1, <2>2, <2>3, <2>4, <3>1, <3>2, LeaveWait
  <2>6. CASE ~OffList(t)
    <3>1. /\ waitingOn[t] = c
          /\ Unlink(t, c)
          /\ waitingOn' = [waitingOn EXCEPT ![t] = NIL]
      BY <1>c, <1>1, <1>4, <2>6 DEF WaitAlerted, OffList
    <3>2. CASE t \in Ring(c)
      <4>1. /\ fault' = fault
            /\ nextWaiter' \in Links
            /\ waiters' \in [Object -> Thread \union {NIL}]
            /\ nextWaiter'[t] = NIL
            /\ \A u \in Thread \ {t} : nextWaiter'[u] = NIL <=> nextWaiter[u] = NIL
            /\ \A s \in Thread : Flight(s)' = Flight(s)
            /\ Queued(c)' = Queued(c) \ {t}
            /\ \A o \in Object \ {c} : Queued(o)' = Queued(o)
            /\ Rings'
        BY <1>0, <1>1, <2>3, <3>1, <3>2, UnlinkStep
      <4>2. TypeOK'
        BY <1>0, <1>1, <2>1, <2>2, <2>4, <3>1, <4>1 DEF TypeOK, Labels, Links
      <4>3. Places'
        <5>1. Place(t)'
          BY <1>0, <1>c, <1>1, <2>2, <2>3, <3>1, <4>1 DEF TypeOK, Place
        <5>2. ASSUME NEW s \in Thread \ {t}  PROVE Place(s)'
          BY <1>0, <2>3, <3>1, <4>1 DEF TypeOK, Places, Place, Only
        <5> QED  BY <5>1, <5>2 DEF Places
      <4>4. MutualExclusion'
        BY <1>0, <1>1 DEF MutualExclusion
      <4>5. Holders'
        <5>1. ASSUME NEW s \in Thread  PROVE Holding(s)'
          <6>1. CASE s = t
            BY <6>1, <1>1, <2>2, <2>3 DEF Holding, Outside
          <6>2. CASE s # t
            BY <6>2, <1>0, <1>1, <2>3, <3>1 DEF TypeOK, Holders, Holding, Outside, Only
          <6> QED  BY <6>1, <6>2
        <5>2. \A k \in Mutex : Queued(k)' = Queued(k)
          BY <1>1, <4>1 DEF Object
        <5> QED  BY <1>0, <1>1, <5>1, <5>2 DEF Holders
      <4>6. Flights'
        <5>1. ASSUME NEW s \in Thread  PROVE FlightOK(s)'
          <6>1. CASE s = t
            BY <6>1, <2>3 DEF FlightOK, InSecondSection
          <6>2. CASE s # t
            <7>0. Flight(s) \subseteq Thread
                  /\ \A x \in Ring(c) : x \notin Flight(s)
              BY <1>0, <1>1, FlightWaits, RingIsQueue
            <7>1. \A x \in Flight(s) :
                    nextWaiter'[x] = nextWaiter[x] /\ waitingOn'[x] = waitingOn[x]
              BY <7>0, <1>0, <3>1, <3>2 DEF TypeOK, Unlink
            <7> QED  BY <6>2, <7>1, <1>0, <1>1, <2>3, <4>1, FlightOKSame DEF Only
          <6> QED  BY <6>1, <6>2
        <5> QED  BY <5>1, <1>0, <4>1 DEF Flights
      <4> QED  BY <1>0, <4>1, <4>2, <4>3, <4>4, <4>5, <4>6 DEF Safe, Sound
    <3>3. CASE t \notin Ring(c)
      <4>1. InFlight(t)
        <5>1. t \notin Queued(c)
          BY <1>0, <1>1, <3>3, RingIsQueue
        <5> QED  BY <3>1, <5>1 DEF Queued
      <4>2. /\ fault' \in {"nil", "lost", "endless"}
            /\ waiters' \in [Object -> Thread \union {NIL}]
            /\ nextWaiter' \in [Thread -> Thread \union {NIL}]
        BY <1>0, <3>1, <3>3 DEF TypeOK, Unlink
      <4>3. TypeOK'
        BY <1>0, <1>1, <2>1, <2>2, <2>4, <3>1, <4>2 DEF TypeOK, Labels
      <4>4. MutualExclusion'
        BY <1>0, <1>1 DEF MutualExclusion
      <4>5. ASSUME NEW m \in Mutex, waiters'[m] # NIL
            PROVE  holder'[m] \notin Ring(m)' \union {NIL}
        <5>1. m \in Object /\ m # c
          BY <1>1 DEF Object
        <5>2. waiters'[m] = waiters[m] /\ waiters[m] \in Thread
          BY <1>0, <3>1, <3>3, <4>5, <5>1 DEF TypeOK, Unlink
        <5>3. Ring(m) = Queued(m) /\ Ring(m) = Walk(nextWaiter, waiters[m], waiters[m])
          BY <1>0, <4>5, <5>1, <5>2, RingIsQueue DEF Ring
        <5>4. \A x \in Queued(m) : nextWaiter'[x] = nextWaiter[x]
          <6>1. \A x \in Queued(m) : x \in Thread /\ x # t
            BY <3>1, <5>1 DEF Queued
          <6> QED  BY <6>1, <1>0, <3>1, <3>3 DEF TypeOK, Unlink
        <5>5. nextWaiter \in Links /\ nextWaiter' \in Links
          BY <1>0, <4>2, TypeLinks DEF Links
        <5>6. Walk(nextWaiter', waiters[m], waiters[m])
                = Walk(nextWaiter, waiters[m], waiters[m])
          BY <5>2, <5>3, <5>4, <5>5, WalkSame
        <5>7. Ring(m)' = Queued(m) /\ waiters[m] \in Queued(m)
          <6>1. waiters[m] \in Queued(m)
            BY <1>0, <4>5, <5>1, <5>2 DEF Rings, RingOK
          <6> QED  BY <4>5, <5>2, <5>3, <5>6, <6>1 DEF Ring
        <5> QED  BY <5>7, <1>0, <1>1 DEF Holders
      <4> QED  BY <1>4, <4>1, <4>2, <4>3, <4>4, <4>5 DEF NeverIdle
    <3> QED  BY <3>2, <3>3
  <2> QED  BY <2>5, <2>6
<1> QED  BY <1>2, <1>3, <1>4 DEF WaitLoop

Idle == {"Ready", "Wake", "WakeAll", "Pause"}

\* A procedure that locks nothing changes nothing of what the mutexes need
\* (Signal, Broadcast, XPause).
LEMMA BesideMutexes ==
  ASSUME Safe, NEW t \in Thread, Only(t), pc[t] \in Idle, pc'[t] \in Idle,
         local'[t].c = NIL, UNCHANGED <<holder, LL, fault>>,
         \A u \in Thread : waitingOn'[u] \in {waitingOn[u], NIL},
         \A u \in Thread :
           waitingOn'[u] # waitingOn[u] => waitingOn[u] \in Condition,
         \A u \in Thread : waitingOn'[u] = NIL <=> nextWaiter'[u] = NIL,
         \A k \in Mutex : Queued(k)' = Queued(k)
  PROVE  Places' /\ Holders' /\ MutualExclusion'
<1>0. /\ TypeOK /\ Places /\ Holders /\ MutualExclusion
  BY DEF Safe, Sound
<1>1. Places'
  <2>1. Place(t)'
    BY <1>0 DEF Places, Place, Idle
  <2>2. ASSUME NEW s \in Thread \ {t}  PROVE Place(s)'
    BY <1>0 DEF Places, Place, Only
  <2> QED  BY <2>1, <2>2 DEF Places
<1>2. Holders'
  <2>1. ASSUME NEW s \in Thread  PROVE Holding(s)'
    <3>0. Holding(s) /\ Place(s)
      BY <1>0 DEF Holders, Places
    <3>1. CASE s = t
      BY <3>0, <3>1 DEF Holding, Outside, Idle
    <3>2. CASE s # t
      <4>1. pc'[s] = pc[s] /\ local'[s] = local[s]
        BY <3>2 DEF Only
      <4>2. pc[s] = "LockWait" => waitingOn'[s] = waitingOn[s]
        <5>1. local[s].m \in Mutex => local[s].m \notin Condition
          BY ObjectsDistinct
        <5>2. local[s].c \in Condition \union {NIL}
          BY <1>0 DEF TypeOK, Locals
        <5> QED  BY <3>0, <5>1, NilIsNothing DEF Place, Object
      <4> QED  BY <3>0, <4>1, <4>2 DEF Holding, Outside
    <3> QED  BY <3>1, <3>2
  <2> QED  BY <2>1, <1>0 DEF Holders
<1>3. MutualExclusion'
  BY <1>0 DEF MutualExclusion
<1> QED  BY <1>1, <1>2, <1>3

\* Alert, TestAlert and the wakeups that tell nothing change no list.
LEMMA AlertOnly ==
  ASSUME Safe, alerted' \in [Thread -> BOOLEAN], parked' \subseteq Thread,
         UNCHANGED <<holder, waiters, waitingOn, nextWaiter, pc, local, LL, fault>>
  PROVE  Safe'
<1>0. /\ TypeOK /\ Places /\ Holders /\ Flights /\ Rings /\ Sound
      /\ MutualExclusion /\ fault = "none"
  BY DEF Safe, Sound
<1>1. \A s \in Thread : Flight(s)' = Flight(s)
  BY DEF Flight
<1>2. \A o \in Object : Queued(o)' = Queued(o)
  BY <1>1 DEF Queued, InFlight
<1>3. TypeOK'
  BY <1>0 DEF TypeOK
<1>4. Places' /\ MutualExclusion'
  BY <1>0 DEF Places, Place, MutualExclusion
<1>5. Holders'
  <2>1. \A s \in Thread : Holding(s)'
    BY <1>0 DEF Holders, Holding, Outside
  <2> QED  BY <2>1, <1>0, <1>2 DEF Holders, Object
<1>6. Flights'
  <2>1. \A s \in Thread : FlightOK(s)'
    BY <1>0, <1>1, FlightOKSame
  <2> QED  BY <2>1, <1>0, <1>1 DEF Flights
<1>7. Rings'
  BY <1>0, <1>2, RingSame DEF Rings
<1> QED  BY <1>0, <1>3, <1>4, <1>5, <1>6, <1>7 DEF Safe, Sound

\* XPause touches no list and no mutex.
LEMMA PauseOnly ==
  ASSUME Safe, NEW t \in Thread, Only(t),
         pc[t] \in {"Ready", "Pause"}, pc'[t] \in {"Ready", "Pause"},
         local' \in [Thread -> Locals], local'[t].c = NIL,
         alerted' \in [Thread -> BOOLEAN], parked' \subseteq Thread,
         UNCHANGED <<holder, waiters, waitingOn, nextWaiter, LL, fault>>
  PROVE  Safe'
<1>0. /\ TypeOK /\ Places /\ Holders /\ Flights /\ Rings /\ Sound
      /\ MutualExclusion /\ fault = "none"
  BY DEF Safe, Sound
<1>1. pc[t] \notin InSecondSection /\ pc'[t] \notin InSecondSection
      /\ pc[t] \in Idle /\ pc'[t] \in Idle
  BY DEF InSecondSection, Idle
<1>2. (\A s \in Thread : Flight(s)' = Flight(s)) /\ Rings'
      /\ \A o \in Object : Queued(o)' = Queued(o)
  BY <1>0, <1>1, QuietStep
<1>3. \A u \in Thread : waitingOn[u] = NIL <=> nextWaiter[u] = NIL
  BY <1>0 DEF Places, Place
<1>4. Places' /\ Holders' /\ MutualExclusion'
  <2>1. \A k \in Mutex : Queued(k)' = Queued(k)
    BY <1>2 DEF Object
  <2> QED  BY <1>1, <1>3, <2>1, BesideMutexes
<1>5. TypeOK'
  BY <1>0 DEF TypeOK, Only
<1>6. Flights'
  <2>1. ASSUME NEW s \in Thread  PROVE FlightOK(s)'
    <3>1. CASE s = t
      BY <3>1, <1>1 DEF FlightOK, InSecondSection
    <3>2. CASE s # t
      BY <3>2, <1>0, <1>2, FlightOKSame DEF Only
    <3> QED  BY <3>1, <3>2
  <2> QED  BY <2>1, <1>0, <1>2 DEF Flights
<1> QED  BY <1>0, <1>2, <1>4, <1>5, <1>6 DEF Safe, Sound

\* The first section of Signal: the head is off the ring and in flight.
LEMMA SignalStep ==
  ASSUME Safe, NEW t \in Thread, NEW c \in Condition, Signal(t, c)
  PROVE  Safe'
<1>0. /\ TypeOK /\ Places /\ Holders /\ Flights /\ Rings /\ Sound
      /\ MutualExclusion /\ fault = "none"
  BY DEF Safe, Sound
<1>1. /\ pc[t] = "Ready" /\ pc[t] \notin InSecondSection /\ pc[t] \in Idle
      /\ c \in Object /\ c # NIL /\ c \notin Mutex /\ local[t].c = NIL
      /\ UNCHANGED <<holder, waitingOn, alerted, parked, LL, fault>>
  BY <1>0, NilIsNothing, ObjectsDistinct
  DEF Signal, InSecondSection, Idle, Object, Places, Place
<1>2. CASE waiters[c] = NIL
  <2>1. UNCHANGED <<waiters, nextWaiter, pc, local>>
    BY <1>2 DEF Signal
  <2> QED  BY <1>0, <1>1, <2>1, AlertOnly DEF TypeOK
<1>3. CASE waiters[c] # NIL
  <2> DEFINE h == Head(c)
  <2>1. /\ Dequeue(c)
        /\ local' = [local EXCEPT ![t].t = h]
        /\ pc' = [pc EXCEPT ![t] = "Wake"]
    BY <1>3 DEF Signal, Go
  <2>2. waiters[c] \in Thread /\ h \in Thread
    <3>1. waiters[c] \in Queued(c) /\ Cycle(nextWaiter, Queued(c))
      BY <1>0, <1>1, <1>3 DEF Rings, RingOK
    <3> QED  BY <3>1 DEF Cycle, Queued, Head
  <2> HIDE DEF h
  <2>3. /\ local' \in [Thread -> Locals]
        /\ local'[t].t = h /\ local'[t].c = NIL
    <3>1. local[t] \in Locals
      BY <1>0 DEF TypeOK
    <3>2. [local[t] EXCEPT !.t = h] \in Locals
      BY <2>2, <3>1, LocalUpdates
    <3>3. local'[t] = [local[t] EXCEPT !.t = h]
      BY <1>0, <2>1 DEF TypeOK
    <3>4. local' \in [Thread -> Locals]
      BY <1>0, <2>1, <3>2 DEF TypeOK
    <3> QED  BY <1>1, <3>1, <3>3, <3>4 DEF Locals
  <2>4. Only(t) /\ pc'[t] = "Wake" /\ pc'[t] \in Idle
    BY <1>0, <2>1 DEF Only, TypeOK, Labels, Idle
  <2>5. /\ h \in Queued(c)
        /\ nextWaiter' \in Links
        /\ \A u \in Thread : nextWaiter'[u] = NIL <=> nextWaiter[u] = NIL
        /\ \A s \in Thread \ {t} : Flight(s)' = Flight(s)
        /\ Flight(t) = {} /\ Flight(t)' = {h}
        /\ \A o \in Object \ {c} : Queued(o)' = Queued(o)
        /\ Rings'
    BY <1>0, <1>1, <1>3, <2>1, <2>3, <2>4, DequeueStep DEF h
  <2>6. waitingOn[h] = c
    BY <2>5 DEF Queued
  <2>7. Places' /\ Holders' /\ MutualExclusion'
    <3>1. \A k \in Mutex : Queued(k)' = Queued(k)
      BY <1>1, <2>5 DEF Object
    <3>2. \A u \in Thread : waitingOn[u] = NIL <=> nextWaiter[u] = NIL
      BY <1>0 DEF Places, Place
    <3> QED  BY <1>1, <2>3, <2>4, <2>5, <3>1, <3>2, BesideMutexes
  <2>8. TypeOK'
    <3>1. waiters' \in [Object -> Thread \union {NIL}]
      BY <1>0, <2>1 DEF TypeOK, Dequeue
    <3> QED  BY <1>0, <1>1, <2>3, <2>4, <2>5, <3>1 DEF TypeOK, Only, Links
  <2>9. Flights'
    <3>1. ASSUME NEW s \in Thread  PROVE FlightOK(s)'
      <4>1. CASE s = t
        BY <4>1, <1>1, <2>2, <2>3, <2>4, <2>6 DEF FlightOK
      <4>2. CASE s # t
        <5>0. Flight(s) \subseteq Thread
          BY <1>0, FlightWaits
        <5>1. waiters[c] \notin Flight(s)
          BY <1>0, <1>1, <1>3, FlightWaits DEF Rings, RingOK
        <5>2. \A x \in Flight(s) : nextWaiter'[x] = nextWaiter[x]
          BY <5>0, <5>1, <1>0, <2>1 DEF TypeOK, Dequeue
        <5> QED  BY <4>2, <5>2, <1>0, <1>1, <2>4, <2>5, FlightOKSame DEF Only
      <4> QED  BY <4>1, <4>2
    <3>2. \A s \in Thread : h \notin Flight(s)
      BY <1>0, <1>1, <2>5, FlightWaits
    <3> QED  BY <1>0, <2>5, <3>1, <3>2 DEF Flights
  <2> QED  BY <1>0, <1>1, <2>5, <2>7, <2>8, <2>9 DEF Safe, Sound
<1> QED  BY <1>2, <1>3

\* The first section of Broadcast: the whole ring is in flight.
LEMMA BroadcastStep ==
  ASSUME Safe, NEW t \in Thread, NEW c \in Condition, Broadcast(t, c)
  PROVE  Safe'
<1>0. /\ TypeOK /\ Places /\ Holders /\ Flights /\ Rings /\ Sound
      /\ MutualExclusion /\ fault = "none"
  BY DEF Safe, Sound
<1>1. /\ pc[t] = "Ready" /\ pc[t] \notin InSecondSection /\ pc[t] \in Idle
      /\ c \in Object /\ c # NIL /\ c \notin Mutex /\ local[t].c = NIL
      /\ UNCHANGED <<holder, waitingOn, nextWaiter, alerted, parked, LL, fault>>
  BY <1>0, NilIsNothing, ObjectsDistinct
  DEF Broadcast, InSecondSection, Idle, Object, Places, Place
<1>2. CASE waiters[c] = NIL
  <2>1. UNCHANGED <<waiters, pc, local>>
    BY <1>2 DEF Broadcast
  <2> QED  BY <1>0, <1>1, <2>1, AlertOnly DEF TypeOK
<1>3. CASE waiters[c] # NIL
  <2> DEFINE p == waiters[c]
  <2>1. /\ waiters' = [waiters EXCEPT ![c] = NIL]
        /\ local' = [local EXCEPT ![t].t = p, ![t].start = p]
        /\ pc' = [pc EXCEPT ![t] = "WakeAll"]
    BY <1>3 DEF Broadcast, Go
  <2>2. p \in Thread
    BY <1>0, <1>1, <1>3 DEF TypeOK
  <2> HIDE DEF p
  <2>3. /\ local' \in [Thread -> Locals]
        /\ local'[t].t = p /\ local'[t].start = p /\ local'[t].c = NIL
    <3>1. local[t] \in Locals
      BY <1>0 DEF TypeOK
    <3>2. [local[t] EXCEPT !.t = p, !.start = p] \in Locals
      BY <2>2, <3>1, LocalUpdates
    <3>3. local'[t] = [local[t] EXCEPT !.t = p, !.start = p]
      BY <1>0, <2>1 DEF TypeOK
    <3>4. local' \in [Thread -> Locals]
      BY <1>0, <2>1, <3>2 DEF TypeOK
    <3> QED  BY <1>1, <3>1, <3>3, <3>4 DEF Locals
  <2>4. Only(t) /\ pc'[t] = "WakeAll" /\ pc'[t] \in Idle
    BY <1>0, <2>1 DEF Only, TypeOK, Labels, Idle
  <2>5. /\ p \in Queued(c)
        /\ \A s \in Thread \ {t} : Flight(s)' = Flight(s)
        /\ Flight(t) = {} /\ Flight(t)' = Queued(c)
        /\ Remainder(nextWaiter, Queued(c), p, p)
        /\ \A o \in Object \ {c} : Queued(o)' = Queued(o)
        /\ Rings'
    BY <1>0, <1>1, <1>3, <2>1, <2>3, <2>4, DetachStep DEF p
  <2>6. \A u \in Queued(c) : waitingOn[u] = c
    BY DEF Queued
  <2>7. Places' /\ Holders' /\ MutualExclusion'
    <3>1. \A k \in Mutex : Queued(k)' = Queued(k)
      BY <1>1, <2>5 DEF Object
    <3>2. \A u \in Thread : waitingOn[u] = NIL <=> nextWaiter[u] = NIL
      BY <1>0 DEF Places, Place
    <3> QED  BY <1>1, <2>3, <2>4, <3>1, <3>2, BesideMutexes
  <2>8. TypeOK'
    BY <1>0, <1>1, <2>1, <2>3, <2>4 DEF TypeOK, Only
  <2>9. Flights'
    <3>1. ASSUME NEW s \in Thread  PROVE FlightOK(s)'
      <4>1. CASE s = t
        <5>2. Remainder(nextWaiter', Flight(s)', local'[s].t, local'[s].start)
          BY <1>1, <2>3, <2>5, <4>1 DEF Remainder
        <5>3. \A u \in Flight(s)' : waitingOn'[u] \in Condition
          BY <1>1, <2>5, <2>6, <4>1
        <5> QED  BY <4>1, <5>2, <5>3, <2>2, <2>3, <2>4 DEF FlightOK
      <4>2. CASE s # t
        BY <4>2, <1>0, <1>1, <2>4, <2>5, FlightOKSame DEF Only
      <4> QED  BY <4>1, <4>2
    <3>2. \A s \in Thread, u \in Queued(c) : u \notin Flight(s)
      BY <1>0, <1>1, FlightWaits
    <3> QED  BY <1>0, <2>5, <3>1, <3>2 DEF Flights
  <2> QED  BY <1>0, <1>1, <2>5, <2>7, <2>8, <2>9 DEF Safe, Sound
<1> QED  BY <1>2, <1>3

\* One activation is woken: everybody in flight stays so, except it.
LEMMA Woken ==
  ASSUME Safe, NEW t \in Thread, NEW u \in Flight(t), Only(t), WakeUp(u),
         waitingOn[u] \in Condition, Flight(t)' = Flight(t) \ {u},
         pc[t] \in Idle, pc'[t] \in Idle,
         local' \in [Thread -> Locals], local'[t].c = NIL,
         pc'[t] \in InSecondSection => FlightOK(t)',
         UNCHANGED <<holder, waiters, alerted, LL, fault>>
  PROVE  Safe'
<1>0. /\ TypeOK /\ Places /\ Holders /\ Flights /\ Rings /\ Sound
      /\ MutualExclusion /\ fault = "none"
  BY DEF Safe, Sound
<1>1. /\ u \in Thread
      /\ waitingOn' = [waitingOn EXCEPT ![u] = NIL]
      /\ nextWaiter' = [nextWaiter EXCEPT ![u] = NIL]
      /\ nextWaiter' \in Links
      /\ \A s \in Thread \ {t} : Flight(s)' = Flight(s) /\ u \notin Flight(s)
      /\ \A o \in Object : Queued(o)' = Queued(o) /\ u \notin Queued(o)
      /\ Rings'
  BY <1>0, WakeStep
<1>2. Places' /\ Holders' /\ MutualExclusion'
  <2>1. \A k \in Mutex : Queued(k)' = Queued(k)
    BY <1>1 DEF Object
  <2>2. \A v \in Thread : waitingOn[v] = NIL <=> nextWaiter[v] = NIL
    BY <1>0 DEF Places, Place
  <2>3. \A v \in Thread : waitingOn'[v] = IF v = u THEN NIL ELSE waitingOn[v]
    BY <1>0, <1>1 DEF TypeOK
  <2>4. \A v \in Thread : nextWaiter'[v] = IF v = u THEN NIL ELSE nextWaiter[v]
    BY <1>0, <1>1 DEF TypeOK
  <2> QED  BY <2>1, <2>2, <2>3, <2>4, BesideMutexes
<1>3. TypeOK'
  <2>1. parked' \subseteq Thread
    BY <1>0 DEF TypeOK, WakeUp, CondSignal
  <2> QED  BY <1>0, <1>1, <2>1 DEF TypeOK, Only, Links
<1>4. Flights'
  <2>1. ASSUME NEW s \in Thread  PROVE FlightOK(s)'
    <3>1. CASE s = t
      BY <3>1 DEF FlightOK, InSecondSection
    <3>2. CASE s # t
      <4>1. Flight(s) \subseteq Thread
        BY <1>0, FlightWaits
      <4>2. \A x \in Flight(s) :
              nextWaiter'[x] = nextWaiter[x] /\ waitingOn'[x] = waitingOn[x]
        BY <3>2, <4>1, <1>0, <1>1 DEF TypeOK
      <4> QED  BY <3>2, <4>2, <1>0, <1>1, FlightOKSame DEF Only
    <3> QED  BY <3>1, <3>2
  <2> QED  BY <2>1, <1>0, <1>1 DEF Flights
<1> QED  BY <1>0, <1>1, <1>2, <1>3, <1>4 DEF Safe, Sound

\* The second section of Signal.
LEMMA SignalledStep ==
  ASSUME Safe, NEW t \in Thread, Wake(t)
  PROVE  Safe'
<1>0. TypeOK /\ Flights /\ Places
  BY DEF Safe, Sound
<1>1. PICK u \in Thread : u = local[t].t
  BY <1>0 DEF Wake, Flights, FlightOK
<1>2. /\ pc[t] = "Wake" /\ pc[t] \in Idle
      /\ waitingOn[u] \in Condition /\ WakeUp(u)
      /\ pc' = [pc EXCEPT ![t] = "Ready"]
      /\ local' = [local EXCEPT ![t] = NoLocal]
      /\ UNCHANGED <<holder, waiters, alerted, LL, fault>>
  BY <1>0, <1>1 DEF Wake, Flights, FlightOK, Idle, Return, Go
<1>3. /\ Only(t) /\ pc'[t] \in Idle /\ pc'[t] \notin InSecondSection
      /\ local' \in [Thread -> Locals] /\ local'[t].c = NIL
  BY <1>0, <1>2, NoLocalTyped DEF TypeOK, Only, Labels, Idle, InSecondSection, NoLocal
<1>4. u \in Flight(t) /\ Flight(t)' = Flight(t) \ {u}
  BY <1>1, <1>2, <1>3 DEF Flight, InSecondSection
<1> QED  BY <1>2, <1>3, <1>4, Woken

\* One round of the loop of Broadcast.
LEMMA WakeAllStep ==
  ASSUME Safe, NEW t \in Thread, WakeAll(t)
  PROVE  Safe'
<1>0. TypeOK /\ Flights /\ Places /\ Sound
  BY DEF Safe, Sound
<1>1. PICK u \in Thread, start \in Thread : u = local[t].t /\ start = local[t].start
  BY <1>0 DEF WakeAll, Flights, FlightOK
<1>2. /\ pc[t] = "WakeAll" /\ pc[t] \in Idle /\ local[t].c = NIL
      /\ WakeUp(u)
      /\ UNCHANGED <<holder, waiters, alerted, LL>>
  BY <1>0, <1>1 DEF WakeAll, Idle, Places, Place
<1>3. /\ Flight(t) = Walk(nextWaiter, u, start)
      /\ Remainder(nextWaiter, Flight(t), u, start)
      /\ \A v \in Flight(t) : waitingOn[v] \in Condition
  BY <1>0, <1>1, <1>2 DEF Flight, Flights, FlightOK
<1>4. u \in Flight(t) /\ waitingOn[u] \in Condition
  BY <1>3 DEF Remainder
<1>5. /\ nextWaiter \in Links
      /\ nextWaiter' = [nextWaiter EXCEPT ![u] = NIL]
      /\ waitingOn' = [waitingOn EXCEPT ![u] = NIL]
  BY <1>0, <1>2, TypeLinks DEF WakeUp
<1>6. PICK next : next = nextWaiter[u]
  OBVIOUS
<1>7. /\ next = start => Flight(t) = {u}
      /\ next # start =>
           /\ next \in Thread
           /\ Walk(nextWaiter', next, start) = Flight(t) \ {u}
           /\ Remainder(nextWaiter', Flight(t) \ {u}, next, start)
  <2> DEFINE R == Walk(nextWaiter, u, start)
             link2 == [nextWaiter EXCEPT ![u] = NIL]
  <2>1. Remainder(nextWaiter, R, u, start)
    BY <1>3
  <2>2. /\ nextWaiter[u] = start => R = {u}
        /\ nextWaiter[u] # start =>
             /\ nextWaiter[u] \in Thread
             /\ Walk(link2, nextWaiter[u], start) = R \ {u}
             /\ Remainder(link2, R \ {u}, nextWaiter[u], start)
    BY <1>5, <2>1, RemainderStep
  <2>3. nextWaiter' = link2 /\ Flight(t) = R
    BY <1>3, <1>5
  <2> HIDE DEF R, link2
  <2> QED  BY <1>6, <2>2, <2>3
<1>8. CASE next = start
  <2>1. /\ pc' = [pc EXCEPT ![t] = "Ready"]
        /\ local' = [local EXCEPT ![t] = NoLocal]
        /\ fault' = fault
    BY <1>1, <1>6, <1>8 DEF WakeAll, NextToWake, Return, Go
  <2>2. /\ Only(t) /\ pc'[t] \in Idle /\ pc'[t] \notin InSecondSection
        /\ local' \in [Thread -> Locals] /\ local'[t].c = NIL
    BY <1>0, <2>1, NoLocalTyped
    DEF TypeOK, Only, Labels, Idle, InSecondSection, NoLocal
  <2>3. Flight(t)' = Flight(t) \ {u}
    BY <1>7, <1>8, <2>2, FlightNone
  <2> QED  BY <1>2, <1>4, <2>1, <2>2, <2>3, Woken
<1>9. CASE next # start
  <2>0. next \in Thread /\ next # NIL
    BY <1>7, <1>9, NilIsNothing
  <2>1. /\ local' = [local EXCEPT ![t].t = next]
        /\ UNCHANGED <<pc, fault>>
    BY <1>1, <1>6, <1>9, <2>0 DEF WakeAll, NextToWake
  <2>2. /\ local' \in [Thread -> Locals]
        /\ local'[t].t = next /\ local'[t].start = start /\ local'[t].c = NIL
    <3>1. local[t] \in Locals
      BY <1>0 DEF TypeOK
    <3>2. [local[t] EXCEPT !.t = next] \in Locals
      BY <2>0, <3>1, LocalUpdates
    <3>3. local'[t] = [local[t] EXCEPT !.t = next]
      BY <1>0, <2>1 DEF TypeOK
    <3>4. local' \in [Thread -> Locals]
      BY <1>0, <2>1, <3>2 DEF TypeOK
    <3> QED  BY <1>1, <1>2, <3>1, <3>3, <3>4 DEF Locals
  <2>3. Only(t) /\ pc'[t] = "WakeAll" /\ pc'[t] \in Idle
    BY <1>0, <1>2, <2>1 DEF Only, TypeOK, Idle
  <2>4. Flight(t)' = Flight(t) \ {u}
    BY <1>7, <1>9, <2>2, <2>3 DEF Flight
  <2>5. FlightOK(t)'
    <3>1. \A v \in Flight(t) \ {u} : waitingOn'[v] = waitingOn[v]
      <4>1. Flight(t) \subseteq Thread
        BY <1>0, FlightWaits
      <4> QED  BY <4>1, <1>0, <1>5 DEF TypeOK
    <3>2. \A v \in Flight(t)' : waitingOn'[v] \in Condition
      BY <3>1, <2>4, <1>3
    <3>3. Remainder(nextWaiter', Flight(t)', local'[t].t, local'[t].start)
      BY <1>7, <1>9, <2>2, <2>4
    <3> QED  BY <1>1, <2>0, <2>2, <2>3, <3>2, <3>3 DEF FlightOK
  <2> QED  BY <1>2, <1>4, <2>1, <2>2, <2>3, <2>4, <2>5, Woken
<1> QED  BY <1>8, <1>9

\* Pause and AlertPause.
LEMMA PauseSteps ==
  ASSUME Safe, NEW t \in Thread
  PROVE  /\ \A b \in BOOLEAN : XPause(t, b) => Safe'
         /\ PauseLoop(t) => Safe'
         /\ PauseTimeout(t) => Safe'
<1>0. TypeOK /\ Place(t) /\ local[t] \in Locals /\ fault = "none"
  BY DEF Safe, Sound, Places, TypeOK
<1>1. ASSUME NEW b \in BOOLEAN, XPause(t, b)  PROVE Safe'
  <2>1. /\ pc[t] = "Ready" /\ local[t].c = NIL
        /\ local' = [local EXCEPT ![t].alertable = b]
        /\ pc' = [pc EXCEPT ![t] = "Pause"]
        /\ UNCHANGED <<holder, waiters, waitingOn, nextWaiter, alerted, parked, LL>>
    BY <1>0, <1>1 DEF XPause, Go, Place
  <2>2. fault' = fault
    <3>1. waitingOn[t] = NIL /\ nextWaiter[t] = NIL
      BY <1>0, <2>1 DEF Place
    <3> QED  BY <1>1, <3>1 DEF XPause, Check
  <2>3. [local[t] EXCEPT !.alertable = b] \in Locals
    BY <1>0, LocalUpdates
  <2>4. local'[t] = [local[t] EXCEPT !.alertable = b]
        /\ local' \in [Thread -> Locals]
    BY <1>0, <2>1, <2>3 DEF TypeOK
  <2>5. local'[t].c = NIL
    BY <1>0, <2>1, <2>4 DEF Locals
  <2>6. Only(t) /\ pc'[t] = "Pause"
    BY <1>0, <2>1 DEF TypeOK, Only, Labels
  <2> QED  BY <1>0, <2>1, <2>2, <2>4, <2>5, <2>6, PauseOnly DEF TypeOK
<1>2. ASSUME PauseLoop(t)  PROVE Safe'
  <2>1. /\ pc[t] = "Pause"
        /\ UNCHANGED <<holder, waiters, waitingOn, nextWaiter, LL, fault>>
    BY <1>2 DEF PauseLoop
  <2>2. CASE alerted' = [alerted EXCEPT ![t] = FALSE] /\ Return(t) /\ parked' = parked
    <3>1. /\ Only(t) /\ pc'[t] = "Ready"
          /\ local' \in [Thread -> Locals] /\ local'[t].c = NIL
      BY <1>0, <2>2, NoLocalTyped DEF TypeOK, Only, Labels, Return, Go, NoLocal
    <3> QED  BY <1>0, <2>1, <2>2, <3>1, PauseOnly DEF TypeOK
  <2>3. CASE parked' = parked \union {t} /\ UNCHANGED <<alerted, pc, local>>
    BY <1>0, <2>1, <2>3, AlertOnly DEF TypeOK
  <2> QED  BY <1>2, <2>2, <2>3 DEF PauseLoop
<1>3. ASSUME PauseTimeout(t)  PROVE Safe'
  <2>1. /\ Only(t) /\ pc[t] = "Pause" /\ pc'[t] = "Ready"
        /\ local' \in [Thread -> Locals] /\ local'[t].c = NIL
    BY <1>0, <1>3, NoLocalTyped
    DEF TypeOK, Only, Labels, PauseTimeout, Return, Go, NoLocal
  <2> QED  BY <1>0, <1>3, <2>1, PauseOnly DEF TypeOK, PauseTimeout
<1> QED  BY <1>1, <1>2, <1>3

\* What one step of the package does: everything is in order afterwards, or an
\* alerted thread looked for itself on a list that it had been taken off.
LEMMA EveryStep ==
  ASSUME Safe, NEW t \in Thread, Step(t)
  PROVE  \/ Safe'
         \/ /\ pc[t] = "Waiting" /\ MustRaise(t) /\ InFlight(t)
            /\ TypeOK' /\ MutualExclusion' /\ NeverIdle'
            /\ fault' \in {"nil", "lost", "endless"}
<1>0. TypeOK /\ Place(t) /\ Holding(t)
  BY DEF Safe, Sound, Places, Holders
<1>1. ASSUME NEW m \in Mutex, Acquire(t, m)  PROVE Safe'
  <2>1. m \notin LL[t]
    BY <1>1, MutexOrder DEF Acquire
  <2> QED  BY <1>1, <2>1, LockMutexStep DEF Acquire
<1>2. ASSUME NEW m \in Mutex, Release(t, m)  PROVE Safe'
  BY <1>2, UnlockMutexStep DEF Release
<1>3. ASSUME NEW u \in Thread, Alert(t, u)  PROVE Safe'
  BY <1>0, <1>3, AlertOnly DEF Alert, CondSignal, TypeOK
<1>4. ASSUME TestAlert(t)  PROVE Safe'
  BY <1>0, <1>4, AlertOnly DEF TestAlert, TypeOK
<1>5. ASSUME SpuriousWakeup(t)  PROVE Safe'
  BY <1>0, <1>5, AlertOnly DEF SpuriousWakeup, TypeOK
<1>6. CASE Call(t)
  BY <1>1, <1>2, <1>3, <1>4, <1>6, XWaitStep, SignalStep, BroadcastStep, PauseSteps
  DEF Call
<1>7. ASSUME Reacquire(t)  PROVE Safe'
  <2>1. PICK m \in Mutex : m = local[t].m
    BY <1>0, <1>7 DEF Place, Reacquire
  <2>2. pc[t] = "Lock" /\ m \notin LL[t] /\ LockMutex(t, m) /\ alerted' = alerted
    BY <1>0, <1>7, <2>1 DEF Holding, Outside, Reacquire
  <2> QED  BY <2>2, LockMutexStep
<1>8. ASSUME WaitRelease(t)  PROVE Safe'
  <2>1. PICK m \in Mutex : m = local[t].m
    BY <1>0, <1>8 DEF Place, WaitRelease
  <2>2. pc[t] = "Unlock" /\ UnlockMutex(t, m)
    BY <1>8, <2>1 DEF WaitRelease
  <2> QED  BY <2>1, <2>2, UnlockMutexStep
<1>9. CASE WaitLoop(t)
  BY <1>9, WaitLoopStep DEF WaitLoop
<1>10. CASE Continue(t) /\ ~WaitLoop(t)
  BY <1>7, <1>8, <1>10, LockWakeStep, GrantStep, SignalledStep, WakeAllStep, PauseSteps
  DEF Continue
<1> QED  BY <1>5, <1>6, <1>9, <1>10 DEF Step

\* IInv says that the state is safe or the program has stopped.
LEMMA SafeOrStopped ==
  /\ IInv /\ fault = "none" <=> Safe
  /\ IInv => TypeOK /\ MutualExclusion /\ AssertionsHold
BY DEF IInv, Safe, Sound, AssertionsHold

\* The initial state: no list has a member and nobody holds anything.
LEMMA InitSafe == Init => Safe
<1> SUFFICES ASSUME Init PROVE Safe
  OBVIOUS
<1>1. TypeOK /\ fault = "none"
  BY NoLocalTyped DEF Init, TypeOK, Labels
<1>2. \A t \in Thread : pc[t] = "Ready" /\ local[t].c = NIL /\ LL[t] = {}
                        /\ waitingOn[t] = NIL /\ nextWaiter[t] = NIL
  BY DEF Init, NoLocal
<1>3. \A t \in Thread : Flight(t) = {}
  BY <1>2 DEF Flight
<1>4. \A o \in Object : Queued(o) = {}
  BY <1>2, NilIsNothing DEF Queued
<1>5. Places
  BY <1>2 DEF Places, Place
<1>6. Holders
  <2>1. \A m \in Mutex : holder[m] = NIL /\ m \in Object
    BY DEF Init, Object
  <2> QED  BY <2>1, <1>2, <1>4, NilIsNothing DEF Holders, Holding, Outside
<1>7. Flights
  BY <1>2, <1>3 DEF Flights, FlightOK
<1>8. Rings
  BY <1>4 DEF Rings, RingOK, Init
<1>9. MutualExclusion
  BY <1>2 DEF MutualExclusion
<1> QED  BY <1>1, <1>5, <1>6, <1>7, <1>8, <1>9 DEF Safe, Sound

\* No step leaves IInv.
LEMMA NextInv == IInv /\ [Next]_vars => IInv'
<1> SUFFICES ASSUME IInv, [Next]_vars PROVE IInv'
  OBVIOUS
<1>1. CASE UNCHANGED vars
  <2>1. \A s \in Thread : Flight(s)' = Flight(s)
    BY <1>1 DEF vars, Flight
  <2>2. \A o \in Object : Queued(o)' = Queued(o)
    BY <1>1, <2>1 DEF vars, Queued, InFlight
  <2>3. fault = "none" => Safe'
    <3> SUFFICES ASSUME fault = "none" PROVE Safe'
      OBVIOUS
    <3>1. Safe /\ TypeOK
      BY SafeOrStopped
    <3> QED  BY <1>1, <3>1, AlertOnly DEF vars, TypeOK
  <2>4. TypeOK' /\ MutualExclusion' /\ AssertionsHold'
    BY <1>1 DEF IInv, TypeOK, MutualExclusion, AssertionsHold, vars
  <2> QED  BY <1>1, <2>3, <2>4 DEF IInv, Safe, Sound, vars
<1>2. CASE Next
  <2>1. PICK t \in Thread : Step(t)
    BY <1>2 DEF Next
  <2>2. Safe
    BY <2>1, SafeOrStopped DEF Step
  <2>3. \/ Safe'
        \/ TypeOK' /\ MutualExclusion' /\ fault' \in {"nil", "lost", "endless"}
    BY <2>1, <2>2, EveryStep
  <2> QED  BY <2>3 DEF IInv, Safe, Sound, AssertionsHold
<1> QED  BY <1>1, <1>2

-----------------------------------------------------------------------------
(* The theorems.                                                           *)

\* The inductive invariant holds in every reachable state of ThreadPThread.m3.
THEOREM Invariance == Spec => []IInv
<1>1. Init => IInv
  BY InitSafe, SafeOrStopped
<1> QED  BY <1>1, NextInv, PTL DEF Spec

\* Every variable keeps to its declared type.
THEOREM TypeCorrect == Spec => []TypeOK
<1>1. IInv => TypeOK
  BY DEF IInv
<1> QED  BY <1>1, Invariance, PTL

\* Acquire, Release, Wait and AlertWait give mutual exclusion: a locked mutex is
\* held by the thread that locked it and by no other.
THEOREM Exclusion == Spec => []MutualExclusion
<1>1. IInv => MutualExclusion
  BY DEF IInv
<1> QED  BY <1>1, Invariance, PTL

\* No ASSERT and no Die of LockMutex, UnlockMutex, XWait, Signal, Broadcast and
\* XPause is ever reached.
THEOREM NoAssertionFails == Spec => []AssertionsHold
<1>1. IInv => AssertionsHold
  BY DEF IInv
<1> QED  BY <1>1, Invariance, PTL

\* Whoever waits for a mutex or a condition is on its ring or about to be woken.
THEOREM WaitersKept == Spec => []NoLostWaiter
<1>1. ASSUME IInv, fault = "none"  PROVE NoLostWaiter
  <2>1. Sound /\ TypeOK
    BY <1>1, SafeOrStopped DEF Safe, Sound
  <2>2. \A o \in Object : Ring(o) = Queued(o)
    BY <2>1, RingIsQueue
  <2>3. \A u \in Thread : waitingOn[u] # NIL => waitingOn[u] \in Object
    BY <2>1 DEF TypeOK
  <2>4. \A u \in Thread :
          waitingOn[u] # NIL => u \in Ring(waitingOn[u]) \/ InFlight(u)
    BY <2>2, <2>3 DEF Queued
  <2>5. \A o \in Object : \A u \in Ring(o) : waitingOn[u] = o /\ ~InFlight(u)
    BY <2>2 DEF Queued
  <2> QED  BY <2>4, <2>5 DEF NoLostWaiter
<1>2. IInv => NoLostWaiter
  BY <1>1 DEF NoLostWaiter
<1> QED  BY <1>2, Invariance, PTL

\* A mutex that threads queue for is never free, and its holder does not queue
\* for it: this survives even a step that loses the alert race.
THEOREM NoIdleMutex == Spec => []NeverIdle
<1>1. ASSUME Safe  PROVE NeverIdle
  <2>1. \A m \in Mutex : m \in Object /\ Ring(m) = Queued(m)
    BY <1>1, RingIsQueue DEF Safe, Object
  <2> QED  BY <1>1, <2>1 DEF Safe, Sound, Holders, Rings, RingOK, NeverIdle
<1>2. ASSUME IInv, NeverIdle, [Next]_vars  PROVE NeverIdle'
  <2>1. CASE UNCHANGED vars
    BY <1>2, <2>1 DEF NeverIdle, Ring, vars
  <2>2. CASE Next
    <3>1. PICK t \in Thread : Step(t)
      BY <2>2 DEF Next
    <3>2. Safe
      BY <1>2, <3>1, SafeOrStopped DEF Step
    <3>3. Safe' => NeverIdle'
      BY <1>1, PTL
    <3> QED  BY <3>1, <3>2, <3>3, EveryStep
  <2> QED  BY <1>2, <2>1, <2>2
<1>3. Init => NeverIdle
  BY <1>1, InitSafe
<1>4. IInv /\ NeverIdle /\ [Next]_vars => NeverIdle'
  BY <1>2
<1> QED  BY <1>3, <1>4, Invariance, PTL DEF Spec

\* Outside the alert of an AlertWait that has also been signalled, no procedure
\* ever follows a wrong link or fails an assertion.
THEOREM OnlyAlertRace == Spec => OnlyTheAlertRaceFaults
<1>1. ASSUME IInv, [Next]_vars, fault' # fault
      PROVE  \E t \in Thread : pc[t] = "Waiting" /\ MustRaise(t) /\ InFlight(t)
  <2>1. PICK t \in Thread : Step(t)
    BY <1>1 DEF Next, vars
  <2>2. Safe /\ fault = "none"
    BY <1>1, <2>1, SafeOrStopped DEF Step
  <2>3. ~Safe'
    BY <1>1, <2>2 DEF Safe
  <2> QED  BY <2>1, <2>2, <2>3, EveryStep
<1>2. IInv /\ [Next]_vars =>
        [fault' # fault =>
           \E t \in Thread : pc[t] = "Waiting" /\ MustRaise(t) /\ InFlight(t)]_vars
  BY <1>1
<1> QED  BY <1>2, Invariance, PTL DEF Spec, OnlyTheAlertRaceFaults
=============================================================================
