--------------------------- MODULE HeapLockProofs ---------------------------
(***************************************************************************)
(* Proofs about HeapLock with Adversity = {}: for any clients, any of the  *)
(* collector's threads and any calls, with signals deferred by fork or     *)
(* not, the heap lock excludes, nobody is stuck and nobody sleeps over his *)
(* work.                                                                   *)
(*                                                                         *)
(* The argument: between any two steps that a thread has before it, it     *)
(* will be in a place, which says how deep it is in the heap lock, which   *)
(* locks it holds and what it knows.  A step leads from one place to       *)
(* another by a rule that mentions no variable.  The invariant says that   *)
(* there are places for everything that the threads have before them and   *)
(* that the state fits the place where each thread is.                     *)
(***************************************************************************)
EXTENDS HeapLock, FiniteSetTheorems, SequenceTheorems, WellFoundedInduction,
        TLAPS

-----------------------------------------------------------------------------
(* Places.                                                                 *)

\* What a thread is doing besides holding locks: it is in the ring ("in"), has
\* locked all of the ring ("all"), has called CollectorOn, has raised
\* disableCount ("dis"), is allocating, is in fork () with its signals held
\* back, has stopped the world, is on its way out ("ending").
Flags == {"in", "all", "on", "dis", "alloc", "fork", "world", "ending"}

\* What a thread knows: nobody else changes it while the thread holds the heap
\* lock, or, if it is lasting, at all.
Lasting == {"live", "unmade"}
HeapFacts == {"zero", "busy", "enabled", "none", "dead", "waiting"}

\* round: what LockRing is to lock while it locks it; wake: whom the thread is
\* about to wake.
Place ==
  [depth : 0 .. 3, held : SUBSET Locks, round : SUBSET Thread,
   wake : Thread \union {NIL}, is : SUBSET Flags,
   know : SUBSET (Lasting \union HeapFacts)]

Outer == {"slotsMu", "perfMu", "initMu"}

Sane(t, a) ==
  /\ a \in Place
  /\ a.depth >= 1 => "heapMu" \in a.held /\ "in" \in a.is
  /\ "m" \in a.held => t \in a.held
  /\ \A l \in a.held \cap Thread :
       (l \in {t, a.wake} \/ "activeMu" \in a.held) /\ "in" \in a.is
  /\ "all" \in a.is => a.held = Global /\ "in" \in a.is /\ a.round = {}
  /\ a.round # {} =>
       /\ a.wake = NIL /\ Global \subseteq a.held
       /\ a.held \subseteq Global \union a.round /\ "in" \in a.is
  /\ "on" \in a.is => a.depth >= 1
  /\ "dis" \in a.is => "in" \in a.is
  /\ "world" \in a.is => "activeMu" \in a.held
  /\ a.know \subseteq Lasting \/ a.depth >= 1
  /\ "unmade" \in a.know => "initMu" \in a.held

IsEnd(a) ==
  /\ a \in Place /\ a.depth = 0 /\ a.held = {} /\ a.round = {} /\ a.wake = NIL
  /\ a.is \subseteq {"in"} /\ a.know \subseteq {"live"}

-----------------------------------------------------------------------------
(* Rules.                                                                  *)

Keeps(a, b) == b.know \subseteq a.know
Forgets(a, b) == b.know \subseteq a.know \cap Lasting
SameLocks(a, b) ==
  b.depth = a.depth /\ b.held = a.held /\ b.round = a.round /\ b.wake = a.wake
Same(a, b) == SameLocks(a, b) /\ b.is = a.is

\* A thread that may wait for a lock.
Free(a) == a.is \cap {"all", "alloc", "fork", "world"} = {}

\* The order of the locks.
Above(t, l, a) ==
  \/ l = "slotsMu" /\ a.held = {}
  \/ l = "perfMu" /\ a.held \subseteq {"slotsMu"}
  \/ l = "initMu" /\ a.held \subseteq {"slotsMu", "perfMu"}
  \/ l = "heapMu" /\ a.held \subseteq Outer
  \/ l = "activeMu" /\ a.held \subseteq Outer \union {"heapMu"}
  \/ l \in {t, a.wake} \cap Thread /\ a.held = {} /\ "in" \in a.is
  \/ l \in a.round
  \/ l = "m" /\ a.held = {t}

Locking(t, l, a, b) ==
  /\ Free(a) /\ Above(t, l, a) /\ l \notin a.held
  /\ b.depth = a.depth /\ b.wake = a.wake /\ Keeps(a, b)
  /\ \/ b.held = a.held \union {l} /\ b.round = a.round /\ b.is = a.is
     \/ /\ a.round # {} /\ a.round \subseteq a.held \union {l}
        /\ b.held = Global /\ b.round = {} /\ b.is = a.is \union {"all"}

Unlocking(t, l, a, b) ==
  /\ l \in a.held /\ "all" \notin a.is /\ a.round = {}
  /\ l = "heapMu" => a.depth = 0
  /\ l = "activeMu" => a.held \cap Thread = {} /\ "world" \notin a.is
  /\ l \in Thread => "m" \notin a.held
  /\ b.depth = a.depth /\ b.held = a.held \ {l} /\ b.round = {} /\ b.is = a.is
  /\ b.wake = IF l = a.wake THEN NIL ELSE a.wake
  /\ Keeps(a, b)

MayCollect(a) ==
  a.depth \in 1 .. 2 /\ a.held \subseteq Outer \union {"heapMu"} /\ Free(a)

HeapRule(t, name, a, b) ==
  /\ name = "LockHeap" =>
       /\ a.depth <= 2
       /\ a.depth = 0 => a.held \subseteq Outer /\ Free(a) /\ "in" \in a.is
       /\ b.depth = a.depth + 1 /\ b.held = a.held \union {"heapMu"}
       /\ b.round = a.round /\ b.wake = a.wake /\ b.is = a.is /\ Keeps(a, b)
  /\ name \in {"HoldHeap", "HaveWaited"} =>
       /\ a.depth = 0 /\ "heapMu" \in a.held /\ "in" \in a.is
       /\ b.depth = 1 /\ b.held = a.held /\ b.round = a.round
       /\ b.wake = a.wake /\ b.is = a.is /\ Keeps(a, b)
  /\ name = "UnlockHeap" =>
       /\ a.depth >= 1 /\ a.round = {} /\ "all" \notin a.is
       /\ a.depth = 1 => "on" \notin a.is
       /\ b.depth = a.depth - 1
       /\ b.held = IF a.depth = 1 THEN a.held \ {"heapMu"} ELSE a.held
       /\ b.round = a.round /\ b.wake = a.wake /\ b.is = a.is /\ Forgets(a, b)
  /\ name = "WaitHeap" =>
       /\ t \in Service /\ a.depth = 1 /\ a.held = {"heapMu"} /\ a.is = {"in"}
       /\ t = "WeakCleaner" => "none" \in a.know
       /\ t = "BackgroundThread" => {"zero", "waiting"} \subseteq a.know
       /\ Same(a, b) /\ Forgets(a, b)
  /\ name = "ForegroundLoop" =>
       /\ t \in Service /\ t = "ForegroundThread" /\ a.depth = 1
       /\ a.held = {"heapMu"}
       /\ a.is = {"in"}
       /\ b.depth = 0 /\ b.held = {} /\ b.round = a.round /\ b.wake = a.wake
       /\ b.is = a.is /\ Forgets(a, b)

CollectorRule(t, name, a, b) ==
  /\ name = "CollectEnough" =>
       /\ a.depth >= 1 /\ ("on" \in a.is \/ "dis" \in a.is \/ MayCollect(a))
       /\ Same(a, b) /\ Forgets(a, b)
  /\ name \in {"CollectMore", "StartGC"} =>
       MayCollect(a) /\ "on" \in a.is /\ Same(a, b) /\ Forgets(a, b)
  /\ name = "CollectAll" =>
       /\ MayCollect(a) /\ "on" \in a.is /\ Same(a, b)
       /\ b.know \subseteq (a.know \cap Lasting) \union {"zero"}
  /\ name = "CollectSome" =>
       /\ MayCollect(a) /\ "on" \in a.is /\ "enabled" \in a.know
       /\ "live" \in a.know \/ "busy" \in a.know
       /\ Same(a, b) /\ Forgets(a, b)
  /\ name = "CollectorOn" =>
       /\ a.depth >= 1 /\ "on" \notin a.is /\ SameLocks(a, b)
       /\ b.is = a.is \union {"on"} /\ Keeps(a, b)
  /\ name = "CollectorOff" =>
       /\ "on" \in a.is /\ SameLocks(a, b)
       /\ b.is = a.is \ {"on"} /\ Keeps(a, b)
  /\ name \in {"EndCollection", "ForegroundAwake"} =>
       a.depth >= 1 /\ Same(a, b) /\ Forgets(a, b)
  /\ name = "Disable" =>
       /\ t \in Client /\ a.depth >= 1 /\ "dis" \notin a.is /\ "zero" \in a.know
       /\ SameLocks(a, b) /\ b.is = a.is \union {"dis"} /\ Forgets(a, b)
  /\ name = "Enable" =>
       /\ a.depth >= 1 /\ "dis" \in a.is
       /\ SameLocks(a, b) /\ b.is = a.is \ {"dis"} /\ Forgets(a, b)
  /\ name = "MarkRoots" =>
       /\ "on" \in a.is /\ "enabled" \in a.know
       /\ Same(a, b) /\ Forgets(a, b)
  /\ name = "BackgroundTest" =>
       /\ t \in Service /\ t = "BackgroundThread" /\ a.depth = 1
       /\ a.held = {"heapMu"}
       /\ a.is = {"in"} /\ Same(a, b) /\ Forgets(a, b)
  /\ name = "BackgroundAwake" =>
       t = "BackgroundThread" /\ a.depth >= 1 /\ Same(a, b) /\ Forgets(a, b)
  /\ name = "CleanerTest" =>
       /\ t \in Service /\ t = "WeakCleaner" /\ a.depth = 1
       /\ a.held = {"heapMu"}
       /\ a.is = {"in"} /\ Same(a, b) /\ Forgets(a, b)
  /\ name = "TakeDead" =>
       "dead" \in a.know /\ Same(a, b) /\ Forgets(a, b)

WorldRule(t, name, a, b) ==
  /\ name = "StopWorld" =>
       /\ "activeMu" \in a.held /\ a.held \subseteq Global /\ a.round = {}
       /\ Free(a) /\ "in" \in a.is /\ "live" \in a.know
       /\ SameLocks(a, b) /\ b.is = a.is \union {"world"} /\ Keeps(a, b)
  /\ name = "StartWorld" =>
       /\ "world" \in a.is
       /\ SameLocks(a, b) /\ b.is = a.is \ {"world"} /\ Keeps(a, b)
  /\ name = "InitMutex" =>
       a.held = {} /\ Free(a) /\ "in" \in a.is /\ Same(a, b) /\ Keeps(a, b)
  /\ name = "MakeMutex" =>
       /\ a.held = {"initMu"} /\ Free(a) /\ "in" \in a.is
       /\ b.depth = a.depth /\ b.held = {} /\ b.round = a.round
       /\ b.wake = a.wake /\ b.is = a.is /\ b.know \subseteq a.know \ {"unmade"}
  /\ name = "SetMutex" =>
       "unmade" \in a.know /\ Same(a, b) /\ b.know \subseteq a.know \ {"unmade"}
  /\ name = "Critical" =>
       /\ a.held = {} /\ "alloc" \notin a.is /\ SameLocks(a, b)
       /\ b.is = a.is \union {"alloc"} /\ Keeps(a, b)
  /\ name = "Uncritical" =>
       /\ "alloc" \in a.is /\ SameLocks(a, b)
       /\ b.is = a.is \ {"alloc"} /\ Keeps(a, b)
  /\ name \in {"start", "create", "ForgetStarted"} => Same(a, b) /\ Keeps(a, b)

ProcessRule(t, name, a, b) ==
  /\ name = "Enter" =>
       /\ a.held = {"activeMu"} /\ a.is = {} /\ SameLocks(a, b)
       /\ b.is = {"in"} /\ Keeps(a, b)
  /\ name = "Leave" =>
       /\ a.held = {"activeMu"} /\ a.is = {"in", "ending"} /\ a.wake = NIL
       /\ SameLocks(a, b) /\ b.is = {} /\ Keeps(a, b)
  /\ name = "Exit" => a.held = {} /\ a.is = {} /\ Same(a, b) /\ Keeps(a, b)
  /\ name = "LockRing" =>
       /\ a.depth = 1 /\ a.held = Global /\ a.is = {"in"} /\ a.round = {}
       /\ a.wake = NIL /\ SameLocks(a, b) /\ b.is = {"in", "all"}
       /\ b.know \subseteq a.know \cap {"live"}
  /\ name = "UnlockRing" =>
       /\ a.depth = 1 /\ "all" \in a.is /\ a.is \subseteq {"in", "all", "fork"}
       /\ a.wake = NIL /\ SameLocks(a, b) /\ b.is = a.is \ {"all"}
       /\ b.know \subseteq a.know \cap {"live"}
  /\ name = "EnterFork" =>
       /\ "fork" \notin a.is /\ SameLocks(a, b) /\ Keeps(a, b)
       /\ Solaris => "all" \in a.is /\ b.is = a.is \union {"fork"}
       /\ ~Solaris => b.is = a.is
  /\ name = "LeaveFork" =>
       SameLocks(a, b) /\ b.is = a.is \ {"fork"} /\ Keeps(a, b)
  /\ name = "Fork" =>
       /\ a.depth = 1 /\ a.held = Global /\ a.round = {} /\ a.wake = NIL
       /\ Solaris => a.is = {"in", "all", "fork"}
       /\ ~Solaris => a.is = {"in", "all"}
       /\ b.depth = 0 /\ b.held = {} /\ b.round = {} /\ b.wake = NIL
       /\ b.is = {"in"} /\ Forgets(a, b)

Rule(t, x, a, b) ==
  /\ Sane(t, a) /\ b \in Place
  /\ x[1] = "lock" => Locking(t, x[2], a, b)
  /\ x[1] = "unlock" => Unlocking(t, x[2], a, b)
  /\ HeapRule(t, x[1], a, b) /\ CollectorRule(t, x[1], a, b)
  /\ WorldRule(t, x[1], a, b) /\ ProcessRule(t, x[1], a, b)

\* The names of the steps.
Kinds ==
  {"lock", "unlock", "start", "create", "LockHeap", "HoldHeap", "UnlockHeap",
   "WaitHeap", "HaveWaited", "CollectEnough", "CollectMore", "CollectorOn",
   "CollectorOff", "CollectSome", "EndCollection", "CollectAll", "StartGC",
   "Disable", "Enable", "MarkRoots", "StopWorld", "StartWorld",
   "BackgroundTest", "BackgroundAwake", "ForegroundLoop", "ForegroundAwake",
   "CleanerTest", "TakeDead", "InitMutex", "MakeMutex", "SetMutex",
   "Critical", "Uncritical", "Enter", "Leave", "Exit", "LockRing",
   "UnlockRing", "EnterFork", "LeaveFork", "Fork", "ForgetStarted"}

\* These steps lead from a to b.
Piece(t, steps, a, b) ==
  /\ steps \in Seq(Steps)
  /\ Depth(steps) = a.depth - b.depth
  /\ \E f \in [1 .. Len(steps) + 1 -> Place] :
       /\ f[1] = a /\ f[Len(steps) + 1] = b
       /\ \A i \in 1 .. Len(steps) : Rule(t, steps[i], f[i], f[i + 1])

-----------------------------------------------------------------------------
(* Counting steps.                                                         *)

LEMMA StepTyped ==
  ASSUME NEW s \in Seq(Steps)
  PROVE  /\ Len(s) \in Nat /\ DOMAIN s = 1 .. Len(s)
         /\ \A i \in 1 .. Len(s) : s[i] \in Steps
BY LenProperties, ElementOfSeq

LEMMA AmongFinite ==
  ASSUME NEW s \in Seq(Steps), NEW N
  PROVE  /\ IsFiniteSet({i \in DOMAIN s : s[i][1] \in N})
         /\ Among(s, N) \in Nat
<1>1. IsFiniteSet(1 .. Len(s)) /\ DOMAIN s = 1 .. Len(s)
  BY StepTyped, FS_Interval
<1> QED  BY <1>1, FS_Subset, FS_CardinalityType DEF Among

LEMMA AmongEmpty == ASSUME NEW N PROVE Among(<<>>, N) = 0
<1>1. {i \in DOMAIN <<>> : <<>>[i][1] \in N} = {}
  OBVIOUS
<1> QED  BY <1>1, FS_EmptySet DEF Among

LEMMA AmongOne ==
  ASSUME NEW x, NEW N
  PROVE  Among(<<x>>, N) = IF x[1] \in N THEN 1 ELSE 0
<1>1. DOMAIN <<x>> = {1} /\ <<x>>[1] = x
  OBVIOUS
<1>2. CASE x[1] \in N
  <2>1. {i \in DOMAIN <<x>> : <<x>>[i][1] \in N} = {1}
    BY <1>1, <1>2
  <2> QED  BY <1>2, <2>1, FS_Singleton DEF Among
<1>3. CASE x[1] \notin N
  <2>1. {i \in DOMAIN <<x>> : <<x>>[i][1] \in N} = {}
    BY <1>1, <1>3
  <2> QED  BY <1>3, <2>1, FS_EmptySet DEF Among
<1> QED  BY <1>2, <1>3

LEMMA AmongConcat ==
  ASSUME NEW s \in Seq(Steps), NEW r \in Seq(Steps), NEW N
  PROVE  Among(s \o r, N) = Among(s, N) + Among(r, N)
<1> DEFINE n == Len(s)
           S == {i \in DOMAIN s : s[i][1] \in N}
           R == {i \in DOMAIN r : r[i][1] \in N}
           T == {i + n : i \in R}
           c == s \o r
           C == {i \in DOMAIN c : c[i][1] \in N}
<1>1. /\ n \in Nat /\ DOMAIN s = 1 .. n
      /\ Len(r) \in Nat /\ DOMAIN r = 1 .. Len(r)
  BY StepTyped
<1>2. /\ Len(c) = n + Len(r) /\ DOMAIN c = 1 .. n + Len(r)
      /\ \A i \in 1 .. n + Len(r) : c[i] = IF i <= n THEN s[i] ELSE r[i - n]
  BY <1>1, ConcatProperties, LenProperties
<1>3. IsFiniteSet(S) /\ IsFiniteSet(R)
  BY AmongFinite
<1> HIDE DEF c
<1>4. C = S \union T /\ S \cap T = {}
  <2>1. \A i \in C : i \in S \union T
    <3>1. SUFFICES ASSUME NEW i \in C PROVE i \in S \union T
      OBVIOUS
    <3>2. CASE i <= n
      BY <1>1, <1>2, <3>2
    <3>3. CASE i > n
      <4>1. i - n \in R /\ i = (i - n) + n
        BY <1>1, <1>2, <3>3
      <4> QED  BY <4>1
    <3> QED  BY <1>1, <1>2, <3>2, <3>3
  <2>2. \A i \in S \union T : i \in C
    BY <1>1, <1>2
  <2>3. S \cap T = {}
    BY <1>1
  <2> QED  BY <2>1, <2>2, <2>3
<1>5. IsFiniteSet(T) /\ Cardinality(T) = Cardinality(R)
  <2> DEFINE g == [i \in R |-> i + n]
  <2>1. g \in [R -> T] /\ \A i \in R : g[i] = i + n
    OBVIOUS
  <2>2. \A i \in R : \A j \in R : i + n = j + n => i = j
    BY <1>1
  <2>3. \A k \in T : \E i \in R : k = i + n
    OBVIOUS
  <2> HIDE DEF g, R, T
  <2>4. g \in Bijection(R, T)
    BY <2>1, <2>2, <2>3 DEF Bijection, Injection, Surjection, IsInjective
  <2>5. ExistsBijection(R, T)
    BY <2>4 DEF ExistsBijection
  <2> QED  BY <1>3, <2>5, FS_Bijection
<1>6. /\ Cardinality(S \cap T) = 0
      /\ Cardinality(S) \in Nat /\ Cardinality(T) \in Nat
  BY <1>3, <1>4, <1>5, FS_EmptySet, FS_CardinalityType
<1> HIDE DEF S, R, T, C
<1>7. Cardinality(S \union T) =
        Cardinality(S) + Cardinality(T) - Cardinality(S \cap T)
  BY <1>3, <1>5, FS_Union
<1>8. Cardinality(C) = Cardinality(S) + Cardinality(R)
  BY <1>4, <1>5, <1>6, <1>7
<1> QED  BY <1>8 DEF Among, c, S, R, C

LEMMA DepthConcat ==
  ASSUME NEW s \in Seq(Steps), NEW r \in Seq(Steps)
  PROVE  Depth(s \o r) = Depth(s) + Depth(r) /\ Depth(s) \in Int
<1>1. /\ \A N : Among(s, N) \in Nat /\ Among(r, N) \in Nat
      /\ \A N : Among(s \o r, N) = Among(s, N) + Among(r, N)
  BY AmongFinite, AmongConcat
<1> DEFINE up == {"UnlockHeap", "ForegroundLoop", "Fork"}
           down == {"LockHeap", "HoldHeap", "HaveWaited"}
<1>2. /\ Among(s, up) \in Nat /\ Among(r, up) \in Nat
      /\ Among(s, down) \in Nat /\ Among(r, down) \in Nat
      /\ Among(s \o r, up) = Among(s, up) + Among(r, up)
      /\ Among(s \o r, down) = Among(s, down) + Among(r, down)
  BY <1>1
<1> QED  BY <1>2 DEF Depth

\* What a rule does to the depth.
LEMMA DepthOne ==
  ASSUME NEW t, NEW x \in Steps, NEW a, NEW b, Rule(t, x, a, b)
  PROVE  Depth(<<x>>) = a.depth - b.depth
<1>1. /\ a.depth \in Int /\ b.depth \in Int
  BY DEF Rule, Sane, Place
<1>2. CASE x[1] \in {"UnlockHeap", "ForegroundLoop", "Fork"}
  <2>1. Depth(<<x>>) = 1
    BY <1>2, AmongOne DEF Depth
  <2>2. a.depth - b.depth = 1
    BY <1>1, <1>2 DEF Rule, HeapRule, ProcessRule
  <2> QED  BY <2>1, <2>2
<1>3. CASE x[1] \in {"LockHeap", "HoldHeap", "HaveWaited"}
  <2>1. Depth(<<x>>) = -1
    BY <1>3, AmongOne DEF Depth
  <2>2. a.depth - b.depth = -1
    BY <1>1, <1>3 DEF Rule, HeapRule
  <2> QED  BY <2>1, <2>2
<1>4. CASE x[1] \notin {"UnlockHeap", "ForegroundLoop", "Fork", "LockHeap",
                        "HoldHeap", "HaveWaited"}
  <2>1. Depth(<<x>>) = 0
    BY <1>4, AmongOne DEF Depth
  <2>2. x[1] \in Kinds
    BY DEF Steps, Kinds, Lock, Unlock, Step
  <2>3. a.depth = b.depth
    BY <1>4, <2>2
    DEF Kinds, Rule, Locking, Unlocking, HeapRule, CollectorRule, WorldRule,
        ProcessRule, Same, SameLocks
  <2> QED  BY <1>1, <2>1, <2>3
<1> QED  BY <1>2, <1>3, <1>4

-----------------------------------------------------------------------------
(* Pieces.                                                                 *)

LEMMA PieceTyped ==
  ASSUME NEW t, NEW s, NEW a, NEW b, Piece(t, s, a, b)
  PROVE  /\ s \in Seq(Steps) /\ Len(s) \in Nat
         /\ a \in Place /\ b \in Place /\ a.depth \in Int /\ b.depth \in Int
<1>1. s \in Seq(Steps) /\ Len(s) \in Nat
  BY LenProperties DEF Piece
<1>2. a \in Place /\ b \in Place
  BY <1>1 DEF Piece
<1> QED  BY <1>1, <1>2 DEF Place

LEMMA PieceEmpty ==
  ASSUME NEW t, NEW a \in Place
  PROVE  Piece(t, <<>>, a, a)
<1> DEFINE s == <<>>
           f == [i \in 1 .. 1 |-> a]
<1>1. Depth(s) = a.depth - a.depth
  <2>1. Depth(s) = 0
    BY AmongEmpty DEF Depth
  <2>2. a.depth - a.depth = 0
    BY DEF Place
  <2> QED  BY <2>1, <2>2
<1>2. Len(s) = 0 /\ s \in Seq(Steps)
  OBVIOUS
<1>3. f \in [1 .. 0 + 1 -> Place] /\ f[1] = a /\ f[0 + 1] = a
  OBVIOUS
<1> HIDE DEF s, f
<1>4. Piece(t, s, a, a)
  BY <1>1, <1>2, <1>3 DEF Piece
<1> QED  BY <1>4 DEF s

LEMMA PieceOne ==
  ASSUME NEW t, NEW x \in Steps, NEW a, NEW b, Rule(t, x, a, b)
  PROVE  Piece(t, <<x>>, a, b)
<1> DEFINE s == <<x>>
           f == [i \in 1 .. 2 |-> IF i = 1 THEN a ELSE b]
<1>1. s \in Seq(Steps) /\ Len(s) = 1 /\ s[1] = x
  OBVIOUS
<1>2. Depth(s) = a.depth - b.depth
  BY DepthOne
<1>3. a \in Place /\ b \in Place
  BY DEF Rule, Sane
<1>4. f \in [1 .. 1 + 1 -> Place] /\ f[1] = a /\ f[1 + 1] = b
  BY <1>3
<1> HIDE DEF s, f
<1>5. \A i \in 1 .. 1 : Rule(t, s[i], f[i], f[i + 1])
  <2>1. \A i \in 1 .. 1 : i = 1
    OBVIOUS
  <2>2. f[1] = a /\ f[1 + 1] = b
    BY <1>4
  <2> QED  BY <1>1, <2>1, <2>2
<1>6. Piece(t, s, a, b)
  BY <1>1, <1>2, <1>4, <1>5 DEF Piece
<1> QED  BY <1>6 DEF s

LEMMA PieceConcat ==
  ASSUME NEW t, NEW s, NEW r, NEW a, NEW b, NEW c,
         Piece(t, s, a, b), Piece(t, r, b, c)
  PROVE  Piece(t, s \o r, a, c)
<1> DEFINE n == Len(s)
           k == Len(r)
           q == s \o r
<1>1. /\ s \in Seq(Steps) /\ r \in Seq(Steps) /\ n \in Nat /\ k \in Nat
      /\ a.depth \in Int /\ b.depth \in Int /\ c.depth \in Int
  BY PieceTyped
<1>2. PICK f \in [1 .. n + 1 -> Place] :
        /\ f[1] = a /\ f[n + 1] = b
        /\ \A i \in 1 .. n : Rule(t, s[i], f[i], f[i + 1])
  BY DEF Piece
<1>3. PICK g \in [1 .. k + 1 -> Place] :
        /\ g[1] = b /\ g[k + 1] = c
        /\ \A i \in 1 .. k : Rule(t, r[i], g[i], g[i + 1])
  BY DEF Piece
<1>4. /\ q \in Seq(Steps) /\ Len(q) = n + k
      /\ \A i \in 1 .. n + k : q[i] = IF i <= n THEN s[i] ELSE r[i - n]
  BY <1>1, ConcatProperties
<1>5. Depth(q) = a.depth - c.depth
  <2>1. Depth(q) = Depth(s) + Depth(r)
    BY <1>1, DepthConcat
  <2>2. Depth(s) = a.depth - b.depth /\ Depth(r) = b.depth - c.depth
    BY DEF Piece
  <2> QED  BY <1>1, <2>1, <2>2
<1> DEFINE h == [i \in 1 .. n + k + 1 |-> IF i <= n THEN f[i] ELSE g[i - n]]
<1> HIDE DEF n, k, q
<1>6. \A i \in 1 .. n + k + 1 :
        /\ i <= n => h[i] = f[i]
        /\ i > n => h[i] = g[i - n]
        /\ h[i] \in Place
  BY <1>1, <1>2, <1>3
<1>7. h \in [1 .. (n + k) + 1 -> Place] /\ h[1] = a /\ h[(n + k) + 1] = c
  <2>1. n = 0 => h[1] = g[1] /\ f[n + 1] = a
    BY <1>1, <1>2, <1>6
  <2>2. n # 0 => h[1] = f[1]
    BY <1>1, <1>6
  <2>3. h[(n + k) + 1] = g[k + 1]
    BY <1>1, <1>6
  <2> QED  BY <1>1, <1>2, <1>3, <1>6, <2>1, <2>2, <2>3
<1> HIDE DEF h
<1>8. ASSUME NEW i \in 1 .. n + k
      PROVE  Rule(t, q[i], h[i], h[i + 1])
  <2>1. CASE i < n
    <3>1. i \in 1 .. n /\ h[i] = f[i] /\ h[i + 1] = f[i + 1] /\ q[i] = s[i]
      BY <1>1, <1>4, <1>6, <2>1
    <3> QED  BY <1>2, <3>1
  <2>2. CASE i = n
    <3>1. i \in 1 .. n /\ h[i] = f[i] /\ h[i + 1] = g[1] /\ q[i] = s[i]
      BY <1>1, <1>4, <1>6, <2>2
    <3>2. g[1] = f[i + 1]
      BY <1>2, <1>3, <2>2
    <3> QED  BY <1>2, <3>1, <3>2
  <2>3. CASE i > n
    <3>1. /\ i - n \in 1 .. k /\ h[i] = g[i - n] /\ q[i] = r[i - n]
          /\ h[i + 1] = g[(i - n) + 1]
      BY <1>1, <1>4, <1>6, <2>3
    <3> QED  BY <1>3, <3>1
  <2> QED  BY <1>1, <2>1, <2>2, <2>3
<1>9. Piece(t, q, a, c)
  BY <1>4, <1>5, <1>7, <1>8 DEF Piece
<1> QED  BY <1>9 DEF q

\* The first step and the rest.
LEMMA PieceSplit ==
  ASSUME NEW t, NEW s, NEW a, NEW e, Piece(t, s, a, e), s # <<>>
  PROVE  /\ Head(s) \in Steps
         /\ \E b : Rule(t, Head(s), a, b) /\ Piece(t, Tail(s), b, e)
<1> DEFINE n == Len(s)
           r == Tail(s)
           x == Head(s)
<1>1. /\ s \in Seq(Steps) /\ n \in Nat \ {0}
      /\ a.depth \in Int /\ e.depth \in Int
  BY PieceTyped, EmptySeq
<1>2. PICK f \in [1 .. n + 1 -> Place] :
        /\ f[1] = a /\ f[n + 1] = e
        /\ \A i \in 1 .. n : Rule(t, s[i], f[i], f[i + 1])
  BY DEF Piece
<1>3. /\ x \in Steps /\ r \in Seq(Steps) /\ Len(r) = n - 1 /\ x = s[1]
      /\ \A i \in 1 .. n - 1 : r[i] = s[i + 1]
  BY <1>1, HeadTailProperties
<1>4. s = <<x>> \o r
  <2>1. <<x>> \in Seq(Steps) /\ Len(<<x>>) = 1 /\ <<x>>[1] = x
    BY <1>3
  <2> DEFINE y == <<x>>
             q == y \o r
  <2> HIDE DEF y, r, n, x
  <2>2. /\ q \in Seq(Steps) /\ Len(q) = 1 + (n - 1)
        /\ \A i \in 1 .. 1 + (n - 1) : q[i] = IF i <= 1 THEN y[i] ELSE r[i - 1]
    BY <1>3, <2>1, ConcatProperties DEF y
  <2> HIDE DEF q
  <2>3. y[1] = s[1]
    BY <1>3, <2>1 DEF y
  <2>4. Len(q) = Len(s)
    BY <1>1, <2>2 DEF n
  <2>5. \A i \in 1 .. Len(s) : q[i] = s[i]
    <3>1. SUFFICES ASSUME NEW i \in 1 .. n PROVE q[i] = s[i]
      BY DEF n
    <3>2. CASE i = 1
      BY <1>1, <2>2, <2>3, <3>2
    <3>3. CASE i # 1
      <4>1. i - 1 \in 1 .. n - 1 /\ (i - 1) + 1 = i /\ q[i] = r[i - 1]
        BY <1>1, <2>2, <3>3
      <4> QED  BY <1>3, <4>1
    <3> QED  BY <3>2, <3>3
  <2>6. q = s
    BY <1>1, <2>2, <2>4, <2>5, SeqEqual
  <2> QED  BY <2>6 DEF q, y
<1>5. Rule(t, x, a, f[2]) /\ f[2] \in Place
  <2>1. 1 \in 1 .. n /\ 1 + 1 = 2 /\ 2 \in 1 .. n + 1
    BY <1>1
  <2> QED  BY <1>2, <1>3, <2>1
<1>6. Depth(r) = f[2].depth - e.depth
  <2>1. Depth(<<x>>) = a.depth - f[2].depth
    BY <1>3, <1>5, DepthOne
  <2>2. Depth(s) = a.depth - e.depth
    BY DEF Piece
  <2>3. Depth(s) = Depth(<<x>>) + Depth(r) /\ Depth(r) \in Int
    <3>1. <<x>> \in Seq(Steps)
      BY <1>3
    <3> HIDE DEF x, r
    <3>2. Depth(<<x>> \o r) = Depth(<<x>>) + Depth(r) /\ Depth(r) \in Int
      BY <1>3, <3>1, DepthConcat
    <3> QED  BY <1>4, <3>2
  <2>4. f[2].depth \in Int
    BY <1>5 DEF Place
  <2> QED  BY <1>1, <2>1, <2>2, <2>3, <2>4
<1> DEFINE g == [i \in 1 .. n |-> f[i + 1]]
<1> HIDE DEF n, r, x
<1>7. g \in [1 .. (n - 1) + 1 -> Place] /\ g[1] = f[2] /\ g[(n - 1) + 1] = e
  BY <1>1, <1>2
<1>8. ASSUME NEW i \in 1 .. n - 1
      PROVE  Rule(t, r[i], g[i], g[i + 1])
  <2>1. i + 1 \in 1 .. n /\ g[i] = f[i + 1] /\ g[i + 1] = f[(i + 1) + 1]
        /\ r[i] = s[i + 1]
    BY <1>1, <1>3
  <2> HIDE DEF g
  <2> QED  BY <1>2, <2>1
<1> HIDE DEF g
<1>9. Piece(t, r, f[2], e)
  BY <1>3, <1>6, <1>7, <1>8 DEF Piece
<1> QED  BY <1>3, <1>5, <1>9 DEF r, x

LEMMA PieceCons ==
  ASSUME NEW t, NEW x \in Steps, NEW s, NEW a, NEW b, NEW c,
         Rule(t, x, a, b), Piece(t, s, b, c)
  PROVE  Piece(t, <<x>> \o s, a, c)
BY PieceOne, PieceConcat

-----------------------------------------------------------------------------
(* Short sequences of steps, one step after the other.                     *)

LEMMA ConsEqual ==
  ASSUME NEW x \in Steps, NEW r \in Seq(Steps), NEW q \in Seq(Steps),
         Len(q) = Len(r) + 1, q[1] = x, \A i \in 1 .. Len(r) : q[i + 1] = r[i]
  PROVE  q = <<x>> \o r
<1> DEFINE y == <<x>>
           n == Len(r)
           p == y \o r
<1>1. y \in Seq(Steps) /\ Len(y) = 1 /\ y[1] = x /\ n \in Nat
  BY LenProperties
<1> HIDE DEF y
<1>2. /\ p \in Seq(Steps) /\ Len(p) = Len(y) + Len(r)
      /\ \A i \in 1 .. Len(y) + Len(r) :
           p[i] = IF i <= Len(y) THEN y[i] ELSE r[i - Len(y)]
  BY <1>1, ConcatProperties
<1> HIDE DEF p
<1>3. ASSUME NEW i \in 1 .. 1 + n PROVE p[i] = q[i]
  <2> HIDE DEF n
  <2>1. CASE i = 1
    BY <1>1, <1>2, <2>1 DEF n
  <2>2. CASE i # 1
    <3>1. i - 1 \in 1 .. n /\ (i - 1) + 1 = i /\ p[i] = r[i - 1]
      BY <1>1, <1>2, <2>2 DEF n
    <3>2. q[(i - 1) + 1] = r[i - 1]
      BY <3>1 DEF n
    <3> QED  BY <3>1, <3>2
  <2> QED  BY <2>1, <2>2
<1>4. Len(q) = Len(p) /\ \A i \in 1 .. Len(p) : p[i] = q[i]
  BY <1>1, <1>2, <1>3 DEF n
<1>5. p = q
  BY <1>2, <1>4, SeqEqual
<1> QED  BY <1>5 DEF p, y

LEMMA Two ==
  ASSUME NEW x \in Steps, NEW y \in Steps
  PROVE  <<x, y>> \in Seq(Steps) /\ <<x, y>> = <<x>> \o <<y>>
<1> DEFINE r == <<y>>
           q == <<x, y>>
<1>1. /\ r \in Seq(Steps) /\ q \in Seq(Steps) /\ Len(q) = 2 /\ Len(r) = 1
      /\ q[1] = x /\ q[2] = r[1]
  OBVIOUS
<1> HIDE DEF q, r
<1>2. Len(q) = Len(r) + 1 /\ \A i \in 1 .. Len(r) : q[i + 1] = r[i]
  BY <1>1
<1>3. q = <<x>> \o r
  BY <1>1, <1>2, ConsEqual
<1> QED  BY <1>1, <1>3 DEF q, r

LEMMA Three ==
  ASSUME NEW x \in Steps, NEW y \in Steps, NEW z \in Steps
  PROVE  <<x, y, z>> \in Seq(Steps) /\ <<x, y, z>> = <<x>> \o <<y, z>>
<1> DEFINE r == <<y, z>>
           q == <<x, y, z>>
<1>1. /\ r \in Seq(Steps) /\ q \in Seq(Steps) /\ Len(q) = 3 /\ Len(r) = 2
      /\ q[1] = x /\ q[2] = r[1] /\ q[3] = r[2]
  OBVIOUS
<1> HIDE DEF q, r
<1>2. Len(q) = Len(r) + 1 /\ \A i \in 1 .. Len(r) : q[i + 1] = r[i]
  BY <1>1
<1>3. q = <<x>> \o r
  BY <1>1, <1>2, ConsEqual
<1> QED  BY <1>1, <1>3 DEF q, r

LEMMA Four ==
  ASSUME NEW x \in Steps, NEW y \in Steps, NEW z \in Steps, NEW u \in Steps
  PROVE  <<x, y, z, u>> \in Seq(Steps) /\ <<x, y, z, u>> = <<x>> \o <<y, z, u>>
<1> DEFINE r == <<y, z, u>>
           q == <<x, y, z, u>>
<1>1. /\ r \in Seq(Steps) /\ q \in Seq(Steps) /\ Len(q) = 4 /\ Len(r) = 3
      /\ q[1] = x /\ q[2] = r[1] /\ q[3] = r[2] /\ q[4] = r[3]
  OBVIOUS
<1> HIDE DEF q, r
<1>2. Len(q) = Len(r) + 1 /\ \A i \in 1 .. Len(r) : q[i + 1] = r[i]
  BY <1>1
<1>3. q = <<x>> \o r
  BY <1>1, <1>2, ConsEqual
<1> QED  BY <1>1, <1>3 DEF q, r

LEMMA PieceTwo ==
  ASSUME NEW t, NEW x \in Steps, NEW y \in Steps, NEW a, NEW b, NEW c,
         Rule(t, x, a, b), Rule(t, y, b, c)
  PROVE  Piece(t, <<x, y>>, a, c)
<1>1. Piece(t, <<y>>, b, c)
  BY PieceOne
<1>2. Piece(t, <<x>> \o <<y>>, a, c)
  BY <1>1, PieceCons
<1> QED  BY <1>2, Two

LEMMA PieceThree ==
  ASSUME NEW t, NEW x \in Steps, NEW y \in Steps, NEW z \in Steps,
         NEW a, NEW b, NEW c, NEW d,
         Rule(t, x, a, b), Rule(t, y, b, c), Rule(t, z, c, d)
  PROVE  Piece(t, <<x, y, z>>, a, d)
<1>1. Piece(t, <<y, z>>, b, d)
  BY PieceTwo
<1>2. Piece(t, <<x>> \o <<y, z>>, a, d)
  BY <1>1, PieceCons
<1> QED  BY <1>2, Three

LEMMA PieceFour ==
  ASSUME NEW t, NEW x \in Steps, NEW y \in Steps, NEW z \in Steps,
         NEW u \in Steps, NEW a, NEW b, NEW c, NEW d, NEW e,
         Rule(t, x, a, b), Rule(t, y, b, c), Rule(t, z, c, d), Rule(t, u, d, e)
  PROVE  Piece(t, <<x, y, z, u>>, a, e)
<1>1. Piece(t, <<y, z, u>>, b, e)
  BY PieceThree
<1>2. Piece(t, <<x>> \o <<y, z, u>>, a, e)
  BY <1>1, PieceCons
<1>3. <<x, y, z, u>> = <<x>> \o <<y, z, u>>
  BY Four, SMTT(30)
<1> QED  BY <1>2, <1>3, Zenon

LEMMA PieceFive ==
  ASSUME NEW t, NEW x \in Steps, NEW y \in Steps, NEW z \in Steps,
         NEW u \in Steps, NEW v \in Steps,
         NEW a, NEW b, NEW c, NEW d, NEW e, NEW f,
         Rule(t, x, a, b), Rule(t, y, b, c), Rule(t, z, c, d), Rule(t, u, d, e),
         Rule(t, v, e, f)
  PROVE  Piece(t, <<x, y, z, u, v>>, a, f)
<1> DEFINE r == <<y, z, u, v>>
           q == <<x, y, z, u, v>>
<1>1. Piece(t, r, b, f)
  BY PieceFour
<1>2. /\ r \in Seq(Steps) /\ q \in Seq(Steps) /\ Len(q) = 5 /\ Len(r) = 4
      /\ q[1] = x /\ q[2] = r[1] /\ q[3] = r[2] /\ q[4] = r[3] /\ q[5] = r[4]
  OBVIOUS
<1> HIDE DEF q, r
<1>3. Len(q) = Len(r) + 1 /\ \A i \in 1 .. Len(r) : q[i + 1] = r[i]
  BY <1>2
<1>4. q = <<x>> \o r
  BY <1>2, <1>3, ConsEqual
<1>5. Piece(t, q, a, f)
  BY <1>1, <1>4, PieceCons
<1> QED  BY <1>5 DEF q

LEMMA PieceSix ==
  ASSUME NEW t, NEW x \in Steps, NEW y \in Steps, NEW z \in Steps,
         NEW u \in Steps, NEW v \in Steps, NEW w \in Steps,
         NEW a, NEW b, NEW c, NEW d, NEW e, NEW f, NEW g,
         Rule(t, x, a, b), Rule(t, y, b, c), Rule(t, z, c, d), Rule(t, u, d, e),
         Rule(t, v, e, f), Rule(t, w, f, g)
  PROVE  Piece(t, <<x, y, z, u, v, w>>, a, g)
<1> DEFINE r == <<y, z, u, v, w>>
           q == <<x, y, z, u, v, w>>
<1>1. Piece(t, r, b, g)
  BY PieceFive
<1>2. /\ r \in Seq(Steps) /\ q \in Seq(Steps) /\ Len(q) = 6 /\ Len(r) = 5
      /\ q[1] = x /\ q[2] = r[1] /\ q[3] = r[2] /\ q[4] = r[3] /\ q[5] = r[4]
      /\ q[6] = r[5]
  OBVIOUS
<1> HIDE DEF q, r
<1>3. Len(q) = Len(r) + 1 /\ \A i \in 1 .. Len(r) : q[i + 1] = r[i]
  BY <1>2
<1>4. q = <<x>> \o r
  BY <1>2, <1>3, ConsEqual
<1>5. Piece(t, q, a, g)
  BY <1>1, <1>4, PieceCons
<1> QED  BY <1>5 DEF q

-----------------------------------------------------------------------------
(* The procedures, as pieces.                                              *)

LEMMA ThreadsAreNoLocks ==
  /\ Thread \cap Global = {} /\ "m" \notin Thread /\ NIL \notin Thread
  /\ "m" \notin Global
BY ServicesAreKnown, ClientsAreNoLocks DEF Thread, Global, NIL

LEMMA StepsKnown ==
  /\ \A name \in Kinds \ {"lock", "unlock", "start", "create"} :
       Step(name) \in Steps
  /\ \A l \in Locks : Lock(l) \in Steps /\ Unlock(l) \in Steps
  /\ \A s \in Service : <<"start", s>> \in Steps /\ <<"create", s>> \in Steps
BY DEF Steps, Kinds

\* A step need only obey the rule for its name.
HeapSteps ==
  {"LockHeap", "HoldHeap", "HaveWaited", "UnlockHeap", "WaitHeap",
   "ForegroundLoop"}
CollectorSteps ==
  {"CollectEnough", "CollectMore", "StartGC", "CollectAll", "CollectSome",
   "CollectorOn", "CollectorOff", "EndCollection", "ForegroundAwake",
   "Disable", "Enable", "MarkRoots", "BackgroundTest", "BackgroundAwake",
   "CleanerTest", "TakeDead"}
WorldSteps ==
  {"StopWorld", "StartWorld", "InitMutex", "MakeMutex", "SetMutex",
   "Critical", "Uncritical", "ForgetStarted"}
ProcessSteps ==
  {"Enter", "Leave", "Exit", "LockRing", "UnlockRing", "EnterFork",
   "LeaveFork", "Fork"}

LEMMA RuleByName ==
  ASSUME NEW t, NEW a, NEW b \in Place, Sane(t, a)
  PROVE  /\ \A name \in HeapSteps :
              HeapRule(t, name, a, b) => Rule(t, Step(name), a, b)
         /\ \A name \in CollectorSteps :
              CollectorRule(t, name, a, b) => Rule(t, Step(name), a, b)
         /\ \A name \in WorldSteps :
              WorldRule(t, name, a, b) => Rule(t, Step(name), a, b)
         /\ \A name \in ProcessSteps :
              ProcessRule(t, name, a, b) => Rule(t, Step(name), a, b)
         /\ \A l \in Locks : Locking(t, l, a, b) => Rule(t, Lock(l), a, b)
         /\ \A l \in Locks : Unlocking(t, l, a, b) => Rule(t, Unlock(l), a, b)
         /\ \A s \in Service : WorldRule(t, "start", a, b) =>
              Rule(t, <<"start", s>>, a, b)
         /\ \A s \in Service : WorldRule(t, "create", a, b) =>
              Rule(t, <<"create", s>>, a, b)
<1>1. \A name \in CollectorSteps \union WorldSteps \union ProcessSteps
                  \union {"lock", "unlock", "start", "create"} :
        HeapRule(t, name, a, b)
  BY DEF HeapRule, CollectorSteps, WorldSteps, ProcessSteps
<1>2. \A name \in HeapSteps \union WorldSteps \union ProcessSteps
                  \union {"lock", "unlock", "start", "create"} :
        CollectorRule(t, name, a, b)
  BY DEF CollectorRule, HeapSteps, WorldSteps, ProcessSteps
<1>3. \A name \in HeapSteps \union CollectorSteps \union ProcessSteps
                  \union {"lock", "unlock"} :
        WorldRule(t, name, a, b)
  BY DEF WorldRule, HeapSteps, CollectorSteps, ProcessSteps
<1>4. \A name \in HeapSteps \union CollectorSteps \union WorldSteps
                  \union {"lock", "unlock", "start", "create"} :
        ProcessRule(t, name, a, b)
  BY DEF ProcessRule, HeapSteps, CollectorSteps, WorldSteps
<1>5. {"lock", "unlock"} \cap
        (HeapSteps \union CollectorSteps \union WorldSteps \union ProcessSteps)
          = {}
  BY DEF HeapSteps, CollectorSteps, WorldSteps, ProcessSteps
<1> QED  BY <1>1, <1>2, <1>3, <1>4, <1>5 DEF Rule, Step, Lock, Unlock

\* A place that is like a but for what is given.
From(a, depth, held, is, know) ==
  [depth |-> depth, held |-> held, round |-> a.round, wake |-> a.wake,
   is |-> is, know |-> know]

LEMMA FromTyped ==
  ASSUME NEW a \in Place, NEW depth \in 0 .. 3, NEW held \in SUBSET Locks,
         NEW is \in SUBSET Flags, NEW know \in SUBSET (Lasting \union HeapFacts)
  PROVE  LET c == From(a, depth, held, is, know)
         IN  /\ c \in Place /\ c.depth = depth /\ c.held = held /\ c.is = is
             /\ c.know = know /\ c.round = a.round /\ c.wake = a.wake
BY DEF From, Place

LEMMA PlaceFields ==
  ASSUME NEW a \in Place
  PROVE  /\ a.depth \in 0 .. 3 /\ a.held \in SUBSET Locks
         /\ a.is \in SUBSET Flags
         /\ a.know \in SUBSET (Lasting \union HeapFacts)
         /\ a.round \in SUBSET Thread /\ a.wake \in Thread \union {NIL}
BY DEF Place

LEMMA LongRoutePiece ==
  ASSUME NEW t, NEW a, NEW b \in Place, Sane(t, a), Same(a, b), Forgets(a, b),
         a.depth <= 2, a.round = {}, "all" \notin a.is,
         a.depth = 0 => a.held \subseteq Outer /\ Free(a) /\ "in" \in a.is,
         a.depth >= 1 => \/ "on" \in a.is \/ "dis" \in a.is
                         \/ a.depth = 1 /\ MayCollect(a)
  PROVE  Piece(t, LongRoute, a, b)
<1> DEFINE held == a.held \union {"heapMu"}
           c == From(a, a.depth + 1, held, a.is, a.know)
           d == From(a, a.depth + 1, held, a.is, b.know)
<1>1. a \in Place
  BY DEF Sane
<1>2. /\ a.depth \in 0 .. 2 /\ a.depth + 1 \in 1 .. 3 /\ a.is \in SUBSET Flags
      /\ a.know \in SUBSET (Lasting \union HeapFacts)
      /\ b.know \in SUBSET (Lasting \union HeapFacts)
      /\ held \in SUBSET Locks
  BY <1>1, PlaceFields DEF Locks, Global
<1> HIDE DEF held
<1>3. /\ c \in Place /\ c.depth = a.depth + 1 /\ c.held = held
      /\ c.is = a.is /\ c.know = a.know /\ c.round = a.round /\ c.wake = a.wake
  BY <1>1, <1>2, FromTyped
<1>4. /\ d \in Place /\ d.depth = a.depth + 1 /\ d.held = held
      /\ d.is = a.is /\ d.know = b.know /\ d.round = a.round /\ d.wake = a.wake
  BY <1>1, <1>2, FromTyped
<1> HIDE DEF c, d
<1>5. Rule(t, Step("LockHeap"), a, c)
  <2>1. HeapRule(t, "LockHeap", a, c)
    BY <1>2, <1>3 DEF HeapRule, Keeps, held
  <2> QED  BY <1>3, <2>1, RuleByName DEF HeapSteps
<1>6. Sane(t, c)
  BY <1>2, <1>3, ThreadsAreNoLocks DEF Sane, Outer, Global, Free, held
<1>7. Rule(t, Step("CollectEnough"), c, d)
  <2>1. "on" \in c.is \/ "dis" \in c.is \/ MayCollect(c)
    BY <1>2, <1>3 DEF MayCollect, Free, held
  <2>2. CollectorRule(t, "CollectEnough", c, d)
    BY <1>2, <1>3, <1>4, <2>1 DEF CollectorRule, Same, SameLocks, Forgets
  <2> QED  BY <1>4, <1>6, <2>2, RuleByName DEF CollectorSteps
<1>8. Sane(t, d)
  BY <1>2, <1>3, <1>4, <1>6 DEF Sane, Forgets
<1>9. Rule(t, Step("UnlockHeap"), d, b)
  <2>1. b.held = IF d.depth = 1 THEN d.held \ {"heapMu"} ELSE d.held
    <3>1. CASE a.depth = 0
      <4>1. "heapMu" \notin a.held
        BY <3>1 DEF Outer
      <4> QED  BY <1>2, <1>4, <3>1, <4>1 DEF Same, SameLocks, held
    <3>2. CASE a.depth # 0
      <4>1. "heapMu" \in a.held
        BY <1>2, <3>2 DEF Sane
      <4> QED  BY <1>2, <1>4, <3>2, <4>1 DEF Same, SameLocks, held
    <3> QED  BY <3>1, <3>2
  <2>2. d.depth = 1 => "on" \notin d.is
    BY <1>2, <1>4 DEF Sane
  <2>3. HeapRule(t, "UnlockHeap", d, b)
    BY <1>2, <1>4, <2>1, <2>2 DEF HeapRule, Same, SameLocks, Forgets
  <2> QED  BY <1>8, <2>3, RuleByName DEF HeapSteps
<1> QED  BY <1>5, <1>7, <1>9, PieceThree, StepsKnown DEF LongRoute, Kinds

\* A place outside of any round.
Spot(wake, depth, held, is, know) ==
  [depth |-> depth, held |-> held, round |-> {}, wake |-> wake, is |-> is,
   know |-> know]

LEMMA SpotTyped ==
  ASSUME NEW w \in Thread \union {NIL}, NEW d \in 0 .. 3,
         NEW h \in SUBSET Global, NEW i \in SUBSET Flags,
         NEW k \in SUBSET (Lasting \union HeapFacts)
  PROVE  Spot(w, d, h, i, k) \in Place
BY DEF Spot, Place, Locks

LEMMA CriticalPiece ==
  ASSUME NEW t, NEW k \in SUBSET {"live"}
  PROVE  Piece(t, <<Step("Critical"), Step("Uncritical")>>,
               Spot(NIL, 0, {}, {"in"}, k),
               Spot(NIL, 0, {}, {"in"}, k))
<1> DEFINE a == Spot(NIL, 0, {}, {"in"}, k)
           b == Spot(NIL, 0, {}, {"in", "alloc"}, k)
           c == Spot(NIL, 0, {}, {"in"}, k)
<1>1. WorldRule(t, "Critical", a, b)
  BY DEF Spot, WorldRule, SameLocks, Keeps
<1>2. WorldRule(t, "Uncritical", b, c)
  BY DEF Spot, WorldRule, SameLocks, Keeps
<1>3. Sane(t, a)
  BY ThreadsAreNoLocks DEF Spot, Sane, Place, Lasting, HeapFacts, Global,
    Flags, Locks
<1>4. Sane(t, b)
  BY ThreadsAreNoLocks DEF Spot, Sane, Place, Lasting, HeapFacts, Global,
    Flags, Locks
<1>5. a \in Place /\ b \in Place /\ c \in Place
  BY <1>3, <1>4, SpotTyped DEF Sane, Lasting, HeapFacts, Global, Flags
<1> HIDE DEF a, b, c
<1>6. Rule(t, Step("Critical"), a, b)
  BY <1>1, <1>3, <1>5, RuleByName DEF WorldSteps
<1>7. Rule(t, Step("Uncritical"), b, c)
  BY <1>2, <1>4, <1>5, RuleByName DEF WorldSteps
<1>8. Piece(t, <<Step("Critical"), Step("Uncritical")>>, a, c)
  BY <1>6, <1>7, PieceTwo, StepsKnown DEF Kinds, Locks, Global
<1> QED  BY <1>8 DEF a, c

LEMMA EnterHeapPiece ==
  ASSUME NEW t, NEW k \in SUBSET {"live"}
  PROVE  Piece(t, <<Step("LockHeap")>>,
               Spot(NIL, 0, {}, {"in"}, k),
               Spot(NIL, 1, {"heapMu"}, {"in"}, k))
<1> DEFINE a == Spot(NIL, 0, {}, {"in"}, k)
           b == Spot(NIL, 1, {"heapMu"}, {"in"}, k)
<1>1. HeapRule(t, "LockHeap", a, b)
  BY DEF Spot, HeapRule, Keeps, Free, Outer
<1>2. Sane(t, a)
  BY ThreadsAreNoLocks DEF Spot, Sane, Place, Lasting, HeapFacts, Global,
    Flags, Locks
<1>3. a \in Place /\ b \in Place
  BY <1>2, SpotTyped DEF Sane, Lasting, HeapFacts, Global, Flags
<1> HIDE DEF a, b
<1>4. Rule(t, Step("LockHeap"), a, b)
  BY <1>1, <1>2, <1>3, RuleByName DEF HeapSteps
<1>5. Piece(t, <<Step("LockHeap")>>, a, b)
  BY <1>4, PieceOne, StepsKnown DEF Kinds, Locks, Global
<1> QED  BY <1>5 DEF a, b

LEMMA LeaveHeapPiece ==
  ASSUME NEW t, NEW k \in SUBSET {"live"}, NEW z \in SUBSET {"live", "zero"},
         k \subseteq z
  PROVE  Piece(t, <<Step("UnlockHeap")>>,
               Spot(NIL, 1, {"heapMu"}, {"in"}, z),
               Spot(NIL, 0, {}, {"in"}, k))
<1> DEFINE a == Spot(NIL, 1, {"heapMu"}, {"in"}, z)
           b == Spot(NIL, 0, {}, {"in"}, k)
<1>1. HeapRule(t, "UnlockHeap", a, b)
  BY DEF Spot, HeapRule, Forgets, Lasting
<1>2. Sane(t, a)
  BY ThreadsAreNoLocks DEF Spot, Sane, Place, Lasting, HeapFacts, Global,
    Flags, Locks
<1>3. a \in Place /\ b \in Place
  BY <1>2, SpotTyped DEF Sane, Lasting, HeapFacts, Global, Flags
<1> HIDE DEF a, b
<1>4. Rule(t, Step("UnlockHeap"), a, b)
  BY <1>1, <1>2, <1>3, RuleByName DEF HeapSteps
<1>5. Piece(t, <<Step("UnlockHeap")>>, a, b)
  BY <1>4, PieceOne, StepsKnown DEF Kinds, Locks, Global
<1> QED  BY <1>5 DEF a, b

LEMMA FinishGCPiece ==
  ASSUME NEW t, NEW k \in SUBSET {"live"}
  PROVE  Piece(t, FinishGC,
               Spot(NIL, 1, {"heapMu"}, {"in"}, k),
               Spot(NIL, 1, {"heapMu"}, {"in"}, k \union {"zero"}))
<1> DEFINE a == Spot(NIL, 1, {"heapMu"}, {"in"}, k)
           b == Spot(NIL, 1, {"heapMu"}, {"in", "on"}, k)
           c == Spot(NIL, 1, {"heapMu"}, {"in", "on"}, k \union {"zero"})
           d == Spot(NIL, 1, {"heapMu"}, {"in"}, k \union {"zero"})
<1>1. CollectorRule(t, "CollectorOn", a, b)
  BY DEF Spot, CollectorRule, SameLocks, Keeps
<1>2. CollectorRule(t, "CollectAll", b, c)
  BY DEF Spot, CollectorRule, Same, SameLocks, Lasting, MayCollect, Free,
      Outer
<1>3. CollectorRule(t, "CollectorOff", c, d)
  BY DEF Spot, CollectorRule, SameLocks, Keeps
<1>4. Sane(t, a)
  BY ThreadsAreNoLocks DEF Spot, Sane, Place, Lasting, HeapFacts, Global,
    Flags, Locks
<1>5. Sane(t, b)
  BY ThreadsAreNoLocks DEF Spot, Sane, Place, Lasting, HeapFacts, Global,
    Flags, Locks
<1>6. Sane(t, c)
  BY ThreadsAreNoLocks DEF Spot, Sane, Place, Lasting, HeapFacts, Global,
    Flags, Locks
<1>7. a \in Place /\ b \in Place /\ c \in Place /\ d \in Place
  BY <1>4, <1>5, <1>6, SpotTyped DEF Sane, Lasting, HeapFacts, Global, Flags
<1> HIDE DEF a, b, c, d
<1>8. Rule(t, Step("CollectorOn"), a, b)
  BY <1>1, <1>4, <1>7, RuleByName DEF CollectorSteps
<1>9. Rule(t, Step("CollectAll"), b, c)
  BY <1>2, <1>5, <1>7, RuleByName DEF CollectorSteps
<1>10. Rule(t, Step("CollectorOff"), c, d)
  BY <1>3, <1>6, <1>7, RuleByName DEF CollectorSteps
<1>11. Piece(t, FinishGC, a, d)
  BY <1>8, <1>9, <1>10, PieceThree, StepsKnown DEF Kinds, Locks, Global,
    FinishGC
<1> QED  BY <1>11 DEF a, d

LEMMA StartGCPiece ==
  ASSUME NEW t, NEW k \in SUBSET {"live"}
  PROVE  Piece(t,
               <<Step("CollectorOn"), Step("StartGC"), Step("CollectorOff")>>,
               Spot(NIL, 1, {"heapMu"}, {"in"}, k \union {"zero"}),
               Spot(NIL, 1, {"heapMu"}, {"in"}, k))
<1> DEFINE a == Spot(NIL, 1, {"heapMu"}, {"in"}, k \union {"zero"})
           b == Spot(NIL, 1, {"heapMu"}, {"in", "on"}, k \union {"zero"})
           c == Spot(NIL, 1, {"heapMu"}, {"in", "on"}, k)
           d == Spot(NIL, 1, {"heapMu"}, {"in"}, k)
<1>1. CollectorRule(t, "CollectorOn", a, b)
  BY DEF Spot, CollectorRule, SameLocks, Keeps
<1>2. CollectorRule(t, "StartGC", b, c)
  BY DEF Spot, CollectorRule, Same, SameLocks, Forgets, Lasting,
      MayCollect, Free, Outer
<1>3. CollectorRule(t, "CollectorOff", c, d)
  BY DEF Spot, CollectorRule, SameLocks, Keeps
<1>4. Sane(t, a)
  BY ThreadsAreNoLocks DEF Spot, Sane, Place, Lasting, HeapFacts, Global,
    Flags, Locks
<1>5. Sane(t, b)
  BY ThreadsAreNoLocks DEF Spot, Sane, Place, Lasting, HeapFacts, Global,
    Flags, Locks
<1>6. Sane(t, c)
  BY ThreadsAreNoLocks DEF Spot, Sane, Place, Lasting, HeapFacts, Global,
    Flags, Locks
<1>7. a \in Place /\ b \in Place /\ c \in Place /\ d \in Place
  BY <1>4, <1>5, <1>6, SpotTyped DEF Sane, Lasting, HeapFacts, Global, Flags
<1> HIDE DEF a, b, c, d
<1>8. Rule(t, Step("CollectorOn"), a, b)
  BY <1>1, <1>4, <1>7, RuleByName DEF CollectorSteps
<1>9. Rule(t, Step("StartGC"), b, c)
  BY <1>2, <1>5, <1>7, RuleByName DEF CollectorSteps
<1>10. Rule(t, Step("CollectorOff"), c, d)
  BY <1>3, <1>6, <1>7, RuleByName DEF CollectorSteps
<1>11. Piece(t, <<Step("CollectorOn"), Step("StartGC"), Step("CollectorOff")>>,
             a, d)
  BY <1>8, <1>9, <1>10, PieceThree, StepsKnown DEF Kinds, Locks, Global
<1> QED  BY <1>11 DEF a, d

LEMMA DisablePiece ==
  ASSUME NEW t \in Client, NEW k \in SUBSET {"live"}
  PROVE  Piece(t, <<Step("Disable"), Step("UnlockHeap")>>,
               Spot(NIL, 1, {"heapMu"}, {"in"}, k \union {"zero"}),
               Spot(NIL, 0, {}, {"in", "dis"}, k))
<1> DEFINE a == Spot(NIL, 1, {"heapMu"}, {"in"}, k \union {"zero"})
           b == Spot(NIL, 1, {"heapMu"}, {"in", "dis"}, k)
           c == Spot(NIL, 0, {}, {"in", "dis"}, k)
<1>1. CollectorRule(t, "Disable", a, b)
  BY DEF Spot, CollectorRule, SameLocks, Forgets, Lasting
<1>2. HeapRule(t, "UnlockHeap", b, c)
  BY DEF Spot, HeapRule, Forgets, Lasting
<1>3. Sane(t, a)
  BY ThreadsAreNoLocks DEF Spot, Sane, Place, Lasting, HeapFacts, Global,
    Flags, Locks
<1>4. Sane(t, b)
  BY ThreadsAreNoLocks DEF Spot, Sane, Place, Lasting, HeapFacts, Global,
    Flags, Locks
<1>5. a \in Place /\ b \in Place /\ c \in Place
  BY <1>3, <1>4, SpotTyped DEF Sane, Lasting, HeapFacts, Global, Flags
<1> HIDE DEF a, b, c
<1>6. Rule(t, Step("Disable"), a, b)
  BY <1>1, <1>3, <1>5, RuleByName DEF CollectorSteps
<1>7. Rule(t, Step("UnlockHeap"), b, c)
  BY <1>2, <1>4, <1>5, RuleByName DEF HeapSteps
<1>8. Piece(t, <<Step("Disable"), Step("UnlockHeap")>>, a, c)
  BY <1>6, <1>7, PieceTwo, StepsKnown DEF Kinds, Locks, Global
<1> QED  BY <1>8 DEF a, c

LEMMA EnablePiece ==
  ASSUME NEW t, NEW k \in SUBSET {"live"}
  PROVE  Piece(t, Enable,
               Spot(NIL, 0, {}, {"in", "dis"}, k),
               Spot(NIL, 0, {}, {"in"}, k))
<1> DEFINE a == Spot(NIL, 0, {}, {"in", "dis"}, k)
           b == Spot(NIL, 1, {"heapMu"}, {"in", "dis"}, k)
           c == Spot(NIL, 1, {"heapMu"}, {"in"}, k)
           d == Spot(NIL, 1, {"heapMu"}, {"in"}, k)
           e == Spot(NIL, 0, {}, {"in"}, k)
<1>1. HeapRule(t, "LockHeap", a, b)
  BY DEF Spot, HeapRule, Keeps, Free, Outer
<1>2. CollectorRule(t, "Enable", b, c)
  BY DEF Spot, CollectorRule, SameLocks, Forgets, Lasting
<1>3. CollectorRule(t, "CollectEnough", c, d)
  BY DEF Spot, CollectorRule, Same, SameLocks, Forgets, Lasting,
      MayCollect, Free, Outer
<1>4. HeapRule(t, "UnlockHeap", d, e)
  BY DEF Spot, HeapRule, Forgets, Lasting
<1>5. Sane(t, a)
  BY ThreadsAreNoLocks DEF Spot, Sane, Place, Lasting, HeapFacts, Global,
    Flags, Locks
<1>6. Sane(t, b)
  BY ThreadsAreNoLocks DEF Spot, Sane, Place, Lasting, HeapFacts, Global,
    Flags, Locks
<1>7. Sane(t, c)
  BY ThreadsAreNoLocks DEF Spot, Sane, Place, Lasting, HeapFacts, Global,
    Flags, Locks
<1>8. Sane(t, d)
  BY ThreadsAreNoLocks DEF Spot, Sane, Place, Lasting, HeapFacts, Global,
    Flags, Locks
<1>9. a \in Place /\ b \in Place /\ c \in Place /\ d \in Place /\ e \in Place
  BY <1>5, <1>6, <1>7, <1>8, SpotTyped DEF Sane, Lasting, HeapFacts, Global,
    Flags
<1> HIDE DEF a, b, c, d, e
<1>10. Rule(t, Step("LockHeap"), a, b)
  BY <1>1, <1>5, <1>9, RuleByName DEF HeapSteps
<1>11. Rule(t, Step("Enable"), b, c)
  BY <1>2, <1>6, <1>9, RuleByName DEF CollectorSteps
<1>12. Rule(t, Step("CollectEnough"), c, d)
  BY <1>3, <1>7, <1>9, RuleByName DEF CollectorSteps
<1>13. Rule(t, Step("UnlockHeap"), d, e)
  BY <1>4, <1>8, <1>9, RuleByName DEF HeapSteps
<1>14. Piece(t, Enable, a, e)
  BY <1>10, <1>11, <1>12, <1>13, PieceFour, StepsKnown DEF Kinds, Locks,
    Global, Enable
<1> QED  BY <1>14 DEF a, e

LEMMA VisitPiece ==
  ASSUME NEW t, NEW k \in SUBSET {"live"}, "live" \in k
  PROVE  Piece(t, <<Lock("activeMu"), Step("StopWorld"), Step("StartWorld"),
                    Unlock("activeMu")>>,
               Spot(NIL, 0, {}, {"in", "dis"}, k),
               Spot(NIL, 0, {}, {"in", "dis"}, k))
<1> DEFINE a == Spot(NIL, 0, {}, {"in", "dis"}, k)
           b == Spot(NIL, 0, {"activeMu"}, {"in", "dis"}, k)
           c == Spot(NIL, 0, {"activeMu"}, {"in", "dis", "world"}, k)
           d == Spot(NIL, 0, {"activeMu"}, {"in", "dis"}, k)
           e == Spot(NIL, 0, {}, {"in", "dis"}, k)
<1>1. Locking(t, "activeMu", a, b)
  BY ThreadsAreNoLocks DEF Spot, Locking, Free, Above, Keeps, Outer,
      Global
<1>2. WorldRule(t, "StopWorld", b, c)
  BY DEF Spot, WorldRule, SameLocks, Keeps, Free, Global
<1>3. WorldRule(t, "StartWorld", c, d)
  BY DEF Spot, WorldRule, SameLocks, Keeps
<1>4. Unlocking(t, "activeMu", d, e)
  BY ThreadsAreNoLocks DEF Spot, Unlocking, Keeps, Global
<1>5. Sane(t, a)
  BY ThreadsAreNoLocks DEF Spot, Sane, Place, Lasting, HeapFacts, Global,
    Flags, Locks
<1>6. Sane(t, b)
  BY ThreadsAreNoLocks DEF Spot, Sane, Place, Lasting, HeapFacts, Global,
    Flags, Locks
<1>7. Sane(t, c)
  BY ThreadsAreNoLocks DEF Spot, Sane, Place, Lasting, HeapFacts, Global,
    Flags, Locks
<1>8. Sane(t, d)
  BY ThreadsAreNoLocks DEF Spot, Sane, Place, Lasting, HeapFacts, Global,
    Flags, Locks
<1>9. a \in Place /\ b \in Place /\ c \in Place /\ d \in Place /\ e \in Place
  BY <1>5, <1>6, <1>7, <1>8, SpotTyped DEF Sane, Lasting, HeapFacts, Global,
    Flags
<1> HIDE DEF a, b, c, d, e
<1>10. Rule(t, Lock("activeMu"), a, b)
  BY <1>1, <1>5, <1>9, RuleByName DEF Locks, Global
<1>11. Rule(t, Step("StopWorld"), b, c)
  BY <1>2, <1>6, <1>9, RuleByName DEF WorldSteps
<1>12. Rule(t, Step("StartWorld"), c, d)
  BY <1>3, <1>7, <1>9, RuleByName DEF WorldSteps
<1>13. Rule(t, Unlock("activeMu"), d, e)
  BY <1>4, <1>8, <1>9, RuleByName DEF Locks, Global
<1>14. Piece(t, <<Lock("activeMu"), Step("StopWorld"), Step("StartWorld"),
                  Unlock("activeMu")>>, a, e)
  BY <1>10, <1>11, <1>12, <1>13, PieceFour, StepsKnown DEF Kinds, Locks,
    Global
<1> QED  BY <1>14 DEF a, e

LEMMA ReportPiece ==
  ASSUME NEW t, NEW k \in SUBSET {"live"}, "live" \in k
  PROVE  Piece(t, <<Lock("activeMu"), Step("StopWorld")>>,
               Spot(NIL, 1, {"heapMu"}, {"in", "dis"}, k),
               Spot(NIL, 1, {"heapMu", "activeMu"}, {"in", "dis", "world"}, k))
<1> DEFINE a == Spot(NIL, 1, {"heapMu"}, {"in", "dis"}, k)
           b == Spot(NIL, 1, {"heapMu", "activeMu"}, {"in", "dis"}, k)
           c == Spot(NIL, 1, {"heapMu", "activeMu"}, {"in", "dis", "world"}, k)
<1>1. Locking(t, "activeMu", a, b)
  BY ThreadsAreNoLocks DEF Spot, Locking, Free, Above, Keeps, Outer,
      Global
<1>2. WorldRule(t, "StopWorld", b, c)
  BY DEF Spot, WorldRule, SameLocks, Keeps, Free, Global
<1>3. Sane(t, a)
  BY ThreadsAreNoLocks DEF Spot, Sane, Place, Lasting, HeapFacts, Global,
    Flags, Locks
<1>4. Sane(t, b)
  BY ThreadsAreNoLocks DEF Spot, Sane, Place, Lasting, HeapFacts, Global,
    Flags, Locks
<1>5. a \in Place /\ b \in Place /\ c \in Place
  BY <1>3, <1>4, SpotTyped DEF Sane, Lasting, HeapFacts, Global, Flags
<1> HIDE DEF a, b, c
<1>6. Rule(t, Lock("activeMu"), a, b)
  BY <1>1, <1>3, <1>5, RuleByName DEF Locks, Global
<1>7. Rule(t, Step("StopWorld"), b, c)
  BY <1>2, <1>4, <1>5, RuleByName DEF WorldSteps
<1>8. Piece(t, <<Lock("activeMu"), Step("StopWorld")>>, a, c)
  BY <1>6, <1>7, PieceTwo, StepsKnown DEF Kinds, Locks, Global
<1> QED  BY <1>8 DEF a, c

LEMMA ReportedPiece ==
  ASSUME NEW t, NEW k \in SUBSET {"live"}
  PROVE  Piece(t, <<Step("StartWorld"), Unlock("activeMu")>>,
               Spot(NIL, 1, {"heapMu", "activeMu"}, {"in", "dis", "world"}, k),
               Spot(NIL, 1, {"heapMu"}, {"in", "dis"}, k))
<1> DEFINE a == Spot(NIL, 1, {"heapMu", "activeMu"}, {"in", "dis", "world"}, k)
           b == Spot(NIL, 1, {"heapMu", "activeMu"}, {"in", "dis"}, k)
           c == Spot(NIL, 1, {"heapMu"}, {"in", "dis"}, k)
<1>1. WorldRule(t, "StartWorld", a, b)
  BY DEF Spot, WorldRule, SameLocks, Keeps
<1>2. Unlocking(t, "activeMu", b, c)
  BY ThreadsAreNoLocks DEF Spot, Unlocking, Keeps, Global
<1>3. Sane(t, a)
  BY ThreadsAreNoLocks DEF Spot, Sane, Place, Lasting, HeapFacts, Global,
    Flags, Locks
<1>4. Sane(t, b)
  BY ThreadsAreNoLocks DEF Spot, Sane, Place, Lasting, HeapFacts, Global,
    Flags, Locks
<1>5. a \in Place /\ b \in Place /\ c \in Place
  BY <1>3, <1>4, SpotTyped DEF Sane, Lasting, HeapFacts, Global, Flags
<1> HIDE DEF a, b, c
<1>6. Rule(t, Step("StartWorld"), a, b)
  BY <1>1, <1>3, <1>5, RuleByName DEF WorldSteps
<1>7. Rule(t, Unlock("activeMu"), b, c)
  BY <1>2, <1>4, <1>5, RuleByName DEF Locks, Global
<1>8. Piece(t, <<Step("StartWorld"), Unlock("activeMu")>>, a, c)
  BY <1>6, <1>7, PieceTwo, StepsKnown DEF Kinds, Locks, Global
<1> QED  BY <1>8 DEF a, c

LEMMA EnterDisabledPiece ==
  ASSUME NEW t, NEW k \in SUBSET {"live"}
  PROVE  Piece(t, <<Step("LockHeap")>>,
               Spot(NIL, 0, {}, {"in", "dis"}, k),
               Spot(NIL, 1, {"heapMu"}, {"in", "dis"}, k))
<1> DEFINE a == Spot(NIL, 0, {}, {"in", "dis"}, k)
           b == Spot(NIL, 1, {"heapMu"}, {"in", "dis"}, k)
<1>1. HeapRule(t, "LockHeap", a, b)
  BY DEF Spot, HeapRule, Keeps, Free, Outer
<1>2. Sane(t, a)
  BY ThreadsAreNoLocks DEF Spot, Sane, Place, Lasting, HeapFacts, Global,
    Flags, Locks
<1>3. a \in Place /\ b \in Place
  BY <1>2, SpotTyped DEF Sane, Lasting, HeapFacts, Global, Flags
<1> HIDE DEF a, b
<1>4. Rule(t, Step("LockHeap"), a, b)
  BY <1>1, <1>2, <1>3, RuleByName DEF HeapSteps
<1>5. Piece(t, <<Step("LockHeap")>>, a, b)
  BY <1>4, PieceOne, StepsKnown DEF Kinds, Locks, Global
<1> QED  BY <1>5 DEF a, b

LEMMA LeaveDisabledPiece ==
  ASSUME NEW t, NEW k \in SUBSET {"live"}
  PROVE  Piece(t, <<Step("UnlockHeap")>>,
               Spot(NIL, 1, {"heapMu"}, {"in", "dis"}, k),
               Spot(NIL, 0, {}, {"in", "dis"}, k))
<1> DEFINE a == Spot(NIL, 1, {"heapMu"}, {"in", "dis"}, k)
           b == Spot(NIL, 0, {}, {"in", "dis"}, k)
<1>1. HeapRule(t, "UnlockHeap", a, b)
  BY DEF Spot, HeapRule, Forgets, Lasting
<1>2. Sane(t, a)
  BY ThreadsAreNoLocks DEF Spot, Sane, Place, Lasting, HeapFacts, Global,
    Flags, Locks
<1>3. a \in Place /\ b \in Place
  BY <1>2, SpotTyped DEF Sane, Lasting, HeapFacts, Global, Flags
<1> HIDE DEF a, b
<1>4. Rule(t, Step("UnlockHeap"), a, b)
  BY <1>1, <1>2, <1>3, RuleByName DEF HeapSteps
<1>5. Piece(t, <<Step("UnlockHeap")>>, a, b)
  BY <1>4, PieceOne, StepsKnown DEF Kinds, Locks, Global
<1> QED  BY <1>5 DEF a, b

LEMMA SectionPiece ==
  ASSUME NEW t, NEW k \in SUBSET {"live"}, NEW l \in {"slotsMu", "perfMu"}
  PROVE  Piece(t, Section(l),
               Spot(NIL, 0, {}, {"in"}, k),
               Spot(NIL, 0, {}, {"in"}, k))
<1> DEFINE a == Spot(NIL, 0, {}, {"in"}, k)
           b == Spot(NIL, 0, {l}, {"in"}, k)
           c == Spot(NIL, 0, {}, {"in"}, k)
<1>1. Locking(t, l, a, b)
  BY ThreadsAreNoLocks DEF Spot, Locking, Free, Above, Keeps, Outer,
      Global
<1>2. Unlocking(t, l, b, c)
  BY ThreadsAreNoLocks DEF Spot, Unlocking, Keeps, Global
<1>3. Sane(t, a)
  BY ThreadsAreNoLocks DEF Spot, Sane, Place, Lasting, HeapFacts, Global,
    Flags, Locks
<1>4. Sane(t, b)
  BY ThreadsAreNoLocks DEF Spot, Sane, Place, Lasting, HeapFacts, Global,
    Flags, Locks
<1>5. a \in Place /\ b \in Place /\ c \in Place
  BY <1>3, <1>4, SpotTyped DEF Sane, Lasting, HeapFacts, Global, Flags
<1> HIDE DEF a, b, c
<1>6. Rule(t, Lock(l), a, b)
  BY <1>1, <1>3, <1>5, RuleByName DEF Locks, Global
<1>7. Rule(t, Unlock(l), b, c)
  BY <1>2, <1>4, <1>5, RuleByName DEF Locks, Global
<1>8. Piece(t, Section(l), a, c)
  BY <1>6, <1>7, PieceTwo, StepsKnown DEF Kinds, Locks, Global, Section
<1> QED  BY <1>8 DEF a, c

LEMMA PreparePiece ==
  ASSUME NEW t, NEW k \in SUBSET {"live"}
  PROVE  Piece(t, AtForkPrepare,
               Spot(NIL, 0, {}, {"in"}, k),
               Spot(NIL, 1, Global, {"in", "all"}, k))
<1> DEFINE a == Spot(NIL, 0, {}, {"in"}, k)
           b == Spot(NIL, 0, {"slotsMu"}, {"in"}, k)
           c == Spot(NIL, 0, {"slotsMu", "perfMu"}, {"in"}, k)
           d == Spot(NIL, 0, {"slotsMu", "perfMu", "initMu"}, {"in"}, k)
           e == Spot(NIL, 1, {"slotsMu", "perfMu", "initMu", "heapMu"}, {"in"},
                     k)
           g == Spot(NIL, 1, Global, {"in"}, k)
           h == Spot(NIL, 1, Global, {"in", "all"}, k)
<1>1. Locking(t, "slotsMu", a, b)
  BY ThreadsAreNoLocks DEF Spot, Locking, Free, Above, Keeps, Outer,
      Global
<1>2. Locking(t, "perfMu", b, c)
  BY ThreadsAreNoLocks DEF Spot, Locking, Free, Above, Keeps, Outer,
      Global
<1>3. Locking(t, "initMu", c, d)
  BY ThreadsAreNoLocks DEF Spot, Locking, Free, Above, Keeps, Outer,
      Global
<1>4. HeapRule(t, "LockHeap", d, e)
  BY DEF Spot, HeapRule, Keeps, Free, Outer
<1>5. Locking(t, "activeMu", e, g)
  BY ThreadsAreNoLocks DEF Spot, Locking, Free, Above, Keeps, Outer,
      Global
<1>6. ProcessRule(t, "LockRing", g, h)
  BY DEF Spot, ProcessRule, SameLocks, Keeps
<1>7. Sane(t, a)
  BY ThreadsAreNoLocks DEF Spot, Sane, Place, Lasting, HeapFacts, Global,
    Flags, Locks
<1>8. Sane(t, b)
  BY ThreadsAreNoLocks DEF Spot, Sane, Place, Lasting, HeapFacts, Global,
    Flags, Locks
<1>9. Sane(t, c)
  BY ThreadsAreNoLocks DEF Spot, Sane, Place, Lasting, HeapFacts, Global,
    Flags, Locks
<1>10. Sane(t, d)
  BY ThreadsAreNoLocks DEF Spot, Sane, Place, Lasting, HeapFacts, Global,
    Flags, Locks
<1>11. Sane(t, e)
  BY ThreadsAreNoLocks DEF Spot, Sane, Place, Lasting, HeapFacts, Global,
    Flags, Locks
<1>12. Sane(t, g)
  BY ThreadsAreNoLocks DEF Spot, Sane, Place, Lasting, HeapFacts, Global,
    Flags, Locks
<1>13. a \in Place /\ b \in Place /\ c \in Place /\ d \in Place /\ e \in Place
      /\ g \in Place /\ h \in Place
  BY <1>7, <1>8, <1>9, <1>10, <1>11, <1>12, SpotTyped DEF Sane, Lasting,
    HeapFacts, Global, Flags
<1> HIDE DEF a, b, c, d, e, g, h
<1>14. Rule(t, Lock("slotsMu"), a, b)
  BY <1>1, <1>7, <1>13, RuleByName DEF Locks, Global
<1>15. Rule(t, Lock("perfMu"), b, c)
  BY <1>2, <1>8, <1>13, RuleByName DEF Locks, Global
<1>16. Rule(t, Lock("initMu"), c, d)
  BY <1>3, <1>9, <1>13, RuleByName DEF Locks, Global
<1>17. Rule(t, Step("LockHeap"), d, e)
  BY <1>4, <1>10, <1>13, RuleByName DEF HeapSteps
<1>18. Rule(t, Lock("activeMu"), e, g)
  BY <1>5, <1>11, <1>13, RuleByName DEF Locks, Global
<1>19. Rule(t, Step("LockRing"), g, h)
  BY <1>6, <1>12, <1>13, RuleByName DEF ProcessSteps
<1>20. Piece(t, AtForkPrepare, a, h)
  BY <1>14, <1>15, <1>16, <1>17, <1>18, <1>19, PieceSix, StepsKnown DEF
    Kinds, Locks, Global, AtForkPrepare
<1> QED  BY <1>20 DEF a, h

LEMMA ForkPiece ==
  ASSUME NEW t, Solaris, NEW k \in SUBSET {"live"}
  PROVE  Piece(t, <<Step("EnterFork"), Step("Fork")>>,
               Spot(NIL, 1, Global, {"in", "all"}, k),
               Spot(NIL, 0, {}, {"in"}, k))
<1> DEFINE a == Spot(NIL, 1, Global, {"in", "all"}, k)
           b == Spot(NIL, 1, Global, {"in", "all", "fork"}, k)
           c == Spot(NIL, 0, {}, {"in"}, k)
<1>1. ProcessRule(t, "EnterFork", a, b)
  BY DEF Spot, ProcessRule, SameLocks, Keeps
<1>2. ProcessRule(t, "Fork", b, c)
  BY DEF Spot, ProcessRule, Forgets, Lasting
<1>3. Sane(t, a)
  BY ThreadsAreNoLocks DEF Spot, Sane, Place, Lasting, HeapFacts, Global,
    Flags, Locks
<1>4. Sane(t, b)
  BY ThreadsAreNoLocks DEF Spot, Sane, Place, Lasting, HeapFacts, Global,
    Flags, Locks
<1>5. a \in Place /\ b \in Place /\ c \in Place
  BY <1>3, <1>4, SpotTyped DEF Sane, Lasting, HeapFacts, Global, Flags
<1> HIDE DEF a, b, c
<1>6. Rule(t, Step("EnterFork"), a, b)
  BY <1>1, <1>3, <1>5, RuleByName DEF ProcessSteps
<1>7. Rule(t, Step("Fork"), b, c)
  BY <1>2, <1>4, <1>5, RuleByName DEF ProcessSteps
<1>8. Piece(t, <<Step("EnterFork"), Step("Fork")>>, a, c)
  BY <1>6, <1>7, PieceTwo, StepsKnown DEF Kinds, Locks, Global
<1> QED  BY <1>8 DEF a, c

LEMMA ForkInsidePiece ==
  ASSUME NEW t, ~Solaris, NEW k \in SUBSET {"live"}
  PROVE  Piece(t, <<Step("Fork")>>,
               Spot(NIL, 1, Global, {"in", "all"}, k),
               Spot(NIL, 0, {}, {"in"}, k))
<1> DEFINE a == Spot(NIL, 1, Global, {"in", "all"}, k)
           b == Spot(NIL, 0, {}, {"in"}, k)
<1>1. ProcessRule(t, "Fork", a, b)
  BY DEF Spot, ProcessRule, Forgets, Lasting
<1>2. Sane(t, a)
  BY ThreadsAreNoLocks DEF Spot, Sane, Place, Lasting, HeapFacts, Global,
    Flags, Locks
<1>3. a \in Place /\ b \in Place
  BY <1>2, SpotTyped DEF Sane, Lasting, HeapFacts, Global, Flags
<1> HIDE DEF a, b
<1>4. Rule(t, Step("Fork"), a, b)
  BY <1>1, <1>2, <1>3, RuleByName DEF ProcessSteps
<1>5. Piece(t, <<Step("Fork")>>, a, b)
  BY <1>4, PieceOne, StepsKnown DEF Kinds, Locks, Global
<1> QED  BY <1>5 DEF a, b

LEMMA EnterForkPiece ==
  ASSUME NEW t, ~Solaris, NEW k \in SUBSET {"live"}
  PROVE  Piece(t, <<Step("EnterFork")>>,
               Spot(NIL, 0, {}, {"in"}, k),
               Spot(NIL, 0, {}, {"in"}, k))
<1> DEFINE a == Spot(NIL, 0, {}, {"in"}, k)
           b == Spot(NIL, 0, {}, {"in"}, k)
<1>1. ProcessRule(t, "EnterFork", a, b)
  BY DEF Spot, ProcessRule, SameLocks, Keeps
<1>2. Sane(t, a)
  BY ThreadsAreNoLocks DEF Spot, Sane, Place, Lasting, HeapFacts, Global,
    Flags, Locks
<1>3. a \in Place /\ b \in Place
  BY <1>2, SpotTyped DEF Sane, Lasting, HeapFacts, Global, Flags
<1> HIDE DEF a, b
<1>4. Rule(t, Step("EnterFork"), a, b)
  BY <1>1, <1>2, <1>3, RuleByName DEF ProcessSteps
<1>5. Piece(t, <<Step("EnterFork")>>, a, b)
  BY <1>4, PieceOne, StepsKnown DEF Kinds, Locks, Global
<1> QED  BY <1>5 DEF a, b

LEMMA ParentPiece ==
  ASSUME NEW t, NEW f \in SUBSET {"fork"}, NEW k \in SUBSET {"live"}
  PROVE  Piece(t, AtForkParent,
               Spot(NIL, 1, Global, {"in", "all"} \union f, k),
               Spot(NIL, 0, {}, {"in"} \union f, k))
<1> DEFINE a == Spot(NIL, 1, Global, {"in", "all"} \union f, k)
           b == Spot(NIL, 1, Global, {"in"} \union f, k)
           c == Spot(NIL, 1, {"slotsMu", "perfMu", "initMu", "heapMu"},
                     {"in"} \union f, k)
           d == Spot(NIL, 0, {"slotsMu", "perfMu", "initMu"}, {"in"} \union f,
                     k)
           e == Spot(NIL, 0, {"slotsMu", "perfMu"}, {"in"} \union f, k)
           g == Spot(NIL, 0, {"slotsMu"}, {"in"} \union f, k)
           h == Spot(NIL, 0, {}, {"in"} \union f, k)
<1>1. ProcessRule(t, "UnlockRing", a, b)
  BY DEF Spot, ProcessRule, SameLocks, Keeps
<1>2. Unlocking(t, "activeMu", b, c)
  BY ThreadsAreNoLocks DEF Spot, Unlocking, Keeps, Global
<1>3. HeapRule(t, "UnlockHeap", c, d)
  BY DEF Spot, HeapRule, Forgets, Lasting
<1>4. Unlocking(t, "initMu", d, e)
  BY ThreadsAreNoLocks DEF Spot, Unlocking, Keeps, Global
<1>5. Unlocking(t, "perfMu", e, g)
  BY ThreadsAreNoLocks DEF Spot, Unlocking, Keeps, Global
<1>6. Unlocking(t, "slotsMu", g, h)
  BY ThreadsAreNoLocks DEF Spot, Unlocking, Keeps, Global
<1>7. Sane(t, a)
  BY ThreadsAreNoLocks DEF Spot, Sane, Place, Lasting, HeapFacts, Global,
    Flags, Locks
<1>8. Sane(t, b)
  BY ThreadsAreNoLocks DEF Spot, Sane, Place, Lasting, HeapFacts, Global,
    Flags, Locks
<1>9. Sane(t, c)
  BY ThreadsAreNoLocks DEF Spot, Sane, Place, Lasting, HeapFacts, Global,
    Flags, Locks
<1>10. Sane(t, d)
  BY ThreadsAreNoLocks DEF Spot, Sane, Place, Lasting, HeapFacts, Global,
    Flags, Locks
<1>11. Sane(t, e)
  BY ThreadsAreNoLocks DEF Spot, Sane, Place, Lasting, HeapFacts, Global,
    Flags, Locks
<1>12. Sane(t, g)
  BY ThreadsAreNoLocks DEF Spot, Sane, Place, Lasting, HeapFacts, Global,
    Flags, Locks
<1>13. a \in Place /\ b \in Place /\ c \in Place /\ d \in Place /\ e \in Place
      /\ g \in Place /\ h \in Place
  BY <1>7, <1>8, <1>9, <1>10, <1>11, <1>12, SpotTyped DEF Sane, Lasting,
    HeapFacts, Global, Flags
<1> HIDE DEF a, b, c, d, e, g, h
<1>14. Rule(t, Step("UnlockRing"), a, b)
  BY <1>1, <1>7, <1>13, RuleByName DEF ProcessSteps
<1>15. Rule(t, Unlock("activeMu"), b, c)
  BY <1>2, <1>8, <1>13, RuleByName DEF Locks, Global
<1>16. Rule(t, Step("UnlockHeap"), c, d)
  BY <1>3, <1>9, <1>13, RuleByName DEF HeapSteps
<1>17. Rule(t, Unlock("initMu"), d, e)
  BY <1>4, <1>10, <1>13, RuleByName DEF Locks, Global
<1>18. Rule(t, Unlock("perfMu"), e, g)
  BY <1>5, <1>11, <1>13, RuleByName DEF Locks, Global
<1>19. Rule(t, Unlock("slotsMu"), g, h)
  BY <1>6, <1>12, <1>13, RuleByName DEF Locks, Global
<1>20. Piece(t, AtForkParent, a, h)
  BY <1>14, <1>15, <1>16, <1>17, <1>18, <1>19, PieceSix, StepsKnown DEF
    Kinds, Locks, Global, AtForkParent
<1> QED  BY <1>20 DEF a, h

LEMMA LeaveForkPiece ==
  ASSUME NEW t, NEW f \in SUBSET {"fork"}, NEW k \in SUBSET {"live"}
  PROVE  Piece(t, <<Step("LeaveFork")>>,
               Spot(NIL, 0, {}, {"in"} \union f, k),
               Spot(NIL, 0, {}, {"in"}, k))
<1> DEFINE a == Spot(NIL, 0, {}, {"in"} \union f, k)
           b == Spot(NIL, 0, {}, {"in"}, k)
<1>1. ProcessRule(t, "LeaveFork", a, b)
  BY DEF Spot, ProcessRule, SameLocks, Keeps
<1>2. Sane(t, a)
  BY ThreadsAreNoLocks DEF Spot, Sane, Place, Lasting, HeapFacts, Global,
    Flags, Locks
<1>3. a \in Place /\ b \in Place
  BY <1>2, SpotTyped DEF Sane, Lasting, HeapFacts, Global, Flags
<1> HIDE DEF a, b
<1>4. Rule(t, Step("LeaveFork"), a, b)
  BY <1>1, <1>2, <1>3, RuleByName DEF ProcessSteps
<1>5. Piece(t, <<Step("LeaveFork")>>, a, b)
  BY <1>4, PieceOne, StepsKnown DEF Kinds, Locks, Global
<1> QED  BY <1>5 DEF a, b

LEMMA ForgetStartedPiece ==
  ASSUME NEW t, NEW f \in SUBSET {"fork"}, NEW k \in SUBSET {"live"}
  PROVE  Piece(t, <<Step("ForgetStarted")>>,
               Spot(NIL, 0, {}, {"in"} \union f, k),
               Spot(NIL, 0, {}, {"in"} \union f, k))
<1> DEFINE a == Spot(NIL, 0, {}, {"in"} \union f, k)
           b == Spot(NIL, 0, {}, {"in"} \union f, k)
<1>1. WorldRule(t, "ForgetStarted", a, b)
  BY DEF Spot, WorldRule, Same, SameLocks, Keeps
<1>2. Sane(t, a)
  BY ThreadsAreNoLocks DEF Spot, Sane, Place, Lasting, HeapFacts, Global,
    Flags, Locks
<1>3. a \in Place /\ b \in Place
  BY <1>2, SpotTyped DEF Sane, Lasting, HeapFacts, Global, Flags
<1> HIDE DEF a, b
<1>4. Rule(t, Step("ForgetStarted"), a, b)
  BY <1>1, <1>2, <1>3, RuleByName DEF WorldSteps
<1>5. Piece(t, <<Step("ForgetStarted")>>, a, b)
  BY <1>4, PieceOne, StepsKnown DEF Kinds, Locks, Global
<1> QED  BY <1>5 DEF a, b

LEMMA StartServicePiece ==
  ASSUME NEW t, NEW s \in Service, NEW k \in SUBSET {"live"}
  PROVE  Piece(t, StartService(s),
               Spot(NIL, 0, {}, {"in"}, k),
               Spot(NIL, 0, {}, {"in"}, k))
<1> DEFINE a == Spot(NIL, 0, {}, {"in"}, k)
           b == Spot(NIL, 1, {"heapMu"}, {"in"}, k)
           c == Spot(NIL, 1, {"heapMu"}, {"in"}, k)
           d == Spot(NIL, 0, {}, {"in"}, k)
<1>1. HeapRule(t, "LockHeap", a, b)
  BY DEF Spot, HeapRule, Keeps, Free, Outer
<1>2. WorldRule(t, "start", b, c)
  BY DEF Spot, WorldRule, Same, SameLocks, Keeps
<1>3. HeapRule(t, "UnlockHeap", c, d)
  BY DEF Spot, HeapRule, Forgets, Lasting
<1>4. Sane(t, a)
  BY ThreadsAreNoLocks DEF Spot, Sane, Place, Lasting, HeapFacts, Global,
    Flags, Locks
<1>5. Sane(t, b)
  BY ThreadsAreNoLocks DEF Spot, Sane, Place, Lasting, HeapFacts, Global,
    Flags, Locks
<1>6. Sane(t, c)
  BY ThreadsAreNoLocks DEF Spot, Sane, Place, Lasting, HeapFacts, Global,
    Flags, Locks
<1>7. a \in Place /\ b \in Place /\ c \in Place /\ d \in Place
  BY <1>4, <1>5, <1>6, SpotTyped DEF Sane, Lasting, HeapFacts, Global, Flags
<1> HIDE DEF a, b, c, d
<1>8. Rule(t, Step("LockHeap"), a, b)
  BY <1>1, <1>4, <1>7, RuleByName DEF HeapSteps
<1>9. Rule(t, <<"start", s>>, b, c)
  BY <1>2, <1>5, <1>7, RuleByName
<1>10. Rule(t, Step("UnlockHeap"), c, d)
  BY <1>3, <1>6, <1>7, RuleByName DEF HeapSteps
<1>11. Piece(t, StartService(s), a, d)
  BY <1>8, <1>9, <1>10, PieceThree, StepsKnown DEF Kinds, Locks, Global,
    StartService
<1> QED  BY <1>11 DEF a, d

LEMMA CleanerPiece ==
  ASSUME NEW k \in SUBSET {"live"}, "WeakCleaner" \in Service
  PROVE  Piece("WeakCleaner",
               <<Step("LockHeap"), Step("CleanerTest"), Step("UnlockHeap")>>,
               Spot(NIL, 0, {}, {"in"}, k),
               Spot(NIL, 0, {}, {"in"}, k))
<1> DEFINE a == Spot(NIL, 0, {}, {"in"}, k)
           b == Spot(NIL, 1, {"heapMu"}, {"in"}, k)
           c == Spot(NIL, 1, {"heapMu"}, {"in"}, k)
           d == Spot(NIL, 0, {}, {"in"}, k)
<1>1. HeapRule("WeakCleaner", "LockHeap", a, b)
  BY DEF Spot, HeapRule, Keeps, Free, Outer
<1>2. CollectorRule("WeakCleaner", "CleanerTest", b, c)
  BY DEF Spot, CollectorRule, Same, SameLocks, Forgets, Lasting
<1>3. HeapRule("WeakCleaner", "UnlockHeap", c, d)
  BY DEF Spot, HeapRule, Forgets, Lasting
<1>4. Sane("WeakCleaner", a)
  BY ThreadsAreNoLocks DEF Spot, Sane, Place, Lasting, HeapFacts, Global,
    Flags, Locks
<1>5. Sane("WeakCleaner", b)
  BY ThreadsAreNoLocks DEF Spot, Sane, Place, Lasting, HeapFacts, Global,
    Flags, Locks
<1>6. Sane("WeakCleaner", c)
  BY ThreadsAreNoLocks DEF Spot, Sane, Place, Lasting, HeapFacts, Global,
    Flags, Locks
<1>7. a \in Place /\ b \in Place /\ c \in Place /\ d \in Place
  BY <1>4, <1>5, <1>6, SpotTyped DEF Sane, Lasting, HeapFacts, Global, Flags
<1> HIDE DEF a, b, c, d
<1>8. Rule("WeakCleaner", Step("LockHeap"), a, b)
  BY <1>1, <1>4, <1>7, RuleByName DEF HeapSteps
<1>9. Rule("WeakCleaner", Step("CleanerTest"), b, c)
  BY <1>2, <1>5, <1>7, RuleByName DEF CollectorSteps
<1>10. Rule("WeakCleaner", Step("UnlockHeap"), c, d)
  BY <1>3, <1>6, <1>7, RuleByName DEF HeapSteps
<1>11. Piece("WeakCleaner", <<Step("LockHeap"), Step("CleanerTest"),
                              Step("UnlockHeap")>>, a, d)
  BY <1>8, <1>9, <1>10, PieceThree, StepsKnown DEF Kinds, Locks, Global
<1> QED  BY <1>11 DEF a, d

LEMMA BackgroundPiece ==
  ASSUME NEW k \in SUBSET {"live"}, "BackgroundThread" \in Service
  PROVE  Piece("BackgroundThread",
               <<Step("LockHeap"), Step("BackgroundTest"), Step("UnlockHeap")>>,
               Spot(NIL, 0, {}, {"in"}, k),
               Spot(NIL, 0, {}, {"in"}, k))
<1> DEFINE a == Spot(NIL, 0, {}, {"in"}, k)
           b == Spot(NIL, 1, {"heapMu"}, {"in"}, k)
           c == Spot(NIL, 1, {"heapMu"}, {"in"}, k)
           d == Spot(NIL, 0, {}, {"in"}, k)
<1>1. HeapRule("BackgroundThread", "LockHeap", a, b)
  BY DEF Spot, HeapRule, Keeps, Free, Outer
<1>2. CollectorRule("BackgroundThread", "BackgroundTest", b, c)
  BY DEF Spot, CollectorRule, Same, SameLocks, Forgets, Lasting
<1>3. HeapRule("BackgroundThread", "UnlockHeap", c, d)
  BY DEF Spot, HeapRule, Forgets, Lasting
<1>4. Sane("BackgroundThread", a)
  BY ThreadsAreNoLocks DEF Spot, Sane, Place, Lasting, HeapFacts, Global,
    Flags, Locks
<1>5. Sane("BackgroundThread", b)
  BY ThreadsAreNoLocks DEF Spot, Sane, Place, Lasting, HeapFacts, Global,
    Flags, Locks
<1>6. Sane("BackgroundThread", c)
  BY ThreadsAreNoLocks DEF Spot, Sane, Place, Lasting, HeapFacts, Global,
    Flags, Locks
<1>7. a \in Place /\ b \in Place /\ c \in Place /\ d \in Place
  BY <1>4, <1>5, <1>6, SpotTyped DEF Sane, Lasting, HeapFacts, Global, Flags
<1> HIDE DEF a, b, c, d
<1>8. Rule("BackgroundThread", Step("LockHeap"), a, b)
  BY <1>1, <1>4, <1>7, RuleByName DEF HeapSteps
<1>9. Rule("BackgroundThread", Step("BackgroundTest"), b, c)
  BY <1>2, <1>5, <1>7, RuleByName DEF CollectorSteps
<1>10. Rule("BackgroundThread", Step("UnlockHeap"), c, d)
  BY <1>3, <1>6, <1>7, RuleByName DEF HeapSteps
<1>11. Piece("BackgroundThread", <<Step("LockHeap"), Step("BackgroundTest"),
                                   Step("UnlockHeap")>>, a, d)
  BY <1>8, <1>9, <1>10, PieceThree, StepsKnown DEF Kinds, Locks, Global
<1> QED  BY <1>11 DEF a, d

LEMMA ForegroundPiece ==
  ASSUME NEW k \in SUBSET {"live"}, "ForegroundThread" \in Service
  PROVE  Piece("ForegroundThread", <<Step("LockHeap"), Step("ForegroundLoop")>>,
               Spot(NIL, 0, {}, {"in"}, k),
               Spot(NIL, 0, {}, {"in"}, k))
<1> DEFINE a == Spot(NIL, 0, {}, {"in"}, k)
           b == Spot(NIL, 1, {"heapMu"}, {"in"}, k)
           c == Spot(NIL, 0, {}, {"in"}, k)
<1>1. HeapRule("ForegroundThread", "LockHeap", a, b)
  BY DEF Spot, HeapRule, Keeps, Free, Outer
<1>2. HeapRule("ForegroundThread", "ForegroundLoop", b, c)
  BY DEF Spot, HeapRule, Forgets, Lasting
<1>3. Sane("ForegroundThread", a)
  BY ThreadsAreNoLocks DEF Spot, Sane, Place, Lasting, HeapFacts, Global,
    Flags, Locks
<1>4. Sane("ForegroundThread", b)
  BY ThreadsAreNoLocks DEF Spot, Sane, Place, Lasting, HeapFacts, Global,
    Flags, Locks
<1>5. a \in Place /\ b \in Place /\ c \in Place
  BY <1>3, <1>4, SpotTyped DEF Sane, Lasting, HeapFacts, Global, Flags
<1> HIDE DEF a, b, c
<1>6. Rule("ForegroundThread", Step("LockHeap"), a, b)
  BY <1>1, <1>3, <1>5, RuleByName DEF HeapSteps
<1>7. Rule("ForegroundThread", Step("ForegroundLoop"), b, c)
  BY <1>2, <1>4, <1>5, RuleByName DEF HeapSteps
<1>8. Piece("ForegroundThread", <<Step("LockHeap"), Step("ForegroundLoop")>>,
            a, c)
  BY <1>6, <1>7, PieceTwo, StepsKnown DEF Kinds, Locks, Global
<1> QED  BY <1>8 DEF a, c

LEMMA EntryPiece ==
  ASSUME NEW t, NEW k \in SUBSET {"live"}
  PROVE  Piece(t, ThreadEntry,
               Spot(NIL, 0, {}, {}, k),
               Spot(NIL, 0, {}, {"in"}, k))
<1> DEFINE a == Spot(NIL, 0, {}, {}, k)
           b == Spot(NIL, 0, {"activeMu"}, {}, k)
           c == Spot(NIL, 0, {"activeMu"}, {"in"}, k)
           d == Spot(NIL, 0, {}, {"in"}, k)
<1>1. Locking(t, "activeMu", a, b)
  BY ThreadsAreNoLocks DEF Spot, Locking, Free, Above, Keeps, Outer,
      Global
<1>2. ProcessRule(t, "Enter", b, c)
  BY DEF Spot, ProcessRule, SameLocks, Keeps
<1>3. Unlocking(t, "activeMu", c, d)
  BY ThreadsAreNoLocks DEF Spot, Unlocking, Keeps, Global
<1>4. Sane(t, a)
  BY ThreadsAreNoLocks DEF Spot, Sane, Place, Lasting, HeapFacts, Global,
    Flags, Locks
<1>5. Sane(t, b)
  BY ThreadsAreNoLocks DEF Spot, Sane, Place, Lasting, HeapFacts, Global,
    Flags, Locks
<1>6. Sane(t, c)
  BY ThreadsAreNoLocks DEF Spot, Sane, Place, Lasting, HeapFacts, Global,
    Flags, Locks
<1>7. a \in Place /\ b \in Place /\ c \in Place /\ d \in Place
  BY <1>4, <1>5, <1>6, SpotTyped DEF Sane, Lasting, HeapFacts, Global, Flags
<1> HIDE DEF a, b, c, d
<1>8. Rule(t, Lock("activeMu"), a, b)
  BY <1>1, <1>4, <1>7, RuleByName DEF Locks, Global
<1>9. Rule(t, Step("Enter"), b, c)
  BY <1>2, <1>5, <1>7, RuleByName DEF ProcessSteps
<1>10. Rule(t, Unlock("activeMu"), c, d)
  BY <1>3, <1>6, <1>7, RuleByName DEF Locks, Global
<1>11. Piece(t, ThreadEntry, a, d)
  BY <1>8, <1>9, <1>10, PieceThree, StepsKnown DEF Kinds, Locks, Global,
    ThreadEntry
<1> QED  BY <1>11 DEF a, d

LEMMA ExitPiece ==
  ASSUME NEW t, NEW k \in SUBSET {"live"}
  PROVE  Piece(t, ThreadExit,
               Spot(NIL, 0, {}, {"in", "ending"}, k),
               Spot(NIL, 0, {}, {}, k))
<1> DEFINE a == Spot(NIL, 0, {}, {"in", "ending"}, k)
           b == Spot(NIL, 0, {"activeMu"}, {"in", "ending"}, k)
           c == Spot(NIL, 0, {"activeMu"}, {}, k)
           d == Spot(NIL, 0, {}, {}, k)
           e == Spot(NIL, 0, {}, {}, k)
<1>1. Locking(t, "activeMu", a, b)
  BY ThreadsAreNoLocks DEF Spot, Locking, Free, Above, Keeps, Outer,
      Global
<1>2. ProcessRule(t, "Leave", b, c)
  BY DEF Spot, ProcessRule, SameLocks, Keeps
<1>3. Unlocking(t, "activeMu", c, d)
  BY ThreadsAreNoLocks DEF Spot, Unlocking, Keeps, Global
<1>4. ProcessRule(t, "Exit", d, e)
  BY DEF Spot, ProcessRule, Same, SameLocks, Keeps
<1>5. Sane(t, a)
  BY ThreadsAreNoLocks DEF Spot, Sane, Place, Lasting, HeapFacts, Global,
    Flags, Locks
<1>6. Sane(t, b)
  BY ThreadsAreNoLocks DEF Spot, Sane, Place, Lasting, HeapFacts, Global,
    Flags, Locks
<1>7. Sane(t, c)
  BY ThreadsAreNoLocks DEF Spot, Sane, Place, Lasting, HeapFacts, Global,
    Flags, Locks
<1>8. Sane(t, d)
  BY ThreadsAreNoLocks DEF Spot, Sane, Place, Lasting, HeapFacts, Global,
    Flags, Locks
<1>9. a \in Place /\ b \in Place /\ c \in Place /\ d \in Place /\ e \in Place
  BY <1>5, <1>6, <1>7, <1>8, SpotTyped DEF Sane, Lasting, HeapFacts, Global,
    Flags
<1> HIDE DEF a, b, c, d, e
<1>10. Rule(t, Lock("activeMu"), a, b)
  BY <1>1, <1>5, <1>9, RuleByName DEF Locks, Global
<1>11. Rule(t, Step("Leave"), b, c)
  BY <1>2, <1>6, <1>9, RuleByName DEF ProcessSteps
<1>12. Rule(t, Unlock("activeMu"), c, d)
  BY <1>3, <1>7, <1>9, RuleByName DEF Locks, Global
<1>13. Rule(t, Step("Exit"), d, e)
  BY <1>4, <1>8, <1>9, RuleByName DEF ProcessSteps
<1>14. Piece(t, ThreadExit, a, e)
  BY <1>10, <1>11, <1>12, <1>13, PieceFour, StepsKnown DEF Kinds, Locks,
    Global, ThreadExit
<1> QED  BY <1>14 DEF a, e

LEMMA OwnFirstPiece ==
  ASSUME NEW t \in Thread, NEW w \in (Thread \ {t}) \union {NIL}, NEW k \in
         SUBSET {"live"}
  PROVE  Piece(t, OwnFirst(t),
               Spot(w, 0, {}, {"in"}, k),
               Spot(w, 0, {}, {"in"}, k))
<1> DEFINE a == Spot(w, 0, {}, {"in"}, k)
           b == Spot(w, 0, {t}, {"in"}, k)
           c == Spot(w, 0, {t, "m"}, {"in"}, k)
           d == Spot(w, 0, {t}, {"in"}, k)
           e == Spot(w, 0, {}, {"in"}, k)
<1>1. Locking(t, t, a, b)
  BY ThreadsAreNoLocks DEF Spot, Locking, Free, Above, Keeps, Outer,
      Global
<1>2. Locking(t, "m", b, c)
  BY ThreadsAreNoLocks DEF Spot, Locking, Free, Above, Keeps, Outer,
      Global
<1>3. Unlocking(t, "m", c, d)
  BY ThreadsAreNoLocks DEF Spot, Unlocking, Keeps, Global
<1>4. Unlocking(t, t, d, e)
  BY ThreadsAreNoLocks DEF Spot, Unlocking, Keeps, Global
<1>5. Sane(t, a)
  BY ThreadsAreNoLocks DEF Spot, Sane, Place, Lasting, HeapFacts, Global,
    Flags, Locks
<1>6. Sane(t, b)
  BY ThreadsAreNoLocks DEF Spot, Sane, Place, Lasting, HeapFacts, Global,
    Flags, Locks
<1>7. Sane(t, c)
  BY ThreadsAreNoLocks DEF Spot, Sane, Place, Lasting, HeapFacts, Global,
    Flags, Locks
<1>8. Sane(t, d)
  BY ThreadsAreNoLocks DEF Spot, Sane, Place, Lasting, HeapFacts, Global,
    Flags, Locks
<1>9. a \in Place /\ b \in Place /\ c \in Place /\ d \in Place /\ e \in Place
  BY <1>5, <1>6, <1>7, <1>8, SpotTyped DEF Sane, Lasting, HeapFacts, Global,
    Flags
<1> HIDE DEF a, b, c, d, e
<1>10. Rule(t, Lock(t), a, b)
  BY <1>1, <1>5, <1>9, RuleByName DEF Locks
<1>11. Rule(t, Lock("m"), b, c)
  BY <1>2, <1>6, <1>9, RuleByName DEF Locks
<1>12. Rule(t, Unlock("m"), c, d)
  BY <1>3, <1>7, <1>9, RuleByName DEF Locks
<1>13. Rule(t, Unlock(t), d, e)
  BY <1>4, <1>8, <1>9, RuleByName DEF Locks
<1>14. Piece(t, OwnFirst(t), a, e)
  BY <1>10, <1>11, <1>12, <1>13, PieceFour, StepsKnown DEF Kinds, Locks,
    Global, OwnFirst
<1> QED  BY <1>14 DEF a, e

LEMMA WakePiece ==
  ASSUME NEW t \in Thread, NEW u \in Thread \ {t}, NEW k \in SUBSET {"live"}
  PROVE  Piece(t, Section(u),
               Spot(u, 0, {}, {"in"}, k),
               Spot(NIL, 0, {}, {"in"}, k))
<1> DEFINE a == Spot(u, 0, {}, {"in"}, k)
           b == Spot(u, 0, {u}, {"in"}, k)
           c == Spot(NIL, 0, {}, {"in"}, k)
<1>1. Locking(t, u, a, b)
  BY ThreadsAreNoLocks DEF Spot, Locking, Free, Above, Keeps, Outer,
      Global
<1>2. Unlocking(t, u, b, c)
  BY ThreadsAreNoLocks DEF Spot, Unlocking, Keeps, Global
<1>3. Sane(t, a)
  BY ThreadsAreNoLocks DEF Spot, Sane, Place, Lasting, HeapFacts, Global,
    Flags, Locks
<1>4. Sane(t, b)
  BY ThreadsAreNoLocks DEF Spot, Sane, Place, Lasting, HeapFacts, Global,
    Flags, Locks
<1>5. a \in Place /\ b \in Place /\ c \in Place
  BY <1>3, <1>4, SpotTyped DEF Sane, Lasting, HeapFacts, Global, Flags
<1> HIDE DEF a, b, c
<1>6. Rule(t, Lock(u), a, b)
  BY <1>1, <1>3, <1>5, RuleByName DEF Locks
<1>7. Rule(t, Unlock(u), b, c)
  BY <1>2, <1>4, <1>5, RuleByName DEF Locks
<1>8. Piece(t, Section(u), a, c)
  BY <1>6, <1>7, PieceTwo, StepsKnown DEF Kinds, Locks, Global, Section
<1> QED  BY <1>8 DEF a, c

LEMMA InitMutexPiece ==
  ASSUME NEW t \in Thread, NEW w \in (Thread \ {t}) \union {NIL}, NEW k \in
         SUBSET {"live"}
  PROVE  Piece(t, <<Step("InitMutex")>>,
               Spot(w, 0, {}, {"in"}, k),
               Spot(w, 0, {}, {"in"}, k))
<1> DEFINE a == Spot(w, 0, {}, {"in"}, k)
           b == Spot(w, 0, {}, {"in"}, k)
<1>1. WorldRule(t, "InitMutex", a, b)
  BY DEF Spot, WorldRule, Same, SameLocks, Keeps, Free
<1>2. Sane(t, a)
  BY ThreadsAreNoLocks DEF Spot, Sane, Place, Lasting, HeapFacts, Global,
    Flags, Locks
<1>3. a \in Place /\ b \in Place
  BY <1>2, SpotTyped DEF Sane, Lasting, HeapFacts, Global, Flags
<1> HIDE DEF a, b
<1>4. Rule(t, Step("InitMutex"), a, b)
  BY <1>1, <1>2, <1>3, RuleByName DEF WorldSteps
<1>5. Piece(t, <<Step("InitMutex")>>, a, b)
  BY <1>4, PieceOne, StepsKnown DEF Kinds, Locks, Global
<1> QED  BY <1>5 DEF a, b

\* What a client calls leads from where it is idle to where it is idle again.
Idle(k) == Spot(NIL, 0, {}, {"in"}, k)

LEMMA AllocTracedPiece ==
  ASSUME NEW t, NEW k \in SUBSET {"live"}
  PROVE  Piece(t, AllocTraced, Idle(k), Idle(k))
<1> DEFINE a == Spot(NIL, 0, {}, {"in"}, k)
<1>1. Sane(t, a) /\ a \in Place
  BY ThreadsAreNoLocks
  DEF Spot, Sane, Place, Lasting, HeapFacts, Global, Flags, Locks
<1>2. /\ a.depth = 0 /\ a.round = {} /\ a.held = {} /\ a.is = {"in"}
      /\ Same(a, a) /\ Forgets(a, a) /\ Free(a)
  BY DEF Spot, Same, SameLocks, Forgets, Free, Lasting
<1> HIDE DEF a
<1>3. Piece(t, LongRoute, a, a)
  BY <1>1, <1>2, LongRoutePiece
<1>4. Piece(t, <<Step("Critical"), Step("Uncritical")>>, a, a)
  BY CriticalPiece DEF a
<1>5. Piece(t, AllocTraced, a, a)
  BY <1>3, <1>4, PieceConcat DEF AllocTraced
<1> QED  BY <1>5 DEF a, Idle

LEMMA CollectPiece ==
  ASSUME NEW t, NEW k \in SUBSET {"live"}
  PROVE  Piece(t, Collect, Idle(k), Idle(k))
<1> DEFINE h == Spot(NIL, 1, {"heapMu"}, {"in"}, k)
           z == Spot(NIL, 1, {"heapMu"}, {"in"}, k \union {"zero"})
           i == Idle(k)
<1>1. Piece(t, <<Step("LockHeap")>>, i, h)
  BY EnterHeapPiece DEF Idle
<1>2. Piece(t, FinishGC, h, z)
  BY FinishGCPiece
<1>3. Piece(t, <<Step("CollectorOn"), Step("StartGC"), Step("CollectorOff")>>,
            z, h)
  BY StartGCPiece
<1>4. Piece(t, <<Step("UnlockHeap")>>, z, i)
  BY LeaveHeapPiece DEF Idle
<1> HIDE DEF h, z, i
<1>5. Piece(t, <<Step("LockHeap")>> \o FinishGC, i, z)
  BY <1>1, <1>2, PieceConcat
<1>6. Piece(t, <<Step("LockHeap")>> \o FinishGC \o
                 <<Step("CollectorOn"), Step("StartGC"), Step("CollectorOff")>>,
            i, h)
  BY <1>3, <1>5, PieceConcat
<1>7. Piece(t, <<Step("LockHeap")>> \o FinishGC \o
                 <<Step("CollectorOn"), Step("StartGC"), Step("CollectorOff")>>
                 \o FinishGC, i, z)
  BY <1>2, <1>6, PieceConcat
<1>8. Piece(t, Collect, i, i)
  BY <1>4, <1>7, PieceConcat DEF Collect
<1> QED  BY <1>8 DEF i

\* Between Disable and Enable.
Dormant(k) == Spot(NIL, 0, {}, {"in", "dis"}, k)

LEMMA DisableEnable ==
  ASSUME NEW t \in Client, NEW k \in SUBSET {"live"}
  PROVE  /\ Piece(t, Disable, Idle(k), Dormant(k))
         /\ Piece(t, Enable, Dormant(k), Idle(k))
<1> DEFINE h == Spot(NIL, 1, {"heapMu"}, {"in"}, k)
           z == Spot(NIL, 1, {"heapMu"}, {"in"}, k \union {"zero"})
           i == Idle(k)
           d == Dormant(k)
<1>1. Piece(t, <<Step("LockHeap")>>, i, h)
  BY EnterHeapPiece DEF Idle
<1>2. Piece(t, FinishGC, h, z)
  BY FinishGCPiece
<1>3. Piece(t, <<Step("Disable"), Step("UnlockHeap")>>, z, d)
  BY DisablePiece DEF Dormant
<1>4. Piece(t, Enable, d, i)
  BY EnablePiece DEF Idle, Dormant
<1> HIDE DEF h, z, i, d
<1>5. Piece(t, <<Step("LockHeap")>> \o FinishGC, i, z)
  BY <1>1, <1>2, PieceConcat
<1>6. Piece(t, Disable, i, d)
  BY <1>3, <1>5, PieceConcat DEF Disable
<1> QED  BY <1>4, <1>6 DEF i, d

LEMMA VisitAllRefsPiece ==
  ASSUME NEW t \in Client, NEW k \in SUBSET {"live"}, "live" \in k
  PROVE  Piece(t, VisitAllRefs, Idle(k), Idle(k))
<1> DEFINE i == Idle(k)
           d == Dormant(k)
           s == <<Lock("activeMu"), Step("StopWorld"), Step("StartWorld"),
                  Unlock("activeMu")>>
<1>1. Piece(t, s, d, d)
  BY VisitPiece DEF Dormant
<1>2. s = Alone(<<>>)
  BY DEF Alone
<1>3. Piece(t, Disable, i, d) /\ Piece(t, Enable, d, i)
  BY DisableEnable
<1> HIDE DEF i, d, s
<1>4. Piece(t, Disable \o Alone(<<>>), i, d)
  BY <1>1, <1>2, <1>3, PieceConcat
<1>5. Piece(t, VisitAllRefs, i, i)
  BY <1>3, <1>4, PieceConcat DEF VisitAllRefs
<1> QED  BY <1>5 DEF i

LEMMA ReportReachablePiece ==
  ASSUME NEW t \in Client, NEW k \in SUBSET {"live"}, "live" \in k
  PROVE  Piece(t, ReportReachable, Idle(k), Idle(k))
<1> DEFINE i == Idle(k)
           d == Dormant(k)
           h == Spot(NIL, 1, {"heapMu"}, {"in", "dis"}, k)
           w == Spot(NIL, 1, {"heapMu", "activeMu"}, {"in", "dis", "world"}, k)
<1>1. Piece(t, <<Step("LockHeap")>>, d, h)
  BY EnterDisabledPiece DEF Dormant
<1>2. Piece(t, <<Lock("activeMu"), Step("StopWorld")>>, h, w)
  BY ReportPiece
<1>3. Piece(t, <<Step("StartWorld"), Unlock("activeMu")>>, w, h)
  BY ReportedPiece
<1>4. Piece(t, <<Step("UnlockHeap")>>, h, d)
  BY LeaveDisabledPiece DEF Dormant
<1>5. Piece(t, LongRoute, w, w)
  <2>1. Sane(t, w)
    BY ThreadsAreNoLocks
    DEF Spot, Sane, Place, Lasting, HeapFacts, Global, Flags, Locks
  <2>2. w \in Place /\ Same(w, w)
    BY <2>1 DEF Sane, Same, SameLocks
  <2>3. /\ w.depth = 1 /\ w.round = {} /\ "all" \notin w.is /\ "dis" \in w.is
        /\ Forgets(w, w)
    BY DEF Spot, Forgets, Lasting
  <2> HIDE DEF w
  <2> QED  BY <2>1, <2>2, <2>3, LongRoutePiece
<1>6. Piece(t, Disable, i, d) /\ Piece(t, Enable, d, i)
  BY DisableEnable
<1> HIDE DEF i, d, h, w
<1>7. Piece(t, <<Lock("activeMu"), Step("StopWorld")>> \o LongRoute, h, w)
  BY <1>2, <1>5, PieceConcat
<1>8. Piece(t, Alone(LongRoute), h, h)
  BY <1>3, <1>7, PieceConcat DEF Alone
<1>9. Piece(t, Disable \o <<Step("LockHeap")>>, i, h)
  BY <1>1, <1>6, PieceConcat
<1>10. Piece(t, Disable \o <<Step("LockHeap")>> \o Alone(LongRoute), i, h)
  BY <1>8, <1>9, PieceConcat
<1>11. Piece(t, Disable \o <<Step("LockHeap")>> \o Alone(LongRoute)
                  \o <<Step("UnlockHeap")>>, i, d)
  BY <1>4, <1>10, PieceConcat
<1>12. Piece(t, Disable \o <<Step("LockHeap")>> \o Alone(LongRoute)
                  \o <<Step("UnlockHeap")>> \o Enable, i, i)
  BY <1>6, <1>11, PieceConcat
<1>13. ReportReachable = Disable \o <<Step("LockHeap")>> \o Alone(LongRoute)
                           \o <<Step("UnlockHeap")>> \o Enable
  BY DEF ReportReachable, LongRoute
<1> QED  BY <1>12, <1>13 DEF i

LEMMA RTProcessForkPiece ==
  ASSUME NEW t, NEW k \in SUBSET {"live"}
  PROVE  Piece(t, RTProcessFork, Idle(k), Idle(k))
<1> DEFINE i == Idle(k)
           g == Spot(NIL, 1, Global, {"in", "all"}, k)
<1>1. Piece(t, AtForkPrepare, i, g)
  BY PreparePiece DEF Idle
<1>2. ASSUME Solaris
      PROVE  Piece(t, <<Step("EnterFork"), Step("Fork")>>, g, i)
  BY <1>2, ForkPiece DEF Idle
<1>3. ASSUME ~Solaris
      PROVE  /\ Piece(t, <<Step("EnterFork")>>, i, i)
             /\ Piece(t, <<Step("Fork")>>, g, i)
  BY <1>3, EnterForkPiece, ForkInsidePiece DEF Idle
<1> HIDE DEF i, g
<1>4. CASE Solaris
  <2>1. Piece(t, AtForkPrepare \o <<Step("EnterFork"), Step("Fork")>>, i, i)
    BY <1>1, <1>2, <1>4, PieceConcat
  <2> QED  BY <1>4, <2>1 DEF RTProcessFork, i
<1>5. CASE ~Solaris
  <2>1. Piece(t, <<Step("EnterFork")>> \o AtForkPrepare, i, g)
    BY <1>1, <1>3, <1>5, PieceConcat
  <2>2. Piece(t, <<Step("EnterFork")>> \o AtForkPrepare \o <<Step("Fork")>>, i,
              i)
    BY <1>3, <1>5, <2>1, PieceConcat
  <2> QED  BY <1>5, <2>2 DEF RTProcessFork, i
<1> QED  BY <1>4, <1>5

\* After fork, in the parent and in the child.
LEMMA AfterForkPiece ==
  ASSUME NEW t, NEW k \in SUBSET {"live"}, NEW f \in SUBSET {"fork"}
  PROVE  LET g == Spot(NIL, 1, Global, {"in", "all"} \union f, k)
         IN  /\ Piece(t, AtForkParent \o <<Step("LeaveFork")>>, g, Idle(k))
             /\ Piece(t, AtForkChild \o <<Step("LeaveFork")>>, g, Idle(k))
<1> DEFINE i == Idle(k)
           d == Spot(NIL, 0, {}, {"in"} \union f, k)
           g == Spot(NIL, 1, Global, {"in", "all"} \union f, k)
<1>1. Piece(t, AtForkParent, g, d)
  BY ParentPiece
<1>2. Piece(t, <<Step("ForgetStarted")>>, d, d)
  BY ForgetStartedPiece
<1>3. Piece(t, <<Step("LeaveFork")>>, d, i)
  BY LeaveForkPiece DEF Idle
<1> HIDE DEF i, d, g
<1>4. Piece(t, AtForkChild, g, d)
  BY <1>1, <1>2, PieceConcat DEF AtForkChild
<1>5. /\ Piece(t, AtForkParent \o <<Step("LeaveFork")>>, g, i)
      /\ Piece(t, AtForkChild \o <<Step("LeaveFork")>>, g, i)
  BY <1>1, <1>3, <1>4, PieceConcat
<1> QED  BY <1>5 DEF g, i

\* A call on a MUTEX by t, which may wake u.
LEMMA MutexPiece ==
  ASSUME NEW t \in Thread, NEW u \in Thread, NEW k \in SUBSET {"live"}
  PROVE  Piece(t, <<Step("InitMutex")>> \o MutexSections(t, u),
               Spot(IF u = t THEN NIL ELSE u, 0, {}, {"in"}, k), Idle(k))
<1> DEFINE w == IF u = t THEN NIL ELSE u
           a == Spot(w, 0, {}, {"in"}, k)
           i == Idle(k)
           r == IF u = t THEN <<>> ELSE Section(u)
<1>1. w \in (Thread \ {t}) \union {NIL}
  OBVIOUS
<1> HIDE DEF w
<1>2. Piece(t, <<Step("InitMutex")>>, a, a) /\ Piece(t, OwnFirst(t), a, a)
  BY <1>1, InitMutexPiece, OwnFirstPiece
<1>3. i \in Place
  BY DEF Idle, Spot, Place, Lasting, HeapFacts, Flags
<1>4. Piece(t, r, a, i)
  <2>1. CASE u = t
    <3>1. r = <<>> /\ a = i
      BY <2>1 DEF w, Idle
    <3> HIDE DEF r, a, i
    <3> QED  BY <1>3, <3>1, PieceEmpty
  <2>2. CASE u # t
    <3>1. r = Section(u) /\ a = Spot(u, 0, {}, {"in"}, k)
      BY <2>2 DEF w
    <3> QED  BY <2>2, <3>1, WakePiece DEF Idle
  <2> QED  BY <2>1, <2>2
<1> HIDE DEF a, i
<1>5. Piece(t, MutexSections(t, u), a, i)
  BY <1>2, <1>4, PieceConcat DEF MutexSections
<1> HIDE DEF r
<1>6. Piece(t, <<Step("InitMutex")>> \o MutexSections(t, u), a, i)
  BY <1>2, <1>5, PieceConcat
<1> QED  BY <1>6 DEF a, i, w

-----------------------------------------------------------------------------
(* The round through the ring.                                             *)

LEMMA RoundFromTyped ==
  ASSUME ring \in Seq(Thread), IsInjective(ring), NEW t \in ToSet(ring)
  PROVE  LET q == RoundFrom(t)
         IN  /\ q \in Seq(Thread) /\ Len(q) = Len(ring)
             /\ Len(ring) \in Nat \ {0}
             /\ DOMAIN ring = 1 .. Len(ring)
             /\ \A i \in 1 .. Len(ring) : q[i] \in ToSet(ring)
             /\ \A i, j \in 1 .. Len(ring) : q[i] = q[j] => i = j
             /\ \A u \in ToSet(ring) : \E i \in 1 .. Len(ring) : q[i] = u
<1> DEFINE n == Len(ring)
           me == CHOOSE i \in DOMAIN ring : ring[i] = t
           r == SubSeq(ring, me, n)
           s == SubSeq(ring, 1, me - 1)
           q == r \o s
<1>1. /\ n \in Nat /\ DOMAIN ring = 1 .. n
      /\ \A i \in 1 .. n : ring[i] \in Thread /\ ring[i] \in ToSet(ring)
      /\ \A i, j \in 1 .. n : ring[i] = ring[j] => i = j
      /\ \A u \in ToSet(ring) : \E i \in 1 .. n : ring[i] = u
  BY LenProperties, ElementOfSeq DEF ToSet, IsInjective
<1>2. me \in 1 .. n
  BY <1>1
<1> HIDE DEF me
<1>3. /\ r \in Seq(Thread) /\ Len(r) = n - me + 1
      /\ \A i \in 1 .. n - me + 1 : r[i] = ring[me + i - 1]
  <2>1. me \in 1 .. Len(ring) + 1 /\ n \in me - 1 .. Len(ring)
    BY <1>1, <1>2
  <2>2. Len(r) = IF me <= n THEN n - me + 1 ELSE 0
    BY <1>1, <1>2, <2>1, SubSeqProperties
  <2> QED  BY <1>1, <1>2, <2>1, <2>2, SubSeqProperties
<1>4. /\ s \in Seq(Thread) /\ Len(s) = me - 1
      /\ \A i \in 1 .. me - 1 : s[i] = ring[i]
  <2>1. 1 \in 1 .. Len(ring) + 1 /\ me - 1 \in 1 - 1 .. Len(ring)
    BY <1>1, <1>2
  <2>2. Len(s) = IF 1 <= me - 1 THEN me - 1 - 1 + 1 ELSE 0
    BY <1>1, <1>2, <2>1, SubSeqProperties
  <2> QED  BY <1>1, <1>2, <2>1, <2>2, SubSeqProperties
<1> HIDE DEF r, s
<1>5. /\ q \in Seq(Thread) /\ Len(q) = Len(r) + Len(s)
      /\ \A i \in 1 .. Len(r) + Len(s) :
           q[i] = IF i <= Len(r) THEN r[i] ELSE s[i - Len(r)]
  BY <1>3, <1>4, ConcatProperties
<1> HIDE DEF q, n
<1> DEFINE at(k) == IF k <= n - me + 1 THEN me + k - 1 ELSE k - (n - me + 1)
<1>6. /\ Len(q) = n
      /\ \A i \in 1 .. n : at(i) \in 1 .. n /\ q[i] = ring[at(i)]
  <2>1. Len(q) = n
    BY <1>1, <1>2, <1>3, <1>4, <1>5
  <2>2. ASSUME NEW i \in 1 .. n
        PROVE  at(i) \in 1 .. n /\ q[i] = ring[at(i)]
    <3>1. CASE i <= n - me + 1
      <4>1. i \in 1 .. n - me + 1 /\ q[i] = r[i]
        BY <1>1, <1>2, <1>3, <1>4, <1>5, <3>1
      <4> QED  BY <1>1, <1>2, <1>3, <3>1, <4>1
    <3>2. CASE i > n - me + 1
      <4>1. /\ i - (n - me + 1) \in 1 .. me - 1
            /\ q[i] = s[i - (n - me + 1)]
        <5>1. i \in 1 .. Len(r) + Len(s) /\ ~ i <= Len(r)
          BY <1>1, <1>2, <1>3, <1>4, <3>2
        <5>2. q[i] = s[i - Len(r)]
          BY <1>5, <5>1
        <5> QED  BY <1>1, <1>2, <1>3, <3>2, <5>2
      <4>2. q[i] = ring[i - (n - me + 1)]
        BY <1>4, <4>1
      <4> QED  BY <1>1, <1>2, <3>2, <4>1, <4>2
    <3> QED  BY <1>1, <1>2, <3>1, <3>2
  <2> QED  BY <2>1, <2>2
<1>7. \A i \in 1 .. n : q[i] \in ToSet(ring)
  <2> HIDE DEF at
  <2> QED  BY <1>1, <1>6
<1>8. \A i, j \in 1 .. n : q[i] = q[j] => i = j
  <2>1. SUFFICES ASSUME NEW i \in 1 .. n, NEW j \in 1 .. n, q[i] = q[j]
                 PROVE  i = j
    OBVIOUS
  <2>2. at(i) = at(j)
    <3> HIDE DEF at
    <3> QED  BY <1>1, <1>6, <2>1
  <2> QED  BY <1>1, <1>2, <2>2
<1>9. ASSUME NEW u \in ToSet(ring) PROVE \E i \in 1 .. n : q[i] = u
  <2>1. PICK j \in 1 .. n : ring[j] = u
    BY <1>1
  <2>2. CASE j >= me
    <3>1. j - me + 1 \in 1 .. n /\ at(j - me + 1) = j
      BY <1>1, <1>2, <2>2
    <3>2. q[j - me + 1] = ring[j]
      <4> HIDE DEF at
      <4> QED  BY <1>6, <3>1
    <3> QED  BY <2>1, <3>1, <3>2
  <2>3. CASE j < me
    <3>1. j + (n - me + 1) \in 1 .. n /\ at(j + (n - me + 1)) = j
      BY <1>1, <1>2, <2>3
    <3>2. q[j + (n - me + 1)] = ring[j]
      <4> HIDE DEF at
      <4> QED  BY <1>6, <3>1
    <3> QED  BY <2>1, <3>1, <3>2
  <2> QED  BY <1>1, <1>2, <2>2, <2>3
<1>10. n \in Nat \ {0}
  BY <1>1, <1>2
<1>11. q = RoundFrom(t)
  BY DEF q, r, s, me, n, RoundFrom
<1> QED  BY <1>1, <1>5, <1>6, <1>7, <1>8, <1>9, <1>10, <1>11 DEF n

\* Locks and unlocks leave the depth.
LEMMA DepthNone ==
  ASSUME NEW s \in Seq(Steps),
         \A i \in 1 .. Len(s) : s[i][1] \in {"lock", "unlock"}
  PROVE  Depth(s) = 0
<1>1. \A N :
        N \cap {"lock", "unlock"} = {} => {i \in DOMAIN s : s[i][1] \in N} = {}
  BY StepTyped
<1>2. \A N : N \cap {"lock", "unlock"} = {} => Among(s, N) = 0
  BY <1>1, FS_EmptySet DEF Among
<1>3. /\ Among(s, {"UnlockHeap", "ForegroundLoop", "Fork"}) = 0
      /\ Among(s, {"LockHeap", "HoldHeap", "HaveWaited"}) = 0
  BY <1>2
<1> QED  BY <1>3 DEF Depth

\* A thread that is locking the ring and holds the part h of it.
Round(h, k) ==
  [depth |-> 1, held |-> Global \union h, round |-> ToSet(ring), wake |-> NIL,
   is |-> {"in"}, know |-> k]
\* A thread that still has the part h of the ring to unlock.
Back(h, is, k) ==
  [depth |-> 1, held |-> Global \union h, round |-> {}, wake |-> NIL,
   is |-> is, know |-> k]

LEMMA RoundSane ==
  ASSUME NEW t, ToSet(ring) \subseteq Thread, NEW h \in SUBSET ToSet(ring),
         NEW k \in SUBSET {"live"}, NEW f \in SUBSET {"fork"}
  PROVE  Sane(t, Round(h, k)) /\ Sane(t, Back(h, {"in"} \union f, k))
<1>1. /\ Round(h, k) \in Place /\ Back(h, {"in"} \union f, k) \in Place
  BY DEF Round, Back, Place, Lasting, HeapFacts, Flags, Locks
<1>2. Sane(t, Round(h, k))
  BY <1>1, ThreadsAreNoLocks DEF Round, Sane, Global, Lasting
<1>3. Sane(t, Back(h, {"in"} \union f, k))
  BY <1>1, ThreadsAreNoLocks DEF Back, Sane, Global, Lasting
<1> QED  BY <1>2, <1>3

LEMMA RoundRule ==
  ASSUME NEW t, ToSet(ring) \subseteq Thread, NEW h \in SUBSET ToSet(ring),
         NEW k \in SUBSET {"live"}, NEW f \in SUBSET {"fork"},
         NEW u \in ToSet(ring) \ h
  PROVE  /\ Rule(t, Lock(u), Round(h, k), Round(h \union {u}, k))
         /\ ToSet(ring) = h \union {u} =>
              Rule(t, Lock(u), Round(h, k),
                   Spot(NIL, 1, Global, {"in", "all"}, k))
         /\ Rule(t, Unlock(u), Back(h \union {u}, {"in"} \union f, k),
                               Back(h, {"in"} \union f, k))
<1> DEFINE a == Round(h, k)
           b == Round(h \union {u}, k)
           c == Spot(NIL, 1, Global, {"in", "all"}, k)
           d == Back(h \union {u}, {"in"} \union f, k)
           e == Back(h, {"in"} \union f, k)
<1>1. /\ u \in Thread /\ u \in Locks /\ u \notin Global /\ u # "m"
      /\ h \union {u} \in SUBSET ToSet(ring) /\ h \subseteq Thread
  BY ThreadsAreNoLocks DEF Locks
<1>2. /\ Sane(t, a) /\ Sane(t, b) /\ Sane(t, d) /\ Sane(t, e)
      /\ a \in Place /\ b \in Place /\ d \in Place /\ e \in Place
  <2>1. Sane(t, a) /\ Sane(t, e)
    BY RoundSane
  <2>2. Sane(t, b) /\ Sane(t, d)
    BY <1>1, RoundSane
  <2> HIDE DEF a, b, d, e
  <2> QED  BY <2>1, <2>2 DEF Sane
<1>3. c \in Place
  BY DEF Spot, Place, Locks, Lasting, HeapFacts, Flags
<1>4. Locking(t, u, a, b)
  BY <1>1 DEF Locking, Round, Free, Above, Keeps
<1>5. ToSet(ring) = h \union {u} => Locking(t, u, a, c)
  BY <1>1 DEF Locking, Round, Spot, Free, Above, Keeps
<1>6. Unlocking(t, u, d, e)
  <2>1. (Global \union (h \union {u})) \ {u} = Global \union h
    BY <1>1
  <2>2. "m" \notin Global \union (h \union {u})
    BY <1>1, ThreadsAreNoLocks
  <2>3. u # "heapMu" /\ u # "activeMu" /\ u # NIL
    BY <1>1, ThreadsAreNoLocks DEF Global
  <2> QED  BY <2>1, <2>2, <2>3 DEF Unlocking, Back, Keeps
<1> HIDE DEF a, b, c, d, e
<1>7. /\ Rule(t, Lock(u), a, b) /\ Rule(t, Unlock(u), d, e)
      /\ ToSet(ring) = h \union {u} => Rule(t, Lock(u), a, c)
  BY <1>1, <1>2, <1>3, <1>4, <1>5, <1>6, RuleByName
<1> QED  BY <1>7 DEF a, b, c, d, e

LEMMA LockRingPiece ==
  ASSUME ring \in Seq(Thread), IsInjective(ring), NEW t \in ToSet(ring),
         NEW k \in SUBSET {"live"}
  PROVE  Piece(t, [i \in DOMAIN ring |-> Lock(RoundFrom(t)[i])],
               Round({}, k), Spot(NIL, 1, Global, {"in", "all"}, k))
<1> DEFINE n == Len(ring)
           q == RoundFrom(t)
           s == [i \in DOMAIN ring |-> Lock(q[i])]
           a == Round({}, k)
           b == Spot(NIL, 1, Global, {"in", "all"}, k)
           got(i) == {q[j] : j \in 1 .. i - 1}
           f == [i \in 1 .. n + 1 |-> IF i = n + 1 THEN b ELSE Round(got(i), k)]
<1>1. /\ n \in Nat \ {0} /\ DOMAIN ring = 1 .. n
      /\ \A i \in 1 .. n : q[i] \in ToSet(ring)
      /\ \A i, j \in 1 .. n : q[i] = q[j] => i = j
      /\ \A u \in ToSet(ring) : \E i \in 1 .. n : q[i] = u
  BY RoundFromTyped
<1>2. ToSet(ring) \subseteq Thread
  BY LenProperties, ElementOfSeq DEF ToSet
<1> HIDE DEF q, n
<1>3. /\ s \in Seq(Steps) /\ Len(s) = n
      /\ \A i \in 1 .. n : s[i] = Lock(q[i]) /\ s[i][1] = "lock"
  <2>1. \A i \in 1 .. n : Lock(q[i]) \in Steps
    BY <1>1, <1>2, StepsKnown DEF Locks
  <2>2. s = [i \in 1 .. n |-> Lock(q[i])]
    BY <1>1
  <2> HIDE DEF s
  <2>3. s \in [1 .. n -> Steps]
    BY <2>1, <2>2
  <2>4. \A i \in 1 .. n : s[i] = Lock(q[i])
    BY <2>2
  <2> QED  BY <1>1, <2>3, <2>4 DEF Lock
<1> HIDE DEF s
<1>4. Depth(s) = a.depth - b.depth
  <2>1. Depth(s) = 0
    BY <1>3, DepthNone
  <2> QED  BY <2>1 DEF Round, Spot
<1>5. \A i \in 1 .. n : got(i) \in SUBSET ToSet(ring) /\ q[i] \notin got(i)
  BY <1>1
<1>6. \A i \in 1 .. n : got(i + 1) = got(i) \union {q[i]}
  <2>1. SUFFICES ASSUME NEW i \in 1 .. n
                 PROVE  got(i + 1) = got(i) \union {q[i]}
    OBVIOUS
  <2>2. \A j \in 1 .. (i + 1) - 1 : j \in 1 .. i - 1 \/ j = i
    BY <1>1
  <2>3. \A j \in 1 .. i - 1 : j \in 1 .. (i + 1) - 1
    BY <1>1
  <2>4. i \in 1 .. (i + 1) - 1
    BY <1>1
  <2> QED  BY <2>2, <2>3, <2>4
<1>7. got(n + 1) = ToSet(ring) /\ got(1) = {}
  <2>1. \A j \in 1 .. (n + 1) - 1 : j \in 1 .. n
    BY <1>1
  <2>2. \A j \in 1 .. n : j \in 1 .. (n + 1) - 1
    BY <1>1
  <2> QED  BY <1>1, <2>1, <2>2
<1>8. f \in [1 .. n + 1 -> Place] /\ f[1] = a /\ f[n + 1] = b
  <2>1. b \in Place
    BY DEF Spot, Place, Locks, Lasting, HeapFacts, Flags
  <2>2. \A i \in 1 .. n : Round(got(i), k) \in Place
    <3> HIDE DEF got
    <3> QED  BY <1>2, <1>5, RoundSane DEF Sane
  <2>3. \A i \in 1 .. n + 1 : i = n + 1 \/ i \in 1 .. n
    BY <1>1
  <2>4. 1 \in 1 .. n + 1 /\ n + 1 \in 1 .. n + 1 /\ 1 # n + 1
    BY <1>1
  <2> HIDE DEF got, b
  <2> QED  BY <1>7, <2>1, <2>2, <2>3, <2>4
<1>9. ASSUME NEW i \in 1 .. n PROVE Rule(t, s[i], f[i], f[i + 1])
  <2> HIDE DEF got, b
  <2>1. f[i] = Round(got(i), k) /\ s[i] = Lock(q[i])
        /\ f[i + 1] = IF i = n THEN b ELSE Round(got(i) \union {q[i]}, k)
    <3>1. i \in 1 .. n + 1 /\ i # n + 1 /\ i + 1 \in 1 .. n + 1
          /\ (i + 1 = n + 1 <=> i = n)
      BY <1>1
    <3>2. got(i + 1) = got(i) \union {q[i]}
      BY <1>6
    <3>3. f[i] = Round(got(i), k)
      BY <3>1
    <3>4. f[i + 1] = IF i = n THEN b ELSE Round(got(i + 1), k)
      BY <3>1
    <3> QED  BY <1>3, <3>2, <3>3, <3>4
  <2>2. q[i] \in ToSet(ring) \ got(i) /\ got(i) \in SUBSET ToSet(ring)
    BY <1>1, <1>5
  <2>3. i = n => ToSet(ring) = got(i) \union {q[i]}
    BY <1>6, <1>7
  <2> HIDE DEF f
  <2>4. /\ Rule(t, Lock(q[i]), Round(got(i), k), Round(got(i) \union {q[i]}, k))
        /\ ToSet(ring) = got(i) \union {q[i]} =>
             Rule(t, Lock(q[i]), Round(got(i), k), b)
    BY <1>2, <2>2, RoundRule DEF b
  <2> QED  BY <2>1, <2>3, <2>4
<1> HIDE DEF f, a, b
<1>10. Piece(t, s, a, b)
  BY <1>3, <1>4, <1>8, <1>9 DEF Piece
<1> QED  BY <1>10 DEF s, a, b, q

LEMMA UnlockRingPiece ==
  ASSUME ring \in Seq(Thread), IsInjective(ring), NEW t \in ToSet(ring),
         NEW k \in SUBSET {"live"}, NEW h \in SUBSET {"fork"}
  PROVE  Piece(t, [i \in DOMAIN ring |-> Unlock(RoundFrom(t)[i])],
               Back(ToSet(ring), {"in"} \union h, k),
               Spot(NIL, 1, Global, {"in"} \union h, k))
<1> DEFINE n == Len(ring)
           q == RoundFrom(t)
           s == [i \in DOMAIN ring |-> Unlock(q[i])]
           in == {"in"} \union h
           a == Back(ToSet(ring), in, k)
           b == Spot(NIL, 1, Global, in, k)
           left(i) == {q[j] : j \in i .. n}
           f == [i \in 1 .. n + 1 |-> Back(left(i), in, k)]
<1>1. /\ n \in Nat \ {0} /\ DOMAIN ring = 1 .. n
      /\ \A i \in 1 .. n : q[i] \in ToSet(ring)
      /\ \A i, j \in 1 .. n : q[i] = q[j] => i = j
      /\ \A u \in ToSet(ring) : \E i \in 1 .. n : q[i] = u
  BY RoundFromTyped
<1>2. ToSet(ring) \subseteq Thread
  BY LenProperties, ElementOfSeq DEF ToSet
<1> HIDE DEF q, n
<1>3. /\ s \in Seq(Steps) /\ Len(s) = n
      /\ \A i \in 1 .. n : s[i] = Unlock(q[i]) /\ s[i][1] = "unlock"
  <2>1. \A i \in 1 .. n : Unlock(q[i]) \in Steps
    BY <1>1, <1>2, StepsKnown DEF Locks
  <2>2. s = [i \in 1 .. n |-> Unlock(q[i])]
    BY <1>1
  <2> HIDE DEF s
  <2>3. s \in [1 .. n -> Steps]
    BY <2>1, <2>2
  <2>4. \A i \in 1 .. n : s[i] = Unlock(q[i])
    BY <2>2
  <2> QED  BY <1>1, <2>3, <2>4 DEF Unlock
<1> HIDE DEF s
<1>4. Depth(s) = a.depth - b.depth
  <2>1. Depth(s) = 0
    BY <1>3, DepthNone
  <2> QED  BY <2>1 DEF Back, Spot
<1>5. /\ \A i \in 1 .. n + 1 : left(i) \in SUBSET ToSet(ring)
      /\ \A i \in 1 .. n : q[i] \notin left(i + 1)
  BY <1>1
<1>6. \A i \in 1 .. n : left(i) = left(i + 1) \union {q[i]}
  <2>1. SUFFICES ASSUME NEW i \in 1 .. n
                 PROVE  left(i) = left(i + 1) \union {q[i]}
    OBVIOUS
  <2>2. \A j \in i .. n : j \in i + 1 .. n \/ j = i
    BY <1>1
  <2>3. \A j \in i + 1 .. n : j \in i .. n
    BY <1>1
  <2>4. i \in i .. n
    BY <1>1
  <2> QED  BY <2>2, <2>3, <2>4
<1>7. left(1) = ToSet(ring) /\ left(n + 1) = {}
  <2>1. \A j \in n + 1 .. n : FALSE
    BY <1>1
  <2> QED  BY <1>1, <2>1
<1> HIDE DEF in
<1>8. f \in [1 .. n + 1 -> Place] /\ f[1] = a /\ f[n + 1] = b
  <2>1. \A i \in 1 .. n + 1 : Back(left(i), in, k) \in Place
    <3> HIDE DEF left
    <3> QED  BY <1>2, <1>5, RoundSane DEF Sane, in
  <2>2. 1 \in 1 .. n + 1 /\ n + 1 \in 1 .. n + 1
    BY <1>1
  <2>3. Back({}, in, k) = b
    BY DEF Back, Spot
  <2> HIDE DEF left, b
  <2> QED  BY <1>7, <2>1, <2>2, <2>3
<1>9. ASSUME NEW i \in 1 .. n PROVE Rule(t, s[i], f[i], f[i + 1])
  <2> HIDE DEF left
  <2>1. f[i] = Back(left(i + 1) \union {q[i]}, in, k) /\ s[i] = Unlock(q[i])
        /\ f[i + 1] = Back(left(i + 1), in, k)
    <3>1. i \in 1 .. n + 1 /\ i + 1 \in 1 .. n + 1
      BY <1>1
    <3>2. f[i] = Back(left(i), in, k) /\ f[i + 1] = Back(left(i + 1), in, k)
      BY <3>1
    <3> QED  BY <1>3, <1>6, <3>2
  <2>2. /\ q[i] \in ToSet(ring) \ left(i + 1)
        /\ left(i + 1) \in SUBSET ToSet(ring)
    BY <1>1, <1>5
  <2> HIDE DEF f
  <2>3. Rule(t, Unlock(q[i]), Back(left(i + 1) \union {q[i]}, in, k),
                              Back(left(i + 1), in, k))
    BY <1>2, <2>2, RoundRule DEF in
  <2> QED  BY <2>1, <2>3
<1> HIDE DEF f, a, b
<1>10. Piece(t, s, a, b)
  BY <1>3, <1>4, <1>8, <1>9 DEF Piece
<1> QED  BY <1>10 DEF s, a, b, q, in

\* What CollectorOn and StopWorld add is what CollectorOff and StartWorld take
\* away.
LEMMA FlagsBack ==
  ASSUME NEW j \in SUBSET {"in", "dis", "ending"}
  PROVE  /\ (j \union {"on"}) \ {"on"} = j
         /\ ((j \union {"on"}) \union {"world"}) \ {"world"} = j \union {"on"}
         /\ j \in SUBSET Flags /\ j \union {"on"} \in SUBSET Flags
         /\ (j \union {"on"}) \union {"world"} \in SUBSET Flags
         /\ "on" \notin j /\ "all" \notin j /\ "world" \notin j
         /\ "world" \notin j \union {"on"}
         /\ (j \union {"on"}) \cap {"all", "alloc", "fork", "world"} = {}
BY DEF Flags

LEMMA FactsBack ==
  ASSUME NEW z \in SUBSET (Lasting \union HeapFacts),
         NEW k \in SUBSET (z \cap Lasting)
  PROVE  /\ k \in SUBSET (Lasting \union HeapFacts) /\ k \subseteq z
         /\ k \subseteq Lasting
OBVIOUS

LEMMA LocksBack ==
  ASSUME NEW w \in Thread \union {NIL},
         NEW h \in SUBSET (Outer \union {"heapMu"})
  PROVE  /\ (h \union {"activeMu"}) \ {"activeMu"} = h
         /\ (h \union {"activeMu"}) \cap Thread = {}
         /\ h \in SUBSET Global /\ h \union {"activeMu"} \in SUBSET Global
         /\ "m" \notin h \union {"activeMu"} /\ w # "activeMu"
BY ThreadsAreNoLocks DEF Outer, Global, NIL

\* The places of a thread that has the heap lock and is about to collect.
LEMMA SaneWithHeap ==
  ASSUME NEW t, NEW w \in Thread \union {NIL}, NEW d \in 1 .. 2,
         NEW h \in SUBSET Global, "heapMu" \in h,
         NEW z \in SUBSET (Lasting \union HeapFacts),
         "unmade" \in z => "initMu" \in h,
         NEW j \in SUBSET {"in", "dis", "ending", "on", "world"},
         "in" \in j, "world" \in j => "activeMu" \in h
  PROVE  Sane(t, Spot(w, d, h, j, z))
<1>1. PICK c : c = Spot(w, d, h, j, z)
  OBVIOUS
<1>2. /\ c.wake = w /\ c.depth = d /\ c.held = h /\ c.is = j /\ c.know = z
      /\ c.round = {}
  BY <1>1 DEF Spot
<1>3. c \in Place
  <2>1. d \in 0 .. 3 /\ h \in SUBSET Global /\ j \in SUBSET Flags
    BY DEF Flags
  <2> QED  BY <1>1, <2>1, SpotTyped
<1>4. "m" \notin h /\ h \cap Thread = {}
  BY ThreadsAreNoLocks DEF Global
<1>5. "all" \notin j
  OBVIOUS
<1> QED  BY <1>1, <1>2, <1>3, <1>4, <1>5 DEF Sane

LEMMA SaneInHeap ==
  ASSUME NEW t, NEW w \in Thread \union {NIL}, NEW d \in 1 .. 2,
         NEW h \in SUBSET (Outer \union {"heapMu"}), "heapMu" \in h,
         NEW z \in SUBSET (Lasting \union HeapFacts),
         "unmade" \in z => "initMu" \in h,
         NEW j \in SUBSET {"in", "dis", "ending", "on"}, "in" \in j
  PROVE  Sane(t, Spot(w, d, h, j, z))
<1>1. h \in SUBSET Global
  BY LocksBack
<1>2. j \in SUBSET {"in", "dis", "ending", "on", "world"} /\ "world" \notin j
  OBVIOUS
<1> QED  BY <1>1, <1>2, SaneWithHeap

\* The same with activeMu, whether the world is stopped or not.
LEMMA SaneWithWorld ==
  ASSUME NEW t, NEW w \in Thread \union {NIL}, NEW d \in 1 .. 2,
         NEW h \in SUBSET (Outer \union {"heapMu"}), "heapMu" \in h,
         NEW z \in SUBSET (Lasting \union HeapFacts),
         "unmade" \in z => "initMu" \in h,
         NEW j \in SUBSET {"in", "dis", "ending", "on", "world"}, "in" \in j
  PROVE  Sane(t, Spot(w, d, h \union {"activeMu"}, j, z))
<1>1. PICK g : g = h \union {"activeMu"}
  OBVIOUS
<1>2. /\ g \in SUBSET Global /\ "heapMu" \in g /\ "activeMu" \in g
      /\ "unmade" \in z => "initMu" \in g
  BY <1>1, LocksBack
<1>3. Sane(t, Spot(w, d, g, j, z))
  BY <1>2, SaneWithHeap
<1> QED  BY <1>1, <1>3

LEMMA CollectingPiece ==
  ASSUME NEW t, NEW w \in Thread \union {NIL}, NEW d \in 1 .. 2, NEW h \in
         SUBSET (Outer \union {"heapMu"}), "heapMu" \in h, NEW z \in SUBSET
         (Lasting \union HeapFacts), "unmade" \in z => "initMu" \in h, NEW k
         \in SUBSET (z \cap Lasting), "enabled" \in z, "live" \in z \/ "busy"
         \in z, NEW j \in SUBSET {"in", "dis", "ending"}, "in" \in j
  PROVE  Piece(t, <<Step("CollectorOn"), Step("CollectSome"),
                    Step("CollectMore"), Step("CollectorOff")>>,
               Spot(w, d, h, j, z),
               Spot(w, d, h, j, k))
<1> DEFINE a == Spot(w, d, h, j, z)
           b == Spot(w, d, h, j \union {"on"}, z)
           c == Spot(w, d, h, j \union {"on"}, k)
           g == Spot(w, d, h, j \union {"on"}, k)
           i == Spot(w, d, h, j, k)
<1>1. CollectorRule(t, "CollectorOn", a, b)
  BY FlagsBack, FactsBack DEF Spot, CollectorRule, SameLocks, Keeps,
      Outer
<1>2. CollectorRule(t, "CollectSome", b, c)
  BY FlagsBack, FactsBack DEF Spot, CollectorRule, Same, SameLocks,
      Forgets, Lasting, MayCollect, Free, Outer
<1>3. CollectorRule(t, "CollectMore", c, g)
  BY FlagsBack, FactsBack DEF Spot, CollectorRule, Same, SameLocks,
      Forgets, Lasting, MayCollect, Free, Outer
<1>4. CollectorRule(t, "CollectorOff", g, i)
  BY FlagsBack, FactsBack DEF Spot, CollectorRule, SameLocks, Keeps,
      Outer
<1>5. Sane(t, a)
  BY FactsBack, SaneInHeap
<1>6. Sane(t, b)
  BY FactsBack, SaneInHeap
<1>7. Sane(t, c)
  BY FactsBack, SaneInHeap
<1>8. Sane(t, g)
  BY FactsBack, SaneInHeap
<1>9. a \in Place /\ b \in Place /\ c \in Place /\ g \in Place /\ i \in Place
  BY <1>5, <1>6, <1>7, <1>8, SpotTyped DEF Sane, Lasting, HeapFacts, Global,
    Flags, Outer
<1> HIDE DEF a, b, c, g, i
<1>10. Rule(t, Step("CollectorOn"), a, b)
  BY <1>1, <1>5, <1>9, RuleByName DEF CollectorSteps
<1>11. Rule(t, Step("CollectSome"), b, c)
  BY <1>2, <1>6, <1>9, RuleByName DEF CollectorSteps
<1>12. Rule(t, Step("CollectMore"), c, g)
  BY <1>3, <1>7, <1>9, RuleByName DEF CollectorSteps
<1>13. Rule(t, Step("CollectorOff"), g, i)
  BY <1>4, <1>8, <1>9, RuleByName DEF CollectorSteps
<1>14. Piece(t, <<Step("CollectorOn"), Step("CollectSome"),
                  Step("CollectMore"), Step("CollectorOff")>>, a, i)
  BY <1>10, <1>11, <1>12, <1>13, PieceFour, StepsKnown DEF Kinds, Locks,
    Global
<1> QED  BY <1>14 DEF a, i

LEMMA CollectingMorePiece ==
  ASSUME NEW t, NEW w \in Thread \union {NIL}, NEW d \in 1 .. 2, NEW h \in
         SUBSET (Outer \union {"heapMu"}), "heapMu" \in h, NEW z \in SUBSET
         (Lasting \union HeapFacts), "unmade" \in z => "initMu" \in h, NEW k
         \in SUBSET (z \cap Lasting), "enabled" \in z, "live" \in z \/ "busy"
         \in z, NEW j \in SUBSET {"in", "dis", "ending"}, "in" \in j
  PROVE  Piece(t, <<Step("CollectSome"), Step("CollectMore")>>,
               Spot(w, d, h, j \union {"on"}, z),
               Spot(w, d, h, j \union {"on"}, k))
<1> DEFINE a == Spot(w, d, h, j \union {"on"}, z)
           b == Spot(w, d, h, j \union {"on"}, k)
           c == Spot(w, d, h, j \union {"on"}, k)
<1>1. CollectorRule(t, "CollectSome", a, b)
  BY DEF Spot, CollectorRule, Same, SameLocks, Forgets, Lasting,
      MayCollect, Free, Outer
<1>2. CollectorRule(t, "CollectMore", b, c)
  BY DEF Spot, CollectorRule, Same, SameLocks, Forgets, Lasting,
      MayCollect, Free, Outer
<1>3. Sane(t, a)
  BY ThreadsAreNoLocks DEF Spot, Sane, Place, Lasting, HeapFacts, Global,
    Flags, Locks, Outer
<1>4. Sane(t, b)
  BY ThreadsAreNoLocks DEF Spot, Sane, Place, Lasting, HeapFacts, Global,
    Flags, Locks, Outer
<1>5. a \in Place /\ b \in Place /\ c \in Place
  BY <1>3, <1>4, SpotTyped DEF Sane, Lasting, HeapFacts, Global, Flags,
    Outer
<1> HIDE DEF a, b, c
<1>6. Rule(t, Step("CollectSome"), a, b)
  BY <1>1, <1>3, <1>5, RuleByName DEF CollectorSteps
<1>7. Rule(t, Step("CollectMore"), b, c)
  BY <1>2, <1>4, <1>5, RuleByName DEF CollectorSteps
<1>8. Piece(t, <<Step("CollectSome"), Step("CollectMore")>>, a, c)
  BY <1>6, <1>7, PieceTwo, StepsKnown DEF Kinds, Locks, Global
<1> QED  BY <1>8 DEF a, c

LEMMA StateZeroPiece ==
  ASSUME NEW t, NEW w \in Thread \union {NIL}, NEW d \in 1 .. 2, NEW h \in
         SUBSET (Outer \union {"heapMu"}), "heapMu" \in h, NEW z \in SUBSET
         (Lasting \union HeapFacts), "unmade" \in z => "initMu" \in h, NEW k
         \in SUBSET (z \cap Lasting), "enabled" \in z, "live" \in z \/ "busy"
         \in z, NEW j \in SUBSET {"in", "dis", "ending"}, "in" \in j, "live"
         \in z
  PROVE  Piece(t, <<Lock("activeMu"), Step("StopWorld"), Step("MarkRoots"),
                    Step("StartWorld"), Unlock("activeMu")>>,
               Spot(w, d, h, j \union {"on"}, z),
               Spot(w, d, h, j \union {"on"}, k))
<1> DEFINE a == Spot(w, d, h, j \union {"on"}, z)
           b == Spot(w, d, h \union {"activeMu"}, j \union {"on"}, z)
           c == Spot(w, d, h \union {"activeMu"},
                     j \union {"on"} \union {"world"}, z)
           g == Spot(w, d, h \union {"activeMu"},
                     j \union {"on"} \union {"world"}, k)
           i == Spot(w, d, h \union {"activeMu"}, j \union {"on"}, k)
           m == Spot(w, d, h, j \union {"on"}, k)
<1>1. Locking(t, "activeMu", a, b)
  BY FlagsBack, FactsBack, LocksBack, ThreadsAreNoLocks DEF Spot, Locking,
      Free, Above, Keeps, Outer, Global
<1>2. WorldRule(t, "StopWorld", b, c)
  BY FlagsBack, FactsBack, LocksBack DEF Spot, WorldRule, SameLocks,
      Keeps, Free, Global, Outer
<1>3. CollectorRule(t, "MarkRoots", c, g)
  BY FlagsBack, FactsBack, LocksBack DEF Spot, CollectorRule, Same,
      SameLocks, Forgets, Lasting, Outer
<1>4. WorldRule(t, "StartWorld", g, i)
  BY FlagsBack, FactsBack, LocksBack DEF Spot, WorldRule, SameLocks,
      Keeps, Outer
<1>5. Unlocking(t, "activeMu", i, m)
  BY FlagsBack, FactsBack, LocksBack, ThreadsAreNoLocks DEF Spot,
      Unlocking, Keeps, Global, Outer
<1>6. Sane(t, a)
  BY FactsBack, SaneInHeap
<1>7. Sane(t, b)
  <2>1. j \union {"on"} \in SUBSET {"in", "dis", "ending", "on", "world"}
    OBVIOUS
  <2> QED  BY <2>1, FactsBack, SaneWithWorld
<1>8. Sane(t, c)
  <2>1. j \union {"on"} \union {"world"}
          \in SUBSET {"in", "dis", "ending", "on", "world"}
    OBVIOUS
  <2> QED  BY <2>1, FactsBack, SaneWithWorld
<1>9. Sane(t, g)
  <2>1. j \union {"on"} \union {"world"}
          \in SUBSET {"in", "dis", "ending", "on", "world"}
    OBVIOUS
  <2> QED  BY <2>1, FactsBack, SaneWithWorld
<1>10. Sane(t, i)
  <2>1. j \union {"on"} \in SUBSET {"in", "dis", "ending", "on", "world"}
    OBVIOUS
  <2> QED  BY <2>1, FactsBack, SaneWithWorld
<1>11. a \in Place /\ b \in Place /\ c \in Place /\ g \in Place /\ i \in Place
      /\ m \in Place
  <2>1. Sane(t, m)
    BY FactsBack, SaneInHeap
  <2> QED  BY <1>6, <1>7, <1>8, <1>9, <1>10, <2>1 DEF Sane
<1> HIDE DEF a, b, c, g, i, m
<1>12. Rule(t, Lock("activeMu"), a, b)
  BY <1>1, <1>6, <1>11, RuleByName DEF Locks, Global
<1>13. Rule(t, Step("StopWorld"), b, c)
  BY <1>2, <1>7, <1>11, RuleByName DEF WorldSteps
<1>14. Rule(t, Step("MarkRoots"), c, g)
  BY <1>3, <1>8, <1>11, RuleByName DEF CollectorSteps
<1>15. Rule(t, Step("StartWorld"), g, i)
  BY <1>4, <1>9, <1>11, RuleByName DEF WorldSteps
<1>16. Rule(t, Unlock("activeMu"), i, m)
  BY <1>5, <1>10, <1>11, RuleByName DEF Locks, Global
<1>17. Piece(t, <<Lock("activeMu"), Step("StopWorld"), Step("MarkRoots"),
                  Step("StartWorld"), Unlock("activeMu")>>, a, m)
  BY <1>12, <1>13, <1>14, <1>15, <1>16, PieceFive, StepsKnown DEF Kinds,
    Locks, Global
<1> QED  BY <1>17 DEF a, m

LEMMA EndCollectionPiece ==
  ASSUME NEW t, NEW w \in Thread \union {NIL}, NEW d \in 1 .. 2, NEW h \in
         SUBSET (Outer \union {"heapMu"}), "heapMu" \in h, NEW z \in SUBSET
         (Lasting \union HeapFacts), "unmade" \in z => "initMu" \in h, NEW k
         \in SUBSET (z \cap Lasting), NEW j \in SUBSET {"in", "dis",
         "ending"}, "in" \in j
  PROVE  Piece(t, <<Step("EndCollection")>>,
               Spot(w, d, h, j \union {"on"}, z),
               Spot(w, d, h, j \union {"on"}, k))
<1> DEFINE a == Spot(w, d, h, j \union {"on"}, z)
           b == Spot(w, d, h, j \union {"on"}, k)
<1>1. CollectorRule(t, "EndCollection", a, b)
  BY DEF Spot, CollectorRule, Same, SameLocks, Forgets, Lasting, Outer
<1>2. Sane(t, a)
  BY ThreadsAreNoLocks DEF Spot, Sane, Place, Lasting, HeapFacts, Global,
    Flags, Locks, Outer
<1>3. a \in Place /\ b \in Place
  BY <1>2, SpotTyped DEF Sane, Lasting, HeapFacts, Global, Flags, Outer
<1> HIDE DEF a, b
<1>4. Rule(t, Step("EndCollection"), a, b)
  BY <1>1, <1>2, <1>3, RuleByName DEF CollectorSteps
<1>5. Piece(t, <<Step("EndCollection")>>, a, b)
  BY <1>4, PieceOne, StepsKnown DEF Kinds, Locks, Global
<1> QED  BY <1>5 DEF a, b

LEMMA CollectAllPiece ==
  ASSUME NEW t, NEW w \in Thread \union {NIL}, NEW d \in 1 .. 2, NEW h \in
         SUBSET (Outer \union {"heapMu"}), "heapMu" \in h, NEW z \in SUBSET
         (Lasting \union HeapFacts), "unmade" \in z => "initMu" \in h, NEW k
         \in SUBSET (z \cap Lasting), "enabled" \in z, "live" \in z \/ "busy"
         \in z, NEW j \in SUBSET {"in", "dis", "ending"}, "in" \in j, NEW e
         \in SUBSET (Lasting \union HeapFacts), e \cap Lasting = k, e
         \subseteq k \union {"zero"}
  PROVE  Piece(t, <<Step("CollectSome"), Step("CollectAll")>>,
               Spot(w, d, h, j \union {"on"}, z),
               Spot(w, d, h, j \union {"on"}, e))
<1> DEFINE a == Spot(w, d, h, j \union {"on"}, z)
           b == Spot(w, d, h, j \union {"on"}, k)
           c == Spot(w, d, h, j \union {"on"}, e)
<1>1. CollectorRule(t, "CollectSome", a, b)
  BY DEF Spot, CollectorRule, Same, SameLocks, Forgets, Lasting,
      MayCollect, Free, Outer
<1>2. CollectorRule(t, "CollectAll", b, c)
  BY DEF Spot, CollectorRule, Same, SameLocks, Lasting, MayCollect, Free,
      Outer
<1>3. Sane(t, a)
  BY ThreadsAreNoLocks DEF Spot, Sane, Place, Lasting, HeapFacts, Global,
    Flags, Locks, Outer
<1>4. Sane(t, b)
  BY ThreadsAreNoLocks DEF Spot, Sane, Place, Lasting, HeapFacts, Global,
    Flags, Locks, Outer
<1>5. a \in Place /\ b \in Place /\ c \in Place
  BY <1>3, <1>4, SpotTyped DEF Sane, Lasting, HeapFacts, Global, Flags,
    Outer
<1> HIDE DEF a, b, c
<1>6. Rule(t, Step("CollectSome"), a, b)
  BY <1>1, <1>3, <1>5, RuleByName DEF CollectorSteps
<1>7. Rule(t, Step("CollectAll"), b, c)
  BY <1>2, <1>4, <1>5, RuleByName DEF CollectorSteps
<1>8. Piece(t, <<Step("CollectSome"), Step("CollectAll")>>, a, c)
  BY <1>6, <1>7, PieceTwo, StepsKnown DEF Kinds, Locks, Global
<1> QED  BY <1>8 DEF a, c

LEMMA CollectOncePiece ==
  ASSUME NEW t, NEW w \in Thread \union {NIL}, NEW d \in 1 .. 2, NEW h \in
         SUBSET (Outer \union {"heapMu"}), "heapMu" \in h, NEW z \in SUBSET
         (Lasting \union HeapFacts), "unmade" \in z => "initMu" \in h, NEW k
         \in SUBSET (z \cap Lasting), "enabled" \in z, "live" \in z \/ "busy"
         \in z, NEW j \in SUBSET {"in", "dis", "ending"}, "in" \in j
  PROVE  Piece(t, <<Step("CollectSome")>>,
               Spot(w, d, h, j \union {"on"}, z),
               Spot(w, d, h, j \union {"on"}, k))
<1> DEFINE a == Spot(w, d, h, j \union {"on"}, z)
           b == Spot(w, d, h, j \union {"on"}, k)
<1>1. CollectorRule(t, "CollectSome", a, b)
  BY DEF Spot, CollectorRule, Same, SameLocks, Forgets, Lasting,
      MayCollect, Free, Outer
<1>2. Sane(t, a)
  BY ThreadsAreNoLocks DEF Spot, Sane, Place, Lasting, HeapFacts, Global,
    Flags, Locks, Outer
<1>3. a \in Place /\ b \in Place
  BY <1>2, SpotTyped DEF Sane, Lasting, HeapFacts, Global, Flags, Outer
<1> HIDE DEF a, b
<1>4. Rule(t, Step("CollectSome"), a, b)
  BY <1>1, <1>2, <1>3, RuleByName DEF CollectorSteps
<1>5. Piece(t, <<Step("CollectSome")>>, a, b)
  BY <1>4, PieceOne, StepsKnown DEF Kinds, Locks, Global
<1> QED  BY <1>5 DEF a, b

LEMMA BackgroundCollectsPiece ==
  ASSUME NEW t, NEW w \in Thread \union {NIL}, NEW d \in 1 .. 2, NEW h \in
         SUBSET (Outer \union {"heapMu"}), "heapMu" \in h, NEW z \in SUBSET
         (Lasting \union HeapFacts), "unmade" \in z => "initMu" \in h, NEW k
         \in SUBSET (z \cap Lasting), "enabled" \in z, "live" \in z \/ "busy"
         \in z, NEW j \in SUBSET {"in", "dis", "ending"}, "in" \in j
  PROVE  Piece(t, <<Step("CollectorOn"), Step("CollectSome"),
                    Step("CollectorOff")>>,
               Spot(w, d, h, j, z),
               Spot(w, d, h, j, k))
<1> DEFINE a == Spot(w, d, h, j, z)
           b == Spot(w, d, h, j \union {"on"}, z)
           c == Spot(w, d, h, j \union {"on"}, k)
           g == Spot(w, d, h, j, k)
<1>1. CollectorRule(t, "CollectorOn", a, b)
  BY FlagsBack, FactsBack DEF Spot, CollectorRule, SameLocks, Keeps,
      Outer
<1>2. CollectorRule(t, "CollectSome", b, c)
  BY FlagsBack, FactsBack DEF Spot, CollectorRule, Same, SameLocks,
      Forgets, Lasting, MayCollect, Free, Outer
<1>3. CollectorRule(t, "CollectorOff", c, g)
  BY FlagsBack, FactsBack DEF Spot, CollectorRule, SameLocks, Keeps,
      Outer
<1>4. Sane(t, a)
  BY FactsBack, SaneInHeap
<1>5. Sane(t, b)
  BY FactsBack, SaneInHeap
<1>6. Sane(t, c)
  BY FactsBack, SaneInHeap
<1>7. a \in Place /\ b \in Place /\ c \in Place /\ g \in Place
  BY <1>4, <1>5, <1>6, SpotTyped DEF Sane, Lasting, HeapFacts, Global,
    Flags, Outer
<1> HIDE DEF a, b, c, g
<1>8. Rule(t, Step("CollectorOn"), a, b)
  BY <1>1, <1>4, <1>7, RuleByName DEF CollectorSteps
<1>9. Rule(t, Step("CollectSome"), b, c)
  BY <1>2, <1>5, <1>7, RuleByName DEF CollectorSteps
<1>10. Rule(t, Step("CollectorOff"), c, g)
  BY <1>3, <1>6, <1>7, RuleByName DEF CollectorSteps
<1>11. Piece(t, <<Step("CollectorOn"), Step("CollectSome"),
                  Step("CollectorOff")>>, a, g)
  BY <1>8, <1>9, <1>10, PieceThree, StepsKnown DEF Kinds, Locks, Global
<1> QED  BY <1>11 DEF a, g

LEMMA BackgroundWaitsPiece ==
  ASSUME NEW w \in Thread \union {NIL}, NEW z \in SUBSET (Lasting \union
         HeapFacts), "unmade" \notin z, NEW k \in SUBSET (z \cap Lasting),
         {"zero", "waiting"} \subseteq z, "BackgroundThread" \in Service
  PROVE  Piece("BackgroundThread", <<Step("WaitHeap"), Step("BackgroundAwake"),
                                     Step("BackgroundTest")>>,
               Spot(w, 1, {"heapMu"}, {"in"}, z),
               Spot(w, 1, {"heapMu"}, {"in"}, k))
<1> DEFINE a == Spot(w, 1, {"heapMu"}, {"in"}, z)
           b == Spot(w, 1, {"heapMu"}, {"in"}, k)
           c == Spot(w, 1, {"heapMu"}, {"in"}, k)
           g == Spot(w, 1, {"heapMu"}, {"in"}, k)
<1>1. HeapRule("BackgroundThread", "WaitHeap", a, b)
  BY DEF Spot, HeapRule, Same, SameLocks, Forgets, Lasting
<1>2. CollectorRule("BackgroundThread", "BackgroundAwake", b, c)
  BY DEF Spot, CollectorRule, Same, SameLocks, Forgets, Lasting
<1>3. CollectorRule("BackgroundThread", "BackgroundTest", c, g)
  BY DEF Spot, CollectorRule, Same, SameLocks, Forgets, Lasting
<1>4. Sane("BackgroundThread", a)
  BY ThreadsAreNoLocks DEF Spot, Sane, Place, Lasting, HeapFacts, Global,
    Flags, Locks
<1>5. Sane("BackgroundThread", b)
  BY ThreadsAreNoLocks DEF Spot, Sane, Place, Lasting, HeapFacts, Global,
    Flags, Locks
<1>6. Sane("BackgroundThread", c)
  BY ThreadsAreNoLocks DEF Spot, Sane, Place, Lasting, HeapFacts, Global,
    Flags, Locks
<1>7. a \in Place /\ b \in Place /\ c \in Place /\ g \in Place
  BY <1>4, <1>5, <1>6, SpotTyped DEF Sane, Lasting, HeapFacts, Global, Flags
<1> HIDE DEF a, b, c, g
<1>8. Rule("BackgroundThread", Step("WaitHeap"), a, b)
  BY <1>1, <1>4, <1>7, RuleByName DEF HeapSteps
<1>9. Rule("BackgroundThread", Step("BackgroundAwake"), b, c)
  BY <1>2, <1>5, <1>7, RuleByName DEF CollectorSteps
<1>10. Rule("BackgroundThread", Step("BackgroundTest"), c, g)
  BY <1>3, <1>6, <1>7, RuleByName DEF CollectorSteps
<1>11. Piece("BackgroundThread", <<Step("WaitHeap"), Step("BackgroundAwake"),
                                   Step("BackgroundTest")>>, a, g)
  BY <1>8, <1>9, <1>10, PieceThree, StepsKnown DEF Kinds, Locks, Global
<1> QED  BY <1>11 DEF a, g

LEMMA ForegroundWaitsPiece ==
  ASSUME NEW w \in Thread \union {NIL}, NEW z \in SUBSET (Lasting \union
         HeapFacts), "unmade" \notin z, NEW k \in SUBSET (z \cap Lasting),
         "ForegroundThread" \in Service
  PROVE  Piece("ForegroundThread", <<Step("WaitHeap"), Step("ForegroundAwake"),
                                     Step("CollectEnough"),
                                     Step("ForegroundLoop")>>,
               Spot(w, 1, {"heapMu"}, {"in"}, z),
               Spot(w, 0, {}, {"in"}, k))
<1> DEFINE a == Spot(w, 1, {"heapMu"}, {"in"}, z)
           b == Spot(w, 1, {"heapMu"}, {"in"}, k)
           c == Spot(w, 1, {"heapMu"}, {"in"}, k)
           g == Spot(w, 1, {"heapMu"}, {"in"}, k)
           i == Spot(w, 0, {}, {"in"}, k)
<1>1. HeapRule("ForegroundThread", "WaitHeap", a, b)
  BY DEF Spot, HeapRule, Same, SameLocks, Forgets, Lasting
<1>2. CollectorRule("ForegroundThread", "ForegroundAwake", b, c)
  BY DEF Spot, CollectorRule, Same, SameLocks, Forgets, Lasting
<1>3. CollectorRule("ForegroundThread", "CollectEnough", c, g)
  BY DEF Spot, CollectorRule, Same, SameLocks, Forgets, Lasting,
      MayCollect, Free, Outer
<1>4. HeapRule("ForegroundThread", "ForegroundLoop", g, i)
  BY DEF Spot, HeapRule, Forgets, Lasting
<1>5. Sane("ForegroundThread", a)
  BY ThreadsAreNoLocks DEF Spot, Sane, Place, Lasting, HeapFacts, Global,
    Flags, Locks
<1>6. Sane("ForegroundThread", b)
  BY ThreadsAreNoLocks DEF Spot, Sane, Place, Lasting, HeapFacts, Global,
    Flags, Locks
<1>7. Sane("ForegroundThread", c)
  BY ThreadsAreNoLocks DEF Spot, Sane, Place, Lasting, HeapFacts, Global,
    Flags, Locks
<1>8. Sane("ForegroundThread", g)
  BY ThreadsAreNoLocks DEF Spot, Sane, Place, Lasting, HeapFacts, Global,
    Flags, Locks
<1>9. a \in Place /\ b \in Place /\ c \in Place /\ g \in Place /\ i \in Place
  BY <1>5, <1>6, <1>7, <1>8, SpotTyped DEF Sane, Lasting, HeapFacts, Global,
    Flags
<1> HIDE DEF a, b, c, g, i
<1>10. Rule("ForegroundThread", Step("WaitHeap"), a, b)
  BY <1>1, <1>5, <1>9, RuleByName DEF HeapSteps
<1>11. Rule("ForegroundThread", Step("ForegroundAwake"), b, c)
  BY <1>2, <1>6, <1>9, RuleByName DEF CollectorSteps
<1>12. Rule("ForegroundThread", Step("CollectEnough"), c, g)
  BY <1>3, <1>7, <1>9, RuleByName DEF CollectorSteps
<1>13. Rule("ForegroundThread", Step("ForegroundLoop"), g, i)
  BY <1>4, <1>8, <1>9, RuleByName DEF HeapSteps
<1>14. Piece("ForegroundThread", <<Step("WaitHeap"), Step("ForegroundAwake"),
                                   Step("CollectEnough"),
                                   Step("ForegroundLoop")>>, a, i)
  BY <1>10, <1>11, <1>12, <1>13, PieceFour, StepsKnown DEF Kinds, Locks,
    Global
<1> QED  BY <1>14 DEF a, i

LEMMA CleanerWaitsPiece ==
  ASSUME NEW w \in Thread \union {NIL}, NEW z \in SUBSET (Lasting \union
         HeapFacts), "unmade" \notin z, NEW k \in SUBSET (z \cap Lasting),
         "none" \in z, "WeakCleaner" \in Service
  PROVE  Piece("WeakCleaner", <<Step("WaitHeap"), Step("CleanerTest")>>,
               Spot(w, 1, {"heapMu"}, {"in"}, z),
               Spot(w, 1, {"heapMu"}, {"in"}, k))
<1> DEFINE a == Spot(w, 1, {"heapMu"}, {"in"}, z)
           b == Spot(w, 1, {"heapMu"}, {"in"}, k)
           c == Spot(w, 1, {"heapMu"}, {"in"}, k)
<1>1. HeapRule("WeakCleaner", "WaitHeap", a, b)
  BY DEF Spot, HeapRule, Same, SameLocks, Forgets, Lasting
<1>2. CollectorRule("WeakCleaner", "CleanerTest", b, c)
  BY DEF Spot, CollectorRule, Same, SameLocks, Forgets, Lasting
<1>3. Sane("WeakCleaner", a)
  BY ThreadsAreNoLocks DEF Spot, Sane, Place, Lasting, HeapFacts, Global,
    Flags, Locks
<1>4. Sane("WeakCleaner", b)
  BY ThreadsAreNoLocks DEF Spot, Sane, Place, Lasting, HeapFacts, Global,
    Flags, Locks
<1>5. a \in Place /\ b \in Place /\ c \in Place
  BY <1>3, <1>4, SpotTyped DEF Sane, Lasting, HeapFacts, Global, Flags
<1> HIDE DEF a, b, c
<1>6. Rule("WeakCleaner", Step("WaitHeap"), a, b)
  BY <1>1, <1>3, <1>5, RuleByName DEF HeapSteps
<1>7. Rule("WeakCleaner", Step("CleanerTest"), b, c)
  BY <1>2, <1>4, <1>5, RuleByName DEF CollectorSteps
<1>8. Piece("WeakCleaner", <<Step("WaitHeap"), Step("CleanerTest")>>, a, c)
  BY <1>6, <1>7, PieceTwo, StepsKnown DEF Kinds, Locks, Global
<1> QED  BY <1>8 DEF a, c

LEMMA CleanerWorksPiece ==
  ASSUME NEW t, NEW w \in Thread \union {NIL}, NEW z \in SUBSET (Lasting
         \union HeapFacts), "unmade" \notin z, NEW k \in SUBSET (z \cap
         Lasting), "dead" \in z
  PROVE  Piece(t,
               <<Step("CollectorOn"), Step("CollectorOff"), Step("TakeDead")>>,
               Spot(w, 1, {"heapMu"}, {"in"}, z),
               Spot(w, 1, {"heapMu"}, {"in"}, k))
<1> DEFINE a == Spot(w, 1, {"heapMu"}, {"in"}, z)
           b == Spot(w, 1, {"heapMu"}, {"in", "on"}, z)
           c == Spot(w, 1, {"heapMu"}, {"in"}, z)
           g == Spot(w, 1, {"heapMu"}, {"in"}, k)
<1>1. CollectorRule(t, "CollectorOn", a, b)
  BY DEF Spot, CollectorRule, SameLocks, Keeps
<1>2. CollectorRule(t, "CollectorOff", b, c)
  BY DEF Spot, CollectorRule, SameLocks, Keeps
<1>3. CollectorRule(t, "TakeDead", c, g)
  BY DEF Spot, CollectorRule, Same, SameLocks, Forgets, Lasting
<1>4. Sane(t, a)
  BY ThreadsAreNoLocks DEF Spot, Sane, Place, Lasting, HeapFacts, Global,
    Flags, Locks
<1>5. Sane(t, b)
  BY ThreadsAreNoLocks DEF Spot, Sane, Place, Lasting, HeapFacts, Global,
    Flags, Locks
<1>6. Sane(t, c)
  BY ThreadsAreNoLocks DEF Spot, Sane, Place, Lasting, HeapFacts, Global,
    Flags, Locks
<1>7. a \in Place /\ b \in Place /\ c \in Place /\ g \in Place
  BY <1>4, <1>5, <1>6, SpotTyped DEF Sane, Lasting, HeapFacts, Global, Flags
<1> HIDE DEF a, b, c, g
<1>8. Rule(t, Step("CollectorOn"), a, b)
  BY <1>1, <1>4, <1>7, RuleByName DEF CollectorSteps
<1>9. Rule(t, Step("CollectorOff"), b, c)
  BY <1>2, <1>5, <1>7, RuleByName DEF CollectorSteps
<1>10. Rule(t, Step("TakeDead"), c, g)
  BY <1>3, <1>6, <1>7, RuleByName DEF CollectorSteps
<1>11. Piece(t, <<Step("CollectorOn"), Step("CollectorOff"),
                  Step("TakeDead")>>, a, g)
  BY <1>8, <1>9, <1>10, PieceThree, StepsKnown DEF Kinds, Locks, Global
<1> QED  BY <1>11 DEF a, g

LEMMA NeedsMutexPiece ==
  ASSUME NEW t, NEW w \in Thread \union {NIL}, NEW j \in SUBSET {"in", "dis",
         "ending"}, "in" \in j, NEW k \in SUBSET {"live"}
  PROVE  Piece(t, <<Lock("initMu"), Step("MakeMutex")>>,
               Spot(w, 0, {}, j, k),
               Spot(w, 0, {}, j, k))
<1> DEFINE a == Spot(w, 0, {}, j, k)
           b == Spot(w, 0, {"initMu"}, j, k)
           c == Spot(w, 0, {}, j, k)
<1>1. Locking(t, "initMu", a, b)
  BY ThreadsAreNoLocks DEF Spot, Locking, Free, Above, Keeps, Outer,
      Global, Outer
<1>2. WorldRule(t, "MakeMutex", b, c)
  BY DEF Spot, WorldRule, Free, Keeps, Outer
<1>3. Sane(t, a)
  BY ThreadsAreNoLocks DEF Spot, Sane, Place, Lasting, HeapFacts, Global,
    Flags, Locks, Outer
<1>4. Sane(t, b)
  BY ThreadsAreNoLocks DEF Spot, Sane, Place, Lasting, HeapFacts, Global,
    Flags, Locks, Outer
<1>5. a \in Place /\ b \in Place /\ c \in Place
  BY <1>3, <1>4, SpotTyped DEF Sane, Lasting, HeapFacts, Global, Flags,
    Outer
<1> HIDE DEF a, b, c
<1>6. Rule(t, Lock("initMu"), a, b)
  BY <1>1, <1>3, <1>5, RuleByName DEF Locks, Global
<1>7. Rule(t, Step("MakeMutex"), b, c)
  BY <1>2, <1>4, <1>5, RuleByName DEF WorldSteps
<1>8. Piece(t, <<Lock("initMu"), Step("MakeMutex")>>, a, c)
  BY <1>6, <1>7, PieceTwo, StepsKnown DEF Kinds, Locks, Global
<1> QED  BY <1>8 DEF a, c

LEMMA MakeMutexPiece ==
  ASSUME NEW t, NEW w \in Thread \union {NIL}, NEW j \in SUBSET {"in", "dis",
         "ending"}, "in" \in j, NEW k \in SUBSET {"live"}
  PROVE  Piece(t, <<Step("LockHeap"), Step("UnlockHeap"), Step("SetMutex"),
                    Unlock("initMu")>>,
               Spot(w, 0, {"initMu"}, j, k \union {"unmade"}),
               Spot(w, 0, {}, j, k))
<1> DEFINE a == Spot(w, 0, {"initMu"}, j, k \union {"unmade"})
           b == Spot(w, 1, {"initMu", "heapMu"}, j, k \union {"unmade"})
           c == Spot(w, 0, {"initMu"}, j, k \union {"unmade"})
           g == Spot(w, 0, {"initMu"}, j, k)
           i == Spot(w, 0, {}, j, k)
<1>1. HeapRule(t, "LockHeap", a, b)
  BY DEF Spot, HeapRule, Keeps, Free, Outer
<1>2. HeapRule(t, "UnlockHeap", b, c)
  BY DEF Spot, HeapRule, Forgets, Lasting
<1>3. WorldRule(t, "SetMutex", c, g)
  BY DEF Spot, WorldRule, Same, SameLocks
<1>4. Unlocking(t, "initMu", g, i)
  BY ThreadsAreNoLocks DEF Spot, Unlocking, Keeps, Global
<1>5. Sane(t, a)
  BY ThreadsAreNoLocks DEF Spot, Sane, Place, Lasting, HeapFacts, Global,
    Flags, Locks
<1>6. Sane(t, b)
  BY ThreadsAreNoLocks DEF Spot, Sane, Place, Lasting, HeapFacts, Global,
    Flags, Locks
<1>7. Sane(t, c)
  BY ThreadsAreNoLocks DEF Spot, Sane, Place, Lasting, HeapFacts, Global,
    Flags, Locks
<1>8. Sane(t, g)
  BY ThreadsAreNoLocks DEF Spot, Sane, Place, Lasting, HeapFacts, Global,
    Flags, Locks
<1>9. a \in Place /\ b \in Place /\ c \in Place /\ g \in Place /\ i \in Place
  BY <1>5, <1>6, <1>7, <1>8, SpotTyped DEF Sane, Lasting, HeapFacts, Global,
    Flags
<1> HIDE DEF a, b, c, g, i
<1>10. Rule(t, Step("LockHeap"), a, b)
  BY <1>1, <1>5, <1>9, RuleByName DEF HeapSteps
<1>11. Rule(t, Step("UnlockHeap"), b, c)
  BY <1>2, <1>6, <1>9, RuleByName DEF HeapSteps
<1>12. Rule(t, Step("SetMutex"), c, g)
  BY <1>3, <1>7, <1>9, RuleByName DEF WorldSteps
<1>13. Rule(t, Unlock("initMu"), g, i)
  BY <1>4, <1>8, <1>9, RuleByName DEF Locks, Global
<1>14. Piece(t, <<Step("LockHeap"), Step("UnlockHeap"), Step("SetMutex"),
                  Unlock("initMu")>>, a, i)
  BY <1>10, <1>11, <1>12, <1>13, PieceFour, StepsKnown DEF Kinds, Locks,
    Global
<1> QED  BY <1>14 DEF a, i

LEMMA MutexMadePiece ==
  ASSUME NEW t, NEW w \in Thread \union {NIL}, NEW j \in SUBSET {"in", "dis",
         "ending"}, "in" \in j, NEW k \in SUBSET {"live"}
  PROVE  Piece(t, <<Unlock("initMu")>>,
               Spot(w, 0, {"initMu"}, j, k),
               Spot(w, 0, {}, j, k))
<1> DEFINE a == Spot(w, 0, {"initMu"}, j, k)
           b == Spot(w, 0, {}, j, k)
<1>1. Unlocking(t, "initMu", a, b)
  BY ThreadsAreNoLocks DEF Spot, Unlocking, Keeps, Global
<1>2. Sane(t, a)
  BY ThreadsAreNoLocks DEF Spot, Sane, Place, Lasting, HeapFacts, Global,
    Flags, Locks
<1>3. a \in Place /\ b \in Place
  BY <1>2, SpotTyped DEF Sane, Lasting, HeapFacts, Global, Flags
<1> HIDE DEF a, b
<1>4. Rule(t, Unlock("initMu"), a, b)
  BY <1>1, <1>2, <1>3, RuleByName DEF Locks, Global
<1>5. Piece(t, <<Unlock("initMu")>>, a, b)
  BY <1>4, PieceOne, StepsKnown DEF Kinds, Locks, Global
<1> QED  BY <1>5 DEF a, b

LEMMA TakeHeapPiece ==
  ASSUME NEW t, NEW w \in Thread \union {NIL}, NEW h \in SUBSET Outer, NEW j
         \in SUBSET {"in", "dis", "ending"}, "in" \in j, NEW k \in SUBSET
         Lasting, "unmade" \in k => "initMu" \in h
  PROVE  Piece(t, <<Lock("heapMu"), Step("HoldHeap")>>,
               Spot(w, 0, h, j, k),
               Spot(w, 1, h \union {"heapMu"}, j, k))
<1> DEFINE a == Spot(w, 0, h, j, k)
           b == Spot(w, 0, h \union {"heapMu"}, j, k)
           c == Spot(w, 1, h \union {"heapMu"}, j, k)
<1>1. Locking(t, "heapMu", a, b)
  BY ThreadsAreNoLocks DEF Spot, Locking, Free, Above, Keeps, Outer,
      Global, Outer
<1>2. HeapRule(t, "HoldHeap", b, c)
  BY DEF Spot, HeapRule, Keeps, Outer
<1>3. Sane(t, a)
  BY ThreadsAreNoLocks DEF Spot, Sane, Place, Lasting, HeapFacts, Global,
    Flags, Locks, Outer
<1>4. Sane(t, b)
  BY ThreadsAreNoLocks DEF Spot, Sane, Place, Lasting, HeapFacts, Global,
    Flags, Locks, Outer
<1>5. a \in Place /\ b \in Place /\ c \in Place
  BY <1>3, <1>4, SpotTyped DEF Sane, Lasting, HeapFacts, Global, Flags,
    Outer
<1> HIDE DEF a, b, c
<1>6. Rule(t, Lock("heapMu"), a, b)
  BY <1>1, <1>3, <1>5, RuleByName DEF Locks, Global
<1>7. Rule(t, Step("HoldHeap"), b, c)
  BY <1>2, <1>4, <1>5, RuleByName DEF HeapSteps
<1>8. Piece(t, <<Lock("heapMu"), Step("HoldHeap")>>, a, c)
  BY <1>6, <1>7, PieceTwo, StepsKnown DEF Kinds, Locks, Global
<1> QED  BY <1>8 DEF a, c

LEMMA TakeHeapAgainPiece ==
  ASSUME NEW t, NEW w \in Thread \union {NIL}, NEW k \in SUBSET {"live"}
  PROVE  Piece(t, <<Lock("heapMu"), Step("HaveWaited")>>,
               Spot(w, 0, {}, {"in"}, k),
               Spot(w, 1, {"heapMu"}, {"in"}, k))
<1> DEFINE a == Spot(w, 0, {}, {"in"}, k)
           b == Spot(w, 0, {"heapMu"}, {"in"}, k)
           c == Spot(w, 1, {"heapMu"}, {"in"}, k)
<1>1. Locking(t, "heapMu", a, b)
  BY ThreadsAreNoLocks DEF Spot, Locking, Free, Above, Keeps, Outer,
      Global, Outer
<1>2. HeapRule(t, "HaveWaited", b, c)
  BY DEF Spot, HeapRule, Keeps, Outer
<1>3. Sane(t, a)
  BY ThreadsAreNoLocks DEF Spot, Sane, Place, Lasting, HeapFacts, Global,
    Flags, Locks, Outer
<1>4. Sane(t, b)
  BY ThreadsAreNoLocks DEF Spot, Sane, Place, Lasting, HeapFacts, Global,
    Flags, Locks, Outer
<1>5. a \in Place /\ b \in Place /\ c \in Place
  BY <1>3, <1>4, SpotTyped DEF Sane, Lasting, HeapFacts, Global, Flags,
    Outer
<1> HIDE DEF a, b, c
<1>6. Rule(t, Lock("heapMu"), a, b)
  BY <1>1, <1>3, <1>5, RuleByName DEF Locks, Global
<1>7. Rule(t, Step("HaveWaited"), b, c)
  BY <1>2, <1>4, <1>5, RuleByName DEF HeapSteps
<1>8. Piece(t, <<Lock("heapMu"), Step("HaveWaited")>>, a, c)
  BY <1>6, <1>7, PieceTwo, StepsKnown DEF Kinds, Locks, Global
<1> QED  BY <1>8 DEF a, c

-----------------------------------------------------------------------------
(* The invariant.                                                          *)

Leads(t, steps, a) == \E e : IsEnd(e) /\ Piece(t, steps, a, e)

Holds(a) == a.held \union (IF "all" \in a.is THEN ToSet(ring) ELSE {})

FitsLocks(t, a) ==
  /\ a.depth = IF holder = t THEN inCritical ELSE 0
  /\ \A l \in Locks : owner[l] = t <=> l \in Holds(a)
  /\ "on" \in a.is <=> (holder = t /\ gc.on)
FitsRing(t, a) ==
  /\ "in" \in a.is <=> t \in ToSet(ring)
  /\ "alloc" \in a.is <=> t \in allocating
  /\ "fork" \in a.is <=> t \in deferred
  /\ a.round # {} => a.round = ToSet(ring)
  /\ a.wake # NIL => a.wake \in ToSet(ring) \ {t}
Knows(a) ==
  /\ "live" \in a.know => ToSet(ring) \subseteq exists
  /\ "unmade" \in a.know => made = 0
  /\ "zero" \in a.know => gc.state = "Zero"
  /\ "busy" \in a.know => gc.state # "Zero"
  /\ "enabled" \in a.know => gc.disabled = 0
  /\ "none" \in a.know => gc.dead = 0
  /\ "dead" \in a.know => gc.dead > 0
  /\ "waiting" \in a.know => gc.backgroundWaiting
Fits(t, a) == FitsLocks(t, a) /\ FitsRing(t, a) /\ Knows(a)

GcTyped ==
  gc \in [state : {"Zero", "Three", "Five"}, on : BOOLEAN, dead : 0 .. MaxDead,
          signalBackground : BOOLEAN, signalWeak : BOOLEAN,
          backgroundWaiting : BOOLEAN, foregroundWaiting : BOOLEAN,
          disabled : Nat, started : SUBSET Service]

\* Who sleeps over work will be woken: CollectorOff has still to come.
Roused ==
  /\ "WeakCleaner" \in asleep /\ gc.dead > 0 => gc.signalWeak /\ gc.on
  /\ "BackgroundThread" \in asleep =>
       /\ gc.backgroundWaiting
       /\ gc.state # "Zero" => gc.signalBackground /\ gc.on

\* What the heap lock and the threads that sleep on it are in.
HeapSound ==
  /\ holder \in exists \union {NIL}
  /\ holder # NIL => inCritical \in 1 .. 3
  /\ holder = NIL => inCritical = 0 /\ ~gc.on
  /\ owner \in [Locks -> exists \union {NIL}]
  /\ asleep \subseteq exists
  /\ Roused

RingSound ==
  /\ process \in {"parent", "child"}
  /\ process = "parent" => ToSet(ring) \subseteq exists
  /\ exists \subseteq Thread /\ ToSet(ring) \subseteq Thread
  /\ ring \in Seq(Thread) /\ IsInjective(ring)
  /\ allocating \subseteq exists /\ deferred \subseteq exists
  /\ stopped \subseteq exists
  /\ stopped # {} => owner["activeMu"] \notin stopped \union {NIL}
  /\ made \in 0 .. 1
  /\ fault = "none"

\* pl: where the threads are; D: who has raised disableCount, among them the
\* threads of the parent that a fork has left behind.
Counted(pl, D) ==
  /\ D \subseteq Client /\ IsFiniteSet(D) /\ gc.disabled = Cardinality(D)
  /\ gc.disabled > 0 => gc.state = "Zero"
  /\ \A t \in exists : t \in D <=> "dis" \in pl[t].is
  /\ D \ exists \subseteq ToSet(ring)
Apart(pl) ==
  \A t \in exists : pl[t].wake # NIL => "ending" \notin pl[pl[t].wake].is
Stopper(pl) ==
  \A t \in exists : t = owner["activeMu"] /\ stopped # {} =>
    \/ "world" \in pl[t].is
    \/ todo[t] # <<>> /\ Head(todo[t]) = Step("StopWorld")

Placed(pl) ==
  \A t \in exists : Fits(t, pl[t]) /\ Leads(t, todo[t], pl[t])

Sound == GcTyped /\ HeapSound /\ RingSound /\ todo \in [Thread -> Seq(Steps)]

Invariant ==
  /\ Sound
  /\ \E pl \in [Thread -> Place] : \E D \in SUBSET Client :
       Placed(pl) /\ Counted(pl, D) /\ Apart(pl) /\ Stopper(pl)

-----------------------------------------------------------------------------
(* Where a thread is, what it does next and what it leaves to the others.  *)

LEMMA EndSane ==
  ASSUME NEW t, NEW a, IsEnd(a)
  PROVE  Sane(t, a)
BY ThreadsAreNoLocks DEF IsEnd, Sane, Lasting

LEMMA NothingLeft ==
  ASSUME NEW t, NEW a, NEW e, Piece(t, <<>>, a, e)
  PROVE  a = e
<1> DEFINE s == <<>>
<1>1. Len(s) = 0
  OBVIOUS
<1>2. \E f \in [1 .. Len(s) + 1 -> Place] : f[1] = a /\ f[Len(s) + 1] = e
  BY DEF Piece
<1> HIDE DEF s
<1>3. \E f \in [1 .. 0 + 1 -> Place] : f[1] = a /\ f[0 + 1] = e
  BY <1>1, <1>2
<1> QED  BY <1>3

LEMMA LeadsSane ==
  ASSUME NEW t, NEW s, NEW a, Leads(t, s, a)
  PROVE  a \in Place /\ Sane(t, a) /\ s \in Seq(Steps)
<1>1. PICK e : IsEnd(e) /\ Piece(t, s, a, e)
  BY DEF Leads
<1>2. a \in Place /\ s \in Seq(Steps)
  BY <1>1, PieceTyped
<1>3. CASE s = <<>>
  BY <1>1, <1>2, <1>3, NothingLeft, EndSane
<1>4. CASE s # <<>>
  BY <1>1, <1>2, <1>4, PieceSplit DEF Rule
<1> QED  BY <1>2, <1>3, <1>4

LEMMA LeadsOn ==
  ASSUME NEW t, NEW s, NEW a, Leads(t, s, a), s # <<>>
  PROVE  /\ Head(s) \in Steps
         /\ \E b : Rule(t, Head(s), a, b) /\ Leads(t, Tail(s), b)
<1>1. PICK e : IsEnd(e) /\ Piece(t, s, a, e)
  BY DEF Leads
<1> QED  BY <1>1, PieceSplit DEF Leads

LEMMA LeadsNowhere ==
  ASSUME NEW t, NEW a, Leads(t, <<>>, a)
  PROVE  IsEnd(a)
BY NothingLeft DEF Leads

\* A call leads where its steps lead and then where the rest does.
LEMMA CallLeads ==
  ASSUME NEW t, NEW s, NEW r, NEW a, NEW b, Piece(t, s, a, b), Leads(t, r, b)
  PROVE  Leads(t, s \o r, a)
BY PieceConcat DEF Leads

LEMMA EndLeads ==
  ASSUME NEW t, NEW a, IsEnd(a)
  PROVE  Leads(t, <<>>, a)
BY PieceEmpty DEF Leads, IsEnd

Invariantly(pl, D) ==
  /\ pl \in [Thread -> Place] /\ D \in SUBSET Client
  /\ Placed(pl) /\ Counted(pl, D) /\ Apart(pl) /\ Stopper(pl)

\* t is about to do x in place a, which leads to b, and then the rest r.
Ready(pl, D, t, x, a, b, r) ==
  /\ Sound /\ Invariantly(pl, D)
  /\ t \in Thread /\ t \in exists /\ t \notin stopped /\ t \notin asleep
  /\ pl[t] = a /\ a \in Place /\ b \in Place /\ x \in Steps /\ r \in Seq(Steps)
  /\ todo[t] # <<>> /\ Head(todo[t]) = x /\ Tail(todo[t]) = r
  /\ Rule(t, x, a, b) /\ Sane(t, a) /\ Leads(t, r, b) /\ Sane(t, b)
  /\ FitsLocks(t, a) /\ FitsRing(t, a) /\ Knows(a)

LEMMA Here ==
  ASSUME Sound, NEW pl, NEW D, Invariantly(pl, D), NEW t \in Thread, NEW x,
         At(t, x)
  PROVE  \E a, b, r : Ready(pl, D, t, x, a, b, r)
<1> DEFINE a == pl[t]
           s == todo[t]
<1>1. /\ t \in exists /\ t \notin stopped /\ t \notin asleep
      /\ s # <<>> /\ Head(s) = x
  BY DEF At, Runs
<1>2. Fits(t, a) /\ Leads(t, s, a)
  BY <1>1 DEF Invariantly, Placed
<1>3. PICK b : Rule(t, Head(s), a, b) /\ Leads(t, Tail(s), b)
  BY <1>1, <1>2, LeadsOn
<1>4. Head(s) \in Steps /\ a \in Place /\ Sane(t, a) /\ s \in Seq(Steps)
  BY <1>1, <1>2, LeadsOn, LeadsSane
<1>5. b \in Place /\ Sane(t, b) /\ Tail(s) \in Seq(Steps)
  BY <1>3, LeadsSane
<1>6. Ready(pl, D, t, x, a, b, Tail(s))
  BY <1>1, <1>2, <1>3, <1>4, <1>5 DEF Ready, Fits
<1> QED  BY <1>6

\* What t leaves alone.
Untouched(t) ==
  /\ exists' = exists /\ ring' = ring
  /\ \A u \in exists \ {t} :
       /\ todo'[u] = todo[u]
       /\ \A l \in Locks : owner'[l] = u <=> owner[l] = u
       /\ holder' = u <=> holder = u
       /\ u \in allocating' <=> u \in allocating
       /\ u \in deferred' <=> u \in deferred
  /\ holder \in exists \ {t} =>
       /\ inCritical' = inCritical /\ gc'.on = gc.on /\ gc'.state = gc.state
       /\ gc'.dead = gc.dead /\ gc'.disabled = gc.disabled
       /\ gc'.backgroundWaiting = gc.backgroundWaiting
  /\ made' = made \/ owner["initMu"] = t

LEMMA OthersFit ==
  ASSUME Sound, NEW t, Untouched(t), NEW u \in exists \ {t}, NEW a, Sane(u, a),
         Fits(u, a)
  PROVE  Fits(u, a)'
<1>1. a \in Place
  BY DEF Sane
<1>2. FitsLocks(u, a)'
  <2>1. a.depth = IF holder' = u THEN inCritical' ELSE 0
    BY DEF Fits, FitsLocks, Untouched
  <2>2. Holds(a)' = Holds(a)
    BY DEF Holds, Untouched
  <2>3. "on" \in a.is <=> (holder' = u /\ gc'.on)
    <3>1. CASE holder = u
      BY <3>1 DEF Fits, FitsLocks, Untouched, Sound, GcTyped
    <3>2. CASE holder # u
      BY <3>2 DEF Fits, FitsLocks, Untouched
    <3> QED  BY <3>1, <3>2
  <2> QED  BY <2>1, <2>2, <2>3 DEF Fits, FitsLocks, Untouched
<1>3. FitsRing(u, a)'
  BY DEF Fits, FitsRing, Untouched
<1>4. Knows(a)'
  <2>1. CASE holder = u
    <3>1. "unmade" \in a.know => made' = made
      <4>1. "unmade" \in a.know => owner["initMu"] = u
        BY DEF Sane, Fits, FitsLocks, Holds, Locks, Global
      <4> QED  BY <4>1 DEF Untouched
    <3> QED  BY <2>1, <3>1 DEF Fits, Knows, Untouched
  <2>2. CASE holder # u
    <3>1. a.know \subseteq Lasting
      BY <2>2 DEF Sane, Fits, FitsLocks
    <3>2. "unmade" \in a.know => made' = made
      <4>1. "unmade" \in a.know => owner["initMu"] = u
        BY DEF Sane, Fits, FitsLocks, Holds, Locks, Global
      <4> QED  BY <4>1 DEF Untouched
    <3>3. \A k \in a.know : k \in {"live", "unmade"}
      BY <3>1 DEF Lasting
    <3> QED  BY <3>2, <3>3 DEF Fits, Knows, Untouched
  <2> QED  BY <2>1, <2>2
<1> QED  BY <1>2, <1>3, <1>4 DEF Fits

\* A step of t that leaves the others where they are takes t to c.
LEMMA MovedCounting ==
  ASSUME Sound, NEW pl, NEW D, Invariantly(pl, D),
         NEW t \in Thread, t \in exists, NEW a, pl[t] = a, NEW c,
         Untouched(t), Leads(t, todo'[t], c), Fits(t, c)',
         c.wake \in {NIL, a.wake}, "ending" \in c.is => "ending" \in a.is,
         NEW E \in SUBSET Client, IsFiniteSet(E), gc'.disabled = Cardinality(E),
         "dis" \in c.is <=> t \in E,
         \A u \in (Client \union exists) \ {t} : u \in E <=> u \in D,
         gc'.disabled > 0 => gc'.state = "Zero",
         stopped' # {} /\ owner'["activeMu"] # t => stopped # {},
         stopped' # {} /\ owner'["activeMu"] = t =>
           \/ "world" \in c.is
           \/ todo'[t] # <<>> /\ Head(todo'[t]) = Step("StopWorld"),
         Sound'
  PROVE  Invariant'
<1>1. c \in Place
  BY LeadsSane
<1>2. PICK ql \in [Thread -> Place] : ql = [pl EXCEPT ![t] = c]
  BY <1>1 DEF Invariantly
<1>3. ql[t] = c /\ \A u \in Thread \ {t} : ql[u] = pl[u]
  BY <1>2 DEF Invariantly
<1>4. exists' = exists /\ exists \subseteq Thread
  BY DEF Untouched, Sound, RingSound
<1>5. Placed(ql)'
  <2>1. SUFFICES ASSUME NEW u \in exists
                 PROVE  Fits(u, ql[u])' /\ Leads(u, todo'[u], ql[u])
    BY <1>4 DEF Placed
  <2>2. CASE u = t
    BY <1>3, <2>2
  <2>3. CASE u # t
    <3>1. Fits(u, pl[u]) /\ Leads(u, todo[u], pl[u]) /\ ql[u] = pl[u]
      BY <1>3, <1>4, <2>3 DEF Invariantly, Placed
    <3>2. Sane(u, pl[u]) /\ todo'[u] = todo[u]
      BY <2>3, <3>1, LeadsSane DEF Untouched
    <3>3. Fits(u, pl[u])'
      BY <2>3, <3>1, <3>2, OthersFit
    <3> QED  BY <3>1, <3>2, <3>3
  <2> QED  BY <2>2, <2>3
<1>6. Counted(ql, E)'
  <2>1. Counted(pl, D) /\ ring' = ring
    BY DEF Invariantly, Untouched
  <2>2. \A u \in exists : "dis" \in ql[u].is <=> u \in E
    <3>1. SUFFICES ASSUME NEW u \in exists PROVE "dis" \in ql[u].is <=> u \in E
      OBVIOUS
    <3>2. CASE u = t
      BY <1>3, <3>2
    <3>3. CASE u # t
      BY <1>3, <1>4, <2>1, <3>3 DEF Counted
    <3> QED  BY <3>2, <3>3
  <2>3. E \ exists \subseteq ToSet(ring)
    BY <2>1 DEF Counted
  <2> QED  BY <1>4, <2>1, <2>2, <2>3 DEF Counted
<1>7. Apart(ql)'
  <2>1. SUFFICES ASSUME NEW u \in exists, ql[u].wake # NIL
                 PROVE  "ending" \notin ql[ql[u].wake].is
    BY <1>4 DEF Apart
  <2>2. ql[u].wake = pl[u].wake
    BY <1>3, <1>4, <2>1
  <2>3. pl[u].wake \in ToSet(ring) /\ ToSet(ring) \subseteq Thread
    BY <2>1, <2>2 DEF Invariantly, Placed, Fits, FitsRing, Sound, RingSound
  <2>4. "ending" \notin pl[pl[u].wake].is
    BY <2>1, <2>2 DEF Invariantly, Apart
  <2> QED  BY <1>3, <2>2, <2>3, <2>4
<1>8. Stopper(ql)'
  <2>1. SUFFICES ASSUME NEW u \in exists, u = owner'["activeMu"], stopped' # {}
                 PROVE  \/ "world" \in ql[u].is
                        \/ todo'[u] # <<>> /\ Head(todo'[u]) = Step("StopWorld")
    BY <1>4 DEF Stopper
  <2>2. CASE u = t
    BY <1>3, <2>1, <2>2
  <2>3. CASE u # t
    <3>1. stopped # {} /\ owner["activeMu"] = u
      BY <2>1, <2>3 DEF Untouched, Locks, Global
    <3>2. ql[u] = pl[u] /\ todo'[u] = todo[u]
      BY <1>3, <1>4, <2>3 DEF Untouched
    <3> QED  BY <3>1, <3>2 DEF Invariantly, Stopper
  <2> QED  BY <2>2, <2>3
<1> QED  BY <1>2, <1>5, <1>6, <1>7, <1>8 DEF Invariant, Invariantly

LEMMA Moved ==
  ASSUME Sound, NEW pl, NEW D, Invariantly(pl, D),
         NEW t \in Thread, t \in exists, NEW a, pl[t] = a, NEW c,
         Untouched(t), Leads(t, todo'[t], c), Fits(t, c)',
         c.wake \in {NIL, a.wake}, "ending" \in c.is => "ending" \in a.is,
         "dis" \in c.is <=> "dis" \in a.is, gc'.disabled = gc.disabled,
         gc'.disabled > 0 => gc'.state = "Zero",
         stopped' # {} /\ owner'["activeMu"] # t => stopped # {},
         stopped' # {} /\ owner'["activeMu"] = t =>
           \/ "world" \in c.is
           \/ todo'[t] # <<>> /\ Head(todo'[t]) = Step("StopWorld"),
         Sound'
  PROVE  Invariant'
<1>1. /\ D \in SUBSET Client /\ IsFiniteSet(D) /\ gc'.disabled = Cardinality(D)
      /\ "dis" \in c.is <=> t \in D
  BY DEF Invariantly, Counted
<1> QED  BY <1>1, MovedCounting

\* A step of t by itself, or one that changes what the heap lock protects.
LEMMA OwnStep ==
  ASSUME NEW pl, NEW D, NEW t, NEW x, NEW a, NEW b, NEW r,
         Ready(pl, D, t, x, a, b, r), x # Step("StopWorld"),
         NEW q, NEW c, Leads(t, q, c), todo' = [todo EXCEPT ![t] = q],
         UNCHANGED <<world, owner, holder, inCritical, allocating, stopped,
                     made, fault>>,
         GcTyped', asleep' \subseteq asleep, Roused',
         \/ holder = t
         \/ /\ gc'.on = gc.on /\ gc'.state = gc.state /\ gc'.dead = gc.dead
            /\ gc'.disabled = gc.disabled
            /\ gc'.backgroundWaiting = gc.backgroundWaiting,
         gc'.disabled = gc.disabled, gc'.disabled > 0 => gc'.state = "Zero",
         c.depth = a.depth, Holds(c) = Holds(a), c.wake \in {NIL, a.wake},
         c.round # {} => c.round = ToSet(ring),
         \A f \in Flags \ {"all", "on"} : f \in c.is <=> f \in a.is,
         "on" \in c.is <=> (holder = t /\ gc'.on), Knows(c)'
  PROVE  Invariant'
<1>1. /\ Sound /\ Invariantly(pl, D) /\ t \in Thread /\ t \in exists
      /\ pl[t] = a /\ todo[t] # <<>> /\ Head(todo[t]) = x
      /\ FitsLocks(t, a) /\ FitsRing(t, a)
  BY DEF Ready
<1>2. todo' \in [Thread -> Seq(Steps)] /\ todo'[t] = q
      /\ \A u \in Thread \ {t} : todo'[u] = todo[u]
  BY <1>1, LeadsSane DEF Sound
<1>3. Sound'
  <2>1. HeapSound'
    <3>1. holder = NIL => ~gc'.on
      BY <1>1, ThreadsAreNoLocks DEF Sound, HeapSound
    <3> QED  BY <1>1, <3>1 DEF Sound, HeapSound, world
  <2>2. RingSound'
    BY <1>1 DEF Sound, RingSound, world
  <2> QED  BY <1>2, <2>1, <2>2 DEF Sound
<1>4. Fits(t, c)'
  <2>1. Holds(c)' = Holds(c)
    BY DEF Holds, world
  <2>2. FitsLocks(t, c)'
    BY <1>1, <2>1 DEF FitsLocks
  <2>3. FitsRing(t, c)'
    BY <1>1 DEF FitsRing, Flags, world
  <2> QED  BY <2>2, <2>3 DEF Fits
<1>5. Untouched(t)
  BY <1>1, <1>2 DEF Untouched, Sound, RingSound, world
<1>6. stopped' # {} /\ owner'["activeMu"] = t => "world" \in c.is
  BY <1>1 DEF Invariantly, Stopper, Flags
<1>7. /\ "ending" \in c.is => "ending" \in a.is
      /\ "dis" \in c.is <=> "dis" \in a.is
  BY DEF Flags
<1> QED  BY <1>1, <1>2, <1>3, <1>4, <1>5, <1>6, <1>7, Moved

\* A place outside of any round is a spot.
LEMMA SpotOf ==
  ASSUME NEW a \in Place, a.round = {}
  PROVE  a = Spot(a.wake, a.depth, a.held, a.is, a.know)
BY DEF Place, Spot

LEMMA SpotFields ==
  ASSUME NEW w, NEW d, NEW h, NEW i, NEW k
  PROVE  LET c == Spot(w, d, h, i, k)
         IN  /\ c.wake = w /\ c.depth = d /\ c.held = h /\ c.is = i
             /\ c.know = k /\ c.round = {}
BY DEF Spot

LEMMA Called ==
  ASSUME NEW pl, NEW D, NEW t, NEW x, NEW a, NEW b, NEW r,
         Ready(pl, D, t, x, a, b, r)
  PROVE  /\ \A steps : Call(t, steps) => todo' = [todo EXCEPT ![t] = steps \o r]
         /\ Done(t) => todo' = [todo EXCEPT ![t] = r]
<1>1. todo[t] \in Seq(Steps) /\ Tail(todo[t]) = r /\ r \in Seq(Steps)
  BY DEF Ready, Sound
<1>2. <<>> \o r = r
  BY <1>1, ConcatEmptySeq
<1> QED  BY <1>1, <1>2 DEF Call, Done

\* Forgetful places know nothing but what lasts.
LEMMA ForgetsKnows ==
  ASSUME NEW a, NEW b, Knows(a), Forgets(a, b), UNCHANGED <<world, made>>
  PROVE  Knows(b)'
<1>1. \A k \in b.know : k \in a.know /\ k \in {"live", "unmade"}
  BY DEF Forgets, Lasting
<1> QED  BY <1>1 DEF Knows, world

LEMMA KeepsKnows ==
  ASSUME NEW a, NEW b, Knows(a), Keeps(a, b), UNCHANGED <<world, made>>,
         gc'.state = gc.state, gc'.disabled = gc.disabled, gc'.dead = gc.dead,
         gc'.backgroundWaiting = gc.backgroundWaiting
  PROVE  Knows(b)'
BY DEF Knows, Keeps, world

\* A step under the heap lock that changes what it protects.
LEMMA HeldStep ==
  ASSUME NEW pl, NEW D, NEW t, NEW x, NEW a, NEW b, NEW r,
         Ready(pl, D, t, x, a, b, r), x # Step("StopWorld"), a.depth >= 1,
         NEW q, NEW c, Leads(t, q, c), todo' = [todo EXCEPT ![t] = q],
         UNCHANGED <<world, owner, holder, inCritical, allocating, stopped,
                     made, fault>>,
         GcTyped', asleep' \subseteq asleep, Roused',
         gc'.disabled = gc.disabled, gc'.disabled > 0 => gc'.state = "Zero",
         SameLocks(a, c),
         \A f \in Flags \ {"on"} : f \in c.is <=> f \in a.is,
         "on" \in c.is <=> gc'.on, Knows(c)'
  PROVE  Invariant'
<1>1. holder = t /\ FitsRing(t, a)
  BY DEF Ready, FitsLocks
<1>2. Holds(c) = Holds(a)
  BY DEF Holds, SameLocks, Flags
<1>3. c.round # {} => c.round = ToSet(ring)
  BY <1>1 DEF SameLocks, FitsRing
<1>4. c.depth = a.depth /\ c.wake \in {NIL, a.wake}
  BY DEF SameLocks
<1>5. \A f \in Flags \ {"all", "on"} : f \in c.is <=> f \in a.is
  OBVIOUS
<1> QED  BY <1>1, <1>2, <1>3, <1>4, <1>5, OwnStep

\* The same, when it is done with that.
LEMMA HeldDone ==
  ASSUME NEW pl, NEW D, NEW t, NEW x, NEW a, NEW b, NEW r,
         Ready(pl, D, t, x, a, b, r), x # Step("StopWorld"), a.depth >= 1,
         Done(t),
         UNCHANGED <<world, owner, holder, inCritical, allocating, stopped,
                     made, fault>>,
         GcTyped', asleep' \subseteq asleep, Roused',
         gc'.disabled = gc.disabled, gc'.disabled > 0 => gc'.state = "Zero",
         gc'.on = gc.on, Same(a, b), Knows(b)'
  PROVE  Invariant'
<1>1. "on" \in b.is <=> gc'.on
  BY DEF Ready, FitsLocks, Same
<1>2. todo' = [todo EXCEPT ![t] = r] /\ Leads(t, r, b)
  BY Called DEF Ready
<1> QED  BY <1>1, <1>2, HeldStep DEF Same

-----------------------------------------------------------------------------
(* The steps of the collector.                                             *)

LEMMA DisabledCount ==
  ASSUME NEW pl, NEW D, Counted(pl, D), NEW t \in exists, "dis" \in pl[t].is
  PROVE  gc.disabled > 0 /\ gc.disabled \in Nat
<1>1. t \in D /\ IsFiniteSet(D)
  BY DEF Counted
<1>2. Cardinality(D) \in Nat /\ Cardinality(D) # 0
  BY <1>1, FS_CardinalityType, FS_EmptySet
<1> QED  BY <1>2 DEF Counted

LEMMA CollectableLives ==
  ASSUME Adversity = {}, Sound, Collectable, NEW t \in exists, t \in ToSet(ring)
  PROVE  ToSet(ring) \subseteq exists
<1>1. CASE process = "parent"
  BY <1>1 DEF Sound, RingSound
<1>2. CASE Len(ring) = 1
  <2>1. ToSet(ring) = {ring[1]}
    <3>1. ring \in Seq(Thread)
      BY DEF Sound, RingSound
    <3>2. DOMAIN ring = 1 .. 1
      BY <1>2, <3>1
    <3>3. DOMAIN ring = {1}
      BY <3>2
    <3> QED  BY <3>3 DEF ToSet
  <2> QED  BY <2>1
<1> QED  BY <1>1, <1>2 DEF Collectable

\* A call under the heap lock after a look at what it protects.
LEMMA HeldCall ==
  ASSUME NEW pl, NEW D, NEW t, NEW x, NEW a, NEW b, NEW r,
         Ready(pl, D, t, x, a, b, r), x # Step("StopWorld"), a.depth >= 1,
         a.round = {}, NEW steps, NEW z, Call(t, steps),
         Piece(t, steps, Spot(a.wake, a.depth, a.held, a.is, z), b),
         UNCHANGED <<world, owner, holder, inCritical, allocating, stopped,
                     made, fault>>,
         asleep' \subseteq asleep,
         GcTyped', Roused', gc'.disabled = gc.disabled,
         gc'.disabled > 0 => gc'.state = "Zero", gc'.on = gc.on,
         Knows(Spot(a.wake, a.depth, a.held, a.is, z))'
  PROVE  Invariant'
<1> DEFINE c == Spot(a.wake, a.depth, a.held, a.is, z)
           q == steps \o r
<1>1. todo' = [todo EXCEPT ![t] = q]
  BY Called
<1>2. Leads(t, q, c)
  BY CallLeads DEF Ready
<1>3. c.wake = a.wake /\ c.depth = a.depth /\ c.held = a.held /\ c.is = a.is
      /\ c.round = {}
  BY SpotFields
<1> HIDE DEF c, q
<1>4. SameLocks(a, c)
  BY <1>3 DEF SameLocks
<1>5. "on" \in c.is <=> gc'.on
  BY <1>3 DEF Ready, FitsLocks
<1>6. Knows(c)'
  BY DEF c
<1> QED  BY <1>1, <1>2, <1>3, <1>4, <1>5, <1>6, HeldStep

\* What a thread that may collect has found out.
LEMMA FoundKnows ==
  ASSUME NEW a, NEW z, Knows(a), UNCHANGED <<world, made>>,
         \A k \in z :
           k \in a.know \cap Lasting \/ k \in HeapFacts \/ k = "live",
         "live" \in z \ a.know => ToSet(ring) \subseteq exists,
         "zero" \in z => gc'.state = "Zero", "busy" \in z => gc'.state # "Zero",
         "enabled" \in z => gc'.disabled = 0, "none" \in z => gc'.dead = 0,
         "dead" \in z => gc'.dead > 0, "waiting" \in z => gc'.backgroundWaiting,
         NEW w, NEW d, NEW h, NEW i
  PROVE  Knows(Spot(w, d, h, i, z))'
<1> DEFINE c == Spot(w, d, h, i, z)
<1>1. c.know = z
  BY SpotFields
<1> HIDE DEF c
<1>2. "live" \in z => ToSet(ring) \subseteq exists
  BY DEF Knows
<1>3. "unmade" \in z => made = 0
  BY DEF Knows, HeapFacts
<1>4. Knows(c)'
  BY <1>1, <1>2, <1>3 DEF Knows, world
<1> QED  BY <1>4 DEF c

LEMMA CollectEnoughStep ==
  ASSUME Adversity = {}, NEW pl, NEW D, NEW t, NEW a, NEW b, NEW r,
         Ready(pl, D, t, Step("CollectEnough"), a, b, r), CollectEnough(t)
  PROVE  Invariant'
<1>1. CollectorRule(t, "CollectEnough", a, b)
  BY DEF Ready, Rule, Step
<1>2. /\ a.depth >= 1 /\ ("on" \in a.is \/ "dis" \in a.is \/ MayCollect(a))
      /\ Same(a, b) /\ Forgets(a, b)
  BY <1>1 DEF CollectorRule
<1>3. /\ UNCHANGED <<world, owner, holder, inCritical, allocating, stopped,
                     made, fault>>
      /\ gc' = gc /\ asleep' \subseteq asleep
  BY DEF CollectEnough, CollectorStep, WakeForeground, BroadcastHeap
<1>4. GcTyped' /\ Roused' /\ Knows(a)
  BY <1>3 DEF Ready, Sound, GcTyped, HeapSound, Roused
<1>5. /\ gc'.disabled = gc.disabled
      /\ gc'.disabled > 0 => gc'.state = "Zero"
      /\ gc'.on = gc.on
  BY <1>3 DEF Ready, Invariantly, Counted
<1>6. Step("CollectEnough") # Step("StopWorld")
  BY DEF Step
<1>7. CASE Done(t)
  <2>1. Knows(b)'
    BY <1>2, <1>3, <1>4, ForgetsKnows
  <2> QED  BY <1>2, <1>3, <1>4, <1>5, <1>6, <1>7, <2>1, HeldDone
<1> DEFINE steps == <<Step("CollectorOn"), Step("CollectSome"),
                      Step("CollectMore"), Step("CollectorOff")>>
<1>8. CASE ~gc.on /\ TRUE \in Behind /\ Call(t, steps)
  <2> PICK z : z = (a.know \cap Lasting) \union {"enabled"}
                     \union (IF gc.state = "Zero" THEN {"live"} ELSE {"busy"})
    OBVIOUS
  <2>1. /\ a \in Place /\ b \in Place /\ Sane(t, a) /\ t \in exists
        /\ FitsLocks(t, a) /\ FitsRing(t, a) /\ pl[t] = a
        /\ Sound /\ Counted(pl, D)
    BY DEF Ready, Invariantly
  <2>2. /\ ~gc.foregroundWaiting /\ ~Disabled
        /\ ~(gc.state = "Zero" /\ ~Collectable)
    BY <1>8 DEF Behind
  <2>3. gc.disabled = 0
    <3>1. gc.disabled \in Nat
      BY <2>1 DEF Sound, GcTyped
    <3> QED  BY <1>3, <1>5, <2>2, <3>1 DEF Disabled
  <2>4. MayCollect(a)
    BY <1>2, <1>8, <2>1, <2>3, DisabledCount DEF FitsLocks
  <2>5. "in" \in a.is /\ "on" \notin a.is /\ "heapMu" \in a.held
    BY <1>2, <1>8, <2>1 DEF Sane, FitsLocks
  <2>6. a.is \in SUBSET {"in", "dis", "ending"} /\ a.round = {}
    <3>1. a.is \in SUBSET Flags
      BY <2>1, PlaceFields
    <3>2. a.round = {}
      BY <2>1, <2>4 DEF Sane, MayCollect, Global, Outer
    <3> QED  BY <2>4, <2>5, <3>1, <3>2 DEF Flags, MayCollect, Free
  <2>7. gc.state = "Zero" => ToSet(ring) \subseteq exists
    BY <2>1, <2>2, <2>5, CollectableLives DEF FitsRing
  <2>8. b.know \in SUBSET (z \cap Lasting)
    BY <1>2 DEF Forgets
  <2>9. /\ "enabled" \in z /\ ("live" \in z \/ "busy" \in z)
        /\ z \in SUBSET (Lasting \union HeapFacts)
        /\ "unmade" \in z => "initMu" \in a.held
    BY <2>1 DEF Lasting, HeapFacts, Sane
  <2>10. Knows(Spot(a.wake, a.depth, a.held, a.is, z))'
    <3>1. \A k \in z :
            k \in a.know \cap Lasting \/ k \in HeapFacts \/ k = "live"
      BY DEF HeapFacts
    <3>2. /\ "live" \in z \ a.know => gc.state = "Zero"
          /\ "busy" \in z => gc.state # "Zero"
          /\ "zero" \notin z /\ "none" \notin z /\ "dead" \notin z
          /\ "waiting" \notin z
      BY DEF Lasting
    <3> QED  BY <1>3, <1>4, <2>3, <2>7, <3>1, <3>2, FoundKnows
  <2>11. b = Spot(a.wake, a.depth, a.held, a.is, b.know)
    BY <1>2, <2>1, <2>6, SpotOf DEF Same, SameLocks
  <2>12. /\ a.depth \in 1 .. 2 /\ a.held \in SUBSET (Outer \union {"heapMu"})
         /\ a.wake \in Thread \union {NIL}
    BY <2>1, <2>4, PlaceFields DEF MayCollect
  <2>13. Piece(t, steps, Spot(a.wake, a.depth, a.held, a.is, z),
                         Spot(a.wake, a.depth, a.held, a.is, b.know))
    BY <2>5, <2>6, <2>8, <2>9, <2>12, CollectingPiece
  <2> HIDE DEF steps
  <2>14. Piece(t, steps, Spot(a.wake, a.depth, a.held, a.is, z), b)
    BY <2>11, <2>13
  <2> QED  BY <1>2, <1>3, <1>4, <1>5, <1>6, <1>8, <2>6, <2>10, <2>14, HeldCall
<1> QED  BY <1>7, <1>8 DEF CollectEnough

LEMMA CollectorAt ==
  ASSUME NEW pl, NEW D, NEW t, NEW x, NEW a, NEW b, NEW r,
         Ready(pl, D, t, x, a, b, r), MayCollect(a)
  PROVE  /\ a.depth \in 1 .. 2 /\ a.depth >= 1 /\ a.round = {} /\ holder = t
         /\ a.held \in SUBSET (Outer \union {"heapMu"}) /\ "heapMu" \in a.held
         /\ "in" \in a.is /\ t \in ToSet(ring)
         /\ a.is \ {"on"} \in SUBSET {"in", "dis", "ending"}
         /\ "in" \in a.is \ {"on"}
         /\ "on" \in a.is => a.is = (a.is \ {"on"}) \union {"on"}
         /\ "unmade" \in a.know => "initMu" \in a.held
         /\ a.wake \in Thread \union {NIL}
         /\ a.know \in SUBSET (Lasting \union HeapFacts)
         /\ a = Spot(a.wake, a.depth, a.held, a.is, a.know)
         /\ Same(a, b) => b = Spot(a.wake, a.depth, a.held, a.is, b.know)
<1>1. /\ a \in Place /\ b \in Place /\ Sane(t, a) /\ FitsLocks(t, a)
      /\ FitsRing(t, a)
  BY DEF Ready
<1>2. /\ a.depth \in 1 .. 2 /\ a.depth >= 1
      /\ a.held \in SUBSET (Outer \union {"heapMu"}) /\ Free(a)
  BY DEF MayCollect
<1>3. "in" \in a.is /\ "heapMu" \in a.held /\ t \in ToSet(ring) /\ holder = t
  BY <1>1, <1>2 DEF Sane, FitsLocks, FitsRing
<1>4. a.is \in SUBSET Flags /\ a.wake \in Thread \union {NIL}
      /\ a.know \in SUBSET (Lasting \union HeapFacts)
  BY <1>1, PlaceFields
<1>5. a.round = {}
  BY <1>1, <1>2 DEF Sane, Global, Outer
<1>6. /\ a.is \ {"on"} \in SUBSET {"in", "dis", "ending"}
      /\ "on" \in a.is => a.is = (a.is \ {"on"}) \union {"on"}
  BY <1>2, <1>4 DEF Free, Flags
<1>7. a = Spot(a.wake, a.depth, a.held, a.is, a.know)
  BY <1>1, <1>5, SpotOf
<1>8. Same(a, b) => b = Spot(a.wake, a.depth, a.held, a.is, b.know)
  BY <1>1, <1>5, SpotOf DEF Same, SameLocks
<1>9. "unmade" \in a.know => "initMu" \in a.held
  BY <1>1 DEF Sane
<1> QED  BY <1>2, <1>3, <1>4, <1>5, <1>6, <1>7, <1>8, <1>9

LEMMA SameGc ==
  ASSUME NEW pl, NEW D, NEW t, NEW x, NEW a, NEW b, NEW r,
         Ready(pl, D, t, x, a, b, r), gc' = gc, asleep' \subseteq asleep
  PROVE  /\ GcTyped' /\ Roused'
         /\ gc'.disabled = gc.disabled /\ gc'.on = gc.on
         /\ gc'.disabled > 0 => gc'.state = "Zero"
         /\ gc.disabled \in Nat
         /\ gc.state # "Zero" => gc.disabled = 0
<1>1. GcTyped /\ Roused /\ (gc.disabled > 0 => gc.state = "Zero")
  BY DEF Ready, Sound, HeapSound, Invariantly, Counted
<1>2. GcTyped' /\ Roused'
  BY <1>1 DEF GcTyped, Roused
<1>3. gc.disabled \in Nat
  BY <1>1 DEF GcTyped
<1> QED  BY <1>1, <1>2, <1>3

\* A look that leads to a collection: z is what t has found out.
LEMMA LookKnows ==
  ASSUME NEW pl, NEW D, NEW t, NEW x, NEW a, NEW b, NEW r,
         Ready(pl, D, t, x, a, b, r), MayCollect(a), Forgets(a, b),
         gc' = gc, UNCHANGED <<world, made>>, gc.disabled = 0,
         gc.state = "Zero" => ToSet(ring) \subseteq exists
  PROVE  \E z \in SUBSET (Lasting \union HeapFacts) :
           /\ "enabled" \in z /\ ("live" \in z \/ "busy" \in z)
           /\ gc.state = "Zero" => "live" \in z
           /\ "unmade" \in z => "initMu" \in a.held
           /\ b.know \in SUBSET (z \cap Lasting)
           /\ Knows(Spot(a.wake, a.depth, a.held, a.is, z))'
<1> PICK z : z = (a.know \cap Lasting) \union {"enabled"}
                   \union (IF gc.state = "Zero" THEN {"live"} ELSE {"busy"})
  OBVIOUS
<1>1. b.know \in SUBSET (z \cap Lasting)
  BY DEF Forgets
<1>2. /\ "enabled" \in z /\ ("live" \in z \/ "busy" \in z)
      /\ z \in SUBSET (Lasting \union HeapFacts)
      /\ gc.state = "Zero" => "live" \in z
      /\ "unmade" \in z => "initMu" \in a.held
  BY CollectorAt DEF Lasting, HeapFacts
<1>3. \A k \in z : k \in a.know \cap Lasting \/ k \in HeapFacts \/ k = "live"
  BY DEF HeapFacts
<1>4. /\ "live" \in z \ a.know => gc.state = "Zero"
      /\ "busy" \in z => gc.state # "Zero"
      /\ "zero" \notin z /\ "none" \notin z /\ "dead" \notin z
      /\ "waiting" \notin z
  BY DEF Lasting
<1>5. Knows(a)
  BY DEF Ready
<1>6. Knows(Spot(a.wake, a.depth, a.held, a.is, z))'
  BY <1>3, <1>4, <1>5, FoundKnows
<1> QED  BY <1>1, <1>2, <1>6

LEMMA CollectMoreStep ==
  ASSUME NEW pl, NEW D, NEW t, NEW a, NEW b, NEW r,
         Ready(pl, D, t, Step("CollectMore"), a, b, r), CollectMore(t)
  PROVE  Invariant'
<1>1. CollectorRule(t, "CollectMore", a, b)
  BY DEF Ready, Rule, Step
<1>2. MayCollect(a) /\ "on" \in a.is /\ Same(a, b) /\ Forgets(a, b)
  BY <1>1 DEF CollectorRule
<1>3. /\ UNCHANGED <<world, owner, holder, inCritical, allocating, stopped,
                     made, fault>>
      /\ gc' = gc /\ asleep' \subseteq asleep
  BY DEF CollectMore, CollectorStep, WakeForeground, BroadcastHeap
<1>4. Step("CollectMore") # Step("StopWorld") /\ a.depth >= 1
  BY <1>2, CollectorAt DEF Step
<1>5. CASE Done(t)
  <2>1. Knows(b)'
    BY <1>2, <1>3, ForgetsKnows DEF Ready
  <2> QED  BY <1>2, <1>3, <1>4, <1>5, <2>1, SameGc, HeldDone
<1> DEFINE steps == <<Step("CollectSome"), Step("CollectMore")>>
<1>6. CASE gc.state # "Zero" /\ Call(t, steps)
  <2>1. gc.disabled = 0
    BY <1>3, <1>6, SameGc
  <2>2. PICK z \in SUBSET (Lasting \union HeapFacts) :
           /\ "enabled" \in z /\ ("live" \in z \/ "busy" \in z)
           /\ "unmade" \in z => "initMu" \in a.held
           /\ b.know \in SUBSET (z \cap Lasting)
           /\ Knows(Spot(a.wake, a.depth, a.held, a.is, z))'
    BY <1>2, <1>3, <1>6, <2>1, LookKnows
  <2>3. Piece(t, steps,
              Spot(a.wake, a.depth, a.held, (a.is \ {"on"}) \union {"on"}, z),
          Spot(a.wake, a.depth, a.held, (a.is \ {"on"}) \union {"on"}, b.know))
    BY <1>2, <2>2, CollectorAt, CollectingMorePiece
  <2> HIDE DEF steps
  <2>4. /\ a.is = (a.is \ {"on"}) \union {"on"} /\ a.round = {}
        /\ b = Spot(a.wake, a.depth, a.held, a.is, b.know)
    BY <1>2, CollectorAt
  <2>5. Piece(t, steps, Spot(a.wake, a.depth, a.held, a.is, z), b)
    BY <2>3, <2>4
  <2> QED  BY <1>3, <1>4, <1>6, <2>2, <2>4, <2>5, SameGc, HeldCall
<1> QED  BY <1>5, <1>6 DEF CollectMore

LEMMA CollectorOnStep ==
  ASSUME NEW pl, NEW D, NEW t, NEW a, NEW b, NEW r,
         Ready(pl, D, t, Step("CollectorOn"), a, b, r), CollectorOn(t)
  PROVE  Invariant'
<1>1. CollectorRule(t, "CollectorOn", a, b)
  BY DEF Ready, Rule, Step
<1>2. /\ a.depth >= 1 /\ "on" \notin a.is /\ SameLocks(a, b)
      /\ b.is = a.is \union {"on"} /\ Keeps(a, b)
  BY <1>1 DEF CollectorRule
<1>3. /\ Step("CollectorOn") # Step("StopWorld")
      /\ Sound /\ FitsLocks(t, a) /\ Knows(a) /\ Leads(t, r, b)
      /\ gc.disabled > 0 => gc.state = "Zero"
  BY DEF Ready, Step, Invariantly, Counted
<1>4. ~gc.on
  BY <1>2, <1>3 DEF FitsLocks
<1>5. /\ UNCHANGED <<world, owner, holder, inCritical, allocating, stopped,
                     made, fault, asleep>>
      /\ gc' = [gc EXCEPT !.on = TRUE] /\ todo' = [todo EXCEPT ![t] = r]
  BY <1>4, Called DEF CollectorOn, CollectorStep, Check
<1>6. /\ GcTyped' /\ gc'.on /\ gc'.state = gc.state
      /\ gc'.disabled = gc.disabled /\ gc'.dead = gc.dead
      /\ gc'.backgroundWaiting = gc.backgroundWaiting
      /\ gc'.signalWeak = gc.signalWeak
      /\ gc'.signalBackground = gc.signalBackground
  BY <1>3, <1>5 DEF Sound, GcTyped
<1>7. Roused'
  BY <1>3, <1>5, <1>6 DEF Sound, HeapSound, Roused
<1>8. Knows(b)'
  BY <1>2, <1>3, <1>5, <1>6, KeepsKnows
<1>9. /\ \A f \in Flags \ {"on"} : f \in b.is <=> f \in a.is
      /\ "on" \in b.is <=> gc'.on
  BY <1>2, <1>6
<1> QED  BY <1>2, <1>3, <1>5, <1>6, <1>7, <1>8, <1>9, HeldStep

LEMMA CollectorOffStep ==
  ASSUME NEW pl, NEW D, NEW t, NEW a, NEW b, NEW r,
         Ready(pl, D, t, Step("CollectorOff"), a, b, r), CollectorOff(t)
  PROVE  Invariant'
<1>1. CollectorRule(t, "CollectorOff", a, b)
  BY DEF Ready, Rule, Step
<1>2. /\ a.depth >= 1 /\ "on" \in a.is /\ SameLocks(a, b)
      /\ b.is = a.is \ {"on"} /\ Keeps(a, b)
  BY <1>1 DEF CollectorRule, Ready, Sane
<1>3. /\ Step("CollectorOff") # Step("StopWorld")
      /\ Sound /\ FitsLocks(t, a) /\ Knows(a) /\ Leads(t, r, b)
      /\ gc.disabled > 0 => gc.state = "Zero"
  BY DEF Ready, Step, Invariantly, Counted
<1>4. gc.on
  BY <1>2, <1>3 DEF FitsLocks
<1>5. /\ UNCHANGED <<world, owner, holder, inCritical, allocating, stopped,
                     made, fault>>
      /\ todo' = [todo EXCEPT ![t] = r]
  BY <1>4, Called DEF CollectorOff, CollectorStep, Check
<1>6. /\ GcTyped' /\ ~gc'.on /\ gc'.state = gc.state
      /\ gc'.disabled = gc.disabled /\ gc'.dead = gc.dead
      /\ gc'.backgroundWaiting = gc.backgroundWaiting
  <2>1. CASE gc' = [gc EXCEPT !.on = FALSE]
    BY <1>3, <2>1 DEF Sound, GcTyped
  <2>2. CASE gc' = [gc EXCEPT !.on = FALSE, !.signalBackground = FALSE,
                              !.signalWeak = FALSE]
    BY <1>3, <2>2 DEF Sound, GcTyped
  <2> QED  BY <2>1, <2>2 DEF CollectorOff
<1>7. asleep' \subseteq asleep /\ Roused'
  <2>1. CASE Signals
    <3>1. asleep' = {}
      BY <2>1 DEF CollectorOff, BroadcastHeap
    <3> QED  BY <3>1 DEF Roused
  <2>2. CASE ~Signals
    <3>1. asleep' = asleep
      BY <2>2 DEF CollectorOff
    <3>2. ~gc.signalWeak /\ ~gc.signalBackground
      BY <2>2 DEF Signals
    <3> QED  BY <1>3, <1>6, <3>1, <3>2 DEF Sound, HeapSound, Roused
  <2> QED  BY <2>1, <2>2
<1>8. Knows(b)'
  BY <1>2, <1>3, <1>5, <1>6, KeepsKnows
<1>9. /\ \A f \in Flags \ {"on"} : f \in b.is <=> f \in a.is
      /\ "on" \in b.is <=> gc'.on
  BY <1>2, <1>6
<1> QED  BY <1>2, <1>3, <1>5, <1>6, <1>7, <1>8, <1>9, HeldStep

\* What every step of CollectSome may rely on.
LEMMA CollectSomeAt ==
  ASSUME NEW pl, NEW D, NEW t, NEW a, NEW b, NEW r,
         Ready(pl, D, t, Step("CollectSome"), a, b, r)
  PROVE  /\ MayCollect(a) /\ "on" \in a.is /\ "enabled" \in a.know
         /\ "live" \in a.know \/ "busy" \in a.know
         /\ Same(a, b) /\ Forgets(a, b) /\ a.depth >= 1
         /\ Step("CollectSome") # Step("StopWorld")
         /\ gc.on /\ gc.disabled = 0
         /\ gc.state = "Zero" => "live" \in a.know
         /\ a.is = (a.is \ {"on"}) \union {"on"}
         /\ b.know \in SUBSET (a.know \cap Lasting)
         /\ Knows(a) /\ Sound
<1>1. CollectorRule(t, "CollectSome", a, b)
  BY DEF Ready, Rule, Step
<1>2. /\ MayCollect(a) /\ "on" \in a.is /\ "enabled" \in a.know
      /\ "live" \in a.know \/ "busy" \in a.know
      /\ Same(a, b) /\ Forgets(a, b)
  BY <1>1 DEF CollectorRule
<1>3. Knows(a) /\ FitsLocks(t, a) /\ Sound
  BY DEF Ready
<1>4. /\ gc.on /\ gc.disabled = 0
      /\ gc.state = "Zero" => "live" \in a.know
  BY <1>2, <1>3 DEF Knows, FitsLocks
<1>5. a.depth >= 1 /\ a.is = (a.is \ {"on"}) \union {"on"}
  BY <1>2, CollectorAt
<1>6. b.know \in SUBSET (a.know \cap Lasting)
  BY <1>2 DEF Forgets
<1>7. Step("CollectSome") # Step("StopWorld")
  BY DEF Step
<1> QED  BY <1>2, <1>3, <1>4, <1>5, <1>6, <1>7

LEMMA CollectSomeInStateZeroStep ==
  ASSUME NEW pl, NEW D, NEW t, NEW a, NEW b, NEW r,
         Ready(pl, D, t, Step("CollectSome"), a, b, r),
         CollectSomeInStateZero(t)
  PROVE  Invariant'
<1> DEFINE steps == <<Lock("activeMu"), Step("StopWorld"), Step("MarkRoots"),
                      Step("StartWorld"), Unlock("activeMu")>>
<1>1. /\ UNCHANGED <<world, owner, holder, inCritical, allocating, stopped,
                     made, fault>>
      /\ gc' = gc /\ asleep' = asleep /\ gc.state = "Zero" /\ Call(t, steps)
  BY CollectSomeAt DEF CollectSomeInStateZero, CollectIn, CollectorStep, Check
<1>2. Piece(t, steps,
            Spot(a.wake, a.depth, a.held, (a.is \ {"on"}) \union {"on"},
                 a.know),
            Spot(a.wake, a.depth, a.held, (a.is \ {"on"}) \union {"on"},
                 b.know))
  <2>1. /\ a.depth \in 1 .. 2 /\ a.held \in SUBSET (Outer \union {"heapMu"})
        /\ "heapMu" \in a.held
        /\ a.is \ {"on"} \in SUBSET {"in", "dis", "ending"}
        /\ "in" \in a.is \ {"on"}
        /\ "unmade" \in a.know => "initMu" \in a.held
        /\ a.wake \in Thread \union {NIL}
        /\ a.know \in SUBSET (Lasting \union HeapFacts)
    BY CollectSomeAt, CollectorAt
  <2>2. /\ "enabled" \in a.know /\ "live" \in a.know
        /\ b.know \in SUBSET (a.know \cap Lasting)
    BY <1>1, CollectSomeAt
  <2> QED  BY <2>1, <2>2, StateZeroPiece
<1> HIDE DEF steps
<1>3. /\ a.is = (a.is \ {"on"}) \union {"on"} /\ a.round = {}
      /\ b = Spot(a.wake, a.depth, a.held, a.is, b.know)
      /\ a = Spot(a.wake, a.depth, a.held, a.is, a.know)
  BY CollectSomeAt, CollectorAt
<1>4. Piece(t, steps, Spot(a.wake, a.depth, a.held, a.is, a.know), b)
  BY <1>2, <1>3
<1>5. Knows(a)'
  BY <1>1, CollectSomeAt DEF Knows, world
<1>6. Knows(Spot(a.wake, a.depth, a.held, a.is, a.know))'
  BY <1>3, <1>5
<1> QED  BY <1>1, <1>3, <1>4, <1>6, CollectSomeAt, SameGc, HeldCall

LEMMA CopySomeStep ==
  ASSUME NEW pl, NEW D, NEW t, NEW a, NEW b, NEW r,
         Ready(pl, D, t, Step("CollectSome"), a, b, r), CopySome(t)
  PROVE  Invariant'
<1>1. /\ UNCHANGED <<world, owner, holder, inCritical, allocating, stopped,
                     made, fault, asleep>>
      /\ gc' = Collected(gc.state) /\ Done(t)
  BY CollectSomeAt DEF CopySome, CollectIn, CollectorStep, Check
<1>2. /\ GcTyped' /\ gc'.state = gc.state /\ gc'.disabled = gc.disabled
      /\ gc'.on = gc.on /\ gc'.dead = gc.dead
      /\ gc'.backgroundWaiting = gc.backgroundWaiting
      /\ gc'.signalWeak = gc.signalWeak
      /\ gc.backgroundWaiting => gc'.signalBackground
  BY <1>1, CollectSomeAt DEF Sound, GcTyped, Collected
<1>3. Roused'
  BY <1>1, <1>2, CollectSomeAt DEF Sound, HeapSound, Roused
<1>4. Knows(b)'
  BY <1>1, CollectSomeAt, ForgetsKnows
<1>5. gc'.disabled = 0
  BY <1>2, CollectSomeAt
<1> QED  BY <1>1, <1>2, <1>3, <1>4, <1>5, CollectSomeAt, HeldDone

LEMMA CollectSomeInStateThreeStep ==
  ASSUME NEW pl, NEW D, NEW t, NEW a, NEW b, NEW r,
         Ready(pl, D, t, Step("CollectSome"), a, b, r),
         CollectSomeInStateThree(t)
  PROVE  Invariant'
<1>1. /\ UNCHANGED <<world, owner, holder, inCritical, allocating, stopped,
                     made, fault, asleep>>
      /\ Done(t)
  BY CollectSomeAt DEF CollectSomeInStateThree, CollectIn, CollectorStep, Check
<1>2. PICK dead \in gc.dead ..
                    (IF "WeakCleaner" \in gc.started THEN MaxDead ELSE gc.dead) :
        gc' = [Collected("Five") EXCEPT !.signalWeak = TRUE, !.dead = dead]
  BY DEF CollectSomeInStateThree
<1>3. dead \in 0 .. MaxDead
  BY <1>2, CollectSomeAt, MaxDeadIsPositive DEF Sound, GcTyped
<1>4. /\ GcTyped' /\ gc'.state = "Five" /\ gc'.disabled = gc.disabled
      /\ gc'.on = gc.on
      /\ gc'.backgroundWaiting = gc.backgroundWaiting
      /\ gc'.signalWeak
      /\ gc.backgroundWaiting => gc'.signalBackground
  BY <1>2, <1>3, CollectSomeAt DEF Sound, GcTyped, Collected
<1>5. Roused'
  BY <1>1, <1>4, CollectSomeAt DEF Sound, HeapSound, Roused
<1>6. Knows(b)'
  BY <1>1, CollectSomeAt, ForgetsKnows
<1>7. gc'.disabled = 0
  BY <1>4, CollectSomeAt
<1> QED  BY <1>1, <1>4, <1>5, <1>6, <1>7, CollectSomeAt, HeldDone

LEMMA CollectSomeInStateFiveStep ==
  ASSUME NEW pl, NEW D, NEW t, NEW a, NEW b, NEW r,
         Ready(pl, D, t, Step("CollectSome"), a, b, r),
         CollectSomeInStateFive(t)
  PROVE  Invariant'
<1>1. /\ UNCHANGED <<world, owner, holder, inCritical, allocating, stopped,
                     made, fault>>
      /\ gc' = gc /\ asleep' = asleep
  BY CollectSomeAt DEF CollectSomeInStateFive, CollectIn, CollectorStep, Check
<1>2. PICK monitors \in {<<>>, LongRoute} :
        Call(t, monitors \o <<Step("EndCollection")>>)
  BY DEF CollectSomeInStateFive
<1> DEFINE end == <<Step("EndCollection")>>
           on == (a.is \ {"on"}) \union {"on"}
<1>3. /\ a.is = on /\ a.round = {}
      /\ b = Spot(a.wake, a.depth, a.held, a.is, b.know)
      /\ a = Spot(a.wake, a.depth, a.held, a.is, a.know)
  BY CollectSomeAt, CollectorAt
<1>4. /\ Piece(t, end, Spot(a.wake, a.depth, a.held, on, a.know),
                       Spot(a.wake, a.depth, a.held, on, b.know))
      /\ Piece(t, end, Spot(a.wake, a.depth, a.held, on, b.know),
                       Spot(a.wake, a.depth, a.held, on, b.know))
  <2>1. /\ a.depth \in 1 .. 2 /\ a.held \in SUBSET (Outer \union {"heapMu"})
        /\ "heapMu" \in a.held
        /\ a.is \ {"on"} \in SUBSET {"in", "dis", "ending"}
        /\ "in" \in a.is \ {"on"}
        /\ "unmade" \in a.know => "initMu" \in a.held
        /\ a.wake \in Thread \union {NIL}
        /\ a.know \in SUBSET (Lasting \union HeapFacts)
    BY CollectSomeAt, CollectorAt
  <2>2. b.know \in SUBSET (a.know \cap Lasting)
    BY CollectSomeAt
  <2>3. /\ b.know \in SUBSET (Lasting \union HeapFacts)
        /\ b.know \in SUBSET (b.know \cap Lasting)
        /\ "unmade" \in b.know => "initMu" \in a.held
    BY <2>1, <2>2
  <2> QED  BY <2>1, <2>2, <2>3, EndCollectionPiece
<1> HIDE DEF end, on
<1>5. Piece(t, end, a, b) /\ Piece(t, end, b, b)
  BY <1>3, <1>4
<1>6. Piece(t, monitors \o end, a, b)
  <2>1. CASE monitors = <<>>
    <3>1. end \in Seq(Steps)
      BY <1>5, PieceTyped
    <3>2. <<>> \o end = end
      BY <3>1, ConcatEmptySeq
    <3> QED  BY <1>5, <2>1, <3>2
  <2>2. CASE monitors = LongRoute
    <3>1. /\ Sane(t, a) /\ b \in Place /\ a.depth \in 1 .. 2 /\ a.round = {}
          /\ Same(a, b) /\ Forgets(a, b) /\ "on" \in a.is /\ MayCollect(a)
      BY CollectSomeAt, CollectorAt DEF Ready
    <3>2. "all" \notin a.is
      BY <3>1 DEF MayCollect, Free
    <3>3. Piece(t, LongRoute, a, b)
      BY <3>1, <3>2, LongRoutePiece
    <3> QED  BY <1>5, <2>2, <3>3, PieceConcat
  <2> QED  BY <2>1, <2>2
<1> DEFINE steps == monitors \o end
<1>7. Call(t, steps)
  BY <1>2 DEF end
<1> HIDE DEF steps
<1>8. Piece(t, steps, Spot(a.wake, a.depth, a.held, a.is, a.know), b)
  BY <1>3, <1>6 DEF steps
<1>9. Knows(a)'
  BY <1>1, CollectSomeAt DEF Knows, world
<1>10. Knows(Spot(a.wake, a.depth, a.held, a.is, a.know))'
  BY <1>3, <1>9
<1> QED  BY <1>1, <1>3, <1>7, <1>8, <1>10, CollectSomeAt, SameGc, HeldCall

LEMMA EndCollectionStep ==
  ASSUME NEW pl, NEW D, NEW t, NEW a, NEW b, NEW r,
         Ready(pl, D, t, Step("EndCollection"), a, b, r), EndCollection(t)
  PROVE  Invariant'
<1>1. CollectorRule(t, "EndCollection", a, b)
  BY DEF Ready, Rule, Step
<1>2. a.depth >= 1 /\ Same(a, b) /\ Forgets(a, b)
  BY <1>1 DEF CollectorRule
<1>3. /\ UNCHANGED <<world, owner, holder, inCritical, allocating, stopped,
                     made, fault, asleep>>
      /\ gc' = [gc EXCEPT !.state = "Zero"] /\ Done(t)
      /\ Step("EndCollection") # Step("StopWorld")
      /\ Sound /\ Knows(a)
  BY DEF EndCollection, CollectorStep, Step, Ready
<1>4. /\ GcTyped' /\ gc'.state = "Zero" /\ gc'.disabled = gc.disabled
      /\ gc'.on = gc.on /\ gc'.dead = gc.dead
      /\ gc'.backgroundWaiting = gc.backgroundWaiting
      /\ gc'.signalWeak = gc.signalWeak
  BY <1>3 DEF Sound, GcTyped
<1>5. Roused'
  BY <1>3, <1>4 DEF Sound, HeapSound, Roused
<1>6. Knows(b)'
  BY <1>2, <1>3, ForgetsKnows
<1> QED  BY <1>2, <1>3, <1>4, <1>5, <1>6, HeldDone

LEMMA MarkRootsStep ==
  ASSUME NEW pl, NEW D, NEW t, NEW a, NEW b, NEW r,
         Ready(pl, D, t, Step("MarkRoots"), a, b, r), MarkRoots(t)
  PROVE  Invariant'
<1>1. CollectorRule(t, "MarkRoots", a, b)
  BY DEF Ready, Rule, Step
<1>2. /\ "on" \in a.is /\ "enabled" \in a.know
      /\ Same(a, b) /\ Forgets(a, b)
  BY <1>1 DEF CollectorRule
<1>3. /\ Step("MarkRoots") # Step("StopWorld") /\ Sound /\ Knows(a)
      /\ a.depth >= 1 /\ gc.on /\ gc.disabled = 0
  BY <1>2 DEF Ready, Step, Sane, FitsLocks, Knows
<1>4. /\ UNCHANGED <<world, owner, holder, inCritical, allocating, stopped,
                     made, fault, asleep>>
      /\ gc' = Collected("Three") /\ Done(t)
  BY <1>3 DEF MarkRoots, CollectorStep, Check
<1>5. /\ GcTyped' /\ gc'.state = "Three" /\ gc'.disabled = gc.disabled
      /\ gc'.on = gc.on /\ gc'.dead = gc.dead
      /\ gc'.backgroundWaiting = gc.backgroundWaiting
      /\ gc'.signalWeak = gc.signalWeak
      /\ gc.backgroundWaiting => gc'.signalBackground
  BY <1>3, <1>4 DEF Sound, GcTyped, Collected
<1>6. Roused'
  BY <1>3, <1>4, <1>5 DEF Sound, HeapSound, Roused
<1>7. Knows(b)'
  BY <1>2, <1>3, <1>4, ForgetsKnows
<1>8. gc'.disabled > 0 => gc'.state = "Zero"
  BY <1>3, <1>5
<1>9. asleep' \subseteq asleep
  BY <1>4
<1> QED  BY <1>2, <1>3, <1>4, <1>5, <1>6, <1>7, <1>8, <1>9, HeldDone

LEMMA CollectAllStep ==
  ASSUME NEW pl, NEW D, NEW t, NEW a, NEW b, NEW r,
         Ready(pl, D, t, Step("CollectAll"), a, b, r), CollectAll(t)
  PROVE  Invariant'
<1>1. CollectorRule(t, "CollectAll", a, b)
  BY DEF Ready, Rule, Step
<1>2. /\ MayCollect(a) /\ "on" \in a.is /\ Same(a, b)
      /\ b.know \subseteq (a.know \cap Lasting) \union {"zero"}
  BY <1>1 DEF CollectorRule
<1>3. /\ UNCHANGED <<world, owner, holder, inCritical, allocating, stopped,
                     made, fault>>
      /\ gc' = gc /\ asleep' = asleep
  BY DEF CollectAll, CollectorStep
<1>4. /\ Step("CollectAll") # Step("StopWorld") /\ a.depth >= 1 /\ Knows(a)
      /\ b \in Place
  BY <1>2, CollectorAt DEF Step, Ready
<1>5. CASE gc.state = "Zero"
  <2>1. Done(t)
    BY <1>5 DEF CollectAll, Done
  <2>2. Knows(b)'
    <3>1. \A k \in b.know :
            (k \in a.know /\ k \in {"live", "unmade"}) \/ k = "zero"
      BY <1>2 DEF Lasting
    <3> QED  BY <1>3, <1>4, <1>5, <3>1 DEF Knows, world
  <2> QED  BY <1>2, <1>3, <1>4, <2>1, <2>2, SameGc, HeldDone
<1> DEFINE steps == <<Step("CollectSome"), Step("CollectAll")>>
<1>6. CASE gc.state # "Zero"
  <2>1. PICK z : z = (a.know \cap Lasting) \union {"enabled", "busy"}
    OBVIOUS
  <2>2. PICK k : k = b.know \cap Lasting
    OBVIOUS
  <2>3. /\ k \in SUBSET (z \cap Lasting) /\ b.know \subseteq k \union {"zero"}
        /\ b.know \in SUBSET (Lasting \union HeapFacts)
    BY <1>2, <1>4, <2>1, <2>2, PlaceFields
  <2>4. /\ "enabled" \in z /\ "busy" \in z
        /\ z \in SUBSET (Lasting \union HeapFacts)
        /\ "unmade" \in z => "unmade" \in a.know
    BY <2>1 DEF Lasting, HeapFacts
  <2>5. /\ a.depth \in 1 .. 2 /\ a.held \in SUBSET (Outer \union {"heapMu"})
        /\ "heapMu" \in a.held
        /\ a.is \ {"on"} \in SUBSET {"in", "dis", "ending"}
        /\ "in" \in a.is \ {"on"}
        /\ "unmade" \in z => "initMu" \in a.held
        /\ a.wake \in Thread \union {NIL}
    BY <1>2, <2>4, CollectorAt
  <2>6. Piece(t, steps,
              Spot(a.wake, a.depth, a.held, (a.is \ {"on"}) \union {"on"}, z),
              Spot(a.wake, a.depth, a.held, (a.is \ {"on"}) \union {"on"},
                   b.know))
    BY <2>2, <2>3, <2>4, <2>5, CollectAllPiece
  <2>7. Knows(Spot(a.wake, a.depth, a.held, a.is, z))'
    <3>1. /\ \A j \in z :
               j \in a.know \cap Lasting \/ j \in HeapFacts \/ j = "live"
          /\ "live" \notin z \ a.know
          /\ "zero" \notin z /\ "none" \notin z /\ "dead" \notin z
          /\ "waiting" \notin z
      BY <2>1 DEF HeapFacts, Lasting
    <3>2. gc'.state # "Zero" /\ gc'.disabled = 0
      BY <1>3, <1>6, SameGc
    <3> QED  BY <1>3, <1>4, <3>1, <3>2, FoundKnows
  <2>8. Call(t, steps)
    BY <1>6 DEF CollectAll
  <2> HIDE DEF steps
  <2>9. /\ a.is = (a.is \ {"on"}) \union {"on"} /\ a.round = {}
        /\ b = Spot(a.wake, a.depth, a.held, a.is, b.know)
    BY <1>2, CollectorAt
  <2>10. Piece(t, steps, Spot(a.wake, a.depth, a.held, a.is, z), b)
    BY <2>6, <2>9
  <2> QED  BY <1>3, <1>4, <2>7, <2>8, <2>9, <2>10, SameGc, HeldCall
<1> QED  BY <1>5, <1>6

LEMMA StartGCStep ==
  ASSUME Adversity = {}, NEW pl, NEW D, NEW t, NEW a, NEW b, NEW r,
         Ready(pl, D, t, Step("StartGC"), a, b, r), StartGC(t)
  PROVE  Invariant'
<1>1. CollectorRule(t, "StartGC", a, b)
  BY DEF Ready, Rule, Step
<1>2. MayCollect(a) /\ "on" \in a.is /\ Same(a, b) /\ Forgets(a, b)
  BY <1>1 DEF CollectorRule
<1>3. /\ UNCHANGED <<world, owner, holder, inCritical, allocating, stopped,
                     made, fault>>
      /\ gc' = gc /\ asleep' = asleep
  BY DEF StartGC, CollectorStep
<1>4. /\ Step("StartGC") # Step("StopWorld") /\ a.depth >= 1 /\ Knows(a)
      /\ Sound /\ t \in exists
  BY <1>2, CollectorAt DEF Step, Ready
<1>5. CASE ~(gc.state = "Zero" /\ gc.disabled = 0 /\ Collectable)
  <2>1. Done(t)
    BY <1>5 DEF StartGC, Done
  <2>2. Knows(b)'
    BY <1>2, <1>3, <1>4, ForgetsKnows
  <2> QED  BY <1>2, <1>3, <1>4, <2>1, <2>2, SameGc, HeldDone
<1> DEFINE steps == <<Step("CollectSome")>>
<1>6. CASE gc.state = "Zero" /\ gc.disabled = 0 /\ Collectable
  <2>1. ToSet(ring) \subseteq exists
    BY <1>2, <1>4, <1>6, CollectorAt, CollectableLives
  <2>2. PICK z \in SUBSET (Lasting \union HeapFacts) :
           /\ "enabled" \in z /\ ("live" \in z \/ "busy" \in z)
           /\ "unmade" \in z => "initMu" \in a.held
           /\ b.know \in SUBSET (z \cap Lasting)
           /\ Knows(Spot(a.wake, a.depth, a.held, a.is, z))'
    BY <1>2, <1>3, <1>6, <2>1, LookKnows
  <2>3. Piece(t, steps,
              Spot(a.wake, a.depth, a.held, (a.is \ {"on"}) \union {"on"}, z),
              Spot(a.wake, a.depth, a.held, (a.is \ {"on"}) \union {"on"},
                   b.know))
    <3>1. /\ a.depth \in 1 .. 2 /\ a.held \in SUBSET (Outer \union {"heapMu"})
          /\ "heapMu" \in a.held /\ a.wake \in Thread \union {NIL}
          /\ a.is \ {"on"} \in SUBSET {"in", "dis", "ending"}
          /\ "in" \in a.is \ {"on"}
      BY <1>2, CollectorAt
    <3> QED  BY <2>2, <3>1, CollectOncePiece
  <2>4. Call(t, steps)
    BY <1>6 DEF StartGC
  <2> HIDE DEF steps
  <2>5. /\ a.is = (a.is \ {"on"}) \union {"on"} /\ a.round = {}
        /\ b = Spot(a.wake, a.depth, a.held, a.is, b.know)
    BY <1>2, CollectorAt
  <2>6. Piece(t, steps, Spot(a.wake, a.depth, a.held, a.is, z), b)
    BY <2>3, <2>5
  <2> QED  BY <1>3, <1>4, <2>2, <2>4, <2>5, <2>6, SameGc, HeldCall
<1> QED  BY <1>5, <1>6

\* A service at the head of its loop.
LEMMA ServiceAt ==
  ASSUME NEW pl, NEW D, NEW t, NEW x, NEW a, NEW b, NEW r,
         Ready(pl, D, t, x, a, b, r),
         a.depth = 1, a.held = {"heapMu"}, a.is = {"in"}, Forgets(a, b)
  PROVE  /\ a.round = {} /\ a.wake \in Thread \union {NIL}
         /\ "unmade" \notin a.know
         /\ a = Spot(a.wake, 1, {"heapMu"}, {"in"}, a.know)
         /\ b.know \in SUBSET (a.know \cap Lasting)
         /\ a.know \in SUBSET (Lasting \union HeapFacts)
         /\ holder = t /\ ~gc.on /\ Knows(a) /\ Sound /\ t \in exists
         /\ t \notin asleep
         /\ gc.disabled > 0 => gc.state = "Zero"
         /\ gc.disabled \in Nat
<1>1. /\ a \in Place /\ Sane(t, a) /\ FitsLocks(t, a) /\ Knows(a) /\ Sound
      /\ t \in exists /\ t \notin asleep
      /\ gc.disabled > 0 => gc.state = "Zero"
  BY DEF Ready, Invariantly, Counted
<1>2. a.round = {} /\ "unmade" \notin a.know
  BY <1>1 DEF Sane, Global
<1>3. /\ a.wake \in Thread \union {NIL}
      /\ a.know \in SUBSET (Lasting \union HeapFacts)
  BY <1>1, PlaceFields
<1>4. a = Spot(a.wake, a.depth, a.held, a.is, a.know)
  BY <1>1, <1>2, SpotOf
<1>5. holder = t /\ ~gc.on
  BY <1>1 DEF FitsLocks
<1>6. b.know \in SUBSET (a.know \cap Lasting)
  BY DEF Forgets
<1>7. gc.disabled \in Nat
  BY <1>1 DEF Sound, GcTyped
<1> QED  BY <1>1, <1>2, <1>3, <1>4, <1>5, <1>6, <1>7

LEMMA BackgroundThreadStep ==
  ASSUME NEW pl, NEW D, NEW t, NEW a, NEW b, NEW r,
         Ready(pl, D, t, Step("BackgroundTest"), a, b, r), BackgroundThread(t)
  PROVE  Invariant'
<1>1. CollectorRule(t, "BackgroundTest", a, b)
  BY DEF Ready, Rule, Step
<1>2. /\ t \in Service /\ t = "BackgroundThread" /\ a.depth = 1
      /\ a.held = {"heapMu"} /\ a.is = {"in"} /\ Same(a, b) /\ Forgets(a, b)
  BY <1>1 DEF CollectorRule
<1>3. /\ UNCHANGED <<world, owner, holder, inCritical, allocating, stopped,
                     made, fault>>
      /\ asleep' = asleep
  BY DEF BackgroundThread, CollectorStep
<1>4. /\ Step("BackgroundTest") # Step("StopWorld") /\ a.depth >= 1
      /\ b = Spot(a.wake, 1, {"heapMu"}, {"in"}, b.know)
  <2>1. b \in Place /\ b.round = {} /\ b.wake = a.wake /\ b.depth = 1
        /\ b.held = {"heapMu"} /\ b.is = {"in"}
    BY <1>2, ServiceAt DEF Ready, Same, SameLocks
  <2>2. b = Spot(b.wake, b.depth, b.held, b.is, b.know)
    BY <2>1, SpotOf
  <2> QED  BY <1>2, <2>1, <2>2 DEF Step
<1>5. CASE gc.state = "Zero"
  <2> DEFINE steps == <<Step("WaitHeap"), Step("BackgroundAwake"),
                        Step("BackgroundTest")>>
  <2>1. gc' = [gc EXCEPT !.backgroundWaiting = TRUE] /\ Call(t, steps)
    BY <1>5 DEF BackgroundThread
  <2>2. PICK z : z = (a.know \cap Lasting) \union {"zero", "waiting"}
    OBVIOUS
  <2>3. /\ {"zero", "waiting"} \subseteq z /\ "unmade" \notin z
        /\ z \in SUBSET (Lasting \union HeapFacts)
        /\ b.know \in SUBSET (z \cap Lasting)
    BY <1>2, <2>2, ServiceAt DEF Lasting, HeapFacts
  <2>4. Piece(t, steps, Spot(a.wake, 1, {"heapMu"}, {"in"}, z),
                        Spot(a.wake, 1, {"heapMu"}, {"in"}, b.know))
    BY <1>2, <2>3, ServiceAt, BackgroundWaitsPiece
  <2>5. /\ GcTyped' /\ gc'.state = gc.state /\ gc'.disabled = gc.disabled
        /\ gc'.on = gc.on /\ gc'.dead = gc.dead /\ gc'.backgroundWaiting
        /\ gc'.signalWeak = gc.signalWeak
        /\ gc'.signalBackground = gc.signalBackground
    BY <1>2, <2>1, ServiceAt DEF Sound, GcTyped
  <2>6. Roused'
    BY <1>2, <1>3, <2>5, ServiceAt DEF Sound, HeapSound, Roused
  <2>7. Knows(Spot(a.wake, a.depth, a.held, a.is, z))'
    <3>1. /\ \A j \in z :
               j \in a.know \cap Lasting \/ j \in HeapFacts \/ j = "live"
          /\ "live" \notin z \ a.know
          /\ "busy" \notin z /\ "none" \notin z /\ "dead" \notin z
          /\ "enabled" \notin z
      BY <2>2 DEF HeapFacts, Lasting
    <3> QED  BY <1>2, <1>3, <1>5, <2>5, <3>1, ServiceAt, FoundKnows
  <2> HIDE DEF steps
  <2>8. Piece(t, steps, Spot(a.wake, a.depth, a.held, a.is, z), b)
    BY <1>2, <1>4, <2>4
  <2> QED  BY <1>2, <1>3, <1>4, <1>5, <2>1, <2>5, <2>6, <2>7, <2>8, ServiceAt,
              HeldCall
<1>6. CASE gc.state # "Zero"
  <2> DEFINE steps == <<Step("CollectorOn"), Step("CollectSome"),
                        Step("CollectorOff")>>
  <2>1. gc' = gc /\ Call(t, steps)
    BY <1>6 DEF BackgroundThread
  <2>2. PICK z : z = (a.know \cap Lasting) \union {"enabled", "busy"}
    OBVIOUS
  <2>3. /\ "enabled" \in z /\ "busy" \in z /\ "unmade" \notin z
        /\ z \in SUBSET (Lasting \union HeapFacts)
        /\ b.know \in SUBSET (z \cap Lasting)
    BY <1>2, <2>2, ServiceAt DEF Lasting, HeapFacts
  <2>4. Piece(t, steps, Spot(a.wake, 1, {"heapMu"}, {"in"}, z),
                        Spot(a.wake, 1, {"heapMu"}, {"in"}, b.know))
    <3>1. /\ 1 \in 1 .. 2 /\ {"heapMu"} \in SUBSET (Outer \union {"heapMu"})
          /\ "heapMu" \in {"heapMu"}
          /\ {"in"} \in SUBSET {"in", "dis", "ending"}
          /\ "in" \in {"in"} /\ a.wake \in Thread \union {NIL}
      BY <1>2, ServiceAt
    <3> QED  BY <2>3, <3>1, BackgroundCollectsPiece
  <2>5. Knows(Spot(a.wake, a.depth, a.held, a.is, z))'
    <3>1. /\ \A j \in z :
               j \in a.know \cap Lasting \/ j \in HeapFacts \/ j = "live"
          /\ "live" \notin z \ a.know
          /\ "zero" \notin z /\ "none" \notin z /\ "dead" \notin z
          /\ "waiting" \notin z
      BY <2>2 DEF HeapFacts, Lasting
    <3>2. gc'.state # "Zero" /\ gc'.disabled = 0
      BY <1>3, <1>6, <2>1, SameGc
    <3> QED  BY <1>2, <1>3, <3>1, <3>2, ServiceAt, FoundKnows
  <2> HIDE DEF steps
  <2>6. Piece(t, steps, Spot(a.wake, a.depth, a.held, a.is, z), b)
    BY <1>2, <1>4, <2>4
  <2>7. /\ a.round = {} /\ GcTyped' /\ Roused' /\ gc'.on = gc.on
        /\ gc'.disabled = gc.disabled
        /\ gc'.disabled > 0 => gc'.state = "Zero"
    BY <1>2, <1>3, <2>1, ServiceAt, SameGc
  <2> QED  BY <1>3, <1>4, <2>1, <2>5, <2>6, <2>7, HeldCall
<1> QED  BY <1>5, <1>6

LEMMA BackgroundAwakeStep ==
  ASSUME NEW pl, NEW D, NEW t, NEW a, NEW b, NEW r,
         Ready(pl, D, t, Step("BackgroundAwake"), a, b, r), BackgroundAwake(t)
  PROVE  Invariant'
<1>1. CollectorRule(t, "BackgroundAwake", a, b)
  BY DEF Ready, Rule, Step
<1>2. t = "BackgroundThread" /\ a.depth >= 1 /\ Same(a, b) /\ Forgets(a, b)
  BY <1>1 DEF CollectorRule
<1>3. /\ UNCHANGED <<world, owner, holder, inCritical, allocating, stopped,
                     made, fault, asleep>>
      /\ gc' = [gc EXCEPT !.backgroundWaiting = FALSE] /\ Done(t)
      /\ Step("BackgroundAwake") # Step("StopWorld")
      /\ Sound /\ Knows(a) /\ t \notin asleep
      /\ gc.disabled > 0 => gc.state = "Zero"
  BY DEF BackgroundAwake, CollectorStep, Step, Ready, Invariantly, Counted
<1>4. /\ GcTyped' /\ gc'.state = gc.state /\ gc'.disabled = gc.disabled
      /\ gc'.on = gc.on /\ gc'.dead = gc.dead
      /\ gc'.signalWeak = gc.signalWeak
  BY <1>3 DEF Sound, GcTyped
<1>5. Roused'
  BY <1>2, <1>3, <1>4 DEF Sound, HeapSound, Roused
<1>6. Knows(b)'
  BY <1>2, <1>3, ForgetsKnows
<1> QED  BY <1>2, <1>3, <1>4, <1>5, <1>6, HeldDone

LEMMA ForegroundThreadStep ==
  ASSUME NEW pl, NEW D, NEW t, NEW a, NEW b, NEW r,
         Ready(pl, D, t, Step("ForegroundLoop"), a, b, r), ForegroundThread(t)
  PROVE  Invariant'
<1> DEFINE steps == <<Step("WaitHeap"), Step("ForegroundAwake"),
                      Step("CollectEnough"), Step("ForegroundLoop")>>
<1>1. HeapRule(t, "ForegroundLoop", a, b)
  BY DEF Ready, Rule, Step
<1>2. /\ t \in Service /\ t = "ForegroundThread" /\ a.depth = 1
      /\ a.held = {"heapMu"} /\ a.is = {"in"} /\ b.depth = 0 /\ b.held = {}
      /\ b.round = a.round /\ b.wake = a.wake /\ b.is = a.is /\ Forgets(a, b)
  BY <1>1 DEF HeapRule
<1>3. /\ UNCHANGED <<world, owner, holder, inCritical, allocating, stopped,
                     made, fault>>
      /\ asleep' = asleep /\ gc' = [gc EXCEPT !.foregroundWaiting = TRUE]
      /\ Call(t, steps)
  BY DEF ForegroundThread, CollectorStep
<1>4. /\ Step("ForegroundLoop") # Step("StopWorld") /\ a.depth >= 1
      /\ b = Spot(a.wake, 0, {}, {"in"}, b.know)
  <2>1. b \in Place /\ b.round = {}
    BY <1>2, ServiceAt DEF Ready
  <2>2. b = Spot(b.wake, b.depth, b.held, b.is, b.know)
    BY <2>1, SpotOf
  <2> QED  BY <1>2, <2>1, <2>2 DEF Step
<1>5. PICK z : z = a.know \cap Lasting
  OBVIOUS
<1>6. /\ "unmade" \notin z /\ z \in SUBSET (Lasting \union HeapFacts)
      /\ b.know \in SUBSET (z \cap Lasting)
  BY <1>2, <1>5, ServiceAt DEF Lasting, HeapFacts
<1>7. Piece(t, steps, Spot(a.wake, 1, {"heapMu"}, {"in"}, z),
                      Spot(a.wake, 0, {}, {"in"}, b.know))
  BY <1>2, <1>6, ServiceAt, ForegroundWaitsPiece
<1>8. /\ GcTyped' /\ gc'.state = gc.state /\ gc'.disabled = gc.disabled
      /\ gc'.on = gc.on /\ gc'.dead = gc.dead
      /\ gc'.backgroundWaiting = gc.backgroundWaiting
      /\ gc'.signalWeak = gc.signalWeak
      /\ gc'.signalBackground = gc.signalBackground
  BY <1>2, <1>3, ServiceAt DEF Sound, GcTyped
<1>9. Roused'
  BY <1>2, <1>3, <1>8, ServiceAt DEF Sound, HeapSound, Roused
<1>10. Knows(Spot(a.wake, a.depth, a.held, a.is, z))'
  <2>1. /\ \A j \in z :
             j \in a.know \cap Lasting \/ j \in HeapFacts \/ j = "live"
        /\ "live" \notin z \ a.know
        /\ "busy" \notin z /\ "none" \notin z /\ "dead" \notin z
        /\ "enabled" \notin z /\ "zero" \notin z /\ "waiting" \notin z
    BY <1>5 DEF HeapFacts, Lasting
  <2> QED  BY <1>2, <1>3, <1>8, <2>1, ServiceAt, FoundKnows
<1> HIDE DEF steps
<1>11. Piece(t, steps, Spot(a.wake, a.depth, a.held, a.is, z), b)
  BY <1>2, <1>4, <1>7
<1>12. /\ a.round = {}
       /\ gc'.disabled > 0 => gc'.state = "Zero"
  BY <1>2, <1>8, ServiceAt
<1> QED  BY <1>3, <1>4, <1>8, <1>9, <1>10, <1>11, <1>12, HeldCall

LEMMA ForegroundAwakeStep ==
  ASSUME NEW pl, NEW D, NEW t, NEW a, NEW b, NEW r,
         Ready(pl, D, t, Step("ForegroundAwake"), a, b, r), ForegroundAwake(t)
  PROVE  Invariant'
<1>1. CollectorRule(t, "ForegroundAwake", a, b)
  BY DEF Ready, Rule, Step
<1>2. a.depth >= 1 /\ Same(a, b) /\ Forgets(a, b)
  BY <1>1 DEF CollectorRule
<1>3. /\ UNCHANGED <<world, owner, holder, inCritical, allocating, stopped,
                     made, fault, asleep>>
      /\ gc' = [gc EXCEPT !.foregroundWaiting = FALSE] /\ Done(t)
      /\ Step("ForegroundAwake") # Step("StopWorld")
      /\ Sound /\ Knows(a)
      /\ gc.disabled > 0 => gc.state = "Zero"
  BY DEF ForegroundAwake, CollectorStep, Step, Ready, Invariantly, Counted
<1>4. /\ GcTyped' /\ gc'.state = gc.state /\ gc'.disabled = gc.disabled
      /\ gc'.on = gc.on /\ gc'.dead = gc.dead
      /\ gc'.backgroundWaiting = gc.backgroundWaiting
      /\ gc'.signalWeak = gc.signalWeak
      /\ gc'.signalBackground = gc.signalBackground
  BY <1>3 DEF Sound, GcTyped
<1>5. Roused'
  BY <1>2, <1>3, <1>4 DEF Sound, HeapSound, Roused
<1>6. Knows(b)'
  BY <1>2, <1>3, ForgetsKnows
<1> QED  BY <1>2, <1>3, <1>4, <1>5, <1>6, HeldDone

LEMMA WeakCleanerStep ==
  ASSUME NEW pl, NEW D, NEW t, NEW a, NEW b, NEW r,
         Ready(pl, D, t, Step("CleanerTest"), a, b, r), WeakCleaner(t)
  PROVE  Invariant'
<1>1. CollectorRule(t, "CleanerTest", a, b)
  BY DEF Ready, Rule, Step
<1>2. /\ t \in Service /\ t = "WeakCleaner" /\ a.depth = 1
      /\ a.held = {"heapMu"} /\ a.is = {"in"} /\ Same(a, b) /\ Forgets(a, b)
  BY <1>1 DEF CollectorRule
<1>3. /\ UNCHANGED <<world, owner, holder, inCritical, allocating, stopped,
                     made, fault>>
      /\ asleep' = asleep /\ gc' = gc
  BY DEF WeakCleaner, CollectorStep
<1>4. /\ Step("CleanerTest") # Step("StopWorld") /\ a.depth >= 1
      /\ b = Spot(a.wake, 1, {"heapMu"}, {"in"}, b.know)
  <2>1. b \in Place /\ b.round = {} /\ b.wake = a.wake /\ b.depth = 1
        /\ b.held = {"heapMu"} /\ b.is = {"in"}
    BY <1>2, ServiceAt DEF Ready, Same, SameLocks
  <2>2. b = Spot(b.wake, b.depth, b.held, b.is, b.know)
    BY <2>1, SpotOf
  <2> QED  BY <1>2, <2>1, <2>2 DEF Step
<1>5. CASE gc.dead = 0
  <2> DEFINE steps == <<Step("WaitHeap"), Step("CleanerTest")>>
  <2>1. Call(t, steps)
    BY <1>5 DEF WeakCleaner
  <2>2. PICK z : z = (a.know \cap Lasting) \union {"none"}
    OBVIOUS
  <2>3. /\ "none" \in z /\ "unmade" \notin z
        /\ z \in SUBSET (Lasting \union HeapFacts)
        /\ b.know \in SUBSET (z \cap Lasting)
    BY <1>2, <2>2, ServiceAt DEF Lasting, HeapFacts
  <2>4. Piece(t, steps, Spot(a.wake, 1, {"heapMu"}, {"in"}, z),
                        Spot(a.wake, 1, {"heapMu"}, {"in"}, b.know))
    BY <1>2, <2>3, ServiceAt, CleanerWaitsPiece
  <2>5. Knows(Spot(a.wake, a.depth, a.held, a.is, z))'
    <3>1. /\ \A j \in z :
               j \in a.know \cap Lasting \/ j \in HeapFacts \/ j = "live"
          /\ "live" \notin z \ a.know
          /\ "busy" \notin z /\ "zero" \notin z /\ "dead" \notin z
          /\ "enabled" \notin z /\ "waiting" \notin z
      BY <2>2 DEF HeapFacts, Lasting
    <3> QED  BY <1>2, <1>3, <1>5, <3>1, ServiceAt, FoundKnows
  <2> HIDE DEF steps
  <2>6. Piece(t, steps, Spot(a.wake, a.depth, a.held, a.is, z), b)
    BY <1>2, <1>4, <2>4
  <2>7. /\ a.round = {} /\ GcTyped' /\ Roused' /\ gc'.on = gc.on
        /\ gc'.disabled = gc.disabled
        /\ gc'.disabled > 0 => gc'.state = "Zero"
    BY <1>2, <1>3, <2>1, ServiceAt, SameGc
  <2> QED  BY <1>3, <1>4, <2>1, <2>5, <2>6, <2>7, HeldCall
<1>6. CASE gc.dead > 0
  <2> DEFINE steps == <<Step("CollectorOn"), Step("CollectorOff"),
                        Step("TakeDead")>>
  <2>1. Call(t, steps)
    BY <1>6 DEF WeakCleaner
  <2>2. PICK z : z = (a.know \cap Lasting) \union {"dead"}
    OBVIOUS
  <2>3. /\ "dead" \in z /\ "unmade" \notin z
        /\ z \in SUBSET (Lasting \union HeapFacts)
        /\ b.know \in SUBSET (z \cap Lasting)
    BY <1>2, <2>2, ServiceAt DEF Lasting, HeapFacts
  <2>4. Piece(t, steps, Spot(a.wake, 1, {"heapMu"}, {"in"}, z),
                        Spot(a.wake, 1, {"heapMu"}, {"in"}, b.know))
    BY <1>2, <2>3, ServiceAt, CleanerWorksPiece
  <2>5. Knows(Spot(a.wake, a.depth, a.held, a.is, z))'
    <3>1. /\ \A j \in z :
               j \in a.know \cap Lasting \/ j \in HeapFacts \/ j = "live"
          /\ "live" \notin z \ a.know
          /\ "busy" \notin z /\ "zero" \notin z /\ "none" \notin z
          /\ "enabled" \notin z /\ "waiting" \notin z
      BY <2>2 DEF HeapFacts, Lasting
    <3> QED  BY <1>2, <1>3, <1>6, <3>1, ServiceAt, FoundKnows
  <2> HIDE DEF steps
  <2>6. Piece(t, steps, Spot(a.wake, a.depth, a.held, a.is, z), b)
    BY <1>2, <1>4, <2>4
  <2>7. /\ a.round = {} /\ GcTyped' /\ Roused' /\ gc'.on = gc.on
        /\ gc'.disabled = gc.disabled
        /\ gc'.disabled > 0 => gc'.state = "Zero"
    BY <1>2, <1>3, <2>1, ServiceAt, SameGc
  <2> QED  BY <1>3, <1>4, <2>1, <2>5, <2>6, <2>7, HeldCall
<1> QED  BY <1>5, <1>6 DEF WeakCleaner

LEMMA TakeDeadStep ==
  ASSUME NEW pl, NEW D, NEW t, NEW a, NEW b, NEW r,
         Ready(pl, D, t, Step("TakeDead"), a, b, r), TakeDead(t)
  PROVE  Invariant'
<1>1. CollectorRule(t, "TakeDead", a, b)
  BY DEF Ready, Rule, Step
<1>2. "dead" \in a.know /\ Same(a, b) /\ Forgets(a, b)
  BY <1>1 DEF CollectorRule
<1>3. /\ UNCHANGED <<world, owner, holder, inCritical, allocating, stopped,
                     made, fault, asleep>>
      /\ gc' = [gc EXCEPT !.dead = @ - 1] /\ Done(t)
      /\ Step("TakeDead") # Step("StopWorld")
      /\ Sound /\ Knows(a) /\ a \in Place /\ Sane(t, a)
      /\ gc.disabled > 0 => gc.state = "Zero"
  BY DEF TakeDead, CollectorStep, Step, Ready, Invariantly, Counted
<1>4. a.depth >= 1 /\ gc.dead > 0
  BY <1>2, <1>3 DEF Sane, Knows, Lasting
<1>5. gc.dead \in 0 .. MaxDead /\ gc.dead - 1 \in 0 .. MaxDead
  BY <1>3, <1>4, MaxDeadIsPositive DEF Sound, GcTyped
<1>6. /\ GcTyped' /\ gc'.state = gc.state /\ gc'.disabled = gc.disabled
      /\ gc'.on = gc.on /\ gc'.dead = gc.dead - 1
      /\ gc'.backgroundWaiting = gc.backgroundWaiting
      /\ gc'.signalWeak = gc.signalWeak
      /\ gc'.signalBackground = gc.signalBackground
  BY <1>3, <1>5 DEF Sound, GcTyped
<1>7. Roused'
  BY <1>3, <1>4, <1>6 DEF Sound, HeapSound, Roused
<1>8. Knows(b)'
  BY <1>2, <1>3, ForgetsKnows
<1> QED  BY <1>2, <1>3, <1>4, <1>6, <1>7, <1>8, HeldDone

\* Disable and Enable: the thread is counted from the one to the other.
LEMMA CountDisabledStep ==
  ASSUME NEW pl, NEW D, NEW t, NEW x, NEW a, NEW b, NEW r,
         Ready(pl, D, t, x, a, b, r), CountDisabled(t)
  PROVE  Invariant'
<1>1. /\ UNCHANGED <<world, owner, holder, inCritical, allocating, stopped,
                     made, fault, asleep>>
      /\ todo' = [todo EXCEPT ![t] = r]
      /\ \/ x = Step("Disable") /\ gc' = [gc EXCEPT !.disabled = @ + 1]
         \/ x = Step("Enable") /\ gc' = [gc EXCEPT !.disabled = @ - 1]
  <2>1. Head(todo[t]) = x
    BY DEF Ready
  <2>2. /\ UNCHANGED <<world, owner, holder, inCritical, allocating, stopped,
                       made, fault, asleep>>
        /\ Done(t)
    BY DEF CountDisabled, CollectorStep
  <2>3. \/ x = Step("Disable") /\ gc' = [gc EXCEPT !.disabled = @ + 1]
        \/ x = Step("Enable") /\ gc' = [gc EXCEPT !.disabled = @ - 1]
    BY <2>1 DEF CountDisabled, CollectorStep, At
  <2> QED  BY <2>2, <2>3, Called
<1>2. /\ Sound /\ Invariantly(pl, D) /\ Counted(pl, D) /\ Leads(t, r, b)
      /\ t \in Thread /\ t \in exists /\ pl[t] = a /\ Sane(t, a)
      /\ Knows(a) /\ FitsLocks(t, a) /\ FitsRing(t, a) /\ D \in SUBSET Client
      /\ todo[t] # <<>> /\ Head(todo[t]) = x
  BY DEF Ready, Invariantly
<1>3. /\ a.depth >= 1 /\ SameLocks(a, b) /\ Forgets(a, b)
      /\ \A f \in Flags \ {"dis"} : f \in b.is <=> f \in a.is
      /\ x = Step("Disable") =>
           t \in Client /\ "dis" \notin a.is /\ "zero" \in a.know /\ "dis" \in b.is
      /\ x = Step("Enable") => "dis" \in a.is /\ "dis" \notin b.is
      /\ x # Step("StopWorld")
  <2>1. CASE x = Step("Disable")
    <3>1. CollectorRule(t, "Disable", a, b) /\ x # Step("Enable")
      BY <2>1 DEF Ready, Rule, Step
    <3> QED  BY <2>1, <3>1 DEF CollectorRule, Step
  <2>2. CASE x = Step("Enable")
    <3>1. CollectorRule(t, "Enable", a, b) /\ x # Step("Disable")
      BY <2>2 DEF Ready, Rule, Step
    <3> QED  BY <2>2, <3>1 DEF CollectorRule, Step
  <2> QED  BY <1>1, <2>1, <2>2
<1>4. /\ gc.disabled \in Nat /\ gc.disabled = Cardinality(D) /\ IsFiniteSet(D)
      /\ t \in D <=> "dis" \in a.is
      /\ gc.disabled > 0 => gc.state = "Zero"
  BY <1>2 DEF Counted, Sound, GcTyped
<1>5. \E E \in SUBSET Client :
        /\ IsFiniteSet(E) /\ gc'.disabled = Cardinality(E)
        /\ "dis" \in b.is <=> t \in E
        /\ \A u \in (Client \union exists) \ {t} : u \in E <=> u \in D
        /\ gc'.disabled > 0 => gc'.state = "Zero"
        /\ gc'.disabled \in Nat
  <2>1. CASE x = Step("Disable")
    <3>1. /\ IsFiniteSet(D \union {t})
          /\ Cardinality(D \union {t}) = Cardinality(D) + 1
      BY <1>3, <1>4, <2>1, FS_AddElement
    <3>2. /\ gc'.disabled = gc.disabled + 1 /\ gc'.state = gc.state
          /\ gc.state = "Zero"
      BY <1>1, <1>2, <1>3, <2>1 DEF Step, Sound, GcTyped, Knows
    <3>3. D \union {t} \in SUBSET Client
      BY <1>2, <1>3, <2>1
    <3> QED  BY <1>3, <1>4, <2>1, <3>1, <3>2, <3>3
  <2>2. CASE x = Step("Enable")
    <3>1. /\ IsFiniteSet(D \ {t})
          /\ Cardinality(D \ {t}) = Cardinality(D) - 1
      BY <1>3, <1>4, <2>2, FS_RemoveElement
    <3>2. gc'.disabled = gc.disabled - 1 /\ gc'.state = gc.state
      BY <1>1, <1>2, <2>2 DEF Step, Sound, GcTyped
    <3>3. Cardinality(D \ {t}) \in Nat /\ D \ {t} \in SUBSET Client
      BY <1>2, <3>1, FS_CardinalityType
    <3> QED  BY <1>3, <1>4, <2>2, <3>1, <3>2, <3>3
  <2> QED  BY <1>1, <2>1, <2>2
<1>6. /\ gc'.state = gc.state /\ gc'.on = gc.on /\ gc'.dead = gc.dead
      /\ gc'.backgroundWaiting = gc.backgroundWaiting
      /\ gc'.signalWeak = gc.signalWeak
      /\ gc'.signalBackground = gc.signalBackground
      /\ GcTyped'
  <2>1. gc'.disabled \in Nat
    BY <1>5
  <2> QED  BY <1>1, <1>2, <2>1 DEF Sound, GcTyped
<1>7. todo' \in [Thread -> Seq(Steps)] /\ todo'[t] = r
      /\ \A u \in Thread \ {t} : todo'[u] = todo[u]
  BY <1>1, <1>2, LeadsSane DEF Sound
<1>8. Sound'
  <2>1. Roused'
    BY <1>1, <1>2, <1>6 DEF Sound, HeapSound, Roused
  <2>2. HeapSound'
    BY <1>1, <1>2, <1>6, <2>1 DEF Sound, HeapSound, world
  <2>3. RingSound'
    BY <1>1, <1>2 DEF Sound, RingSound, world
  <2> QED  BY <1>6, <1>7, <2>2, <2>3 DEF Sound
<1>9. Fits(t, b)'
  <2>1. Holds(b)' = Holds(a)
    BY <1>1, <1>3 DEF Holds, SameLocks, Flags, world
  <2>2. "on" \in b.is <=> "on" \in a.is
    BY <1>3 DEF Flags
  <2>3. FitsLocks(t, b)'
    BY <1>1, <1>2, <1>3, <1>6, <2>1, <2>2 DEF FitsLocks, SameLocks
  <2>4. FitsRing(t, b)'
    <3>1. /\ "in" \in b.is <=> "in" \in a.is
          /\ "alloc" \in b.is <=> "alloc" \in a.is
          /\ "fork" \in b.is <=> "fork" \in a.is
      BY <1>3 DEF Flags
    <3> QED  BY <1>1, <1>2, <1>3, <3>1 DEF FitsRing, SameLocks, world
  <2>5. Knows(b)'
    BY <1>1, <1>2, <1>3, ForgetsKnows
  <2> QED  BY <2>3, <2>4, <2>5 DEF Fits
<1>10. Untouched(t)
  <2>1. holder = t
    BY <1>2, <1>3 DEF FitsLocks
  <2> QED  BY <1>1, <1>2, <1>7, <2>1 DEF Untouched, Sound, RingSound, world
<1>11. /\ b.wake = a.wake
       /\ "ending" \in b.is => "ending" \in a.is
       /\ stopped' # {} /\ owner'["activeMu"] = t => "world" \in b.is
  <2>1. /\ "ending" \in b.is <=> "ending" \in a.is
        /\ "world" \in b.is <=> "world" \in a.is
    BY <1>3 DEF Flags
  <2> QED  BY <1>1, <1>2, <1>3, <2>1 DEF SameLocks, Invariantly, Stopper
<1>12. Leads(t, todo'[t], b) /\ stopped' = stopped
  BY <1>1, <1>2, <1>7
<1> QED  BY <1>2, <1>5, <1>8, <1>9, <1>10, <1>11, <1>12, MovedCounting

-----------------------------------------------------------------------------
(* Locks.                                                                  *)

\* What a thread is ready in.
LEMMA ReadyAt ==
  ASSUME NEW pl, NEW D, NEW t, NEW x, NEW a, NEW b, NEW r,
         Ready(pl, D, t, x, a, b, r)
  PROVE  /\ Sound /\ Invariantly(pl, D) /\ Counted(pl, D) /\ Stopper(pl)
         /\ t \in Thread /\ t \in exists /\ pl[t] = a /\ a \in Place
         /\ b \in Place /\ Sane(t, a) /\ Sane(t, b) /\ Knows(a)
         /\ FitsLocks(t, a)
         /\ FitsRing(t, a) /\ Leads(t, r, b) /\ Rule(t, x, a, b)
         /\ todo[t] # <<>> /\ Head(todo[t]) = x
         /\ r \in Seq(Steps) /\ exists \subseteq Thread /\ NIL \notin exists
         /\ gc.disabled > 0 => gc.state = "Zero"
         /\ stopped # {} /\ owner["activeMu"] = t /\ x # Step("StopWorld") =>
              "world" \in a.is
         /\ x = Head(todo[t])
<1>1. exists \subseteq Thread /\ NIL \notin exists
  BY ThreadsAreNoLocks DEF Ready, Sound, RingSound
<1> QED  BY <1>1 DEF Ready, Invariantly, Counted, Stopper

\* The rest of the threads go on with what they have.
LEMMA OnlyMine ==
  ASSUME NEW t \in Thread, Sound, NEW q \in Seq(Steps),
         todo' = [todo EXCEPT ![t] = q]
  PROVE  /\ todo' \in [Thread -> Seq(Steps)] /\ todo'[t] = q
         /\ \A u \in exists \ {t} : todo'[u] = todo[u]
BY DEF Sound, RingSound

LEMMA LocksAreNoSteps ==
  \A l : \A name \in Kinds \ {"lock", "unlock"} :
    Lock(l) # Step(name) /\ Unlock(l) # Step(name)
BY DEF Lock, Unlock, Step

LEMMA LockLeads ==
  ASSUME NEW t, NEW l, NEW a, NEW b, Locking(t, l, a, b), Sane(t, a),
         FitsRing(t, a)
  PROVE  /\ Holds(b) = Holds(a) \union {l} /\ b.wake = a.wake
         /\ b.round # {} => b.round = ToSet(ring)
         /\ \A f \in Flags \ {"all"} : f \in b.is <=> f \in a.is
<1>1. /\ Free(a) /\ Above(t, l, a) /\ l \notin a.held /\ b.wake = a.wake
      /\ \/ b.held = a.held \union {l} /\ b.round = a.round /\ b.is = a.is
         \/ /\ a.round # {} /\ a.round \subseteq a.held \union {l}
            /\ b.held = Global /\ b.round = {} /\ b.is = a.is \union {"all"}
  BY DEF Locking
<1>2. "all" \notin a.is
  BY <1>1 DEF Free
<1>3. CASE b.held = a.held \union {l} /\ b.round = a.round /\ b.is = a.is
  BY <1>1, <1>2, <1>3 DEF Holds, FitsRing
<1>4. CASE /\ a.round # {} /\ a.round \subseteq a.held \union {l}
           /\ b.held = Global /\ b.round = {} /\ b.is = a.is \union {"all"}
  <2>1. /\ Global \subseteq a.held /\ a.held \subseteq Global \union a.round
        /\ a.round = ToSet(ring)
    BY <1>4 DEF Sane, FitsRing
  <2>2. l \in a.round
    BY <1>1, <2>1, ThreadsAreNoLocks DEF Above, Global, Outer
  <2>3. Holds(b) = Global \union ToSet(ring) /\ Holds(a) = a.held
    BY <1>2, <1>4 DEF Holds
  <2> QED  BY <1>1, <1>4, <2>1, <2>2, <2>3
<1> QED  BY <1>1, <1>3, <1>4

LEMMA LockStepStep ==
  ASSUME NEW pl, NEW D, NEW t, NEW x, NEW a, NEW b, NEW r,
         Ready(pl, D, t, x, a, b, r), LockStep(t)
  PROVE  Invariant'
<1>1. PICK l \in Locks :
        /\ At(t, Lock(l)) /\ owner[l] = NIL
        /\ owner' = [owner EXCEPT ![l] = t]
        /\ Done(t)
        /\ UNCHANGED <<world, holder, inCritical, asleep, allocating, stopped,
                       gc, made, fault>>
  BY DEF LockStep
<1>2. x = Lock(l) /\ x # Step("StopWorld")
  <2>1. Head(todo[t]) = x /\ Head(todo[t]) = Lock(l)
    BY <1>1, ReadyAt DEF At
  <2> QED  BY <2>1, LocksAreNoSteps DEF Kinds
<1>3. Locking(t, l, a, b)
  BY <1>2, ReadyAt DEF Rule, Lock
<1>4. todo' = [todo EXCEPT ![t] = r]
  BY <1>1, Called
<1>5. Sound /\ t \in Thread /\ r \in Seq(Steps)
  BY ReadyAt
<1>6. /\ owner \in [Locks -> exists \union {NIL}] /\ t \in exists
      /\ owner'[l] = t /\ \A k \in Locks \ {l} : owner'[k] = owner[k]
      /\ owner' \in [Locks -> exists \union {NIL}]
  BY <1>1, ReadyAt DEF Sound, HeapSound
<1>7. l = "activeMu" => stopped = {}
  BY <1>1, <1>5 DEF Sound, RingSound
<1>8. Sound'
  <2>1. GcTyped' /\ Roused'
    BY <1>1, <1>5 DEF Sound, GcTyped, HeapSound, Roused
  <2>2. HeapSound'
    BY <1>1, <1>5, <1>6, <2>1 DEF Sound, HeapSound, world
  <2>3. stopped' # {} => owner'["activeMu"] \notin stopped' \union {NIL}
    BY <1>1, <1>5, <1>6, <1>7 DEF Sound, RingSound, Locks, Global
  <2>4. RingSound'
    BY <1>1, <1>5, <2>3 DEF Sound, RingSound, world
  <2>5. todo' \in [Thread -> Seq(Steps)]
    BY <1>4, <1>5, OnlyMine
  <2> QED  BY <2>1, <2>2, <2>4, <2>5 DEF Sound
<1>9. /\ Holds(b) = Holds(a) \union {l} /\ b.wake = a.wake
      /\ b.round # {} => b.round = ToSet(ring)
      /\ \A f \in Flags \ {"all"} : f \in b.is <=> f \in a.is
      /\ b.depth = a.depth /\ Keeps(a, b)
  BY <1>3, LockLeads, ReadyAt DEF Locking
<1>10. /\ "in" \in b.is <=> "in" \in a.is
       /\ "alloc" \in b.is <=> "alloc" \in a.is
       /\ "fork" \in b.is <=> "fork" \in a.is
       /\ "on" \in b.is <=> "on" \in a.is
       /\ "dis" \in b.is <=> "dis" \in a.is
       /\ "ending" \in b.is <=> "ending" \in a.is
       /\ "world" \in b.is <=> "world" \in a.is
  BY <1>9 DEF Flags
<1>11. Fits(t, b)'
  <2>1. Holds(b)' = Holds(b)
    BY <1>1 DEF Holds, world
  <2>2. FitsLocks(t, b)'
    BY <1>1, <1>6, <1>9, <1>10, <2>1, ReadyAt DEF FitsLocks
  <2>3. FitsRing(t, b)'
    BY <1>1, <1>9, <1>10, ReadyAt DEF FitsRing, world
  <2>4. Knows(b)'
    BY <1>1, <1>9, ReadyAt, KeepsKnows
  <2> QED  BY <2>2, <2>3, <2>4 DEF Fits
<1>12. Untouched(t)
  <2>1. \A u \in exists \ {t} : todo'[u] = todo[u]
    BY <1>4, <1>5, OnlyMine
  <2>2. \A u \in exists \ {t} : \A k \in Locks : owner'[k] = u <=> owner[k] = u
    BY <1>1, <1>6, ReadyAt
  <2> QED  BY <1>1, <2>1, <2>2 DEF Untouched, world
<1>13. Leads(t, todo'[t], b)
  BY <1>4, <1>5, ReadyAt, OnlyMine
<1>14. stopped' # {} /\ owner'["activeMu"] = t => "world" \in b.is
  BY <1>1, <1>2, <1>6, <1>7, <1>10, ReadyAt DEF Locks, Global
<1> QED  BY <1>1, <1>8, <1>9, <1>10, <1>11, <1>12, <1>13, <1>14, ReadyAt, Moved

LEMMA UnlockStepStep ==
  ASSUME NEW pl, NEW D, NEW t, NEW x, NEW a, NEW b, NEW r,
         Ready(pl, D, t, x, a, b, r), UnlockStep(t)
  PROVE  Invariant'
<1>1. PICK l \in Locks :
        /\ At(t, Unlock(l))
        /\ Check(owner[l] = t)
        /\ owner' = [owner EXCEPT ![l] = NIL]
        /\ Done(t)
        /\ UNCHANGED <<world, holder, inCritical, asleep, allocating, stopped,
                       gc, made>>
  BY DEF UnlockStep
<1>2. x = Unlock(l) /\ x # Step("StopWorld")
  <2>1. Head(todo[t]) = x /\ Head(todo[t]) = Unlock(l)
    BY <1>1, ReadyAt DEF At
  <2> QED  BY <2>1, LocksAreNoSteps DEF Kinds
<1>3. Unlocking(t, l, a, b)
  BY <1>2, ReadyAt DEF Rule, Unlock
<1>4. /\ l \in a.held /\ "all" \notin a.is /\ a.round = {}
      /\ l = "activeMu" => "world" \notin a.is
      /\ b.depth = a.depth /\ b.held = a.held \ {l} /\ b.round = {}
      /\ b.is = a.is /\ b.wake \in {NIL, a.wake} /\ Keeps(a, b)
  BY <1>3 DEF Unlocking
<1>5. Sound /\ t \in Thread /\ r \in Seq(Steps) /\ t \in exists
      /\ FitsLocks(t, a) /\ FitsRing(t, a) /\ Knows(a)
  BY ReadyAt
<1>6. owner[l] = t
  BY <1>4, <1>5 DEF FitsLocks, Holds
<1>7. todo' = [todo EXCEPT ![t] = r] /\ fault' = fault
  BY <1>1, <1>6, Called DEF Check
<1>8. /\ owner \in [Locks -> exists \union {NIL}]
      /\ owner'[l] = NIL /\ \A k \in Locks \ {l} : owner'[k] = owner[k]
      /\ owner' \in [Locks -> exists \union {NIL}]
  BY <1>1, <1>5 DEF Sound, HeapSound
<1>9. l = "activeMu" => stopped = {}
  BY <1>2, <1>4, <1>6, ReadyAt
<1>10. Sound'
  <2>1. GcTyped' /\ Roused'
    BY <1>1, <1>5 DEF Sound, GcTyped, HeapSound, Roused
  <2>2. HeapSound'
    BY <1>1, <1>5, <1>8, <2>1 DEF Sound, HeapSound, world
  <2>3. stopped' # {} => owner'["activeMu"] \notin stopped' \union {NIL}
    BY <1>1, <1>5, <1>8, <1>9 DEF Sound, RingSound, Locks, Global
  <2>4. RingSound'
    BY <1>1, <1>5, <1>7, <2>3 DEF Sound, RingSound, world
  <2>5. todo' \in [Thread -> Seq(Steps)]
    BY <1>5, <1>7, OnlyMine
  <2> QED  BY <2>1, <2>2, <2>4, <2>5 DEF Sound
<1>11. Fits(t, b)'
  <2>1. Holds(b)' = Holds(a) \ {l}
    BY <1>1, <1>4 DEF Holds, world
  <2>2. FitsLocks(t, b)'
    BY <1>1, <1>4, <1>5, <1>8, <2>1, ThreadsAreNoLocks DEF FitsLocks
  <2>3. FitsRing(t, b)'
    BY <1>1, <1>4, <1>5 DEF FitsRing, world
  <2>4. Knows(b)'
    BY <1>1, <1>4, <1>5, KeepsKnows
  <2> QED  BY <2>2, <2>3, <2>4 DEF Fits
<1>12. Untouched(t)
  <2>1. \A u \in exists \ {t} : todo'[u] = todo[u]
    BY <1>5, <1>7, OnlyMine
  <2>2. \A u \in exists \ {t} : \A k \in Locks : owner'[k] = u <=> owner[k] = u
    BY <1>1, <1>6, <1>8, ReadyAt
  <2> QED  BY <1>1, <2>1, <2>2 DEF Untouched, world
<1>13. Leads(t, todo'[t], b)
  BY <1>5, <1>7, ReadyAt, OnlyMine
<1>14. stopped' # {} /\ owner'["activeMu"] = t => "world" \in b.is
  BY <1>1, <1>2, <1>4, <1>8, <1>9, ReadyAt DEF Locks, Global
<1> QED  BY <1>1, <1>4, <1>10, <1>11, <1>12, <1>13, <1>14, ReadyAt, Moved

-----------------------------------------------------------------------------
(* The heap lock.                                                          *)

\* Who has the lock of the heap and is not in it finds nobody else in it.
LEMMA HeapFree ==
  ASSUME NEW pl, NEW D, NEW t, NEW x, NEW a, NEW b, NEW r,
         Ready(pl, D, t, x, a, b, r), a.depth = 0, "heapMu" \in a.held
  PROVE  holder = NIL /\ inCritical = 0 /\ ~gc.on
<1>1. Sound /\ FitsLocks(t, a) /\ Invariantly(pl, D) /\ NIL \notin exists
  BY ReadyAt
<1>2. owner["heapMu"] = t
  BY <1>1 DEF FitsLocks, Holds, Locks, Global
<1>3. ASSUME holder # NIL PROVE FALSE
  <2>1. holder \in exists /\ inCritical \in 1 .. 3
    BY <1>1, <1>3 DEF Sound, HeapSound
  <2>2. holder # t
    BY <1>1, <2>1 DEF FitsLocks
  <2>3. Fits(holder, pl[holder]) /\ Sane(holder, pl[holder])
    BY <1>1, <2>1, LeadsSane DEF Invariantly, Placed
  <2>4. pl[holder].depth >= 1
    BY <2>1, <2>3 DEF Fits, FitsLocks
  <2>5. owner["heapMu"] = holder
    BY <2>3, <2>4 DEF Sane, Fits, FitsLocks, Holds, Locks, Global
  <2> QED  BY <1>2, <2>2, <2>5
<1> QED  BY <1>1, <1>3 DEF Sound, HeapSound

\* Only heapMu may have been given up.
MayDropHeap(t) ==
  \A l \in Locks :
    owner'[l] # owner[l] => l = "heapMu" /\ owner[l] = t /\ owner'[l] = NIL

\* A step that changes how deep t is in the heap lock, and maybe gives up
\* heapMu while it sleeps.
LEMMA DepthStep ==
  ASSUME NEW pl, NEW D, NEW t, NEW x, NEW a, NEW b, NEW r,
         Ready(pl, D, t, x, a, b, r), x # Step("StopWorld"),
         NEW q, NEW c, Leads(t, q, c), todo' = [todo EXCEPT ![t] = q],
         UNCHANGED <<world, allocating, stopped, gc, made, fault>>,
         holder = t \/ holder = NIL, holder' = t \/ holder' = NIL,
         MayDropHeap(t),
         HeapSound', FitsLocks(t, c)',
         c.round = a.round, c.wake = a.wake, c.is = a.is, Knows(c)
  PROVE  Invariant'
<1>1. Sound /\ t \in Thread /\ t \in exists /\ NIL \notin exists
      /\ q \in Seq(Steps) /\ NIL \notin Thread
  BY ReadyAt, LeadsSane, ThreadsAreNoLocks
<1>2. /\ todo' \in [Thread -> Seq(Steps)] /\ todo'[t] = q
      /\ \A u \in exists \ {t} : todo'[u] = todo[u]
  BY <1>1, OnlyMine
<1>3. /\ owner'["activeMu"] = owner["activeMu"]
      /\ \A u \in exists \ {t} : \A l \in Locks : owner'[l] = u <=> owner[l] = u
  BY <1>1 DEF MayDropHeap, Locks, Global
<1>4. Sound'
  <2>1. GcTyped'
    BY <1>1 DEF Sound, GcTyped
  <2>2. RingSound'
    BY <1>1, <1>3 DEF Sound, RingSound, world
  <2> QED  BY <1>2, <2>1, <2>2 DEF Sound
<1>5. Fits(t, c)'
  <2>1. FitsRing(t, c)'
    BY ReadyAt DEF FitsRing, world
  <2>2. Knows(c)'
    BY DEF Knows, world
  <2> QED  BY <2>1, <2>2 DEF Fits
<1>6. Untouched(t)
  <2>1. \A u \in exists \ {t} : holder' = u <=> holder = u
    BY <1>1
  <2>2. holder \notin exists \ {t}
    BY <1>1
  <2> QED  BY <1>1, <1>2, <1>3, <2>1, <2>2 DEF Untouched, world
<1>7. Leads(t, todo'[t], c)
  BY <1>2
<1>8. stopped' # {} /\ owner'["activeMu"] = t => "world" \in c.is
  BY <1>3, ReadyAt
<1> QED  BY <1>1, <1>4, <1>5, <1>6, <1>7, <1>8, ReadyAt, Moved

LEMMA LockHeapStep ==
  ASSUME NEW pl, NEW D, NEW t, NEW a, NEW b, NEW r,
         Ready(pl, D, t, Step("LockHeap"), a, b, r), LockHeap(t)
  PROVE  Invariant'
<1>1. HeapRule(t, "LockHeap", a, b)
  BY DEF Ready, Rule, Step
<1>2. /\ a.depth <= 2
      /\ a.depth = 0 => a.held \subseteq Outer /\ Free(a) /\ "in" \in a.is
      /\ b.depth = a.depth + 1 /\ b.held = a.held \union {"heapMu"}
      /\ b.round = a.round /\ b.wake = a.wake /\ b.is = a.is /\ Keeps(a, b)
  BY <1>1 DEF HeapRule
<1>3. /\ Sound /\ FitsLocks(t, a) /\ FitsRing(t, a) /\ Knows(a)
      /\ a \in Place /\ b \in Place /\ Sane(t, a) /\ Sane(t, b)
      /\ t \in exists /\ Leads(t, r, b) /\ NIL \notin exists
      /\ Step("LockHeap") # Step("StopWorld")
      /\ gc.disabled > 0 => gc.state = "Zero"
  BY ReadyAt DEF Step
<1>4. UNCHANGED <<world, owner, holder, asleep, allocating, stopped, gc, made,
                  fault>>
  BY DEF LockHeap
<1>5. a.depth \in 0 .. 3 /\ a.is \in SUBSET Flags
      /\ a.wake \in Thread \union {NIL}
      /\ b.know \in SUBSET (Lasting \union HeapFacts)
  BY <1>3, PlaceFields
<1>6. GcTyped' /\ Roused'
  BY <1>3, <1>4 DEF Sound, GcTyped, HeapSound, Roused
<1>7. CASE holder # t
  <2> DEFINE steps == <<Lock("heapMu"), Step("HoldHeap")>>
  <2>1. Call(t, steps) /\ inCritical' = inCritical
    BY <1>7 DEF LockHeap
  <2>2. /\ a.depth = 0 /\ a.held \subseteq Outer /\ Free(a) /\ "in" \in a.is
    BY <1>2, <1>3, <1>7 DEF FitsLocks
  <2>3. a.round = {}
    BY <1>3, <2>2 DEF Sane, Global, Outer
  <2>4. a.is \in SUBSET {"in", "dis", "ending"}
    <3>1. "on" \notin a.is
      BY <1>3, <2>2 DEF Sane
    <3> QED  BY <1>5, <2>2, <3>1 DEF Free, Flags
  <2>5. /\ b.know \in SUBSET Lasting
        /\ "unmade" \in b.know => "initMu" \in a.held
    BY <1>2, <1>3, <2>2 DEF Sane, Keeps
  <2>6. PICK c : c = Spot(a.wake, 0, a.held, a.is, b.know)
    OBVIOUS
  <2>7. b = Spot(a.wake, 1, a.held \union {"heapMu"}, a.is, b.know)
    <3>1. b.depth = 1 /\ b.round = {}
      BY <1>2, <2>2, <2>3
    <3> QED  BY <1>2, <1>3, <3>1, SpotOf
  <2>8. Piece(t, steps, c, b)
    BY <1>5, <2>2, <2>4, <2>5, <2>6, <2>7, TakeHeapPiece
  <2>9. Leads(t, steps \o r, c)
    BY <1>3, <2>8, CallLeads
  <2> HIDE DEF steps
  <2>10. todo' = [todo EXCEPT ![t] = steps \o r]
    BY <2>1, Called
  <2>11. /\ c.depth = a.depth /\ c.held = a.held /\ c.is = a.is
         /\ c.wake = a.wake /\ c.round = {} /\ c.know = b.know
    BY <2>2, <2>6, SpotFields
  <2>12. Knows(c)'
    BY <1>2, <1>3, <1>4, <2>11, KeepsKnows DEF Keeps
  <2>13. /\ Holds(c) = Holds(a)
         /\ "on" \in c.is <=> (holder = t /\ gc'.on)
    BY <1>3, <1>4, <2>11 DEF Holds, FitsLocks
  <2>14. /\ UNCHANGED <<world, owner, holder, inCritical, allocating, stopped,
                         made, fault>>
         /\ asleep' \subseteq asleep /\ gc' = gc
         /\ gc'.disabled > 0 => gc'.state = "Zero"
         /\ c.wake \in {NIL, a.wake} /\ (c.round # {} => c.round = ToSet(ring))
         /\ \A f \in Flags \ {"all", "on"} : f \in c.is <=> f \in a.is
    BY <1>3, <1>4, <2>1, <2>11
  <2> QED  BY <1>3, <1>6, <2>9, <2>10, <2>11, <2>12, <2>13, <2>14, OwnStep
<1>8. CASE holder = t
  <2>1. inCritical' = inCritical + 1 /\ todo' = [todo EXCEPT ![t] = r]
    BY <1>8, Called DEF LockHeap
  <2>2. a.depth = inCritical /\ inCritical \in 1 .. 2
    BY <1>2, <1>3, <1>8 DEF Sound, HeapSound, FitsLocks
  <2>3. b.held = a.held
    BY <1>2, <1>3, <2>2 DEF Sane
  <2>4. Holds(b) = Holds(a)
    BY <1>2, <2>3 DEF Holds
  <2>5. FitsLocks(t, b)'
    <3>1. Holds(b)' = Holds(b)
      BY <1>4 DEF Holds, world
    <3> QED  BY <1>2, <1>3, <1>4, <1>8, <2>1, <2>2, <2>4, <3>1 DEF FitsLocks
  <2>6. Knows(b)
    BY <1>2, <1>3 DEF Knows, Keeps
  <2>7. HeapSound'
    BY <1>3, <1>4, <1>6, <1>8, <2>1, <2>2 DEF Sound, HeapSound, world
  <2>8. /\ UNCHANGED <<world, allocating, stopped, gc, made, fault>>
        /\ (holder = t \/ holder = NIL) /\ (holder' = t \/ holder' = NIL)
        /\ MayDropHeap(t)
        /\ b.round = a.round /\ b.wake = a.wake /\ b.is = a.is
        /\ Leads(t, r, b) /\ Step("LockHeap") # Step("StopWorld")
    BY <1>2, <1>3, <1>4, <1>8 DEF MayDropHeap
  <2> QED  BY <2>1, <2>5, <2>6, <2>7, <2>8, DepthStep
<1> QED  BY <1>7, <1>8

\* HoldHeap and HaveWaited.
LEMMA EnterHeapStep ==
  ASSUME NEW pl, NEW D, NEW t, NEW x, NEW a, NEW b, NEW r,
         Ready(pl, D, t, x, a, b, r),
         x \in {Step("HoldHeap"), Step("HaveWaited")},
         HoldHeap(t) \/ HaveWaited(t)
  PROVE  Invariant'
<1>1. /\ a.depth = 0 /\ "heapMu" \in a.held
      /\ b.depth = 1 /\ b.held = a.held /\ b.round = a.round
      /\ b.wake = a.wake /\ b.is = a.is /\ Keeps(a, b)
  <2>1. CASE x = Step("HoldHeap")
    <3>1. HeapRule(t, "HoldHeap", a, b)
      BY <2>1 DEF Ready, Rule, Step
    <3> QED  BY <3>1 DEF HeapRule
  <2>2. CASE x = Step("HaveWaited")
    <3>1. HeapRule(t, "HaveWaited", a, b)
      BY <2>2 DEF Ready, Rule, Step
    <3> QED  BY <3>1 DEF HeapRule
  <2> QED  BY <2>1, <2>2
<1>2. holder = NIL /\ inCritical = 0 /\ ~gc.on
  BY <1>1, HeapFree
<1>3. /\ holder' = t /\ inCritical' = 1 /\ Done(t)
      /\ UNCHANGED <<world, owner, asleep, allocating, stopped, gc, made,
                     fault>>
  BY <1>2 DEF HoldHeap, HaveWaited, Check
<1>4. todo' = [todo EXCEPT ![t] = r] /\ x # Step("StopWorld")
  BY <1>3, Called DEF Step
<1>5. /\ Sound /\ FitsLocks(t, a) /\ Knows(a) /\ Leads(t, r, b)
      /\ t \in exists /\ NIL \notin exists
  BY ReadyAt
<1>6. FitsLocks(t, b)'
  <2>1. Holds(b)' = Holds(a)
    BY <1>1, <1>3 DEF Holds, world
  <2> QED  BY <1>1, <1>2, <1>3, <1>5, <2>1 DEF FitsLocks
<1>7. Knows(b)
  BY <1>1, <1>5 DEF Knows, Keeps
<1>8. HeapSound'
  BY <1>2, <1>3, <1>5 DEF Sound, HeapSound, Roused, world
<1>9. /\ UNCHANGED <<world, allocating, stopped, gc, made, fault>>
      /\ (holder = t \/ holder = NIL) /\ (holder' = t \/ holder' = NIL)
      /\ MayDropHeap(t)
      /\ b.round = a.round /\ b.wake = a.wake /\ b.is = a.is
      /\ Leads(t, r, b)
  BY <1>1, <1>2, <1>3, <1>5 DEF MayDropHeap
<1> QED  BY <1>4, <1>6, <1>7, <1>8, <1>9, DepthStep
LEMMA LeaveHeapMuPiece ==
  ASSUME NEW t, NEW a, NEW b \in Place, Sane(t, a), a.depth = 1, a.round = {},
         "all" \notin a.is, "on" \notin a.is, b.depth = 0,
         b.held = a.held \ {"heapMu"}, b.round = a.round, b.wake = a.wake,
         b.is = a.is, Forgets(a, b)
  PROVE  Piece(t, <<Unlock("heapMu")>>,
               Spot(a.wake, 0, a.held, a.is, b.know), b)
<1> DEFINE c == Spot(a.wake, 0, a.held, a.is, b.know)
<1>1. /\ c.depth = 0 /\ c.held = a.held /\ c.is = a.is /\ c.wake = a.wake
      /\ c.round = {} /\ c.know = b.know
  BY SpotFields
<1>2. c \in Place
  BY DEF Sane, Place, Spot
<1> HIDE DEF c
<1>3. Sane(t, c)
  <2>1. c.know \subseteq Lasting /\ c.know \subseteq a.know
    BY <1>1 DEF Forgets
  <2> QED  BY <1>1, <1>2, <2>1 DEF Sane
<1>4. Unlocking(t, "heapMu", c, b)
  <2>1. "heapMu" \in a.held /\ "heapMu" # a.wake /\ "heapMu" \notin Thread
    BY ThreadsAreNoLocks, PlaceFields DEF Sane, Global, NIL
  <2> QED  BY <1>1, <2>1 DEF Unlocking, Keeps
<1>5. Rule(t, Unlock("heapMu"), c, b)
  BY <1>3, <1>4, RuleByName DEF Locks, Global
<1>6. Piece(t, <<Unlock("heapMu")>>, c, b)
  BY <1>5, PieceOne, StepsKnown DEF Locks, Global
<1> QED  BY <1>6 DEF c

LEMMA UnlockHeapStep ==
  ASSUME NEW pl, NEW D, NEW t, NEW a, NEW b, NEW r,
         Ready(pl, D, t, Step("UnlockHeap"), a, b, r), UnlockHeap(t)
  PROVE  Invariant'
<1>1. HeapRule(t, "UnlockHeap", a, b)
  BY DEF Ready, Rule, Step
<1>2. /\ a.depth >= 1 /\ a.round = {} /\ "all" \notin a.is
      /\ a.depth = 1 => "on" \notin a.is
      /\ b.depth = a.depth - 1
      /\ b.held = IF a.depth = 1 THEN a.held \ {"heapMu"} ELSE a.held
      /\ b.round = a.round /\ b.wake = a.wake /\ b.is = a.is /\ Forgets(a, b)
  BY <1>1 DEF HeapRule
<1>3. /\ Sound /\ FitsLocks(t, a) /\ FitsRing(t, a) /\ Knows(a)
      /\ a \in Place /\ b \in Place /\ Sane(t, a) /\ Sane(t, b)
      /\ t \in exists /\ Leads(t, r, b) /\ NIL \notin exists
      /\ Step("UnlockHeap") # Step("StopWorld")
  BY ReadyAt DEF Step
<1>4. /\ holder = t /\ a.depth = inCritical /\ inCritical \in 1 .. 3
      /\ inCritical' = inCritical - 1
      /\ holder' = IF inCritical = 1 THEN NIL ELSE t
      /\ Call(t, IF inCritical = 1 THEN <<Unlock("heapMu")>> ELSE <<>>)
      /\ UNCHANGED <<world, owner, asleep, allocating, stopped, gc, made,
                     fault>>
  BY <1>2, <1>3 DEF UnlockHeap, LeaveHeap, Check, Sound, HeapSound, FitsLocks
<1>5. /\ UNCHANGED <<world, allocating, stopped, gc, made, fault>>
      /\ (holder = t \/ holder = NIL) /\ (holder' = t \/ holder' = NIL)
      /\ MayDropHeap(t)
  BY <1>4 DEF MayDropHeap
<1>6. HeapSound'
  <2>1. inCritical = 1 => ~gc.on
    BY <1>2, <1>3, <1>4 DEF FitsLocks, Sound, GcTyped
  <2>2. Roused'
    BY <1>3, <1>4 DEF Sound, HeapSound, Roused
  <2> QED  BY <1>3, <1>4, <2>1, <2>2 DEF Sound, HeapSound, world
<1>7. CASE inCritical = 1
  <2>1. PICK c : c = Spot(a.wake, 0, a.held, a.is, b.know)
    OBVIOUS
  <2>2. Piece(t, <<Unlock("heapMu")>>, c, b)
    BY <1>2, <1>3, <1>4, <1>7, <2>1, LeaveHeapMuPiece
  <2>3. PICK s : s = <<Unlock("heapMu")>>
    OBVIOUS
  <2>4. Leads(t, s \o r, c) /\ todo' = [todo EXCEPT ![t] = s \o r]
    <3>1. Call(t, s) /\ Piece(t, s, c, b) /\ Leads(t, r, b)
      BY <1>3, <1>4, <1>7, <2>2, <2>3
    <3>2. Leads(t, s \o r, c)
      BY <3>1, CallLeads
    <3> QED  BY <3>1, <3>2, Called
  <2>5. /\ c.depth = 0 /\ c.held = a.held /\ c.is = a.is
        /\ c.wake = a.wake /\ c.round = a.round /\ c.know = b.know
    BY <1>2, <2>1, SpotFields
  <2>6. Knows(c)
    BY <1>2, <1>3, <2>5 DEF Knows, Forgets
  <2>7. FitsLocks(t, c)'
    <3>1. Holds(c)' = Holds(a)
      BY <1>4, <2>5 DEF Holds, world
    <3>2. holder' = NIL /\ "on" \notin c.is /\ t # NIL
      BY <1>2, <1>3, <1>4, <1>7, <2>5
    <3> QED  BY <1>3, <1>4, <2>5, <3>1, <3>2 DEF FitsLocks
  <2> QED  BY <1>3, <1>5, <1>6, <2>4, <2>5, <2>6, <2>7, DepthStep
<1>8. CASE inCritical # 1
  <2>1. todo' = [todo EXCEPT ![t] = r]
    <3>1. Done(t)
      BY <1>4, <1>8 DEF Done
    <3> QED  BY <3>1, Called
  <2>2. Knows(b)
    BY <1>2, <1>3 DEF Knows, Forgets
  <2>3. FitsLocks(t, b)'
    <3>1. Holds(b)' = Holds(a)
      BY <1>2, <1>4, <1>8 DEF Holds, world
    <3> QED  BY <1>2, <1>3, <1>4, <1>8, <3>1 DEF FitsLocks
  <2> QED  BY <1>2, <1>3, <1>5, <1>6, <2>1, <2>2, <2>3, DepthStep
<1> QED  BY <1>7, <1>8

LEMMA WaitHeapStep ==
  ASSUME NEW pl, NEW D, NEW t, NEW a, NEW b, NEW r,
         Ready(pl, D, t, Step("WaitHeap"), a, b, r), WaitHeap(t)
  PROVE  Invariant'
<1>1. HeapRule(t, "WaitHeap", a, b)
  BY DEF Ready, Rule, Step
<1>2. /\ t \in Service /\ a.depth = 1 /\ a.held = {"heapMu"} /\ a.is = {"in"}
      /\ t = "WeakCleaner" => "none" \in a.know
      /\ t = "BackgroundThread" => {"zero", "waiting"} \subseteq a.know
      /\ Same(a, b) /\ Forgets(a, b)
  BY <1>1 DEF HeapRule
<1>3. /\ Sound /\ FitsLocks(t, a) /\ FitsRing(t, a) /\ Knows(a)
      /\ a \in Place /\ b \in Place /\ Sane(t, a) /\ Sane(t, b)
      /\ t \in exists /\ Leads(t, r, b) /\ NIL \notin exists
      /\ Step("WaitHeap") # Step("StopWorld")
  BY ReadyAt DEF Step
<1>4. /\ holder = t /\ inCritical = 1 /\ inCritical' = 0 /\ holder' = NIL
      /\ owner' = [owner EXCEPT !["heapMu"] = NIL]
      /\ owner["heapMu"] = t /\ ~gc.on
      /\ asleep' = asleep \union {t}
      /\ Call(t, <<Lock("heapMu"), Step("HaveWaited")>>)
      /\ UNCHANGED <<world, allocating, stopped, gc, made, fault>>
  BY <1>2, <1>3 DEF WaitHeap, Check, Sound, GcTyped, HeapSound, FitsLocks,
     Holds,
     Locks, Global
<1>5. /\ UNCHANGED <<world, allocating, stopped, gc, made, fault>>
      /\ (holder = t \/ holder = NIL) /\ (holder' = t \/ holder' = NIL)
      /\ MayDropHeap(t)
  BY <1>3, <1>4 DEF MayDropHeap, Sound, HeapSound
<1>6. HeapSound'
  <2>1. Roused'
    BY <1>2, <1>3, <1>4 DEF Sound, HeapSound, Roused, Knows
  <2>2. owner' \in [Locks -> exists \union {NIL}]
    BY <1>3, <1>4 DEF Sound, HeapSound
  <2> QED  BY <1>3, <1>4, <2>1, <2>2 DEF Sound, HeapSound, world
<1>7. PICK c : c = Spot(a.wake, 0, {}, {"in"}, b.know)
  OBVIOUS
<1>8. /\ c.depth = 0 /\ c.held = {} /\ c.is = a.is
      /\ c.wake = a.wake /\ c.round = {} /\ c.know = b.know /\ a.round = {}
  <2>1. a.round = {}
    BY <1>2, <1>3 DEF Sane, Global
  <2> QED  BY <1>2, <1>7, <2>1, SpotFields
<1>9. b = Spot(a.wake, 1, {"heapMu"}, {"in"}, b.know)
  BY <1>2, <1>3, <1>8, SpotOf DEF Same, SameLocks
<1>10. a.wake \in Thread \union {NIL} /\ b.know \in SUBSET {"live"}
  BY <1>2, <1>3, PlaceFields DEF Forgets, Lasting, Sane
<1>11. Piece(t, <<Lock("heapMu"), Step("HaveWaited")>>, c, b)
  BY <1>7, <1>9, <1>10, TakeHeapAgainPiece
<1>12. PICK s : s = <<Lock("heapMu"), Step("HaveWaited")>>
  OBVIOUS
<1>13. Leads(t, s \o r, c) /\ todo' = [todo EXCEPT ![t] = s \o r]
  <2>1. Call(t, s) /\ Piece(t, s, c, b) /\ Leads(t, r, b)
    BY <1>3, <1>4, <1>11, <1>12
  <2>2. Leads(t, s \o r, c)
    BY <2>1, CallLeads
  <2> QED  BY <2>1, <2>2, Called
<1>14. Knows(c)
  BY <1>2, <1>3, <1>8 DEF Knows, Forgets
<1>15. FitsLocks(t, c)'
  <2>1. Holds(c)' = {}
    BY <1>2, <1>8 DEF Holds
  <2>2. \A l \in Locks : owner'[l] # t
    BY <1>2, <1>3, <1>4 DEF FitsLocks, Holds, Sound, HeapSound
  <2> QED  BY <1>2, <1>3, <1>4, <1>8, <2>1, <2>2 DEF FitsLocks
<1> QED  BY <1>3, <1>5, <1>6, <1>8, <1>13, <1>14, <1>15, DepthStep

\* POSIX lets pthread_cond_wait return at any time.
LEMMA SpuriousWakeupStep ==
  ASSUME Sound, NEW pl, NEW D, Invariantly(pl, D), NEW t, SpuriousWakeup(t)
  PROVE  Invariant'
<1>1. /\ UNCHANGED <<world, todo, owner, holder, inCritical, allocating,
                     stopped, gc, made, fault>>
      /\ asleep' \subseteq asleep
  BY DEF SpuriousWakeup
<1>2. Sound'
  <2>1. GcTyped' /\ Roused'
    BY <1>1 DEF Sound, GcTyped, HeapSound, Roused
  <2>2. HeapSound'
    BY <1>1, <2>1 DEF Sound, HeapSound, world
  <2>3. RingSound'
    BY <1>1 DEF Sound, RingSound, world
  <2> QED  BY <1>1, <2>1, <2>2, <2>3 DEF Sound
<1>3. Placed(pl)'
  <2>1. SUFFICES ASSUME NEW u \in exists
                 PROVE  Fits(u, pl[u])' /\ Leads(u, todo'[u], pl[u])
    BY <1>1 DEF Placed, world
  <2>2. PICK a : a = pl[u]
    OBVIOUS
  <2>3. Fits(u, a) /\ Leads(u, todo[u], a)
    BY <2>1, <2>2 DEF Invariantly, Placed
  <2>4. Holds(a)' = Holds(a)
    BY <1>1 DEF Holds, world
  <2>5. FitsLocks(u, a)'
    BY <1>1, <2>3, <2>4 DEF Fits, FitsLocks
  <2>6. FitsRing(u, a)' /\ Knows(a)'
    BY <1>1, <2>3 DEF Fits, FitsRing, Knows, world
  <2>7. Fits(u, a)'
    BY <2>5, <2>6 DEF Fits
  <2> QED  BY <1>1, <2>2, <2>3, <2>7
<1>4. Counted(pl, D)' /\ Apart(pl)' /\ Stopper(pl)'
  BY <1>1 DEF Invariantly, Counted, Apart, Stopper, world
<1> QED  BY <1>2, <1>3, <1>4 DEF Invariant, Invariantly

-----------------------------------------------------------------------------
(* The steps of the clients.                                               *)

LEMMA CallTo ==
  ASSUME NEW pl, NEW D, NEW t, NEW x, NEW a, NEW b, NEW r,
         Ready(pl, D, t, x, a, b, r), NEW s, NEW c, Piece(t, s, c, b),
         Call(t, s)
  PROVE  Leads(t, s \o r, c) /\ todo' = [todo EXCEPT ![t] = s \o r]
<1>1. Leads(t, s \o r, c)
  BY CallLeads, ReadyAt
<1> QED  BY <1>1, Called

OnlyAll(a, c) == \A f \in Flags \ {"all"} : f \in c.is <=> f \in a.is

\* A step of t that changes nothing but what it has to do.
LEMMA QuietStep ==
  ASSUME NEW pl, NEW D, NEW t, NEW x, NEW a, NEW b, NEW r,
         Ready(pl, D, t, x, a, b, r), x # Step("StopWorld"),
         NEW q, NEW c, Leads(t, q, c), todo' = [todo EXCEPT ![t] = q],
         UNCHANGED <<world, locks, allocating, stopped, gc, made, fault>>,
         c.depth = a.depth, Holds(c) = Holds(a), c.wake \in {NIL, a.wake},
         c.round # {} => c.round = ToSet(ring), OnlyAll(a, c), Knows(c)
  PROVE  Invariant'
<1>1. /\ Sound /\ FitsLocks(t, a)
      /\ gc.disabled > 0 => gc.state = "Zero"
  BY ReadyAt
<1>2. GcTyped' /\ Roused' /\ asleep' \subseteq asleep
  BY <1>1 DEF Sound, GcTyped, HeapSound, Roused, locks
<1>3. Knows(c)'
  BY DEF Knows, world
<1>4. /\ "on" \in c.is <=> (holder = t /\ gc'.on)
      /\ \A f \in Flags \ {"all", "on"} : f \in c.is <=> f \in a.is
  BY <1>1 DEF FitsLocks, OnlyAll, Flags
<1>5. /\ gc' = gc /\ (gc'.disabled > 0 => gc'.state = "Zero")
      /\ UNCHANGED <<world, owner, holder, inCritical, allocating, stopped,
                     made, fault>>
  BY <1>1 DEF locks
<1> QED  BY <1>2, <1>3, <1>4, <1>5, OwnStep

\* What t knows outside of the locks lasts.
LEMMA IdleKnows ==
  ASSUME NEW t, NEW a, Sane(t, a), a.depth = 0, "initMu" \notin a.held
  PROVE  a.know \in SUBSET {"live"} /\ "on" \notin a.is
BY DEF Sane, Lasting

LEMMA NeedsMutexStep ==
  ASSUME NEW pl, NEW D, NEW t, NEW a, NEW b, NEW r,
         Ready(pl, D, t, Step("InitMutex"), a, b, r), NeedsMutex(t)
  PROVE  Invariant'
<1>1. WorldRule(t, "InitMutex", a, b)
  BY DEF Ready, Rule, Step
<1>2. a.held = {} /\ Free(a) /\ "in" \in a.is /\ Same(a, b) /\ Keeps(a, b)
  BY <1>1 DEF WorldRule
<1>3. /\ Sound /\ Knows(a) /\ a \in Place /\ b \in Place /\ Sane(t, a)
      /\ Leads(t, r, b) /\ Step("InitMutex") # Step("StopWorld")
  BY ReadyAt DEF Step
<1>4. /\ UNCHANGED <<world, locks, allocating, stopped, gc, made, fault>>
      /\ Call(t,
              IF made = 0 THEN <<Lock("initMu"), Step("MakeMutex")>> ELSE <<>>)
  BY DEF NeedsMutex
<1>5. /\ a.depth = 0 /\ a.round = {} /\ a.wake \in Thread \union {NIL}
      /\ a.is \in SUBSET {"in", "dis", "ending"} /\ a.know \in SUBSET {"live"}
      /\ b.know \in SUBSET {"live"}
  <2>1. a.depth = 0 /\ a.round = {}
    BY <1>2, <1>3, PlaceFields DEF Sane, Global
  <2>2. a.know \in SUBSET {"live"} /\ "on" \notin a.is
    BY <1>2, <1>3, <2>1, IdleKnows
  <2> QED  BY <1>2, <1>3, <2>1, <2>2, PlaceFields DEF Free, Flags, Keeps
<1>6. b = Spot(a.wake, 0, {}, a.is, b.know)
  BY <1>2, <1>3, <1>5, SpotOf DEF Same, SameLocks
<1>7. /\ b.depth = a.depth /\ Holds(b) = Holds(a) /\ b.wake \in {NIL, a.wake}
      /\ b.round # {} => b.round = ToSet(ring)
      /\ OnlyAll(a, b)
  BY <1>2, <1>5 DEF Same, SameLocks, Holds, OnlyAll
<1>8. Knows(b)
  BY <1>2, <1>3 DEF Knows, Keeps
<1>9. \E q : Leads(t, q, b) /\ todo' = [todo EXCEPT ![t] = q]
  <2>1. CASE made = 0
    <3>1. PICK s : s = <<Lock("initMu"), Step("MakeMutex")>>
      OBVIOUS
    <3>2. Piece(t, s, b, b)
      BY <1>2, <1>5, <1>6, <3>1, NeedsMutexPiece
    <3>3. Call(t, s)
      BY <1>4, <2>1, <3>1
    <3> QED  BY <3>2, <3>3, CallTo
  <2>2. CASE made # 0
    <3>1. Done(t)
      BY <1>4, <2>2 DEF Done
    <3> QED  BY <1>3, <3>1, Called
  <2> QED  BY <2>1, <2>2
<1>10. PICK q : Leads(t, q, b) /\ todo' = [todo EXCEPT ![t] = q]
  BY <1>9
<1> QED  BY <1>3, <1>4, <1>7, <1>8, <1>10, QuietStep

LEMMA InitMutexStep ==
  ASSUME NEW pl, NEW D, NEW t, NEW a, NEW b, NEW r,
         Ready(pl, D, t, Step("MakeMutex"), a, b, r), InitMutex(t)
  PROVE  Invariant'
<1>1. WorldRule(t, "MakeMutex", a, b)
  BY DEF Ready, Rule, Step
<1>2. /\ a.held = {"initMu"} /\ Free(a) /\ "in" \in a.is
      /\ b.depth = a.depth /\ b.held = {} /\ b.round = a.round
      /\ b.wake = a.wake /\ b.is = a.is /\ b.know \subseteq a.know \ {"unmade"}
  BY <1>1 DEF WorldRule
<1>3. /\ Sound /\ Knows(a) /\ a \in Place /\ b \in Place /\ Sane(t, a)
      /\ Sane(t, b) /\ Leads(t, r, b) /\ Step("MakeMutex") # Step("StopWorld")
  BY ReadyAt DEF Step
<1>4. /\ UNCHANGED <<world, locks, allocating, stopped, gc, made, fault>>
      /\ Call(t, IF Won THEN <<Step("LockHeap"), Step("UnlockHeap"),
                               Step("SetMutex"), Unlock("initMu")>>
                 ELSE <<Unlock("initMu")>>)
  BY DEF InitMutex
<1>5. /\ a.depth = 0 /\ a.round = {} /\ a.wake \in Thread \union {NIL}
      /\ a.is \in SUBSET {"in", "dis", "ending"}
      /\ b.know \in SUBSET {"live"}
  <2>1. a.depth = 0 /\ a.round = {}
    BY <1>2, <1>3, PlaceFields DEF Sane, Global
  <2>2. b.know \in SUBSET {"live"} /\ "on" \notin b.is
    BY <1>2, <1>3, <2>1, IdleKnows
  <2> QED  BY <1>2, <1>3, <2>1, <2>2, PlaceFields DEF Free, Flags
<1>6. b = Spot(a.wake, 0, {}, a.is, b.know)
  BY <1>2, <1>3, <1>5, SpotOf
<1>7. \E s, c : /\ Piece(t, s, c, b) /\ Call(t, s) /\ Knows(c)
                /\ c.depth = 0 /\ c.held = a.held /\ c.is = a.is
                /\ c.wake = a.wake /\ c.round = {}
  <2>1. CASE Won
    <3>1. PICK s : s = <<Step("LockHeap"), Step("UnlockHeap"),
                         Step("SetMutex"), Unlock("initMu")>>
      OBVIOUS
    <3>2. PICK c : c = Spot(a.wake, 0, {"initMu"}, a.is,
                            b.know \union {"unmade"})
      OBVIOUS
    <3>3. Piece(t, s, c, b)
      BY <1>2, <1>5, <1>6, <3>1, <3>2, MakeMutexPiece
    <3>4. /\ c.depth = 0 /\ c.held = a.held /\ c.is = a.is
          /\ c.wake = a.wake /\ c.round = {}
          /\ c.know = b.know \union {"unmade"}
      BY <1>2, <3>2, SpotFields
    <3>5. Knows(c)
      BY <1>2, <1>3, <2>1, <3>4 DEF Knows, Won
    <3>6. Call(t, s)
      BY <1>4, <2>1, <3>1
    <3> QED  BY <3>3, <3>4, <3>5, <3>6
  <2>2. CASE ~Won
    <3>1. PICK s : s = <<Unlock("initMu")>>
      OBVIOUS
    <3>2. PICK c : c = Spot(a.wake, 0, {"initMu"}, a.is, b.know)
      OBVIOUS
    <3>3. Piece(t, s, c, b)
      BY <1>2, <1>5, <1>6, <3>1, <3>2, MutexMadePiece
    <3>4. /\ c.depth = 0 /\ c.held = a.held /\ c.is = a.is
          /\ c.wake = a.wake /\ c.round = {} /\ c.know = b.know
      BY <1>2, <3>2, SpotFields
    <3>5. Knows(c)
      BY <1>2, <1>3, <3>4 DEF Knows
    <3>6. Call(t, s)
      BY <1>4, <2>2, <3>1
    <3> QED  BY <3>3, <3>4, <3>5, <3>6
  <2> QED  BY <2>1, <2>2
<1>8. PICK s, c : /\ Piece(t, s, c, b) /\ Call(t, s) /\ Knows(c)
                  /\ c.depth = 0 /\ c.held = a.held /\ c.is = a.is
                  /\ c.wake = a.wake /\ c.round = {}
  BY <1>7
<1>9. Leads(t, s \o r, c) /\ todo' = [todo EXCEPT ![t] = s \o r]
  BY <1>8, CallTo
<1>10. /\ c.depth = a.depth /\ Holds(c) = Holds(a) /\ c.wake \in {NIL, a.wake}
       /\ c.round # {} => c.round = ToSet(ring)
       /\ OnlyAll(a, c)
  BY <1>5, <1>8 DEF Holds, OnlyAll
<1> QED  BY <1>3, <1>4, <1>8, <1>9, <1>10, QuietStep

\* A step that changes none of the locks and nothing of the collector's.
LEMMA PlainStep ==
  ASSUME NEW pl, NEW D, NEW t, NEW x, NEW a, NEW b, NEW r,
         Ready(pl, D, t, x, a, b, r), Done(t),
         UNCHANGED <<process, exists, ring, locks, gc>>, SameLocks(a, b),
         \A f \in {"in", "all", "on", "dis", "ending"} :
           f \in b.is <=> f \in a.is,
         "alloc" \in b.is <=> t \in allocating',
         "fork" \in b.is <=> t \in deferred',
         \A u \in exists \ {t} : /\ u \in allocating' <=> u \in allocating
                                 /\ u \in deferred' <=> u \in deferred,
         made' = made \/ owner["initMu"] = t, Knows(b)', RingSound',
         stopped' # {} => stopped # {},
         stopped' # {} /\ owner["activeMu"] = t => "world" \in b.is
  PROVE  Invariant'
<1>1. /\ Sound /\ Invariantly(pl, D) /\ t \in Thread /\ t \in exists
      /\ pl[t] = a /\ Leads(t, r, b) /\ FitsLocks(t, a) /\ FitsRing(t, a)
      /\ gc.disabled > 0 => gc.state = "Zero"
      /\ r \in Seq(Steps) /\ todo' = [todo EXCEPT ![t] = r]
  BY ReadyAt, Called
<1>2. /\ todo' \in [Thread -> Seq(Steps)] /\ todo'[t] = r
      /\ \A u \in exists \ {t} : todo'[u] = todo[u]
  BY <1>1, OnlyMine
<1>3. Sound'
  <2>1. GcTyped' /\ Roused'
    BY <1>1 DEF Sound, GcTyped, HeapSound, Roused, locks
  <2>2. HeapSound'
    BY <1>1, <2>1 DEF Sound, HeapSound, locks
  <2> QED  BY <1>2, <2>1, <2>2 DEF Sound
<1>4. Fits(t, b)'
  <2>1. Holds(b)' = Holds(a)
    BY DEF Holds, SameLocks
  <2>2. FitsLocks(t, b)'
    BY <1>1, <2>1 DEF FitsLocks, SameLocks, locks
  <2>3. FitsRing(t, b)'
    BY <1>1 DEF FitsRing, SameLocks
  <2> QED  BY <2>2, <2>3 DEF Fits
<1>5. Untouched(t)
  BY <1>2 DEF Untouched, locks
<1>6. Leads(t, todo'[t], b) /\ b.wake \in {NIL, a.wake}
  BY <1>1, <1>2 DEF SameLocks
<1>7. /\ "ending" \in b.is => "ending" \in a.is
      /\ "dis" \in b.is <=> "dis" \in a.is
      /\ gc'.disabled = gc.disabled /\ (gc'.disabled > 0 => gc'.state = "Zero")
  BY <1>1
<1>8. owner' = owner
  BY DEF locks
<1> QED  BY <1>1, <1>3, <1>4, <1>5, <1>6, <1>7, <1>8, Moved

LEMMA SetMutexStep ==
  ASSUME NEW pl, NEW D, NEW t, NEW a, NEW b, NEW r,
         Ready(pl, D, t, Step("SetMutex"), a, b, r), SetMutex(t)
  PROVE  Invariant'
<1>1. WorldRule(t, "SetMutex", a, b)
  BY DEF Ready, Rule, Step
<1>2. "unmade" \in a.know /\ Same(a, b) /\ b.know \subseteq a.know \ {"unmade"}
  BY <1>1 DEF WorldRule
<1>3. /\ Sound /\ Knows(a) /\ Sane(t, a) /\ FitsLocks(t, a) /\ FitsRing(t, a)
      /\ Step("SetMutex") # Step("StopWorld") /\ t \in exists
  BY ReadyAt DEF Step
<1>4. /\ UNCHANGED <<world, locks, allocating, stopped, gc, fault>>
      /\ made = 0 /\ made' = 1 /\ Done(t) /\ owner["initMu"] = t
  BY <1>2, <1>3 DEF SetMutex, Knows, Sane, FitsLocks, Holds, Locks, Global
<1>5. RingSound'
  BY <1>3, <1>4 DEF Sound, RingSound, world, locks
<1>6. Knows(b)'
  BY <1>2, <1>3, <1>4 DEF Knows, world
<1>7. stopped' # {} /\ owner["activeMu"] = t => "world" \in b.is
  BY <1>2, <1>3, <1>4, ReadyAt DEF Same
<1>8. /\ "alloc" \in b.is <=> t \in allocating'
      /\ "fork" \in b.is <=> t \in deferred'
      /\ \A u \in exists \ {t} : /\ u \in allocating' <=> u \in allocating
                                 /\ u \in deferred' <=> u \in deferred
      /\ \A f \in {"in", "all", "on", "dis", "ending"} :
           f \in b.is <=> f \in a.is
  BY <1>2, <1>3, <1>4 DEF Same, FitsRing, world
<1>9. UNCHANGED <<process, exists, ring, locks, gc>> /\ SameLocks(a, b)
  BY <1>2, <1>4 DEF world, Same
<1> QED  BY <1>4, <1>5, <1>6, <1>7, <1>8, <1>9, PlainStep

LEMMA CriticalStep ==
  ASSUME NEW pl, NEW D, NEW t, NEW x, NEW a, NEW b, NEW r,
         Ready(pl, D, t, x, a, b, r), Critical(t)
  PROVE  Invariant'
<1>1. /\ UNCHANGED <<world, locks, stopped, gc, made, fault>> /\ Done(t)
      /\ \/ x = Step("Critical") /\ allocating' = allocating \union {t}
         \/ x = Step("Uncritical") /\ allocating' = allocating \ {t}
  <2>1. Head(todo[t]) = x
    BY ReadyAt
  <2> QED  BY <2>1 DEF Critical, At
<1>2. /\ SameLocks(a, b) /\ Keeps(a, b) /\ x # Step("StopWorld")
      /\ x = Step("Critical") => b.is = a.is \union {"alloc"}
      /\ x = Step("Uncritical") => b.is = a.is \ {"alloc"}
  <2>1. CASE x = Step("Critical")
    <3>1. WorldRule(t, "Critical", a, b) /\ x # Step("Uncritical")
      BY <2>1 DEF Ready, Rule, Step
    <3> QED  BY <2>1, <3>1 DEF WorldRule, Step
  <2>2. CASE x = Step("Uncritical")
    <3>1. WorldRule(t, "Uncritical", a, b) /\ x # Step("Critical")
      BY <2>2 DEF Ready, Rule, Step
    <3> QED  BY <2>2, <3>1 DEF WorldRule, Step
  <2> QED  BY <1>1, <2>1, <2>2
<1>3. /\ Sound /\ Knows(a) /\ FitsRing(t, a) /\ t \in exists
  BY ReadyAt
<1>4. /\ "alloc" \in b.is <=> t \in allocating'
      /\ "fork" \in b.is <=> t \in deferred'
      /\ \A u \in exists \ {t} : /\ u \in allocating' <=> u \in allocating
                                 /\ u \in deferred' <=> u \in deferred
      /\ \A f \in {"in", "all", "on", "dis", "ending"} :
           f \in b.is <=> f \in a.is
      /\ "world" \in b.is <=> "world" \in a.is
  BY <1>1, <1>2, <1>3 DEF FitsRing, world
<1>5. RingSound'
  BY <1>1, <1>3 DEF Sound, RingSound, world, locks
<1>6. Knows(b)'
  BY <1>1, <1>2, <1>3, KeepsKnows
<1>7. stopped' # {} /\ owner["activeMu"] = t => "world" \in b.is
  BY <1>1, <1>2, <1>4, ReadyAt
<1>8. UNCHANGED <<process, exists, ring, locks, gc>> /\ SameLocks(a, b)
  BY <1>1, <1>2 DEF world
<1> QED  BY <1>1, <1>4, <1>5, <1>6, <1>7, <1>8, PlainStep

-----------------------------------------------------------------------------
(* Suspension.                                                             *)

LEMMA StopWorldStep ==
  ASSUME NEW pl, NEW D, NEW t, NEW a, NEW b, NEW r,
         Ready(pl, D, t, Step("StopWorld"), a, b, r), StopWorld(t)
  PROVE  Invariant'
<1>1. WorldRule(t, "StopWorld", a, b)
  BY DEF Ready, Rule, Step
<1>2. /\ "activeMu" \in a.held /\ "live" \in a.know
      /\ SameLocks(a, b) /\ b.is = a.is \union {"world"} /\ Keeps(a, b)
  BY <1>1 DEF WorldRule
<1>3. /\ Sound /\ Invariantly(pl, D) /\ Knows(a) /\ FitsLocks(t, a)
      /\ FitsRing(t, a) /\ t \in Thread /\ t \in exists /\ pl[t] = a
      /\ t \notin stopped /\ todo[t] # <<>> /\ Head(todo[t]) = Step("StopWorld")
      /\ gc.disabled > 0 => gc.state = "Zero"
      /\ exists \subseteq Thread /\ NIL \notin exists
  BY ReadyAt DEF Ready
<1>4. /\ UNCHANGED <<world, locks, allocating, gc, made>>
      /\ owner["activeMu"] = t /\ ToSet(ring) \subseteq exists
  BY <1>2, <1>3 DEF StopWorld, Knows, FitsLocks, Holds, Locks, Global
<1>5. CASE \E u \in (ToSet(ring) \ {t})
                    \ (stopped \union allocating \union deferred) :
             IF u \in exists
             THEN /\ stopped' = stopped \union {u}
                  /\ UNCHANGED <<todo, fault>>
             ELSE /\ fault' = "no such thread"
                  /\ UNCHANGED <<todo, stopped>>
  <2>1. PICK u \in exists \ {t} :
          stopped' = stopped \union {u} /\ UNCHANGED <<todo, fault>>
    BY <1>4, <1>5
  <2>2. Sound'
    <3>1. GcTyped' /\ Roused'
      BY <1>3, <1>4 DEF Sound, GcTyped, HeapSound, Roused, locks
    <3>2. HeapSound'
      BY <1>3, <1>4, <3>1 DEF Sound, HeapSound, locks, world
    <3>3. stopped' \subseteq exists /\ t \notin stopped' /\ t # NIL
      BY <1>3, <2>1 DEF Sound, RingSound
    <3>4. RingSound'
      BY <1>3, <1>4, <2>1, <3>3 DEF Sound, RingSound, world, locks
    <3> QED  BY <1>3, <2>1, <3>1, <3>2, <3>4 DEF Sound
  <2>3. Fits(t, a)'
    <3>1. Holds(a)' = Holds(a)
      BY <1>4 DEF Holds, world
    <3>2. FitsLocks(t, a)'
      BY <1>3, <1>4, <3>1 DEF FitsLocks, locks
    <3>3. FitsRing(t, a)' /\ Knows(a)'
      BY <1>3, <1>4 DEF FitsRing, Knows, world
    <3> QED  BY <3>2, <3>3 DEF Fits
  <2>4. Untouched(t)
    BY <1>3, <1>4, <2>1 DEF Untouched, world, locks
  <2>5. Leads(t, todo'[t], a)
    BY <1>3, <2>1 DEF Invariantly, Placed
  <2>6. /\ owner'["activeMu"] = t /\ gc'.disabled = gc.disabled
        /\ gc'.disabled > 0 => gc'.state = "Zero"
        /\ todo'[t] # <<>> /\ Head(todo'[t]) = Step("StopWorld")
        /\ a.wake \in {NIL, a.wake} /\ ("ending" \in a.is => "ending" \in a.is)
        /\ "dis" \in a.is <=> "dis" \in a.is
    BY <1>3, <1>4, <2>1 DEF locks
  <2> QED  BY <1>3, <2>2, <2>3, <2>4, <2>5, <2>6, Moved
<1>6. CASE Done(t) /\ UNCHANGED <<stopped, fault>>
  <2>1. RingSound'
    BY <1>3, <1>4, <1>6 DEF Sound, RingSound, world, locks
  <2>2. Knows(b)'
    BY <1>2, <1>3, <1>4, KeepsKnows
  <2>3. /\ UNCHANGED <<process, exists, ring, locks, gc>>
        /\ stopped' # {} => stopped # {}
        /\ stopped' # {} /\ owner["activeMu"] = t => "world" \in b.is
        /\ made' = made \/ owner["initMu"] = t
    BY <1>2, <1>4, <1>6 DEF world
  <2>4. /\ "alloc" \in b.is <=> t \in allocating'
        /\ "fork" \in b.is <=> t \in deferred'
        /\ \A u \in exists \ {t} : /\ u \in allocating' <=> u \in allocating
                                   /\ u \in deferred' <=> u \in deferred
        /\ \A f \in {"in", "all", "on", "dis", "ending"} :
             f \in b.is <=> f \in a.is
    BY <1>2, <1>3, <1>4 DEF FitsRing, world
  <2> QED  BY <1>2, <1>6, <2>1, <2>2, <2>3, <2>4, PlainStep
<1> QED  BY <1>5, <1>6 DEF StopWorld

LEMMA StartWorldStep ==
  ASSUME NEW pl, NEW D, NEW t, NEW a, NEW b, NEW r,
         Ready(pl, D, t, Step("StartWorld"), a, b, r), StartWorld(t)
  PROVE  Invariant'
<1>1. WorldRule(t, "StartWorld", a, b)
  BY DEF Ready, Rule, Step
<1>2. SameLocks(a, b) /\ b.is = a.is \ {"world"} /\ Keeps(a, b)
  BY <1>1 DEF WorldRule
<1>3. Sound /\ Knows(a) /\ FitsRing(t, a)
  BY ReadyAt
<1>4. /\ UNCHANGED <<world, locks, allocating, gc, made, fault>>
      /\ stopped' = {} /\ Done(t)
  BY DEF StartWorld
<1>5. RingSound'
  BY <1>3, <1>4 DEF Sound, RingSound, world, locks
<1>6. Knows(b)'
  BY <1>2, <1>3, <1>4, KeepsKnows
<1>7. /\ UNCHANGED <<process, exists, ring, locks, gc>> /\ stopped' = {}
      /\ made' = made \/ owner["initMu"] = t
  BY <1>4 DEF world
<1>8. /\ "alloc" \in b.is <=> t \in allocating'
      /\ "fork" \in b.is <=> t \in deferred'
      /\ \A u \in exists \ {t} : /\ u \in allocating' <=> u \in allocating
                                 /\ u \in deferred' <=> u \in deferred
      /\ \A f \in {"in", "all", "on", "dis", "ending"} :
           f \in b.is <=> f \in a.is
  BY <1>2, <1>3, <1>4 DEF FitsRing, world
<1> QED  BY <1>2, <1>4, <1>5, <1>6, <1>7, <1>8, PlainStep

LEMMA EnterForkStep ==
  ASSUME NEW pl, NEW D, NEW t, NEW a, NEW b, NEW r,
         Ready(pl, D, t, Step("EnterFork"), a, b, r), EnterFork(t)
  PROVE  Invariant'
<1>1. ProcessRule(t, "EnterFork", a, b)
  BY DEF Ready, Rule, Step
<1>2. /\ "fork" \notin a.is /\ SameLocks(a, b) /\ Keeps(a, b)
      /\ Solaris => b.is = a.is \union {"fork"}
      /\ ~Solaris => b.is = a.is
  BY <1>1 DEF ProcessRule
<1>3. /\ Sound /\ Knows(a) /\ FitsRing(t, a) /\ t \in exists
      /\ Step("EnterFork") # Step("StopWorld")
  BY ReadyAt DEF Step
<1>4. /\ UNCHANGED <<process, exists, ring, locks, allocating, stopped, gc,
                     made,
                     fault>>
      /\ deferred' = IF Solaris THEN deferred \union {t} ELSE deferred
      /\ Done(t)
  BY DEF EnterFork
<1>5. RingSound'
  BY <1>3, <1>4 DEF Sound, RingSound, locks
<1>6. Knows(b)'
  BY <1>2, <1>3, <1>4 DEF Knows, Keeps
<1>7. /\ made' = made \/ owner["initMu"] = t
      /\ stopped' # {} => stopped # {}
      /\ stopped' # {} /\ owner["activeMu"] = t => "world" \in b.is
  BY <1>2, <1>3, <1>4, ReadyAt
<1>8. /\ "alloc" \in b.is <=> t \in allocating'
      /\ "fork" \in b.is <=> t \in deferred'
      /\ \A u \in exists \ {t} : /\ u \in allocating' <=> u \in allocating
                                 /\ u \in deferred' <=> u \in deferred
      /\ \A f \in {"in", "all", "on", "dis", "ending"} :
           f \in b.is <=> f \in a.is
  BY <1>2, <1>3, <1>4 DEF FitsRing
<1> QED  BY <1>2, <1>4, <1>5, <1>6, <1>7, <1>8, PlainStep

LEMMA LeaveForkStep ==
  ASSUME NEW pl, NEW D, NEW t, NEW a, NEW b, NEW r,
         Ready(pl, D, t, Step("LeaveFork"), a, b, r), LeaveFork(t)
  PROVE  Invariant'
<1>1. ProcessRule(t, "LeaveFork", a, b)
  BY DEF Ready, Rule, Step
<1>2. SameLocks(a, b) /\ b.is = a.is \ {"fork"} /\ Keeps(a, b)
  BY <1>1 DEF ProcessRule
<1>3. /\ Sound /\ Knows(a) /\ FitsRing(t, a) /\ t \in exists
      /\ Step("LeaveFork") # Step("StopWorld")
  BY ReadyAt DEF Step
<1>4. /\ UNCHANGED <<process, exists, ring, locks, allocating, stopped, gc,
                     made,
                     fault>>
      /\ deferred' = deferred \ {t} /\ Done(t)
  BY DEF LeaveFork
<1>5. RingSound'
  BY <1>3, <1>4 DEF Sound, RingSound, locks
<1>6. Knows(b)'
  BY <1>2, <1>3, <1>4 DEF Knows, Keeps
<1>7. /\ made' = made \/ owner["initMu"] = t
      /\ stopped' # {} => stopped # {}
      /\ stopped' # {} /\ owner["activeMu"] = t => "world" \in b.is
  BY <1>2, <1>3, <1>4, ReadyAt
<1>8. /\ "alloc" \in b.is <=> t \in allocating'
      /\ "fork" \in b.is <=> t \in deferred'
      /\ \A u \in exists \ {t} : /\ u \in allocating' <=> u \in allocating
                                 /\ u \in deferred' <=> u \in deferred
      /\ \A f \in {"in", "all", "on", "dis", "ending"} :
           f \in b.is <=> f \in a.is
  BY <1>2, <1>3, <1>4 DEF FitsRing
<1> QED  BY <1>2, <1>4, <1>5, <1>6, <1>7, <1>8, PlainStep

-----------------------------------------------------------------------------
(* Fork and the services.                                                  *)

LEMMA WalkRingStep ==
  ASSUME NEW pl, NEW D, NEW t, NEW x, NEW a, NEW b, NEW r,
         Ready(pl, D, t, x, a, b, r), WalkRing(t)
  PROVE  Invariant'
<1>1. /\ Sound /\ Knows(a) /\ FitsRing(t, a) /\ Leads(t, r, b)
      /\ Head(todo[t]) = x
      /\ a \in Place /\ b \in Place /\ Sane(t, a)
  BY ReadyAt
<1>2. UNCHANGED <<world, locks, allocating, stopped, gc, made, fault>>
  BY DEF WalkRing
<1>3. ring \in Seq(Thread) /\ IsInjective(ring)
  BY <1>1 DEF Sound, RingSound
<1>4. CASE /\ x = Step("LockRing")
           /\ Call(t, [i \in DOMAIN ring |-> Lock(RoundFrom(t)[i])])
  <2>1. ProcessRule(t, "LockRing", a, b) /\ x # Step("StopWorld")
    BY <1>4 DEF Ready, Rule, Step
  <2>2. /\ a.depth = 1 /\ a.held = Global /\ a.is = {"in"} /\ a.round = {}
        /\ a.wake = NIL /\ SameLocks(a, b) /\ b.is = {"in", "all"}
        /\ b.know \subseteq a.know \cap {"live"}
    BY <2>1 DEF ProcessRule
  <2>3. t \in ToSet(ring) /\ b.know \in SUBSET {"live"}
    BY <1>1, <2>2 DEF FitsRing
  <2>4. PICK c : c = Round({}, b.know)
    OBVIOUS
  <2>5. b = Spot(NIL, 1, Global, {"in", "all"}, b.know)
    BY <1>1, <2>2, SpotOf DEF SameLocks
  <2> DEFINE s == [i \in DOMAIN ring |-> Lock(RoundFrom(t)[i])]
  <2>6. Call(t, s)
    BY <1>4
  <2>7. Piece(t, s, c, b)
    <3>1. Piece(t, s, Round({}, b.know),
                Spot(NIL, 1, Global, {"in", "all"}, b.know))
      BY <1>3, <2>3, LockRingPiece, Zenon
    <3> HIDE DEF s
    <3> QED  BY <2>4, <2>5, <3>1
  <2> HIDE DEF s
  <2>8. Leads(t, s \o r, c) /\ todo' = [todo EXCEPT ![t] = s \o r]
    BY <2>6, <2>7, CallTo
  <2>9. /\ c.depth = 1 /\ c.held = Global /\ c.is = {"in"} /\ c.wake = NIL
        /\ c.round = ToSet(ring) /\ c.know = b.know
    BY <2>4 DEF Round
  <2>10. /\ c.depth = a.depth /\ Holds(c) = Holds(a) /\ c.wake \in {NIL, a.wake}
         /\ c.round # {} => c.round = ToSet(ring)
         /\ OnlyAll(a, c)
    BY <2>2, <2>9 DEF Holds, OnlyAll
  <2>11. Knows(c)
    BY <1>1, <2>2, <2>9 DEF Knows
  <2> QED  BY <1>2, <2>1, <2>8, <2>10, <2>11, QuietStep
<1>5. CASE /\ x = Step("UnlockRing")
           /\ Call(t, [i \in DOMAIN ring |-> Unlock(RoundFrom(t)[i])])
  <2>1. ProcessRule(t, "UnlockRing", a, b) /\ x # Step("StopWorld")
    BY <1>5 DEF Ready, Rule, Step
  <2>2. /\ a.depth = 1 /\ "all" \in a.is /\ a.is \subseteq {"in", "all", "fork"}
        /\ a.wake = NIL /\ SameLocks(a, b) /\ b.is = a.is \ {"all"}
        /\ b.know \subseteq a.know \cap {"live"}
    BY <2>1 DEF ProcessRule
  <2>3. a.held = Global /\ a.round = {} /\ "in" \in a.is
    BY <1>1, <2>2 DEF Sane
  <2>4. t \in ToSet(ring) /\ b.know \in SUBSET {"live"}
    BY <1>1, <2>2, <2>3 DEF FitsRing
  <2>5. PICK f \in SUBSET {"fork"} : b.is = {"in"} \union f
    <3>1. b.is = {"in"} \union (b.is \cap {"fork"})
      BY <2>2, <2>3
    <3> QED  BY <3>1
  <2>6. PICK c : c = Back(ToSet(ring), {"in"} \union f, b.know)
    OBVIOUS
  <2>7. b = Spot(NIL, 1, Global, {"in"} \union f, b.know)
    BY <1>1, <2>2, <2>3, <2>5, SpotOf DEF SameLocks
  <2> DEFINE s == [i \in DOMAIN ring |-> Unlock(RoundFrom(t)[i])]
  <2>8. Call(t, s)
    BY <1>5
  <2>9. Piece(t, s, c, b)
    <3>1. Piece(t, s, Back(ToSet(ring), {"in"} \union f, b.know),
                Spot(NIL, 1, Global, {"in"} \union f, b.know))
      BY <1>3, <2>4, UnlockRingPiece, Zenon
    <3> HIDE DEF s
    <3> QED  BY <2>6, <2>7, <3>1
  <2> HIDE DEF s
  <2>10. Leads(t, s \o r, c) /\ todo' = [todo EXCEPT ![t] = s \o r]
    BY <2>8, <2>9, CallTo
  <2>11. /\ c.depth = 1 /\ c.held = Global \union ToSet(ring) /\ c.is = b.is
         /\ c.wake = NIL /\ c.round = {} /\ c.know = b.know
    BY <2>5, <2>6 DEF Back
  <2>12. /\ c.depth = a.depth /\ Holds(c) = Holds(a) /\ c.wake \in {NIL, a.wake}
         /\ c.round # {} => c.round = ToSet(ring)
         /\ OnlyAll(a, c)
    BY <2>2, <2>3, <2>11 DEF Holds, OnlyAll
  <2>13. Knows(c)
    BY <1>1, <2>2, <2>11 DEF Knows
  <2> QED  BY <1>2, <2>1, <2>10, <2>12, <2>13, QuietStep
<1> QED  BY <1>1, <1>4, <1>5 DEF WalkRing, At

\* A step of t that changes nothing but gc.started.
LEMMA StartedStep ==
  ASSUME NEW pl, NEW D, NEW t, NEW x, NEW a, NEW b, NEW r,
         Ready(pl, D, t, x, a, b, r), x # Step("StopWorld"),
         NEW q, Leads(t, q, b), todo' = [todo EXCEPT ![t] = q],
         UNCHANGED <<world, locks, allocating, stopped, made, fault>>,
         NEW S \in SUBSET Service, gc' = [gc EXCEPT !.started = S],
         Same(a, b), Keeps(a, b)
  PROVE  Invariant'
<1>1. /\ Sound /\ FitsLocks(t, a) /\ FitsRing(t, a) /\ Knows(a)
      /\ gc.disabled > 0 => gc.state = "Zero"
  BY ReadyAt
<1>2. /\ gc'.state = gc.state /\ gc'.on = gc.on /\ gc'.dead = gc.dead
      /\ gc'.backgroundWaiting = gc.backgroundWaiting
      /\ gc'.signalWeak = gc.signalWeak /\ gc'.disabled = gc.disabled
      /\ gc'.signalBackground = gc.signalBackground
      /\ GcTyped'
  BY <1>1 DEF Sound, GcTyped
<1>3. Roused' /\ asleep' \subseteq asleep
  BY <1>1, <1>2 DEF Sound, HeapSound, Roused, locks
<1>4. Knows(b)'
  BY <1>1, <1>2, KeepsKnows
<1>5. /\ b.depth = a.depth /\ Holds(b) = Holds(a) /\ b.wake \in {NIL, a.wake}
      /\ b.round # {} => b.round = ToSet(ring)
      /\ \A f \in Flags \ {"all", "on"} : f \in b.is <=> f \in a.is
      /\ "on" \in b.is <=> (holder = t /\ gc'.on)
  BY <1>1, <1>2 DEF Same, SameLocks, Holds, FitsRing, FitsLocks
<1>6. /\ UNCHANGED <<world, owner, holder, inCritical, allocating, stopped,
                     made, fault>>
      /\ gc'.disabled > 0 => gc'.state = "Zero"
  BY <1>1, <1>2 DEF locks
<1> QED  BY <1>2, <1>3, <1>4, <1>5, <1>6, OwnStep

LEMMA StartStep ==
  ASSUME NEW pl, NEW D, NEW t, NEW x, NEW a, NEW b, NEW r,
         Ready(pl, D, t, x, a, b, r), Start(t)
  PROVE  Invariant'
<1>1. PICK s \in Service :
        /\ x = <<"start", s>>
        /\ gc' = [gc EXCEPT !.started = @ \union {s}]
        /\ todo' = [todo EXCEPT ![t] =
                      Tail(@) \o (IF s \in gc.started THEN <<>>
                                  ELSE <<<<"create", s>>>>)]
        /\ UNCHANGED <<world, locks, allocating, stopped, made, fault>>
  <2>1. Head(todo[t]) = x
    BY ReadyAt
  <2> QED  BY <2>1 DEF Start, At
<1>2. WorldRule(t, "start", a, b) /\ x # Step("StopWorld")
  BY <1>1 DEF Ready, Rule, Step
<1>3. Same(a, b) /\ Keeps(a, b)
  BY <1>2 DEF WorldRule
<1>4. Leads(t, r, b) /\ Sound /\ Tail(todo[t]) = r /\ t \in Thread
      /\ r \in Seq(Steps)
  BY ReadyAt DEF Ready
<1>5. PICK e : IsEnd(e) /\ Piece(t, r, b, e)
  BY <1>4 DEF Leads
<1>6. Piece(t, <<<<"create", s>>>>, e, e)
  <2>1. e \in Place /\ Sane(t, e)
    BY <1>5, EndSane DEF IsEnd
  <2>2. WorldRule(t, "create", e, e)
    BY DEF WorldRule, Same, SameLocks, Keeps
  <2>3. Rule(t, <<"create", s>>, e, e)
    BY <2>1, <2>2, RuleByName
  <2> QED  BY <2>3, PieceOne, StepsKnown
<1>7. \E q : Leads(t, q, b) /\ todo' = [todo EXCEPT ![t] = q]
  <2>1. CASE s \in gc.started
    <3>1. r \o <<>> = r
      BY <1>4, ConcatEmptySeq
    <3>2. todo' = [todo EXCEPT ![t] = r \o <<>>]
      BY <1>1, <1>4, <2>1
    <3> QED  BY <1>4, <3>1, <3>2
  <2>2. CASE s \notin gc.started
    <3>1. PICK c : c = <<<<"create", s>>>>
      OBVIOUS
    <3>2. todo' = [todo EXCEPT ![t] = r \o c]
      BY <1>1, <1>4, <2>2, <3>1
    <3>3. Piece(t, r \o c, b, e)
      BY <1>5, <1>6, <3>1, PieceConcat
    <3> QED  BY <1>5, <3>2, <3>3 DEF Leads
  <2> QED  BY <2>1, <2>2
<1>8. PICK q : Leads(t, q, b) /\ todo' = [todo EXCEPT ![t] = q]
  BY <1>7
<1>9. \E S \in SUBSET Service : gc' = [gc EXCEPT !.started = S]
  BY <1>1, <1>4 DEF Sound, GcTyped
<1> QED  BY <1>1, <1>2, <1>3, <1>8, <1>9, StartedStep

LEMMA ForgetStartedStep ==
  ASSUME NEW pl, NEW D, NEW t, NEW a, NEW b, NEW r,
         Ready(pl, D, t, Step("ForgetStarted"), a, b, r), ForgetStarted(t)
  PROVE  Invariant'
<1>1. WorldRule(t, "ForgetStarted", a, b)
  BY DEF Ready, Rule, Step
<1>2. Same(a, b) /\ Keeps(a, b)
  BY <1>1 DEF WorldRule
<1>3. /\ UNCHANGED <<world, locks, allocating, stopped, made, fault>>
      /\ gc' = [gc EXCEPT !.started = {}] /\ Done(t)
  BY DEF ForgetStarted
<1>4. todo' = [todo EXCEPT ![t] = r] /\ Leads(t, r, b)
      /\ Step("ForgetStarted") # Step("StopWorld") /\ {} \in SUBSET Service
  BY <1>3, Called, ReadyAt DEF Step
<1> QED  BY <1>2, <1>3, <1>4, StartedStep

-----------------------------------------------------------------------------
(* The ring and the threads of a process.                                  *)

LEMMA Appended ==
  ASSUME NEW s \in Seq(Thread), IsInjective(s), NEW t \in Thread,
         t \notin ToSet(s)
  PROVE  /\ Append(s, t) \in Seq(Thread) /\ IsInjective(Append(s, t))
         /\ ToSet(Append(s, t)) = ToSet(s) \union {t}
<1> DEFINE n == Len(s)
           q == Append(s, t)
<1>1. /\ n \in Nat /\ DOMAIN s = 1 .. n
      /\ \A i \in 1 .. n : s[i] \in Thread /\ s[i] \in ToSet(s)
      /\ \A i, j \in 1 .. n : s[i] = s[j] => i = j
      /\ \A u \in ToSet(s) : \E i \in 1 .. n : s[i] = u
  BY LenProperties, ElementOfSeq DEF ToSet, IsInjective
<1>2. /\ q \in Seq(Thread) /\ Len(q) = n + 1 /\ DOMAIN q = 1 .. n + 1
      /\ \A i \in 1 .. n : q[i] = s[i]
      /\ q[n + 1] = t
  BY <1>1
<1> HIDE DEF q, n
<1>3. IsInjective(q)
  <2>1. SUFFICES ASSUME NEW i \in 1 .. n + 1, NEW j \in 1 .. n + 1, q[i] = q[j]
                 PROVE  i = j
    BY <1>2 DEF IsInjective
  <2>2. CASE i \in 1 .. n /\ j \in 1 .. n
    BY <1>1, <1>2, <2>1, <2>2
  <2>3. CASE i = n + 1 \/ j = n + 1
    <3>1. \A k \in 1 .. n : q[k] # t
      BY <1>1, <1>2
    <3>2. \A k \in 1 .. n + 1 : q[k] = t => k = n + 1
      BY <1>1, <3>1
    <3> QED  BY <1>2, <2>1, <2>3, <3>2
  <2> QED  BY <1>1, <2>2, <2>3
<1>4. ToSet(q) = ToSet(s) \union {t}
  <2>1. \A u \in ToSet(s) : \E i \in 1 .. n + 1 : q[i] = u
    BY <1>1, <1>2
  <2>2. n + 1 \in 1 .. n + 1
    BY <1>1
  <2>3. \A i \in 1 .. n + 1 : q[i] \in ToSet(s) \union {t}
    BY <1>1, <1>2
  <2> QED  BY <1>2, <2>1, <2>2, <2>3 DEF ToSet
<1> QED  BY <1>2, <1>3, <1>4 DEF q

LEMMA Removed ==
  ASSUME NEW s \in Seq(Thread), IsInjective(s), NEW me \in DOMAIN s
  PROVE  /\ RemoveAt(s, me) \in Seq(Thread) /\ IsInjective(RemoveAt(s, me))
         /\ ToSet(RemoveAt(s, me)) = ToSet(s) \ {s[me]}
<1> DEFINE n == Len(s)
           h == SubSeq(s, 1, me - 1)
           r == SubSeq(s, me + 1, n)
           q == h \o r
<1>1. /\ n \in Nat /\ DOMAIN s = 1 .. n
      /\ \A i \in 1 .. n : s[i] \in Thread /\ s[i] \in ToSet(s)
      /\ \A i, j \in 1 .. n : s[i] = s[j] => i = j
      /\ \A u \in ToSet(s) : \E i \in 1 .. n : s[i] = u
      /\ me \in 1 .. n
  BY LenProperties, ElementOfSeq DEF ToSet, IsInjective
<1>2. /\ h \in Seq(Thread) /\ Len(h) = me - 1
      /\ \A i \in 1 .. me - 1 : h[i] = s[i]
  <2>1. 1 \in 1 .. Len(s) + 1 /\ me - 1 \in 1 - 1 .. Len(s)
    BY <1>1
  <2>2. Len(h) = IF 1 <= me - 1 THEN me - 1 - 1 + 1 ELSE 0
    BY <1>1, <2>1, SubSeqProperties
  <2> QED  BY <1>1, <2>1, <2>2, SubSeqProperties
<1>3. /\ r \in Seq(Thread) /\ Len(r) = n - me
      /\ \A i \in 1 .. n - me : r[i] = s[me + i]
  <2>1. me + 1 \in 1 .. Len(s) + 1 /\ n \in (me + 1) - 1 .. Len(s)
    BY <1>1
  <2>2. Len(r) = IF me + 1 <= n THEN n - (me + 1) + 1 ELSE 0
    BY <1>1, <2>1, SubSeqProperties
  <2>3. /\ r \in Seq(Thread)
        /\ \A i \in 1 .. n - (me + 1) + 1 : r[i] = s[(me + 1) + i - 1]
    BY <1>1, <2>1, SubSeqProperties
  <2>4. \A i \in 1 .. n - me :
          i \in 1 .. n - (me + 1) + 1 /\ (me + 1) + i - 1 = me + i
    BY <1>1
  <2> QED  BY <1>1, <2>2, <2>3, <2>4
<1> HIDE DEF h, r
<1>4. /\ q \in Seq(Thread) /\ Len(q) = Len(h) + Len(r)
      /\ \A i \in 1 .. Len(h) + Len(r) :
           q[i] = IF i <= Len(h) THEN h[i] ELSE r[i - Len(h)]
  BY <1>2, <1>3, ConcatProperties
<1>5. DOMAIN q = 1 .. Len(q)
  BY <1>4, LenProperties
<1> HIDE DEF q, n
<1> DEFINE at(k) == IF k < me THEN k ELSE k + 1
<1>6. /\ Len(q) = n - 1 /\ DOMAIN q = 1 .. n - 1
      /\ \A i \in 1 .. n - 1 : at(i) \in 1 .. n /\ at(i) # me /\ q[i] = s[at(i)]
  <2>1. Len(q) = n - 1
    BY <1>1, <1>2, <1>3, <1>4
  <2>2. ASSUME NEW i \in 1 .. n - 1
        PROVE  at(i) \in 1 .. n /\ at(i) # me /\ q[i] = s[at(i)]
    <3>1. CASE i < me
      <4>1. i \in 1 .. me - 1 /\ q[i] = h[i]
        BY <1>1, <1>2, <1>3, <1>4, <3>1
      <4> QED  BY <1>1, <1>2, <3>1, <4>1
    <3>2. CASE i >= me
      <4>1. /\ i - (me - 1) \in 1 .. n - me /\ q[i] = r[i - (me - 1)]
            /\ me + (i - (me - 1)) = i + 1
        <5>1. i \in 1 .. Len(h) + Len(r) /\ ~ i <= Len(h)
          BY <1>1, <1>2, <1>3, <3>2
        <5>2. q[i] = r[i - Len(h)]
          BY <1>4, <5>1
        <5> QED  BY <1>1, <1>2, <3>2, <5>2
      <4>2. q[i] = s[i + 1]
        BY <1>3, <4>1
      <4> QED  BY <1>1, <3>2, <4>1, <4>2
    <3> QED  BY <1>1, <3>1, <3>2
  <2> QED  BY <1>5, <2>1, <2>2
<1>7. IsInjective(q)
  <2>1. SUFFICES ASSUME NEW i \in 1 .. n - 1, NEW j \in 1 .. n - 1, q[i] = q[j]
                 PROVE  i = j
    BY <1>6 DEF IsInjective
  <2>2. at(i) = at(j)
    <3> HIDE DEF at
    <3> QED  BY <1>1, <1>6, <2>1
  <2> QED  BY <1>1, <2>2
<1>8. ToSet(q) = ToSet(s) \ {s[me]}
  <2>1. \A i \in 1 .. n - 1 : q[i] \in ToSet(s) \ {s[me]}
    <3> HIDE DEF at
    <3> QED  BY <1>1, <1>6
  <2>2. ASSUME NEW u \in ToSet(s) \ {s[me]} PROVE \E i \in 1 .. n - 1 : q[i] = u
    <3>1. PICK j \in 1 .. n : s[j] = u /\ j # me
      BY <1>1
    <3>2. CASE j < me
      <4>1. j \in 1 .. n - 1 /\ at(j) = j
        BY <1>1, <3>2
      <4>2. q[j] = s[j]
        <5> HIDE DEF at
        <5> QED  BY <1>6, <4>1
      <4> QED  BY <3>1, <4>1, <4>2
    <3>3. CASE j > me
      <4>1. j - 1 \in 1 .. n - 1 /\ at(j - 1) = j
        BY <1>1, <3>3
      <4>2. q[j - 1] = s[j]
        <5> HIDE DEF at
        <5> QED  BY <1>6, <4>1
      <4> QED  BY <3>1, <4>1, <4>2
    <3> QED  BY <1>1, <3>1, <3>2, <3>3
  <2>3. ToSet(q) = {q[i] : i \in 1 .. n - 1}
    BY <1>6 DEF ToSet
  <2> HIDE DEF at
  <2> QED  BY <2>1, <2>2, <2>3
<1>9. q = RemoveAt(s, me)
  BY DEF q, h, r, n, RemoveAt
<1> QED  BY <1>4, <1>7, <1>8, <1>9

\* With activeMu t may change its own membership of the ring: nobody else holds
\* what it holds because of the ring.
LEMMA RingStep ==
  ASSUME NEW pl, NEW D, NEW t, NEW x, NEW a, NEW b, NEW r,
         Ready(pl, D, t, x, a, b, r), x # Step("StopWorld"), Done(t),
         UNCHANGED <<process, exists, deferred, locks, allocating, stopped, gc,
                     made, fault>>,
         a.held = {"activeMu"}, a.is \subseteq {"in", "ending"},
         SameLocks(a, b), b.is \subseteq {"in"}, Keeps(a, b),
         ring' \in Seq(Thread), IsInjective(ring'),
         \A u \in Thread \ {t} : u \in ToSet(ring)' <=> u \in ToSet(ring),
         "in" \in b.is <=> t \in ToSet(ring)',
         \A u \in exists : pl[u].wake # t
  PROVE  Invariant'
<1>1. /\ Sound /\ Invariantly(pl, D) /\ Counted(pl, D) /\ t \in Thread
      /\ t \in exists /\ pl[t] = a /\ a \in Place /\ b \in Place
      /\ Sane(t, a) /\ Knows(a) /\ FitsLocks(t, a) /\ FitsRing(t, a)
      /\ Leads(t, r, b) /\ exists \subseteq Thread /\ NIL \notin exists
      /\ stopped # {} /\ owner["activeMu"] = t => "world" \in a.is
      /\ pl \in [Thread -> Place] /\ D \in SUBSET Client
  BY ReadyAt DEF Invariantly
<1>2. todo' = [todo EXCEPT ![t] = r] /\ r \in Seq(Steps)
  BY Called, ReadyAt
<1>3. /\ todo' \in [Thread -> Seq(Steps)] /\ todo'[t] = r
      /\ \A u \in exists \ {t} : todo'[u] = todo[u]
  BY <1>1, <1>2, OnlyMine
<1>4. ToSet(ring)' \subseteq Thread
  BY LenProperties, ElementOfSeq DEF ToSet
<1>5. owner["activeMu"] = t /\ ~(stopped # {})
  BY <1>1 DEF FitsLocks, Holds, Locks, Global
<1>6. Sound'
  <2>1. GcTyped' /\ Roused'
    BY <1>1 DEF Sound, GcTyped, HeapSound, Roused, locks
  <2>2. HeapSound'
    BY <1>1, <2>1 DEF Sound, HeapSound, locks
  <2>3. process' = "parent" => ToSet(ring)' \subseteq exists
    BY <1>1, <1>4 DEF Sound, RingSound
  <2>4. RingSound'
    BY <1>1, <1>4, <2>3 DEF Sound, RingSound, locks
  <2> QED  BY <1>3, <2>1, <2>2, <2>4 DEF Sound
<1>7. PICK ql \in [Thread -> Place] : ql = [pl EXCEPT ![t] = b]
  BY <1>1
<1>8. ql[t] = b /\ \A u \in Thread \ {t} : ql[u] = pl[u]
  BY <1>1, <1>7
<1>9. Placed(ql)'
  <2>1. SUFFICES ASSUME NEW u \in exists
                 PROVE  Fits(u, ql[u])' /\ Leads(u, todo'[u], ql[u])
    BY DEF Placed
  <2>2. CASE u = t
    <3>1. Holds(b)' = Holds(a)
      BY DEF Holds, SameLocks
    <3>2. FitsLocks(t, b)'
      <4>1. "on" \in b.is <=> "on" \in a.is
        OBVIOUS
      <4> QED  BY <1>1, <3>1, <4>1 DEF FitsLocks, SameLocks, locks
    <3>3. FitsRing(t, b)'
      <4>1. a.round = {}
        BY <1>1 DEF Sane, Global
      <4>2. b.wake # NIL => b.wake \in ToSet(ring)' \ {t}
        BY <1>1, PlaceFields DEF FitsRing, SameLocks
      <4> QED  BY <1>1, <4>1, <4>2 DEF FitsRing, SameLocks
    <3>4. Knows(b)'
      <4>1. "live" \in b.know => ToSet(ring)' \subseteq exists
        BY <1>1, <1>4 DEF Knows, Keeps
      <4> QED  BY <1>1, <4>1 DEF Knows, Keeps
    <3>5. Fits(t, b)'
      BY <3>2, <3>3, <3>4 DEF Fits
    <3> QED  BY <1>1, <1>3, <1>8, <2>2, <3>5
  <2>3. CASE u # t
    <3>1. PICK c : c = pl[u]
      OBVIOUS
    <3>2. Fits(u, c) /\ Leads(u, todo[u], c) /\ ql[u] = c
      BY <1>1, <1>8, <2>3, <3>1 DEF Invariantly, Placed
    <3>3. Sane(u, c) /\ c \in Place
      BY <3>2, LeadsSane
    <3>4. "activeMu" \notin c.held
      BY <1>5, <2>3, <3>2 DEF Fits, FitsLocks, Holds, Locks, Global
    <3>5. "all" \notin c.is /\ c.round = {}
      BY <3>3, <3>4 DEF Sane, Global
    <3>6. Holds(c)' = Holds(c)
      BY <3>5 DEF Holds
    <3>7. FitsLocks(u, c)'
      BY <3>2, <3>6 DEF Fits, FitsLocks, locks
    <3>8. FitsRing(u, c)'
      <4>1. c.wake # NIL => c.wake \in ToSet(ring)' \ {u}
        BY <1>1, <3>1, <3>2, <3>3, PlaceFields DEF Fits, FitsRing
      <4> QED  BY <1>1, <2>3, <3>2, <3>5, <4>1 DEF Fits, FitsRing
    <3>9. Knows(c)'
      <4>1. "live" \in c.know => ToSet(ring)' \subseteq exists
        BY <1>1, <1>4, <3>2 DEF Fits, Knows
      <4> QED  BY <3>2, <4>1 DEF Fits, Knows
    <3>10. Fits(u, c)'
      BY <3>7, <3>8, <3>9 DEF Fits
    <3> QED  BY <1>3, <2>3, <3>2, <3>10
  <2> QED  BY <2>2, <2>3
<1>10. Counted(ql, D)'
  <2>1. \A u \in exists : u \in D <=> "dis" \in ql[u].is
    BY <1>1, <1>8 DEF Counted
  <2>2. D \ exists \subseteq ToSet(ring)'
    BY <1>1, <1>4 DEF Counted, Thread
  <2> QED  BY <1>1, <2>1, <2>2 DEF Counted
<1>11. Apart(ql)'
  <2>1. SUFFICES ASSUME NEW u \in exists, ql[u].wake # NIL
                 PROVE  "ending" \notin ql[ql[u].wake].is
    BY DEF Apart
  <2>2. ql[u].wake = pl[u].wake
    BY <1>1, <1>8 DEF SameLocks
  <2>3. pl[u].wake \in Thread /\ pl[u].wake # t
    BY <1>1, <2>1, <2>2, PlaceFields
  <2>4. "ending" \notin pl[pl[u].wake].is
    BY <1>1, <2>1, <2>2 DEF Invariantly, Apart
  <2> QED  BY <1>8, <2>2, <2>3, <2>4
<1>12. Stopper(ql)'
  BY <1>5 DEF Stopper
<1> QED  BY <1>1, <1>6, <1>7, <1>9, <1>10, <1>11, <1>12 DEF Invariant

\* Whom a thread is about to wake is in the ring and not on its way out.
LEMMA WakesOthers ==
  ASSUME Sound, NEW pl, NEW D, Invariantly(pl, D), NEW t,
         t \notin ToSet(ring) \/ "ending" \in pl[t].is,
         NEW u \in exists
  PROVE  pl[u].wake # t \/ t = NIL
<1>1. pl[u].wake # NIL => /\ pl[u].wake \in ToSet(ring)
                          /\ "ending" \notin pl[pl[u].wake].is
  BY DEF Invariantly, Placed, Fits, FitsRing, Apart
<1> QED  BY <1>1

LEMMA EnterStep ==
  ASSUME NEW pl, NEW D, NEW t, NEW a, NEW b, NEW r,
         Ready(pl, D, t, Step("Enter"), a, b, r), Enter(t)
  PROVE  Invariant'
<1>1. ProcessRule(t, "Enter", a, b)
  BY DEF Ready, Rule, Step
<1>2. /\ a.held = {"activeMu"} /\ a.is = {} /\ SameLocks(a, b)
      /\ b.is = {"in"} /\ Keeps(a, b)
  BY <1>1 DEF ProcessRule
<1>3. /\ Sound /\ Invariantly(pl, D) /\ t \in Thread /\ FitsRing(t, a)
      /\ t # NIL /\ Step("Enter") # Step("StopWorld")
  BY ReadyAt DEF Step
<1>4. /\ UNCHANGED <<process, exists, deferred, locks, allocating, stopped, gc,
                     made, fault>>
      /\ ring' = Append(ring, t) /\ Done(t)
  BY DEF Enter
<1>5. t \notin ToSet(ring) /\ ring \in Seq(Thread) /\ IsInjective(ring)
  BY <1>2, <1>3 DEF FitsRing, Sound, RingSound
<1>6. /\ ring' \in Seq(Thread) /\ IsInjective(ring')
      /\ ToSet(ring') = ToSet(ring) \union {t}
  BY <1>3, <1>4, <1>5, Appended
<1>7. /\ \A u \in Thread \ {t} : u \in ToSet(ring)' <=> u \in ToSet(ring)
      /\ "in" \in b.is <=> t \in ToSet(ring)'
  <2>1. ToSet(ring)' = ToSet(ring) \union {t}
    BY <1>6
  <2> QED  BY <1>2, <2>1
<1>8. \A u \in exists : pl[u].wake # t
  BY <1>3, <1>5, WakesOthers
<1>9. a.is \subseteq {"in", "ending"} /\ b.is \subseteq {"in"}
  BY <1>2
<1> QED  BY <1>2, <1>3, <1>4, <1>6, <1>7, <1>8, <1>9, RingStep

LEMMA LeaveStep ==
  ASSUME NEW pl, NEW D, NEW t, NEW a, NEW b, NEW r,
         Ready(pl, D, t, Step("Leave"), a, b, r), Leave(t)
  PROVE  Invariant'
<1>1. ProcessRule(t, "Leave", a, b)
  BY DEF Ready, Rule, Step
<1>2. /\ a.held = {"activeMu"} /\ a.is = {"in", "ending"} /\ SameLocks(a, b)
      /\ b.is = {} /\ Keeps(a, b)
  BY <1>1 DEF ProcessRule
<1>3. /\ Sound /\ Invariantly(pl, D) /\ t \in Thread /\ FitsRing(t, a)
      /\ pl[t] = a /\ t # NIL /\ Step("Leave") # Step("StopWorld")
  BY ReadyAt DEF Step
<1>4. /\ UNCHANGED <<process, exists, deferred, locks, allocating, stopped, gc,
                     made, fault>>
      /\ Done(t)
  BY DEF Leave
<1>5. PICK i \in DOMAIN ring : ring[i] = t /\ ring' = RemoveAt(ring, i)
  BY DEF Leave
<1>6. /\ ring' \in Seq(Thread) /\ IsInjective(ring')
      /\ ToSet(ring') = ToSet(ring) \ {t}
  BY <1>3, <1>5, Removed DEF Sound, RingSound
<1>7. /\ \A u \in Thread \ {t} : u \in ToSet(ring)' <=> u \in ToSet(ring)
      /\ "in" \in b.is <=> t \in ToSet(ring)'
  <2>1. ToSet(ring)' = ToSet(ring) \ {t}
    BY <1>6
  <2> QED  BY <1>2, <2>1
<1>8. \A u \in exists : pl[u].wake # t
  BY <1>2, <1>3, WakesOthers
<1>9. a.is \subseteq {"in", "ending"} /\ b.is \subseteq {"in"}
  BY <1>2
<1> QED  BY <1>2, <1>3, <1>4, <1>6, <1>7, <1>8, <1>9, RingStep

LEMMA ExitStep ==
  ASSUME NEW pl, NEW D, NEW t, NEW a, NEW b, NEW r,
         Ready(pl, D, t, Step("Exit"), a, b, r), Exit(t)
  PROVE  Invariant'
<1>1. ProcessRule(t, "Exit", a, b)
  BY DEF Ready, Rule, Step
<1>2. a.held = {} /\ a.is = {}
  BY <1>1 DEF ProcessRule
<1>3. /\ Sound /\ Invariantly(pl, D) /\ Counted(pl, D) /\ t \in Thread
      /\ t \in exists /\ pl[t] = a /\ a \in Place /\ r \in Seq(Steps)
      /\ Sane(t, a) /\ FitsLocks(t, a) /\ FitsRing(t, a)
      /\ exists \subseteq Thread /\ NIL \notin exists
      /\ t \notin stopped /\ t \notin asleep
  BY ReadyAt DEF Ready
<1>4. /\ UNCHANGED <<process, ring, deferred, locks, allocating, stopped, gc,
                     made, fault>>
      /\ exists' = exists \ {t} /\ todo' = [todo EXCEPT ![t] = r]
  BY Called DEF Exit
<1>5. /\ todo' \in [Thread -> Seq(Steps)]
      /\ \A u \in exists \ {t} : todo'[u] = todo[u]
  BY <1>3, <1>4, OnlyMine
<1>6. /\ t \notin ToSet(ring) /\ t \notin allocating /\ t \notin deferred
      /\ \A l \in Locks : owner[l] # t
      /\ t \notin D
  BY <1>2, <1>3 DEF FitsRing, FitsLocks, Holds, Counted
<1>7. holder # t
  <2>1. a.depth = 0
    BY <1>2, <1>3, PlaceFields DEF Sane
  <2> QED  BY <1>3, <2>1 DEF FitsLocks, Sound, HeapSound
<1>8. Sound'
  <2>1. GcTyped' /\ Roused'
    BY <1>3, <1>4 DEF Sound, GcTyped, HeapSound, Roused, locks
  <2>2. owner' \in [Locks -> exists' \union {NIL}]
    BY <1>3, <1>4, <1>6 DEF Sound, HeapSound, locks
  <2>3. HeapSound'
    BY <1>3, <1>4, <1>7, <2>1, <2>2 DEF Sound, HeapSound, locks
  <2>4. RingSound'
    BY <1>3, <1>4, <1>6 DEF Sound, RingSound, locks
  <2> QED  BY <1>5, <2>1, <2>3, <2>4 DEF Sound
<1>9. Placed(pl)'
  <2>1. SUFFICES ASSUME NEW u \in exists \ {t}
                 PROVE  Fits(u, pl[u])' /\ Leads(u, todo'[u], pl[u])
    BY <1>4 DEF Placed
  <2>2. PICK c : c = pl[u]
    OBVIOUS
  <2>3. Fits(u, c) /\ Leads(u, todo[u], c)
    BY <1>3, <2>2 DEF Invariantly, Placed
  <2>4. Holds(c)' = Holds(c)
    BY <1>4 DEF Holds
  <2>5. FitsLocks(u, c)'
    BY <1>4, <2>3, <2>4 DEF Fits, FitsLocks, locks
  <2>6. FitsRing(u, c)' /\ Knows(c)'
    BY <1>4, <1>6, <2>3 DEF Fits, FitsRing, Knows
  <2>7. Fits(u, c)'
    BY <2>5, <2>6 DEF Fits
  <2> QED  BY <1>5, <2>2, <2>3, <2>7
<1>10. Counted(pl, D)'
  BY <1>3, <1>4, <1>6 DEF Counted
<1>11. Apart(pl)' /\ Stopper(pl)'
  <2>1. \A u \in exists' : u \in exists /\ todo'[u] = todo[u]
    BY <1>4, <1>5
  <2>2. owner' = owner /\ stopped' = stopped
    BY <1>4 DEF locks
  <2> QED  BY <1>3, <2>1, <2>2 DEF Invariantly, Apart, Stopper
<1> QED  BY <1>3, <1>8, <1>9, <1>10, <1>11 DEF Invariant, Invariantly

\* A thread is created, and the others may have gone on within their places.
LEMMA Created ==
  ASSUME Sound, NEW pl, NEW D, Invariantly(pl, D), NEW u \in Thread, Create(u),
         UNCHANGED <<locks, allocating, stopped, gc, made, fault>>,
         todo' \in [Thread -> Seq(Steps)], todo'[u] = ThreadEntry,
         NEW ql \in [Thread -> Place],
         \A w \in exists : Fits(w, ql[w]) /\ Leads(w, todo'[w], ql[w]),
         \A w \in Thread : ql[w].is = pl[w].is /\ ql[w].wake = pl[w].wake,
         \A w \in exists : w = owner["activeMu"] /\ stopped # {} =>
           \/ "world" \in ql[w].is
           \/ todo'[w] # <<>> /\ Head(todo'[w]) = Step("StopWorld")
  PROVE  Invariant'
<1>1. /\ u \notin exists /\ u \notin ToSet(ring) /\ exists' = exists \union {u}
      /\ UNCHANGED <<process, ring, deferred>>
  BY DEF Create
<1>2. /\ Counted(pl, D) /\ Apart(pl) /\ D \in SUBSET Client
      /\ exists \subseteq Thread /\ NIL \notin Thread
  BY ThreadsAreNoLocks DEF Sound, RingSound, Invariantly
<1>3. Sound'
  <2>1. GcTyped' /\ Roused'
    BY DEF Sound, GcTyped, HeapSound, Roused, locks
  <2>2. owner' \in [Locks -> exists' \union {NIL}]
    BY <1>1 DEF Sound, HeapSound, locks
  <2>3. HeapSound'
    BY <1>1, <2>1, <2>2 DEF Sound, HeapSound, locks
  <2>4. RingSound'
    BY <1>1 DEF Sound, RingSound, locks
  <2> QED  BY <2>1, <2>3, <2>4 DEF Sound
<1>4. PICK c : c = Spot(NIL, 0, {}, {}, {})
  OBVIOUS
<1>5. /\ c.wake = NIL /\ c.depth = 0 /\ c.held = {} /\ c.is = {} /\ c.know = {}
      /\ c.round = {} /\ c \in Place
  BY <1>4 DEF Spot, Place
<1>6. PICK el \in [Thread -> Place] : el = [ql EXCEPT ![u] = c]
  BY <1>5
<1>7. el[u] = c /\ \A w \in Thread \ {u} : el[w] = ql[w]
  BY <1>6
<1>8. Placed(el)'
  <2>1. SUFFICES ASSUME NEW w \in exists \union {u}
                 PROVE  Fits(w, el[w])' /\ Leads(w, todo'[w], el[w])
    BY <1>1 DEF Placed
  <2>2. CASE w = u
    <3>1. FitsLocks(u, c)'
      <4>1. Holds(c)' = {}
        BY <1>5 DEF Holds
      <4>2. \A l \in Locks : owner[l] # u
        BY <1>1, <1>2 DEF Sound, HeapSound
      <4>3. holder # u
        BY <1>1, <1>2 DEF Sound, HeapSound
      <4> QED  BY <1>5, <4>1, <4>2, <4>3 DEF FitsLocks, locks
    <3>2. FitsRing(u, c)' /\ Knows(c)'
      BY <1>1, <1>5 DEF FitsRing, Knows, Sound, RingSound
    <3>3. Fits(u, c)'
      BY <3>1, <3>2 DEF Fits
    <3>4. Leads(u, ThreadEntry, c)
      <4>1. Piece(u, ThreadEntry, c, Spot(NIL, 0, {}, {"in"}, {}))
        BY <1>4, EntryPiece
      <4>2. PICK e : e = Spot(NIL, 0, {}, {"in"}, {})
        OBVIOUS
      <4>3. IsEnd(e)
        <5>1. e \in Place
          BY <4>1, <4>2, PieceTyped
        <5> QED  BY <4>2, <5>1, SpotFields DEF IsEnd
      <4> QED  BY <4>1, <4>2, <4>3 DEF Leads
    <3> QED  BY <1>7, <2>2, <3>3, <3>4
  <2>3. CASE w # u
    <3>1. PICK d : d = ql[w]
      OBVIOUS
    <3>2. Fits(w, d) /\ Leads(w, todo'[w], d) /\ el[w] = d
      BY <1>2, <1>7, <2>3, <3>1
    <3>3. Holds(d)' = Holds(d)
      BY <1>1 DEF Holds
    <3>4. FitsLocks(w, d)'
      BY <3>2, <3>3 DEF Fits, FitsLocks, locks
    <3>5. FitsRing(w, d)' /\ Knows(d)'
      BY <1>1, <3>2 DEF Fits, FitsRing, Knows
    <3>6. Fits(w, d)'
      BY <3>4, <3>5 DEF Fits
    <3> QED  BY <3>2, <3>6
  <2> QED  BY <2>2, <2>3
<1>9. Counted(el, D)'
  <2>1. u \notin D
    BY <1>1, <1>2 DEF Counted
  <2>2. ASSUME NEW w \in exists'
        PROVE  w \in D <=> "dis" \in el[w].is
    <3>1. CASE w = u
      BY <1>5, <1>7, <2>1, <3>1
    <3>2. CASE w # u
      <4>1. w \in exists /\ el[w].is = pl[w].is
        BY <1>1, <1>2, <1>7, <3>2
      <4> QED  BY <1>2, <4>1 DEF Counted
    <3> QED  BY <3>1, <3>2
  <2> QED  BY <1>1, <1>2, <2>1, <2>2 DEF Counted
<1>10. Apart(el)'
  <2>1. SUFFICES ASSUME NEW w \in exists', el[w].wake # NIL
                 PROVE  "ending" \notin el[el[w].wake].is
    BY DEF Apart
  <2>2. w \in exists /\ el[w].wake = pl[w].wake
    BY <1>1, <1>2, <1>5, <1>7, <2>1
  <2>3. pl[w].wake \in ToSet(ring)
    BY <2>1, <2>2 DEF Invariantly, Placed, Fits, FitsRing
  <2>4. pl[w].wake \in Thread /\ pl[w].wake # u
    BY <1>1, <2>3 DEF Sound, RingSound
  <2>5. "ending" \notin pl[pl[w].wake].is
    BY <1>2, <2>1, <2>2 DEF Apart
  <2> QED  BY <1>7, <2>2, <2>4, <2>5
<1>11. Stopper(el)'
  <2>1. SUFFICES ASSUME NEW w \in exists', w = owner["activeMu"], stopped # {}
                 PROVE  \/ "world" \in el[w].is
                        \/ todo'[w] # <<>> /\ Head(todo'[w]) = Step("StopWorld")
    BY DEF Stopper, locks
  <2>2. w \in exists
    BY <1>1, <1>2, <2>1 DEF Sound, HeapSound, Locks, Global
  <2> QED  BY <1>1, <1>2, <1>7, <2>1, <2>2
<1> QED  BY <1>2, <1>3, <1>6, <1>8, <1>9, <1>10, <1>11 DEF Invariant

LEMMA CreateClientStep ==
  ASSUME Sound, NEW pl, NEW D, Invariantly(pl, D), NEW t, CreateClient(t)
  PROVE  Invariant'
<1>1. PICK u \in Client :
        /\ Create(u) /\ todo' = [todo EXCEPT ![u] = ThreadEntry]
        /\ UNCHANGED <<locks, allocating, stopped, gc, made, fault>>
  BY DEF CreateClient
<1>2. u \in Thread /\ u \notin exists /\ exists \subseteq Thread
  BY <1>1 DEF Thread, Create, Sound, RingSound
<1>3. ThreadEntry \in Seq(Steps)
  <2>1. Piece(u, ThreadEntry, Spot(NIL, 0, {}, {}, {}),
              Spot(NIL, 0, {}, {"in"}, {}))
    BY EntryPiece
  <2> QED  BY <2>1, PieceTyped
<1>4. /\ todo' \in [Thread -> Seq(Steps)] /\ todo'[u] = ThreadEntry
      /\ \A w \in exists : todo'[w] = todo[w]
  BY <1>1, <1>2, <1>3 DEF Sound
<1>5. \A w \in exists : Fits(w, pl[w]) /\ Leads(w, todo'[w], pl[w])
  BY <1>4 DEF Invariantly, Placed
<1>6. \A w \in exists : w = owner["activeMu"] /\ stopped # {} =>
        \/ "world" \in pl[w].is
        \/ todo'[w] # <<>> /\ Head(todo'[w]) = Step("StopWorld")
  BY <1>4 DEF Invariantly, Stopper
<1>7. pl \in [Thread -> Place]
  BY DEF Invariantly
<1> QED  BY <1>1, <1>2, <1>4, <1>5, <1>6, <1>7, Created

LEMMA CreateServiceStep ==
  ASSUME NEW pl, NEW D, NEW t, NEW x, NEW a, NEW b, NEW r,
         Ready(pl, D, t, x, a, b, r), CreateService(t)
  PROVE  Invariant'
<1>1. PICK s \in Service :
        /\ x = <<"create", s>> /\ Create(s)
        /\ todo' = [todo EXCEPT ![t] = Tail(@), ![s] = ThreadEntry]
        /\ UNCHANGED <<locks, allocating, stopped, gc, made, fault>>
  <2>1. Head(todo[t]) = x
    BY ReadyAt
  <2> QED  BY <2>1 DEF CreateService, At
<1>2. WorldRule(t, "create", a, b) /\ x # Step("StopWorld")
  BY <1>1 DEF Ready, Rule, Step
<1>3. Same(a, b) /\ Keeps(a, b)
  BY <1>2 DEF WorldRule
<1>4. /\ Sound /\ Invariantly(pl, D) /\ t \in Thread /\ t \in exists
      /\ pl[t] = a
      /\ b \in Place /\ Knows(a) /\ FitsLocks(t, a) /\ FitsRing(t, a)
      /\ Leads(t, r, b) /\ r \in Seq(Steps) /\ Tail(todo[t]) = r
      /\ exists \subseteq Thread /\ pl \in [Thread -> Place]
      /\ stopped # {} /\ owner["activeMu"] = t => "world" \in a.is
  BY <1>2, ReadyAt DEF Ready, Invariantly
<1>5. s \in Thread /\ s \notin exists
  BY <1>1 DEF Thread, Create
<1>6. ThreadEntry \in Seq(Steps)
  <2>1. Piece(s, ThreadEntry, Spot(NIL, 0, {}, {}, {}),
              Spot(NIL, 0, {}, {"in"}, {}))
    BY EntryPiece
  <2> QED  BY <2>1, PieceTyped
<1>7. /\ todo' \in [Thread -> Seq(Steps)] /\ todo'[s] = ThreadEntry
      /\ todo'[t] = r /\ \A w \in exists \ {t} : todo'[w] = todo[w]
  BY <1>1, <1>4, <1>5, <1>6 DEF Sound
<1>8. PICK ql \in [Thread -> Place] : ql = [pl EXCEPT ![t] = b]
  BY <1>4
<1>9. ql[t] = b /\ \A w \in Thread \ {t} : ql[w] = pl[w]
  BY <1>4, <1>8
<1>10. Fits(t, b)
  BY <1>3, <1>4
  DEF Same, SameLocks, Keeps, Fits, FitsLocks, FitsRing, Knows, Holds
<1>11. ASSUME NEW w \in exists PROVE Fits(w, ql[w]) /\ Leads(w, todo'[w], ql[w])
  <2>1. CASE w = t
    BY <1>4, <1>7, <1>9, <1>10, <2>1
  <2>2. CASE w # t
    BY <1>4, <1>7, <1>9, <2>2 DEF Invariantly, Placed
  <2> QED  BY <2>1, <2>2
<1>12. \A w \in Thread : ql[w].is = pl[w].is /\ ql[w].wake = pl[w].wake
  BY <1>3, <1>4, <1>9 DEF Same, SameLocks
<1>13. \A w \in exists : w = owner["activeMu"] /\ stopped # {} =>
         \/ "world" \in ql[w].is
         \/ todo'[w] # <<>> /\ Head(todo'[w]) = Step("StopWorld")
  <2>1. SUFFICES ASSUME NEW w \in exists, w = owner["activeMu"], stopped # {}
                 PROVE  \/ "world" \in ql[w].is
                        \/ todo'[w] # <<>> /\ Head(todo'[w]) = Step("StopWorld")
    OBVIOUS
  <2>2. CASE w = t
    BY <1>4, <1>12, <2>1, <2>2
  <2>3. CASE w # t
    BY <1>4, <1>7, <1>9, <2>1, <2>3 DEF Invariantly, Stopper
  <2> QED  BY <2>2, <2>3
<1> QED  BY <1>1, <1>4, <1>5, <1>7, <1>11, <1>12, <1>13, Created

-----------------------------------------------------------------------------
(* What a thread has still ahead of it.                                    *)

LEMMA LastOne ==
  ASSUME NEW n \in Nat, NEW S \in SUBSET (1 .. n + 1), 1 \in S, n + 1 \notin S
  PROVE  \E i \in 1 .. n : i \in S /\ i + 1 \notin S
<1> DEFINE Less == {p \in Nat \X Nat : p[1] < p[2]}
           T == (1 .. n + 1) \ S
<1>1. IsWellFoundedOn(Less, Nat)
  BY NatLessThanWellFounded DEF OpToRel
<1>2. T \subseteq Nat /\ T # {}
  OBVIOUS
<1>3. PICK x \in T : \A y \in T : ~(<<y, x>> \in Less)
  BY <1>1, <1>2, WFMin
<1>4. x \in 1 .. n + 1 /\ x # 1
  BY <1>3
<1>5. x - 1 \in 1 .. n /\ (x - 1) + 1 = x /\ x - 1 \in Nat /\ x \in Nat
  BY <1>4
<1>6. <<x - 1, x>> \in Less
  BY <1>5
<1>7. x - 1 \notin T
  BY <1>3, <1>6
<1> QED  BY <1>3, <1>5, <1>7

\* Only Leave lets a thread forget that it is on its way out, and only the
\* unlocking of its mutex whom it wakes.
LEMMA RuleKeeps ==
  ASSUME NEW t, NEW x \in Steps, NEW a, NEW b, Rule(t, x, a, b)
  PROVE  /\ "ending" \in a.is /\ "ending" \notin b.is => x = Step("Leave")
         /\ a.wake # NIL /\ b.wake # a.wake => x = Unlock(a.wake)
<1>1. x[1] \in Kinds
  BY DEF Steps, Kinds, Lock, Unlock, Step
<1>2. x[1] \notin {"unlock", "Leave"} =>
        ("ending" \in a.is => "ending" \in b.is)
  BY <1>1
  DEF Kinds, Rule, Locking, Unlocking, HeapRule, CollectorRule, WorldRule,
      ProcessRule, Same, SameLocks
<1>3. x[1] \notin {"unlock"} => a.wake = NIL \/ b.wake = a.wake
  BY <1>1
  DEF Kinds, Rule, Locking, Unlocking, HeapRule, CollectorRule, WorldRule,
      ProcessRule, Same, SameLocks
<1>4. x[1] = "Leave" => x = Step("Leave")
  BY DEF Steps, Lock, Unlock, Step
<1>5. x[1] = "unlock" =>
        /\ x = Unlock(x[2]) /\ b.is = a.is
        /\ b.wake = a.wake \/ x[2] = a.wake
  <2>1. x[1] = "unlock" => x = Unlock(x[2])
    BY DEF Steps, Lock, Unlock, Step
  <2> QED  BY <2>1 DEF Rule, Unlocking
<1> QED  BY <1>2, <1>3, <1>4, <1>5

LEMMA EndingAhead ==
  ASSUME NEW t, NEW s, NEW a, Leads(t, s, a), "ending" \in a.is
  PROVE  Contains(s, Step("Leave"))
<1>1. PICK e : IsEnd(e) /\ Piece(t, s, a, e)
  BY DEF Leads
<1>2. PICK n : n = Len(s)
  OBVIOUS
<1>3. s \in Seq(Steps) /\ n \in Nat
  BY <1>1, <1>2, PieceTyped
<1>4. PICK f \in [1 .. n + 1 -> Place] :
        /\ f[1] = a /\ f[n + 1] = e
        /\ \A i \in 1 .. n : Rule(t, s[i], f[i], f[i + 1])
  BY <1>1, <1>2 DEF Piece
<1>5. PICK S : S = {i \in 1 .. n + 1 : "ending" \in f[i].is}
  OBVIOUS
<1>6. S \in SUBSET (1 .. n + 1) /\ 1 \in S /\ n + 1 \notin S
  BY <1>1, <1>3, <1>4, <1>5 DEF IsEnd
<1>7. PICK i \in 1 .. n : i \in S /\ i + 1 \notin S
  BY <1>3, <1>6, LastOne
<1>8. /\ "ending" \in f[i].is /\ "ending" \notin f[i + 1].is
      /\ Rule(t, s[i], f[i], f[i + 1]) /\ s[i] \in Steps
  BY <1>2, <1>3, <1>4, <1>5, <1>7, StepTyped
<1>9. s[i] = Step("Leave")
  BY <1>8, RuleKeeps
<1> QED  BY <1>2, <1>7, <1>9 DEF Contains

LEMMA WakeAhead ==
  ASSUME NEW t, NEW s, NEW a, Leads(t, s, a), a.wake # NIL
  PROVE  Contains(s, Unlock(a.wake))
<1>1. PICK e : IsEnd(e) /\ Piece(t, s, a, e)
  BY DEF Leads
<1>2. PICK n : n = Len(s)
  OBVIOUS
<1>3. s \in Seq(Steps) /\ n \in Nat
  BY <1>1, <1>2, PieceTyped
<1>4. PICK f \in [1 .. n + 1 -> Place] :
        /\ f[1] = a /\ f[n + 1] = e
        /\ \A i \in 1 .. n : Rule(t, s[i], f[i], f[i + 1])
  BY <1>1, <1>2 DEF Piece
<1>5. PICK S : S = {i \in 1 .. n + 1 : f[i].wake = a.wake}
  OBVIOUS
<1>6. S \in SUBSET (1 .. n + 1) /\ 1 \in S /\ n + 1 \notin S
  BY <1>1, <1>3, <1>4, <1>5 DEF IsEnd
<1>7. PICK i \in 1 .. n : i \in S /\ i + 1 \notin S
  BY <1>3, <1>6, LastOne
<1>8. /\ f[i].wake = a.wake /\ f[i + 1].wake # a.wake
      /\ Rule(t, s[i], f[i], f[i + 1]) /\ s[i] \in Steps
  BY <1>2, <1>3, <1>4, <1>5, <1>7, StepTyped
<1>9. s[i] = Unlock(a.wake)
  BY <1>8, RuleKeeps
<1> QED  BY <1>2, <1>7, <1>9 DEF Contains


-----------------------------------------------------------------------------
(* fork.                                                                   *)

\* Where a thread is that calls fork.
LEMMA ForkAt ==
  ASSUME NEW pl, NEW D, NEW t, NEW a, NEW b, NEW r,
         Ready(pl, D, t, Step("Fork"), a, b, r)
  PROVE  \E f \in SUBSET {"fork"} :
           /\ a.depth = 1 /\ a.held = Global /\ a.round = {} /\ a.wake = NIL
           /\ a.is = {"in", "all"} \union f
           /\ b = Idle(b.know) /\ b.know \in SUBSET {"live"} /\ Forgets(a, b)
<1>1. ProcessRule(t, "Fork", a, b) /\ Sane(t, b) /\ b \in Place
  BY DEF Ready, Rule, Step
<1>2. /\ a.depth = 1 /\ a.held = Global /\ a.round = {} /\ a.wake = NIL
      /\ Solaris => a.is = {"in", "all", "fork"}
      /\ ~Solaris => a.is = {"in", "all"}
      /\ b.depth = 0 /\ b.held = {} /\ b.round = {} /\ b.wake = NIL
      /\ b.is = {"in"} /\ Forgets(a, b)
  BY <1>1 DEF ProcessRule
<1>3. b = Idle(b.know)
  BY <1>1, <1>2, SpotOf DEF Idle
<1>4. b.know \in SUBSET {"live"}
  BY <1>1, <1>2, IdleKnows
<1>5. a.is = {"in", "all"} \union (IF Solaris THEN {"fork"} ELSE {})
  BY <1>2
<1> QED  BY <1>2, <1>3, <1>4, <1>5

LEMMA ForkParentStep ==
  ASSUME NEW pl, NEW D, NEW t, NEW a, NEW b, NEW r,
         Ready(pl, D, t, Step("Fork"), a, b, r),
         Call(t, AtForkParent \o <<Step("LeaveFork")>>),
         UNCHANGED <<world, asleep, allocating, owner, holder, inCritical,
                     stopped, gc, made, fault>>
  PROVE  Invariant'
<1>1. PICK f \in SUBSET {"fork"} :
        /\ a.depth = 1 /\ a.held = Global /\ a.round = {} /\ a.wake = NIL
        /\ a.is = {"in", "all"} \union f
        /\ b = Idle(b.know) /\ b.know \in SUBSET {"live"} /\ Forgets(a, b)
  BY ForkAt
<1>2. PICK c : c = Spot(NIL, 1, Global, {"in", "all"} \union f, b.know)
  OBVIOUS
<1>3. PICK s : s = AtForkParent \o <<Step("LeaveFork")>>
  OBVIOUS
<1>4. Piece(t, s, c, b) /\ Call(t, s)
  <2>1. PICK k \in SUBSET {"live"} : k = b.know
    BY <1>1
  <2>2. Piece(t, AtForkParent \o <<Step("LeaveFork")>>,
              Spot(NIL, 1, Global, {"in", "all"} \union f, k), Idle(k))
    BY AfterForkPiece
  <2>3. b = Idle(k) /\ c = Spot(NIL, 1, Global, {"in", "all"} \union f, k)
    BY <1>1, <1>2, <2>1
  <2> QED  BY <1>3, <2>2, <2>3
<1>5. /\ c.wake = NIL /\ c.depth = 1 /\ c.held = Global
      /\ c.is = {"in", "all"} \union f /\ c.know = b.know /\ c.round = {}
  BY <1>2, SpotFields
<1>6. Leads(t, s \o r, c) /\ todo' = [todo EXCEPT ![t] = s \o r]
  BY <1>4, CallTo
<1>7. Holds(c) = Holds(a) /\ OnlyAll(a, c)
  BY <1>1, <1>5 DEF Holds, OnlyAll
<1>8. Knows(c)
  <2>1. Knows(a) /\ c.know \subseteq a.know
    BY <1>1, <1>5, ReadyAt DEF Forgets
  <2> QED  BY <2>1 DEF Knows
<1>9. Step("Fork") # Step("StopWorld")
  BY DEF Step
<1>10. UNCHANGED <<world, locks, allocating, stopped, gc, made, fault>>
  BY DEF locks
<1> QED  BY <1>1, <1>5, <1>6, <1>7, <1>8, <1>9, <1>10, QuietStep

\* Nobody but the forking thread holds anything.
LEMMA ForkHoldsAll ==
  ASSUME Sound, NEW pl, NEW D, Invariantly(pl, D), NEW t \in exists,
         \A l \in Global \union ToSet(ring) : owner[l] = t,
         NEW l \in Locks
  PROVE  owner[l] \in {t, NIL}
<1>1. SUFFICES ASSUME owner[l] \notin {t, NIL} PROVE FALSE
  OBVIOUS
<1>2. PICK u \in exists : owner[l] = u /\ u # t
  BY <1>1 DEF Sound, HeapSound
<1>3. PICK p : p = pl[u]
  OBVIOUS
<1>4. Fits(u, p) /\ Leads(u, todo[u], p)
  BY <1>3 DEF Invariantly, Placed
<1>5. Sane(u, p) /\ u \in Thread
  BY <1>4, LeadsSane DEF Sound, RingSound
<1>6. l \in p.held /\ l \notin Global \union ToSet(ring)
  BY <1>2, <1>4 DEF Fits, FitsLocks, Holds
<1>7. "in" \in p.is => u \in ToSet(ring)
  BY <1>4 DEF Fits, FitsRing
<1>8. u \in ToSet(ring) => u \notin p.held
  BY <1>2, <1>4, <1>5 DEF Fits, FitsLocks, Holds, Locks
<1>9. "activeMu" \notin p.held
  BY <1>2, <1>4 DEF Fits, FitsLocks, Holds, Locks, Global
<1>10. l = "m" \/ l \in Thread
  BY <1>6 DEF Locks
<1>11. CASE l = "m"
  BY <1>5, <1>6, <1>7, <1>8, <1>11 DEF Sane
<1>12. CASE l \in Thread
  <2>1. (l \in {u, p.wake} \/ "activeMu" \in p.held) /\ "in" \in p.is
    BY <1>5, <1>6, <1>12 DEF Sane
  <2>2. p.wake # NIL => p.wake \in ToSet(ring)
    BY <1>4 DEF Fits, FitsRing
  <2> QED  BY <1>6, <1>7, <1>9, <1>12, <2>1, <2>2, ThreadsAreNoLocks
<1> QED  BY <1>10, <1>11, <1>12

LEMMA ForkChildStep ==
  ASSUME NEW pl, NEW D, NEW t, NEW a, NEW b, NEW r,
         Ready(pl, D, t, Step("Fork"), a, b, r),
         process' = "child", exists' = {t},
         todo' = [u \in Thread |->
                    IF u = t THEN AtForkChild \o <<Step("LeaveFork")>> ELSE <<>>],
         asleep' = {}, allocating' = {}, deferred' = deferred \cap {t},
         UNCHANGED <<ring, owner, holder, inCritical, stopped, gc, made, fault>>
  PROVE  Invariant'
<1>1. PICK f \in SUBSET {"fork"} :
        /\ a.depth = 1 /\ a.held = Global /\ a.round = {} /\ a.wake = NIL
        /\ a.is = {"in", "all"} \union f
        /\ b = Idle(b.know) /\ b.know \in SUBSET {"live"} /\ Forgets(a, b)
  BY ForkAt
<1>2. PICK c : c = Spot(NIL, 1, Global, {"in", "all"} \union f, {})
  OBVIOUS
<1>3. PICK s : s = AtForkChild \o <<Step("LeaveFork")>>
  OBVIOUS
<1>4. PICK e : e = Idle({})
  OBVIOUS
<1>5. Piece(t, s, c, e)
  BY <1>2, <1>3, <1>4, AfterForkPiece
<1>6. /\ c.wake = NIL /\ c.depth = 1 /\ c.held = Global
      /\ c.is = {"in", "all"} \union f /\ c.know = {} /\ c.round = {}
  BY <1>2, SpotFields
<1>7. IsEnd(e) /\ c \in Place /\ s \in Seq(Steps)
  <2>1. e \in Place /\ c \in Place /\ s \in Seq(Steps)
    BY <1>5, PieceTyped
  <2> QED  BY <1>4, <2>1, SpotFields DEF Idle, IsEnd
<1>8. Leads(t, s, c)
  BY <1>5, <1>7 DEF Leads
<1>9. /\ Sound /\ Invariantly(pl, D) /\ Counted(pl, D) /\ t \in Thread
      /\ t \in exists /\ pl[t] = a /\ FitsLocks(t, a) /\ FitsRing(t, a)
      /\ exists \subseteq Thread /\ NIL \notin exists
      /\ stopped # {} /\ owner["activeMu"] = t => "world" \in a.is
      /\ pl \in [Thread -> Place] /\ D \in SUBSET Client
  <2>1. Step("Fork") # Step("StopWorld")
    BY DEF Step
  <2> QED  BY <2>1, ReadyAt DEF Invariantly
<1>10. /\ todo' \in [Thread -> Seq(Steps)] /\ todo'[t] = s
  <2>1. <<>> \in Seq(Steps)
    OBVIOUS
  <2> QED  BY <1>3, <1>7, <1>9, <2>1
<1>11. Holds(a) = Global \union ToSet(ring) /\ Holds(c) = Holds(a)
  BY <1>1, <1>6 DEF Holds
<1>12. \A l \in Global \union ToSet(ring) : owner[l] = t
  <2>1. Global \union ToSet(ring) \subseteq Locks
    BY <1>9 DEF Sound, RingSound, Locks
  <2> QED  BY <1>9, <1>11, <2>1 DEF FitsLocks
<1>13. \A l \in Locks : owner[l] \in {t, NIL}
  BY <1>9, <1>12, ForkHoldsAll
<1>14. holder = t
  BY <1>1, <1>9 DEF FitsLocks
<1>15. stopped = {}
  BY <1>1, <1>9, <1>12 DEF Global
<1>16. Sound'
  <2>1. GcTyped' /\ Roused'
    BY <1>9 DEF Sound, GcTyped, Roused
  <2>2. owner' \in [Locks -> exists' \union {NIL}]
    BY <1>9, <1>13 DEF Sound, HeapSound
  <2>3. HeapSound'
    BY <1>9, <1>14, <2>1, <2>2 DEF Sound, HeapSound
  <2>4. RingSound'
    BY <1>9, <1>15 DEF Sound, RingSound
  <2> QED  BY <1>10, <2>1, <2>3, <2>4 DEF Sound
<1>17. Fits(t, c)'
  <2>1. Holds(c)' = Holds(a)
    BY <1>11 DEF Holds
  <2>2. FitsLocks(t, c)'
    BY <1>1, <1>6, <1>9, <2>1 DEF FitsLocks
  <2>3. FitsRing(t, c)'
    BY <1>1, <1>6, <1>9 DEF FitsRing
  <2>4. Knows(c)'
    BY <1>6 DEF Knows
  <2> QED  BY <2>2, <2>3, <2>4 DEF Fits
<1>18. PICK ql \in [Thread -> Place] : ql = [pl EXCEPT ![t] = c]
  BY <1>7, <1>9
<1>19. ql[t] = c
  BY <1>9, <1>18
<1>20. Placed(ql)' /\ Apart(ql)' /\ Stopper(ql)'
  BY <1>6, <1>8, <1>10, <1>15, <1>17, <1>19 DEF Placed, Apart, Stopper
<1>21. Counted(ql, D)'
  <2>1. t \notin D /\ "dis" \notin c.is
    BY <1>1, <1>6, <1>9 DEF Counted
  <2>2. \A u \in D \cap exists : u \in ToSet(ring)
    <3>1. SUFFICES ASSUME NEW u \in D \cap exists PROVE u \in ToSet(ring)
      OBVIOUS
    <3>2. PICK p : p = pl[u]
      OBVIOUS
    <3>3. Fits(u, p) /\ Leads(u, todo[u], p) /\ "dis" \in p.is
      BY <1>9, <3>2 DEF Invariantly, Placed, Counted
    <3>4. Sane(u, p)
      BY <3>3, LeadsSane
    <3> QED  BY <3>3, <3>4 DEF Sane, Fits, FitsRing
  <2>3. \A u \in D : u \in ToSet(ring)
    BY <1>9, <2>2 DEF Counted
  <2> QED  BY <1>9, <1>19, <2>1, <2>3 DEF Counted
<1> QED  BY <1>9, <1>16, <1>18, <1>20, <1>21 DEF Invariant

LEMMA ForkStep ==
  ASSUME NEW pl, NEW D, NEW t, NEW a, NEW b, NEW r,
         Ready(pl, D, t, Step("Fork"), a, b, r), Fork(t)
  PROVE  Invariant'
<1>1. UNCHANGED <<owner, holder, inCritical, stopped, gc, made, fault>>
  BY DEF Fork
<1>2. CASE /\ Call(t, AtForkParent \o <<Step("LeaveFork")>>)
           /\ UNCHANGED <<world, asleep, allocating>>
  BY <1>1, <1>2, ForkParentStep
<1>3. CASE /\ process' = "child" /\ exists' = {t}
           /\ todo' = [u \in Thread |->
                         IF u = t THEN AtForkChild \o <<Step("LeaveFork")>>
                         ELSE <<>>]
           /\ asleep' = {} /\ allocating' = {}
           /\ deferred' = deferred \cap {t} /\ UNCHANGED ring
  BY <1>1, <1>3, ForkChildStep
<1> QED  BY <1>2, <1>3 DEF Fork

-----------------------------------------------------------------------------
(* What threads begin.                                                     *)

\* A place where t may begin something.
MayBegin(pl, t, c) ==
  /\ c.depth = 0 /\ c.held = {} /\ c.round = {}
  /\ c.is = {"in"} \/ c.is = {"in", "ending"}
  /\ c.wake # NIL =>
       c.wake \in ToSet(ring) \ {t} /\ "ending" \notin pl[c.wake].is
  /\ "ending" \in c.is => \A u \in exists : pl[u].wake # t

LEMMA BeginStep ==
  ASSUME Sound, NEW pl, NEW D, Invariantly(pl, D), NEW t \in ToSet(ring),
         Runs(t),
         todo[t] = <<>>, NEW s, NEW c, Leads(t, s, c),
         todo' = [todo EXCEPT ![t] = s],
         UNCHANGED <<world, locks, allocating, stopped, gc, made, fault>>,
         MayBegin(pl, t, c), Knows(c)
  PROVE  Invariant'
<1>1. /\ Counted(pl, D) /\ Apart(pl) /\ Stopper(pl) /\ t \in exists
      /\ t \in Thread
      /\ pl \in [Thread -> Place] /\ D \in SUBSET Client
      /\ exists \subseteq Thread /\ NIL \notin exists
      /\ ToSet(ring) \subseteq Thread
  BY ThreadsAreNoLocks DEF Invariantly, Runs, Sound, RingSound
<1>2. PICK a : a = pl[t]
  OBVIOUS
<1>3. Fits(t, a) /\ IsEnd(a)
  BY <1>1, <1>2, LeadsNowhere DEF Invariantly, Placed
<1>4. /\ a.depth = 0 /\ a.held = {} /\ a.round = {} /\ a.is = {"in"}
      /\ a.wake = NIL
  <2>1. "in" \in a.is
    BY <1>3 DEF Fits, FitsRing
  <2> QED  BY <1>3, <2>1 DEF IsEnd
<1>5. c \in Place /\ s \in Seq(Steps)
  BY LeadsSane
<1>6. /\ todo' \in [Thread -> Seq(Steps)] /\ todo'[t] = s
      /\ \A u \in exists \ {t} : todo'[u] = todo[u]
  BY <1>1, <1>5, OnlyMine
<1>7. PICK ql \in [Thread -> Place] : ql = [pl EXCEPT ![t] = c]
  BY <1>1, <1>5
<1>8. ql[t] = c /\ \A u \in Thread \ {t} : ql[u] = pl[u]
  BY <1>1, <1>7
<1>9. Sound'
  <2>1. GcTyped' /\ Roused'
    BY DEF Sound, GcTyped, HeapSound, Roused, locks
  <2>2. HeapSound'
    BY <2>1 DEF Sound, HeapSound, locks, world
  <2>3. RingSound'
    BY DEF Sound, RingSound, locks, world
  <2> QED  BY <1>6, <2>1, <2>2, <2>3 DEF Sound
<1>10. ASSUME NEW u, NEW d, Fits(u, d) PROVE Fits(u, d)'
  <2>1. Holds(d)' = Holds(d)
    BY DEF Holds, world
  <2>2. FitsLocks(u, d)'
    BY <1>10, <2>1 DEF Fits, FitsLocks, locks
  <2>3. FitsRing(u, d)' /\ Knows(d)'
    BY <1>10 DEF Fits, FitsRing, Knows, world
  <2> QED  BY <2>2, <2>3 DEF Fits
<1>11. Fits(t, c)
  <2>1. Holds(c) = Holds(a)
    BY <1>4 DEF Holds, MayBegin
  <2>2. FitsLocks(t, c)
    BY <1>3, <1>4, <2>1 DEF Fits, FitsLocks, MayBegin
  <2>3. FitsRing(t, c)
    BY <1>3, <1>4 DEF Fits, FitsRing, MayBegin
  <2> QED  BY <2>2, <2>3 DEF Fits
<1>12. Placed(ql)'
  <2>1. SUFFICES ASSUME NEW u \in exists
                 PROVE  Fits(u, ql[u])' /\ Leads(u, todo'[u], ql[u])
    BY DEF Placed, world
  <2>2. PICK d : d = ql[u]
    OBVIOUS
  <2>3. Fits(u, d) /\ Leads(u, todo'[u], d)
    <3>1. CASE u = t
      BY <1>6, <1>8, <1>11, <2>2, <3>1
    <3>2. CASE u # t
      BY <1>1, <1>6, <1>8, <2>2, <3>2 DEF Invariantly, Placed
    <3> QED  BY <3>1, <3>2
  <2>4. Fits(u, d)'
    BY <1>10, <2>3
  <2> QED  BY <2>2, <2>3, <2>4
<1>13. Counted(ql, D)'
  <2>1. \A u \in exists : "dis" \in ql[u].is <=> "dis" \in pl[u].is
    BY <1>1, <1>2, <1>4, <1>8 DEF MayBegin
  <2> QED  BY <1>1, <2>1 DEF Counted, world
<1>14. Apart(ql)'
  <2>1. SUFFICES ASSUME NEW u \in exists, ql[u].wake # NIL
                 PROVE  "ending" \notin ql[ql[u].wake].is
    BY DEF Apart, world
  <2>2. CASE u = t
    BY <1>1, <1>8, <2>1, <2>2 DEF MayBegin
  <2>3. CASE u # t
    <3>1. ql[u] = pl[u] /\ "ending" \notin pl[pl[u].wake].is
      BY <1>1, <1>8, <2>1, <2>3 DEF Apart
    <3>2. pl[u].wake \in ToSet(ring)
      BY <2>1, <3>1 DEF Invariantly, Placed, Fits, FitsRing
    <3> QED  BY <1>1, <1>8, <3>1, <3>2 DEF MayBegin
  <2> QED  BY <2>2, <2>3
<1>15. Stopper(ql)'
  <2>1. SUFFICES ASSUME NEW u \in exists, u = owner["activeMu"], stopped # {}
                 PROVE  \/ "world" \in ql[u].is
                        \/ todo'[u] # <<>> /\ Head(todo'[u]) = Step("StopWorld")
    BY DEF Stopper, world, locks
  <2>2. u # t
    <3>1. Stopper(pl)
      BY <1>1
    <3> QED  BY <1>2, <1>4, <2>1, <3>1 DEF Stopper
  <2> QED  BY <1>1, <1>6, <1>8, <2>1, <2>2 DEF Stopper
<1> QED  BY <1>1, <1>7, <1>9, <1>12, <1>13, <1>14, <1>15 DEF Invariant

\* What t calls when it has nothing to do leads back to that.
LEMMA IdleStep ==
  ASSUME Sound, NEW pl, NEW D, Invariantly(pl, D), NEW t \in ToSet(ring),
         Runs(t),
         todo[t] = <<>>, NEW s, NEW k \in SUBSET {"live"},
         Piece(t, s, Idle(k), Idle(k)),
         todo' = [todo EXCEPT ![t] = s],
         UNCHANGED <<world, locks, allocating, stopped, gc, made, fault>>,
         "live" \in k => ToSet(ring) \subseteq exists
  PROVE  Invariant'
<1>1. PICK c : c = Idle(k)
  OBVIOUS
<1>2. /\ c.wake = NIL /\ c.depth = 0 /\ c.held = {} /\ c.is = {"in"}
      /\ c.know = k /\ c.round = {}
  BY <1>1, SpotFields DEF Idle
<1>3. IsEnd(c)
  <2>1. c \in Place
    BY <1>1, PieceTyped
  <2> QED  BY <1>2, <2>1 DEF IsEnd
<1>4. Leads(t, s, c)
  BY <1>1, <1>3 DEF Leads
<1>5. MayBegin(pl, t, c) /\ Knows(c)
  BY <1>2 DEF MayBegin, Knows
<1> QED  BY <1>4, <1>5, BeginStep

LEMMA EndingStep ==
  ASSUME Sound, NEW pl, NEW D, Invariantly(pl, D), NEW t, Ending(t)
  PROVE  Invariant'
<1>1. /\ t \in ToSet(ring) /\ Runs(t) /\ todo[t] = <<>> /\ ~ToBeWoken(t)
      /\ todo' = [todo EXCEPT ![t] = ThreadExit]
      /\ UNCHANGED <<world, locks, allocating, stopped, gc, made, fault>>
  BY DEF Ending
<1>2. PICK c : c = Spot(NIL, 0, {}, {"in", "ending"}, {})
  OBVIOUS
<1>3. PICK e : e = Spot(NIL, 0, {}, {}, {})
  OBVIOUS
<1>4. Piece(t, ThreadExit, c, e)
  BY <1>2, <1>3, ExitPiece
<1>5. IsEnd(e)
  <2>1. e \in Place
    BY <1>4, PieceTyped
  <2> QED  BY <1>3, <2>1, SpotFields DEF IsEnd
<1>6. Leads(t, ThreadExit, c)
  BY <1>4, <1>5 DEF Leads
<1>7. /\ c.wake = NIL /\ c.depth = 0 /\ c.held = {} /\ c.is = {"in", "ending"}
      /\ c.know = {} /\ c.round = {}
  BY <1>2, SpotFields
<1>8. ASSUME NEW u \in exists PROVE pl[u].wake # t
  <2>1. PICK p : p = pl[u]
    OBVIOUS
  <2>2. Fits(u, p) /\ Leads(u, todo[u], p)
    BY <2>1 DEF Invariantly, Placed
  <2>3. CASE u = t
    <3>1. t # NIL
      BY <1>1, ThreadsAreNoLocks DEF Sound, RingSound
    <3> QED  BY <2>1, <2>2, <2>3, <3>1 DEF Fits, FitsRing
  <2>4. CASE u # t
    <3>1. SUFFICES ASSUME p.wake = t PROVE FALSE
      BY <2>1
    <3>2. t # NIL
      BY <1>1, ThreadsAreNoLocks DEF Sound, RingSound
    <3>3. Contains(todo[u], Unlock(t))
      BY <2>2, <3>1, <3>2, WakeAhead
    <3> QED  BY <1>1, <2>4, <3>3 DEF ToBeWoken
  <2> QED  BY <2>3, <2>4
<1>9. MayBegin(pl, t, c) /\ Knows(c)
  BY <1>7, <1>8 DEF MayBegin, Knows
<1> QED  BY <1>1, <1>6, <1>9, BeginStep

LEMMA ServingStep ==
  ASSUME Sound, NEW pl, NEW D, Invariantly(pl, D), NEW t, Serving(t)
  PROVE  Invariant'
<1>1. /\ t \in Service /\ t \in ToSet(ring) /\ Runs(t) /\ todo[t] = <<>>
      /\ todo' = [todo EXCEPT ![t] = Serve(t)]
      /\ UNCHANGED <<world, locks, allocating, stopped, gc, made, fault>>
  BY DEF Serving
<1>2. PICK k \in SUBSET {"live"} : k = {}
  OBVIOUS
<1>3. PICK s : s = Serve(t)
  OBVIOUS
<1>4. Piece(t, s, Idle(k), Idle(k))
  <2>1. CASE t = "WeakCleaner"
    <3>1. s = <<Step("LockHeap"), Step("CleanerTest"), Step("UnlockHeap")>>
      BY <1>3, <2>1 DEF Serve
    <3> QED  BY <1>1, <2>1, <3>1, CleanerPiece DEF Idle
  <2>2. CASE t = "BackgroundThread"
    <3>1. s = <<Step("LockHeap"), Step("BackgroundTest"), Step("UnlockHeap")>>
      BY <1>3, <2>2 DEF Serve
    <3> QED  BY <1>1, <2>2, <3>1, BackgroundPiece DEF Idle
  <2>3. CASE t = "ForegroundThread"
    <3>1. s = <<Step("LockHeap"), Step("ForegroundLoop")>>
      BY <1>3, <2>3 DEF Serve
    <3> QED  BY <1>1, <2>3, <3>1, ForegroundPiece DEF Idle
  <2> QED  BY <1>1, <2>1, <2>2, <2>3, ServicesAreKnown
<1> QED  BY <1>1, <1>2, <1>3, <1>4, IdleStep

LEMMA MutexStep ==
  ASSUME Sound, NEW pl, NEW D, Invariantly(pl, D), NEW t \in ToSet(ring),
         Runs(t),
         todo[t] = <<>>, NEW u \in Waiters,
         todo' = [todo EXCEPT ![t] = <<Step("InitMutex")>> \o MutexSections(t,
                                                                            u)],
         UNCHANGED <<world, locks, allocating, stopped, gc, made, fault>>
  PROVE  Invariant'
<1>1. PICK w : w = IF u = t THEN NIL ELSE u
  OBVIOUS
<1>2. PICK c : c = Spot(w, 0, {}, {"in"}, {})
  OBVIOUS
<1>3. PICK e : e = Idle({})
  OBVIOUS
<1>4. PICK s : s = <<Step("InitMutex")>> \o MutexSections(t, u)
  OBVIOUS
<1>5. /\ u \in ToSet(ring) /\ u \in exists /\ ~Contains(todo[u], Step("Leave"))
      /\ u \in Thread /\ t \in Thread
  BY DEF Waiters, Sound, RingSound
<1>6. Piece(t, s, c, e)
  BY <1>1, <1>2, <1>3, <1>4, <1>5, MutexPiece
<1>7. IsEnd(e)
  <2>1. e \in Place
    BY <1>6, PieceTyped
  <2> QED  BY <1>3, <2>1, SpotFields DEF Idle, IsEnd
<1>8. Leads(t, s, c)
  BY <1>6, <1>7 DEF Leads
<1>9. /\ c.wake = w /\ c.depth = 0 /\ c.held = {} /\ c.is = {"in"}
      /\ c.know = {} /\ c.round = {}
  BY <1>2, SpotFields
<1>10. "ending" \notin pl[u].is
  <2>1. Leads(u, todo[u], pl[u])
    BY <1>5 DEF Invariantly, Placed
  <2> QED  BY <1>5, <2>1, EndingAhead
<1>11. MayBegin(pl, t, c) /\ Knows(c)
  BY <1>1, <1>5, <1>9, <1>10 DEF MayBegin, Knows
<1> QED  BY <1>4, <1>8, <1>11, BeginStep

LEMMA CallingStep ==
  ASSUME Adversity = {}, Sound, NEW pl, NEW D, Invariantly(pl, D), NEW t,
         Calling(t)
  PROVE  Invariant'
<1>1. PICK call \in Calls :
        /\ t \in Client /\ t \in ToSet(ring) /\ Runs(t) /\ todo[t] = <<>>
        /\ call \in {"VisitAllRefs", "ReportReachable"} => Collectable
        /\ \E steps \in Body(t, call) : todo' = [todo EXCEPT ![t] = steps]
        /\ UNCHANGED <<world, locks, allocating, stopped, gc, made, fault>>
  BY DEF Calling
<1>2. PICK s \in Body(t, call) : todo' = [todo EXCEPT ![t] = s]
  BY <1>1
<1>3. PICK k \in SUBSET {"live"} : k = {}
  OBVIOUS
<1>4. PICK j \in SUBSET {"live"} : j = {"live"}
  OBVIOUS
<1>5. ASSUME Piece(t, s, Idle(k), Idle(k)) PROVE Invariant'
  BY <1>1, <1>2, <1>3, <1>5, IdleStep
<1>6. CASE call = "Self"
  <2>1. s = Section("slotsMu")
    BY <1>2, <1>6 DEF Body
  <2>2. Piece(t, s, Idle(k), Idle(k))
    BY <2>1, SectionPiece DEF Idle
  <2> QED  BY <1>5, <2>2
<1>7. CASE call = "PerfChanged"
  <2>1. s = Section("perfMu")
    BY <1>2, <1>7 DEF Body
  <2>2. Piece(t, s, Idle(k), Idle(k))
    BY <2>1, SectionPiece DEF Idle
  <2> QED  BY <1>5, <2>2
<1>8. CASE call = "NEW"
  <2>1. s = AllocTraced
    BY <1>2, <1>8 DEF Body
  <2>2. Piece(t, s, Idle(k), Idle(k))
    BY <2>1, AllocTracedPiece
  <2> QED  BY <1>5, <2>2
<1>9. CASE call = "Collect"
  <2>1. s = Collect
    BY <1>2, <1>9 DEF Body
  <2>2. Piece(t, s, Idle(k), Idle(k))
    BY <2>1, CollectPiece
  <2> QED  BY <1>5, <2>2
<1>10. CASE call \in {"VisitAllRefs", "ReportReachable"}
  <2>1. ToSet(ring) \subseteq exists
    BY <1>1, <1>10, CollectableLives DEF Runs
  <2>2. Piece(t, s, Idle(j), Idle(j))
    <3>1. CASE call = "VisitAllRefs"
      <4>1. s = VisitAllRefs
        BY <1>2, <3>1 DEF Body
      <4> QED  BY <1>1, <1>4, <4>1, VisitAllRefsPiece
    <3>2. CASE call = "ReportReachable"
      <4>1. s = ReportReachable
        BY <1>2, <3>2 DEF Body
      <4> QED  BY <1>1, <1>4, <4>1, ReportReachablePiece
    <3> QED  BY <1>10, <3>1, <3>2
  <2> QED  BY <1>1, <1>2, <1>4, <2>1, <2>2, IdleStep
<1>11. CASE call = "MUTEX"
  <2>1. PICK u \in Waiters : s = <<Step("InitMutex")>> \o MutexSections(t, u)
    BY <1>2, <1>11 DEF Body
  <2> QED  BY <1>1, <1>2, <2>1, MutexStep
<1>12. CASE call = "Fork"
  <2>1. s = RTProcessFork
    BY <1>2, <1>12 DEF Body
  <2>2. Piece(t, s, Idle(k), Idle(k))
    BY <2>1, RTProcessForkPiece
  <2> QED  BY <1>5, <2>2
<1>13. CASE call = "Start"
  <2>1. PICK v \in Service : s = StartService(v)
    BY <1>2, <1>13 DEF Body
  <2>2. Piece(t, s, Idle(k), Idle(k))
    BY <2>1, StartServicePiece DEF Idle
  <2> QED  BY <1>5, <2>2
<1> QED  BY <1>1, <1>6, <1>7, <1>8, <1>9, <1>10, <1>11, <1>12, <1>13,
            CallsAreKnown

-----------------------------------------------------------------------------
(* Every step keeps the invariant.                                         *)

LEMMA HeapKeeps ==
  ASSUME Sound, NEW pl, NEW D, Invariantly(pl, D), NEW t \in Thread,
         Heap(t)
  PROVE  Invariant'
<1>1. ASSUME LockHeap(t) PROVE Invariant'
  <2>1. At(t, Step("LockHeap"))
    BY <1>1 DEF LockHeap
  <2>2. PICK a, b, r : Ready(pl, D, t, Step("LockHeap"), a, b, r)
    BY <2>1, Here
  <2> QED  BY <1>1, <2>2, LockHeapStep
<1>2. ASSUME HoldHeap(t) PROVE Invariant'
  <2>1. PICK x : x \in {Step("HoldHeap")} /\ At(t, x)
    BY <1>2 DEF HoldHeap
  <2>2. PICK a, b, r : Ready(pl, D, t, x, a, b, r)
    BY <2>1, Here
  <2> QED  BY <1>2, <2>1, <2>2, EnterHeapStep
<1>3. ASSUME UnlockHeap(t) PROVE Invariant'
  <2>1. At(t, Step("UnlockHeap"))
    BY <1>3 DEF UnlockHeap
  <2>2. PICK a, b, r : Ready(pl, D, t, Step("UnlockHeap"), a, b, r)
    BY <2>1, Here
  <2> QED  BY <1>3, <2>2, UnlockHeapStep
<1>4. ASSUME WaitHeap(t) PROVE Invariant'
  <2>1. At(t, Step("WaitHeap"))
    BY <1>4 DEF WaitHeap
  <2>2. PICK a, b, r : Ready(pl, D, t, Step("WaitHeap"), a, b, r)
    BY <2>1, Here
  <2> QED  BY <1>4, <2>2, WaitHeapStep
<1>5. ASSUME HaveWaited(t) PROVE Invariant'
  <2>1. PICK x : x \in {Step("HaveWaited")} /\ At(t, x)
    BY <1>5 DEF HaveWaited
  <2>2. PICK a, b, r : Ready(pl, D, t, x, a, b, r)
    BY <2>1, Here
  <2> QED  BY <1>5, <2>1, <2>2, EnterHeapStep
<1> QED  BY <1>1, <1>2, <1>3, <1>4, <1>5
  DEF Heap

LEMMA CollectSomeKeeps ==
  ASSUME Sound, NEW pl, NEW D, Invariantly(pl, D), NEW t \in Thread,
         CollectSome(t)
  PROVE  Invariant'
<1>1. ASSUME CollectSomeInStateZero(t) PROVE Invariant'
  <2>1. At(t, Step("CollectSome"))
    BY <1>1 DEF CollectSomeInStateZero, CollectorStep, CollectIn
  <2>2. PICK a, b, r : Ready(pl, D, t, Step("CollectSome"), a, b, r)
    BY <2>1, Here
  <2> QED  BY <1>1, <2>2, CollectSomeInStateZeroStep
<1>2. ASSUME CopySome(t) PROVE Invariant'
  <2>1. At(t, Step("CollectSome"))
    BY <1>2 DEF CopySome, CollectorStep, CollectIn
  <2>2. PICK a, b, r : Ready(pl, D, t, Step("CollectSome"), a, b, r)
    BY <2>1, Here
  <2> QED  BY <1>2, <2>2, CopySomeStep
<1>3. ASSUME CollectSomeInStateThree(t) PROVE Invariant'
  <2>1. At(t, Step("CollectSome"))
    BY <1>3 DEF CollectSomeInStateThree, CollectorStep, CollectIn
  <2>2. PICK a, b, r : Ready(pl, D, t, Step("CollectSome"), a, b, r)
    BY <2>1, Here
  <2> QED  BY <1>3, <2>2, CollectSomeInStateThreeStep
<1>4. ASSUME CollectSomeInStateFive(t) PROVE Invariant'
  <2>1. At(t, Step("CollectSome"))
    BY <1>4 DEF CollectSomeInStateFive, CollectorStep, CollectIn
  <2>2. PICK a, b, r : Ready(pl, D, t, Step("CollectSome"), a, b, r)
    BY <2>1, Here
  <2> QED  BY <1>4, <2>2, CollectSomeInStateFiveStep
<1> QED  BY <1>1, <1>2, <1>3, <1>4
  DEF CollectSome

LEMMA CollectorKeeps ==
  ASSUME Adversity = {}, Sound, NEW pl, NEW D, Invariantly(pl, D),
         NEW t \in Thread,
         Collector(t)
  PROVE  Invariant'
<1>1. ASSUME CollectEnough(t) PROVE Invariant'
  <2>1. At(t, Step("CollectEnough"))
    BY <1>1 DEF CollectEnough, CollectorStep
  <2>2. PICK a, b, r : Ready(pl, D, t, Step("CollectEnough"), a, b, r)
    BY <2>1, Here
  <2> QED  BY <1>1, <2>2, CollectEnoughStep
<1>2. ASSUME CollectMore(t) PROVE Invariant'
  <2>1. At(t, Step("CollectMore"))
    BY <1>2 DEF CollectMore, CollectorStep
  <2>2. PICK a, b, r : Ready(pl, D, t, Step("CollectMore"), a, b, r)
    BY <2>1, Here
  <2> QED  BY <1>2, <2>2, CollectMoreStep
<1>3. ASSUME CollectorOn(t) PROVE Invariant'
  <2>1. At(t, Step("CollectorOn"))
    BY <1>3 DEF CollectorOn, CollectorStep
  <2>2. PICK a, b, r : Ready(pl, D, t, Step("CollectorOn"), a, b, r)
    BY <2>1, Here
  <2> QED  BY <1>3, <2>2, CollectorOnStep
<1>4. ASSUME CollectorOff(t) PROVE Invariant'
  <2>1. At(t, Step("CollectorOff"))
    BY <1>4 DEF CollectorOff, CollectorStep
  <2>2. PICK a, b, r : Ready(pl, D, t, Step("CollectorOff"), a, b, r)
    BY <2>1, Here
  <2> QED  BY <1>4, <2>2, CollectorOffStep
<1>5. ASSUME EndCollection(t) PROVE Invariant'
  <2>1. At(t, Step("EndCollection"))
    BY <1>5 DEF EndCollection, CollectorStep
  <2>2. PICK a, b, r : Ready(pl, D, t, Step("EndCollection"), a, b, r)
    BY <2>1, Here
  <2> QED  BY <1>5, <2>2, EndCollectionStep
<1>6. ASSUME CollectAll(t) PROVE Invariant'
  <2>1. At(t, Step("CollectAll"))
    BY <1>6 DEF CollectAll, CollectorStep
  <2>2. PICK a, b, r : Ready(pl, D, t, Step("CollectAll"), a, b, r)
    BY <2>1, Here
  <2> QED  BY <1>6, <2>2, CollectAllStep
<1>7. ASSUME StartGC(t) PROVE Invariant'
  <2>1. At(t, Step("StartGC"))
    BY <1>7 DEF StartGC, CollectorStep
  <2>2. PICK a, b, r : Ready(pl, D, t, Step("StartGC"), a, b, r)
    BY <2>1, Here
  <2> QED  BY <1>7, <2>2, StartGCStep
<1>8. ASSUME CountDisabled(t) PROVE Invariant'
  <2>1. PICK x : At(t, x)
    BY <1>8 DEF CountDisabled, CollectorStep
  <2>2. PICK a, b, r : Ready(pl, D, t, x, a, b, r)
    BY <2>1, Here
  <2> QED  BY <1>8, <2>2, CountDisabledStep
<1>9. ASSUME MarkRoots(t) PROVE Invariant'
  <2>1. At(t, Step("MarkRoots"))
    BY <1>9 DEF MarkRoots, CollectorStep
  <2>2. PICK a, b, r : Ready(pl, D, t, Step("MarkRoots"), a, b, r)
    BY <2>1, Here
  <2> QED  BY <1>9, <2>2, MarkRootsStep
<1>10. ASSUME StopWorld(t) PROVE Invariant'
  <2>1. At(t, Step("StopWorld"))
    BY <1>10 DEF StopWorld
  <2>2. PICK a, b, r : Ready(pl, D, t, Step("StopWorld"), a, b, r)
    BY <2>1, Here
  <2> QED  BY <1>10, <2>2, StopWorldStep
<1>11. ASSUME StartWorld(t) PROVE Invariant'
  <2>1. At(t, Step("StartWorld"))
    BY <1>11 DEF StartWorld
  <2>2. PICK a, b, r : Ready(pl, D, t, Step("StartWorld"), a, b, r)
    BY <2>1, Here
  <2> QED  BY <1>11, <2>2, StartWorldStep
<1>12. ASSUME BackgroundThread(t) PROVE Invariant'
  <2>1. At(t, Step("BackgroundTest"))
    BY <1>12 DEF BackgroundThread, CollectorStep
  <2>2. PICK a, b, r : Ready(pl, D, t, Step("BackgroundTest"), a, b, r)
    BY <2>1, Here
  <2> QED  BY <1>12, <2>2, BackgroundThreadStep
<1>13. ASSUME BackgroundAwake(t) PROVE Invariant'
  <2>1. At(t, Step("BackgroundAwake"))
    BY <1>13 DEF BackgroundAwake, CollectorStep
  <2>2. PICK a, b, r : Ready(pl, D, t, Step("BackgroundAwake"), a, b, r)
    BY <2>1, Here
  <2> QED  BY <1>13, <2>2, BackgroundAwakeStep
<1>14. ASSUME ForegroundThread(t) PROVE Invariant'
  <2>1. At(t, Step("ForegroundLoop"))
    BY <1>14 DEF ForegroundThread, CollectorStep
  <2>2. PICK a, b, r : Ready(pl, D, t, Step("ForegroundLoop"), a, b, r)
    BY <2>1, Here
  <2> QED  BY <1>14, <2>2, ForegroundThreadStep
<1>15. ASSUME ForegroundAwake(t) PROVE Invariant'
  <2>1. At(t, Step("ForegroundAwake"))
    BY <1>15 DEF ForegroundAwake, CollectorStep
  <2>2. PICK a, b, r : Ready(pl, D, t, Step("ForegroundAwake"), a, b, r)
    BY <2>1, Here
  <2> QED  BY <1>15, <2>2, ForegroundAwakeStep
<1>16. ASSUME WeakCleaner(t) PROVE Invariant'
  <2>1. At(t, Step("CleanerTest"))
    BY <1>16 DEF WeakCleaner, CollectorStep
  <2>2. PICK a, b, r : Ready(pl, D, t, Step("CleanerTest"), a, b, r)
    BY <2>1, Here
  <2> QED  BY <1>16, <2>2, WeakCleanerStep
<1>17. ASSUME TakeDead(t) PROVE Invariant'
  <2>1. At(t, Step("TakeDead"))
    BY <1>17 DEF TakeDead, CollectorStep
  <2>2. PICK a, b, r : Ready(pl, D, t, Step("TakeDead"), a, b, r)
    BY <2>1, Here
  <2> QED  BY <1>17, <2>2, TakeDeadStep
<1> QED  BY CollectSomeKeeps, <1>1, <1>2, <1>3, <1>4, <1>5, <1>6, <1>7, <1>8,
            <1>9, <1>10, <1>11, <1>12, <1>13, <1>14, <1>15, <1>16, <1>17
  DEF Collector

LEMMA RuntimeKeeps ==
  ASSUME Sound, NEW pl, NEW D, Invariantly(pl, D), NEW t \in Thread,
         Runtime(t)
  PROVE  Invariant'
<1>1. ASSUME NeedsMutex(t) PROVE Invariant'
  <2>1. At(t, Step("InitMutex"))
    BY <1>1 DEF NeedsMutex
  <2>2. PICK a, b, r : Ready(pl, D, t, Step("InitMutex"), a, b, r)
    BY <2>1, Here
  <2> QED  BY <1>1, <2>2, NeedsMutexStep
<1>2. ASSUME InitMutex(t) PROVE Invariant'
  <2>1. At(t, Step("MakeMutex"))
    BY <1>2 DEF InitMutex
  <2>2. PICK a, b, r : Ready(pl, D, t, Step("MakeMutex"), a, b, r)
    BY <2>1, Here
  <2> QED  BY <1>2, <2>2, InitMutexStep
<1>3. ASSUME SetMutex(t) PROVE Invariant'
  <2>1. At(t, Step("SetMutex"))
    BY <1>3 DEF SetMutex
  <2>2. PICK a, b, r : Ready(pl, D, t, Step("SetMutex"), a, b, r)
    BY <2>1, Here
  <2> QED  BY <1>3, <2>2, SetMutexStep
<1>4. ASSUME Critical(t) PROVE Invariant'
  <2>1. PICK x : At(t, x)
    BY <1>4 DEF Critical
  <2>2. PICK a, b, r : Ready(pl, D, t, x, a, b, r)
    BY <2>1, Here
  <2> QED  BY <1>4, <2>2, CriticalStep
<1> QED  BY <1>1, <1>2, <1>3, <1>4
  DEF Runtime

LEMMA ProcessKeeps ==
  ASSUME Sound, NEW pl, NEW D, Invariantly(pl, D), NEW t \in Thread,
         Process(t)
  PROVE  Invariant'
<1>1. ASSUME Start(t) PROVE Invariant'
  <2>1. PICK x : At(t, x)
    BY <1>1 DEF Start
  <2>2. PICK a, b, r : Ready(pl, D, t, x, a, b, r)
    BY <2>1, Here
  <2> QED  BY <1>1, <2>2, StartStep
<1>2. ASSUME CreateService(t) PROVE Invariant'
  <2>1. PICK x : At(t, x)
    BY <1>2 DEF CreateService
  <2>2. PICK a, b, r : Ready(pl, D, t, x, a, b, r)
    BY <2>1, Here
  <2> QED  BY <1>2, <2>2, CreateServiceStep
<1>3. ASSUME Enter(t) PROVE Invariant'
  <2>1. At(t, Step("Enter"))
    BY <1>3 DEF Enter
  <2>2. PICK a, b, r : Ready(pl, D, t, Step("Enter"), a, b, r)
    BY <2>1, Here
  <2> QED  BY <1>3, <2>2, EnterStep
<1>4. ASSUME Leave(t) PROVE Invariant'
  <2>1. At(t, Step("Leave"))
    BY <1>4 DEF Leave
  <2>2. PICK a, b, r : Ready(pl, D, t, Step("Leave"), a, b, r)
    BY <2>1, Here
  <2> QED  BY <1>4, <2>2, LeaveStep
<1>5. ASSUME Exit(t) PROVE Invariant'
  <2>1. At(t, Step("Exit"))
    BY <1>5 DEF Exit
  <2>2. PICK a, b, r : Ready(pl, D, t, Step("Exit"), a, b, r)
    BY <2>1, Here
  <2> QED  BY <1>5, <2>2, ExitStep
<1>6. ASSUME WalkRing(t) PROVE Invariant'
  <2>1. PICK x : At(t, x)
    BY <1>6 DEF WalkRing
  <2>2. PICK a, b, r : Ready(pl, D, t, x, a, b, r)
    BY <2>1, Here
  <2> QED  BY <1>6, <2>2, WalkRingStep
<1>7. ASSUME EnterFork(t) PROVE Invariant'
  <2>1. At(t, Step("EnterFork"))
    BY <1>7 DEF EnterFork
  <2>2. PICK a, b, r : Ready(pl, D, t, Step("EnterFork"), a, b, r)
    BY <2>1, Here
  <2> QED  BY <1>7, <2>2, EnterForkStep
<1>8. ASSUME Fork(t) PROVE Invariant'
  <2>1. At(t, Step("Fork"))
    BY <1>8 DEF Fork
  <2>2. PICK a, b, r : Ready(pl, D, t, Step("Fork"), a, b, r)
    BY <2>1, Here
  <2> QED  BY <1>8, <2>2, ForkStep
<1>9. ASSUME ForgetStarted(t) PROVE Invariant'
  <2>1. At(t, Step("ForgetStarted"))
    BY <1>9 DEF ForgetStarted
  <2>2. PICK a, b, r : Ready(pl, D, t, Step("ForgetStarted"), a, b, r)
    BY <2>1, Here
  <2> QED  BY <1>9, <2>2, ForgetStartedStep
<1>10. ASSUME LeaveFork(t) PROVE Invariant'
  <2>1. At(t, Step("LeaveFork"))
    BY <1>10 DEF LeaveFork
  <2>2. PICK a, b, r : Ready(pl, D, t, Step("LeaveFork"), a, b, r)
    BY <2>1, Here
  <2> QED  BY <1>10, <2>2, LeaveForkStep
<1> QED  BY <1>1, <1>2, <1>3, <1>4, <1>5, <1>6, <1>7, <1>8, <1>9, <1>10
  DEF Process

LEMMA ContinueKeeps ==
  ASSUME Adversity = {}, Sound, NEW pl, NEW D, Invariantly(pl, D),
         NEW t \in Thread,
         Continue(t)
  PROVE  Invariant'
<1>1. ASSUME LockStep(t) PROVE Invariant'
  <2>1. PICK x : At(t, x)
    BY <1>1 DEF LockStep
  <2>2. PICK a, b, r : Ready(pl, D, t, x, a, b, r)
    BY <2>1, Here
  <2> QED  BY <1>1, <2>2, LockStepStep
<1>2. ASSUME UnlockStep(t) PROVE Invariant'
  <2>1. PICK x : At(t, x)
    BY <1>2 DEF UnlockStep
  <2>2. PICK a, b, r : Ready(pl, D, t, x, a, b, r)
    BY <2>1, Here
  <2> QED  BY <1>2, <2>2, UnlockStepStep
<1> QED
  BY <1>1, <1>2, HeapKeeps, CollectorKeeps, RuntimeKeeps, ProcessKeeps
  DEF Continue

\* The invariant is about the variables of HeapLock only.
LEMMA InvariantStutters ==
  ASSUME Invariant, UNCHANGED vars
  PROVE  Invariant'
<1>1. PICK pl \in [Thread -> Place], D \in SUBSET Client :
        Placed(pl) /\ Counted(pl, D) /\ Apart(pl) /\ Stopper(pl)
  BY DEF Invariant
<1>2. Sound'
  BY DEF Invariant, Sound, GcTyped, HeapSound, RingSound, Roused, vars, world,
    locks
<1>3. Placed(pl)'
  <2>1. SUFFICES ASSUME NEW t \in exists
                 PROVE  Fits(t, pl[t])' /\ Leads(t, todo'[t], pl[t])
    BY DEF Placed, vars, world
  <2>2. PICK c : c = pl[t]
    OBVIOUS
  <2>3. Fits(t, c) /\ Leads(t, todo[t], c)
    BY <1>1, <2>2 DEF Placed
  <2>4. Holds(c)' = Holds(c)
    BY DEF Holds, vars, world
  <2>5. Fits(t, c)'
    BY <2>3, <2>4 DEF Fits, FitsLocks, FitsRing, Knows, vars, world, locks
  <2>6. todo' = todo
    BY DEF vars
  <2> QED  BY <2>2, <2>3, <2>5, <2>6
<1>4. Counted(pl, D)' /\ Apart(pl)' /\ Stopper(pl)'
  BY <1>1 DEF Counted, Apart, Stopper, vars, world, locks
<1> QED  BY <1>1, <1>2, <1>3, <1>4 DEF Invariant

LEMMA NextKeeps ==
  ASSUME Adversity = {}, Invariant, [Next]_vars
  PROVE  Invariant'
<1>1. PICK pl \in [Thread -> Place], D \in SUBSET Client :
        Placed(pl) /\ Counted(pl, D) /\ Apart(pl) /\ Stopper(pl)
  BY DEF Invariant
<1>2. Sound /\ Invariantly(pl, D)
  BY <1>1 DEF Invariant, Invariantly
<1>3. CASE UNCHANGED vars
  BY <1>3, InvariantStutters
<1>4. CASE Next
  <2>1. ASSUME NEW t \in Thread, Continue(t) PROVE Invariant'
    BY <1>2, <2>1, ContinueKeeps
  <2>2. ASSUME NEW t \in Thread, Serving(t) PROVE Invariant'
    BY <1>2, <2>2, ServingStep
  <2>3. ASSUME NEW t \in Thread, Begin(t) PROVE Invariant'
    BY <1>2, <2>3, CallingStep, CreateClientStep, EndingStep DEF Begin
  <2>4. ASSUME NEW t \in Thread, SpuriousWakeup(t) PROVE Invariant'
    BY <1>2, <2>4, SpuriousWakeupStep
  <2>5. ASSUME ProcessEnded PROVE Invariant'
    BY <2>5, InvariantStutters DEF ProcessEnded
  <2> QED  BY <1>4, <2>1, <2>2, <2>3, <2>4, <2>5 DEF Next
<1> QED  BY <1>3, <1>4

LEMMA InitInvariant == ASSUME Init PROVE Invariant
<1>1. PICK c : c = Idle({})
  OBVIOUS
<1>2. /\ c.wake = NIL /\ c.depth = 0 /\ c.held = {} /\ c.is = {"in"}
      /\ c.know = {} /\ c.round = {} /\ c \in Place
  BY <1>1 DEF Idle, Spot, Place, Flags
<1>3. IsEnd(c)
  BY <1>2 DEF IsEnd
<1>4. Main \in Thread /\ Main # NIL
  BY MainIsAClient, ThreadsAreNoLocks DEF Thread
<1>5. /\ ring \in Seq(Thread) /\ IsInjective(ring) /\ ToSet(ring) = {Main}
  <2>1. ring = <<Main>> /\ DOMAIN <<Main>> = {1} /\ <<Main>>[1] = Main
    BY DEF Init
  <2>2. ToSet(ring) = {Main}
    BY <2>1 DEF ToSet
  <2>3. IsInjective(ring)
    BY <2>1 DEF IsInjective
  <2> QED  BY <1>4, <2>1, <2>2, <2>3
<1>6. Sound
  <2>1. GcTyped
    BY MaxDeadIsPositive DEF Init, GcTyped, NoCollection
  <2>2. HeapSound
    BY DEF Init, HeapSound, Roused, NoCollection
  <2>3. RingSound
    BY <1>4, <1>5 DEF Init, RingSound
  <2>4. todo \in [Thread -> Seq(Steps)]
    <3>1. <<>> \in Seq(Steps)
      OBVIOUS
    <3> QED  BY <3>1 DEF Init
  <2> QED  BY <2>1, <2>2, <2>3, <2>4 DEF Sound
<1>7. PICK pl \in [Thread -> Place] : pl = [t \in Thread |-> c]
  BY <1>2
<1>8. Placed(pl)
  <2>1. Leads(Main, todo[Main], c)
    <3>1. todo[Main] = <<>>
      BY <1>4 DEF Init
    <3> QED  BY <1>3, <3>1, EndLeads
  <2>2. Fits(Main, c)
    <3>1. Holds(c) = {}
      BY <1>2 DEF Holds
    <3>2. \A l \in Locks : owner[l] = NIL
      BY DEF Init
    <3>3. FitsLocks(Main, c)
      BY <1>2, <1>4, <3>1, <3>2 DEF Init, FitsLocks
    <3>4. FitsRing(Main, c) /\ Knows(c)
      BY <1>2, <1>5 DEF Init, FitsRing, Knows
    <3> QED  BY <3>3, <3>4 DEF Fits
  <2>3. exists = {Main} /\ pl[Main] = c
    BY <1>4, <1>7 DEF Init
  <2> QED  BY <2>1, <2>2, <2>3 DEF Placed
<1>9. Counted(pl, {})
  <2>1. gc.disabled = 0 /\ Cardinality({}) = 0 /\ IsFiniteSet({})
    BY FS_EmptySet DEF Init, NoCollection
  <2>2. \A t \in exists : "dis" \notin pl[t].is
    BY <1>2, <1>4, <1>7 DEF Init
  <2> QED  BY <2>1, <2>2 DEF Counted
<1>10. Apart(pl) /\ Stopper(pl)
  BY <1>2, <1>4, <1>7 DEF Init, Apart, Stopper
<1> QED  BY <1>6, <1>8, <1>9, <1>10 DEF Invariant

\* The invariant holds, whoever runs and whatever is called.
THEOREM Invariance ==
  ASSUME Adversity = {}
  PROVE  Spec => []Invariant
<1>1. Init => Invariant
  BY InitInvariant
<1>2. Invariant /\ [Next]_vars => Invariant'
  BY NextKeeps
<1> QED  BY <1>1, <1>2, PTL DEF Spec

-----------------------------------------------------------------------------
(* What follows from it.                                                   *)

LEMMA DepthsFit ==
  ASSUME Invariant, NEW t \in exists
  PROVE  Depth(todo[t]) = IF holder = t THEN inCritical ELSE 0
<1>1. PICK a : Fits(t, a) /\ Leads(t, todo[t], a)
  BY DEF Invariant, Placed
<1>2. PICK e : IsEnd(e) /\ Piece(t, todo[t], a, e)
  BY <1>1 DEF Leads
<1>3. Depth(todo[t]) = a.depth - e.depth /\ e.depth = 0
  BY <1>2 DEF Piece, IsEnd
<1>4. a.depth \in Int
  BY <1>2, PieceTyped
<1>5. a.depth = IF holder = t THEN inCritical ELSE 0
  BY <1>1 DEF Fits, FitsLocks
<1>6. Depth(todo[t]) = a.depth
  BY <1>3, <1>4
<1> QED  BY <1>5, <1>6

LEMMA HolderOwns ==
  ASSUME Invariant, holder # NIL
  PROVE  owner["heapMu"] = holder
<1>1. holder \in exists /\ inCritical \in 1 .. 3
  BY DEF Invariant, Sound, HeapSound
<1>2. PICK a : Fits(holder, a) /\ Leads(holder, todo[holder], a)
  BY <1>1 DEF Invariant, Placed
<1>3. "heapMu" \in a.held
  <2>1. Sane(holder, a) /\ a.depth = inCritical
    BY <1>2, LeadsSane DEF Fits, FitsLocks
  <2> QED  BY <1>1, <2>1 DEF Sane
<1> QED  BY <1>2, <1>3 DEF Fits, FitsLocks, Holds, Locks, Global

LEMMA InvariantTyped == ASSUME Invariant PROVE TypeOK
<1>1. GcTyped /\ HeapSound /\ RingSound /\ todo \in [Thread -> Seq(Steps)]
  BY DEF Invariant, Sound
<1>2. /\ process \in {"parent", "child"} /\ exists \subseteq Thread
      /\ ToSet(ring) \subseteq Thread /\ IsInjective(ring)
      /\ allocating \subseteq exists /\ deferred \subseteq exists
      /\ stopped \subseteq exists /\ asleep \subseteq exists /\ made \in 0 .. 1
  BY <1>1 DEF RingSound, HeapSound
<1>3. owner \in [Locks -> Thread \union {NIL}] /\ holder \in Thread \union {NIL}
  BY <1>1, <1>2 DEF HeapSound
<1>4. inCritical \in 0 .. 3
  BY <1>1 DEF HeapSound
<1>5. /\ gc.state \in {"Zero", "Three", "Five"} /\ gc.dead \in 0 .. MaxDead
      /\ gc.started \subseteq Service /\ gc.disabled \in Nat
  BY <1>1 DEF GcTyped
<1>6. gc.disabled \in 0 .. Cardinality(Client)
  <2>1. PICK D \in SUBSET Client : gc.disabled = Cardinality(D)
    BY DEF Invariant, Counted
  <2>2. /\ Cardinality(D) <= Cardinality(Client)
        /\ Cardinality(Client) \in Nat
    BY ClientsAreFinite, FS_Subset, FS_CardinalityType
  <2> QED  BY <1>5, <2>1, <2>2
<1> QED  BY <1>1, <1>2, <1>3, <1>4, <1>5, <1>6 DEF TypeOK

\* The variables have their types: in particular LockHeap nests at most three
\* deep, nobody who has ended is asleep, stopped or allocating, and
\* disableCount never falls below zero.
THEOREM TypeCorrect ==
  ASSUME Adversity = {}
  PROVE  Spec => []TypeOK
<1>1. Invariant => TypeOK
  BY InvariantTyped
<1> QED  BY <1>1, Invariance, PTL

\* LockHeap, UnlockHeap and WaitHeap exclude, for every thread, every call and
\* every nesting, although holder is read without the mutex; and none of the
\* assertions of the lock, of the collector and of the fork handlers fails.
THEOREM HeapExcludes ==
  ASSUME Adversity = {}
  PROVE  Spec => []HeapExclusion
<1>1. Invariant => HeapExclusion
  BY DepthsFit, HolderOwns DEF HeapExclusion, Invariant, Sound, RingSound
<1> QED  BY <1>1, Invariance, PTL

\* WeakCleaner and BackgroundThread are not asleep over work once the heap lock
\* is free: whoever makes work for them broadcasts before he leaves.
THEOREM WorkIsNotSleptOver ==
  ASSUME Adversity = {}
  PROVE  Spec => []WorkWakes
<1>1. ASSUME Invariant PROVE WorkWakes
  <2>1. SUFFICES ASSUME owner["heapMu"] = NIL
                 PROVE  /\ "WeakCleaner" \in asleep => gc.dead = 0
                        /\ "BackgroundThread" \in asleep => gc.state = "Zero"
    BY DEF WorkWakes
  <2>2. GcTyped /\ HeapSound
    BY <1>1 DEF Invariant, Sound
  <2>3. holder = NIL
    BY <1>1, <2>1, HolderOwns
  <2>4. ~gc.on /\ Roused
    BY <2>2, <2>3 DEF HeapSound
  <2>5. gc.dead \in Nat
    BY <2>2, MaxDeadIsPositive DEF GcTyped
  <2> QED  BY <2>4, <2>5 DEF Roused
<1> QED  BY <1>1, Invariance, PTL

-----------------------------------------------------------------------------
(* Nobody waits in a circle.                                               *)

\* The order of the locks as numbers.  The mutexes of threads that LockRing
\* locks, under activeMu, come after the one that a thread locks by itself.
Height(l, a) ==
  CASE l = "slotsMu" -> 1 [] l = "perfMu" -> 2 [] l = "initMu" -> 3
    [] l = "heapMu" -> 4 [] l = "activeMu" -> 5
    [] l \in Thread -> IF "activeMu" \in a.held THEN 7 ELSE 6
    [] l = "m" -> 8

\* In place a, thread t is about to lock l.
AboutToLock(t, l, a) ==
  /\ WaitsFor(t) \subseteq {owner[l]}
  /\ l \in Locks /\ Above(t, l, a) /\ l \notin a.held /\ Head(todo[t]) = Lock(l)

LEMMA Waiting ==
  ASSUME Sound, NEW pl, NEW D, Invariantly(pl, D), NEW t \in exists \ stopped,
         WaitsFor(t) # {}
  PROVE  /\ Free(pl[t])
         /\ \/ \E l \in Locks : AboutToLock(t, l, pl[t])
            \/ /\ Head(todo[t]) = Step("StopWorld")
               /\ WaitsFor(t) \subseteq
                    ToSet(ring) \cap ((allocating \union deferred) \ stopped)
<1>1. todo[t] # <<>> /\ t \notin asleep
  BY DEF WaitsFor
<1>2. PICK a : a = pl[t]
  OBVIOUS
<1>3. PICK x : x = Head(todo[t])
  OBVIOUS
<1>4. PICK b : Rule(t, x, a, b)
  BY <1>1, <1>2, <1>3, LeadsOn DEF Invariantly, Placed
<1>5. x \in Steps
  BY <1>1, <1>3, LeadsOn DEF Invariantly, Placed
<1>6. CASE x[1] = "lock"
  <2>1. PICK l \in Locks : x = Lock(l)
    BY <1>5, <1>6 DEF Steps, Lock, Unlock, Step
  <2>2. Locking(t, l, a, b)
    BY <1>4, <2>1 DEF Rule, Lock
  <2>3. WaitsFor(t) \subseteq {owner[l]}
    BY <1>1, <1>3, <1>6, <2>1 DEF WaitsFor, Lock
  <2>4. AboutToLock(t, l, a) /\ Free(a)
    BY <1>3, <2>1, <2>2, <2>3 DEF AboutToLock, Locking
  <2> QED  BY <1>2, <2>4
<1>7. CASE x[1] # "lock"
  <2>1. /\ x = Step("StopWorld")
        /\ WaitsFor(t) = (ToSet(ring) \ {t})
                           \cap ((allocating \union deferred) \ stopped)
    BY <1>1, <1>3, <1>7 DEF WaitsFor
  <2>2. WorldRule(t, "StopWorld", a, b)
    BY <1>4, <2>1 DEF Rule, Step
  <2>3. Free(a)
    BY <2>2 DEF WorldRule
  <2> QED  BY <1>2, <1>3, <2>1, <2>3
<1> QED  BY <1>6, <1>7

\* A thread that allocates or whose signals are held back waits for nobody.
LEMMA BusyWaitsNot ==
  ASSUME Sound, NEW pl, NEW D, Invariantly(pl, D), NEW t \in exists \ stopped,
         t \in allocating \union deferred
  PROVE  WaitsFor(t) = {}
<1>1. "alloc" \in pl[t].is \/ "fork" \in pl[t].is
  BY DEF Invariantly, Placed, Fits, FitsRing
<1> QED  BY <1>1, Waiting DEF Free

\* Who waits for a lock wants one that is higher than those that he holds.
LEMMA HigherThanHeld ==
  ASSUME NEW t \in Thread, NEW u \in Thread, NEW k, NEW l, NEW a, NEW b,
         Sane(u, b), AboutToLock(t, k, a), AboutToLock(u, l, b), k \in b.held,
         "activeMu" \in b.held => "activeMu" \notin a.held
  PROVE  Height(k, a) < Height(l, b)
<1>1. /\ Above(u, l, b) /\ l \notin b.held /\ k \in Locks /\ l \in Locks
  BY DEF AboutToLock
<1>2. /\ \A j \in Global : j \notin Thread
      /\ "m" \notin Thread
  BY ThreadsAreNoLocks DEF Global
<1>3. CASE l \in Global
  <2>1. CASE l \in b.round
    BY <1>1, <1>2, <1>3, <2>1 DEF Sane, Place
  <2>2. CASE l \notin b.round
    <3>1. CASE l = "slotsMu"
      BY <1>1, <1>2, <2>2, <3>1 DEF Above, Global
    <3>2. CASE l = "perfMu"
      BY <1>1, <1>2, <2>2, <3>2 DEF Above, Global, Height
    <3>3. CASE l = "initMu"
      BY <1>1, <1>2, <2>2, <3>3 DEF Above, Global, Height
    <3>4. CASE l = "heapMu"
      BY <1>1, <1>2, <2>2, <3>4 DEF Above, Global, Height, Outer
    <3>5. CASE l = "activeMu"
      BY <1>1, <1>2, <2>2, <3>5 DEF Above, Global, Height, Outer
    <3> QED  BY <1>3, <3>1, <3>2, <3>3, <3>4, <3>5 DEF Global
  <2> QED  BY <2>1, <2>2
<1>4. CASE l \in Thread
  <2>1. l \in b.round
    BY <1>1, <1>2, <1>4 DEF Above, Global
  <2>2. /\ Global \subseteq b.held /\ b.held \subseteq Global \union b.round
        /\ b.round \subseteq Thread /\ "activeMu" \in b.held
    BY <2>1 DEF Sane, Place, Global
  <2>3. Height(l, b) = 7
    BY <1>2, <1>4, <2>2 DEF Height, Global
  <2>4. k \in Global \/ k \in Thread
    BY <2>2
  <2>5. Height(k, a) \in 1 .. 6
    <3>1. CASE k \in Thread
      BY <1>2, <2>2, <3>1 DEF Height, Global
    <3>2. CASE k \in Global
      BY <1>2, <3>2 DEF Height, Global
    <3> QED  BY <2>4, <3>1, <3>2
  <2> QED  BY <2>3, <2>5
<1>5. CASE l = "m"
  <2>1. "m" \notin b.round
    BY <1>2 DEF Sane, Place
  <2>2. b.held = {u} /\ k = u
    BY <1>1, <1>2, <1>5, <2>1 DEF Above
  <2>3. Height(l, b) = 8
    BY <1>2, <1>5 DEF Height
  <2>4. Height(k, a) \in 6 .. 7
    BY <1>2, <2>2 DEF Height, Global
  <2> QED  BY <2>3, <2>4
<1> QED  BY <1>1, <1>3, <1>4, <1>5 DEF Locks

LEMMA SomeHighest ==
  ASSUME NEW S, S # {}, NEW r \in [S -> 0 .. 8]
  PROVE  \E t \in S : \A u \in S : r[u] <= r[t]
<1> DEFINE Less == {p \in Nat \X Nat : p[1] < p[2]}
           T == {8 - r[t] : t \in S}
<1>1. IsWellFoundedOn(Less, Nat)
  BY NatLessThanWellFounded DEF OpToRel
<1>2. T \subseteq Nat /\ T # {}
  OBVIOUS
<1>3. PICK x \in T : \A y \in T : ~(<<y, x>> \in Less)
  BY <1>1, <1>2, WFMin
<1>4. PICK t \in S : x = 8 - r[t]
  BY <1>3
<1>5. ASSUME NEW u \in S PROVE r[u] <= r[t]
  <2>1. 8 - r[u] \in T /\ 8 - r[u] \in Nat /\ x \in Nat
    BY <1>2, <1>3
  <2>2. ~(8 - r[u] < x)
    BY <1>3, <2>1
  <2>3. r[u] \in 0 .. 8 /\ r[t] \in 0 .. 8
    OBVIOUS
  <2> QED  BY <1>4, <2>2, <2>3
<1> QED  BY <1>5

LEMMA InvariantFree == ASSUME Invariant PROVE NobodyStuck
<1>1. PICK pl \in [Thread -> Place], D \in SUBSET Client :
        Placed(pl) /\ Counted(pl, D) /\ Apart(pl) /\ Stopper(pl)
  BY DEF Invariant
<1>2. Sound /\ Invariantly(pl, D)
  BY <1>1 DEF Invariant, Invariantly
<1>3. /\ exists \subseteq Thread /\ NIL \notin Thread
      /\ stopped \subseteq exists /\ allocating \subseteq exists
      /\ deferred \subseteq exists
      /\ owner \in [Locks -> exists \union {NIL}]
      /\ stopped # {} => owner["activeMu"] \notin stopped \union {NIL}
      /\ "activeMu" \in Locks
  BY <1>2, ThreadsAreNoLocks DEF Sound, RingSound, HeapSound, Locks, Global

<1>4. ASSUME NEW t \in exists PROVE WaitsFor(t) \subseteq exists \union {NIL}
  <2>1. CASE t \in stopped
    BY <1>3, <2>1 DEF WaitsFor
  <2>2. CASE t \notin stopped
    BY <1>2, <1>3, <2>2, Waiting DEF AboutToLock
  <2> QED  BY <2>1, <2>2
<1>5. SUFFICES ASSUME NEW S \in SUBSET exists, S # {}
               PROVE  \E t \in S : WaitsFor(t) \cap S = {}
  <2>1. SUFFICES ASSUME NEW S \in (SUBSET exists) \ {{}}
                 PROVE  \E t \in S :
                          WaitsFor(t) \cap (S \union (Thread \ exists)) = {}
    BY DEF NobodyStuck
  <2>2. PICK t \in S : WaitsFor(t) \cap S = {}
    BY <1>5, <2>1
  <2>3. WaitsFor(t) \cap (Thread \ exists) = {}
    BY <1>3, <1>4, <2>2
  <2> QED  BY <2>2, <2>3
<1>6. SUFFICES ASSUME \A t \in S : WaitsFor(t) \cap S # {} PROVE FALSE
  OBVIOUS
<1>7. \A t \in S \ stopped : t \notin allocating \union deferred
  BY <1>2, <1>6, BusyWaitsNot
<1>8. ASSUME NEW t \in S \ stopped,
             Head(todo[t]) = Step("StopWorld") PROVE FALSE
  <2>1. WaitsFor(t) \subseteq (allocating \union deferred) \ stopped
    BY <1>2, <1>6, <1>8, Waiting, LocksAreNoSteps DEF AboutToLock, Kinds
  <2> QED  BY <1>6, <1>7, <1>8, <2>1
<1>9. S \cap stopped = {}
  <2>1. SUFFICES ASSUME NEW t \in S, t \in stopped PROVE FALSE
    OBVIOUS
  <2>2. PICK w : w = owner["activeMu"]
    OBVIOUS
  <2>3. w \in S /\ w \notin stopped
    BY <1>3, <1>6, <2>1, <2>2 DEF WaitsFor
  <2>4. "world" \notin pl[w].is
    BY <1>2, <1>6, <2>3, Waiting DEF Free
  <2>5. Head(todo[w]) = Step("StopWorld")
    BY <1>1, <2>1, <2>2, <2>3, <2>4 DEF Stopper
  <2> QED  BY <1>8, <2>3, <2>5
<1>10. \A t \in S : \E l \in Locks : AboutToLock(t, l, pl[t]) /\ Free(pl[t])
  BY <1>2, <1>6, <1>8, <1>9, Waiting
<1>11. PICK r \in [S -> 0 .. 8] :
         \A t \in S : r[t] = Height(Head(todo[t])[2], pl[t])
  <2>1. \A l \in Locks : \A a : Height(l, a) \in 0 .. 8
    BY ThreadsAreNoLocks DEF Height, Locks, Global
  <2>2. \A t \in S : Head(todo[t])[2] \in Locks
    BY <1>10 DEF AboutToLock, Lock
  <2> DEFINE q == [t \in S |-> Height(Head(todo[t])[2], pl[t])]
  <2>3. q \in [S -> 0 .. 8] /\ \A t \in S :
                                 q[t] = Height(Head(todo[t])[2], pl[t])
    BY <2>1, <2>2
  <2> HIDE DEF q
  <2> QED  BY <2>3
<1>12. PICK t \in S : \A u \in S : r[u] <= r[t]
  BY <1>5, <1>11, SomeHighest
<1>13. PICK k \in Locks : AboutToLock(t, k, pl[t]) /\ Free(pl[t])
  BY <1>10
<1>14. PICK u : u = owner[k] /\ u \in S
  BY <1>6, <1>13 DEF AboutToLock
<1>15. PICK l \in Locks : AboutToLock(u, l, pl[u]) /\ Free(pl[u])
  BY <1>10, <1>14
<1>16. /\ Fits(u, pl[u]) /\ Sane(u, pl[u]) /\ Fits(t, pl[t])
       /\ t \in Thread /\ u \in Thread
  BY <1>1, <1>3, <1>14, LeadsSane DEF Placed
<1>17. k \in pl[u].held
  <2>1. k \in Holds(pl[u])
    BY <1>14, <1>16 DEF Fits, FitsLocks
  <2> QED  BY <1>15, <2>1 DEF Holds, Free
<1>18. t # u
  BY <1>13, <1>17 DEF AboutToLock
<1>19. "activeMu" \in pl[u].held => "activeMu" \notin pl[t].held
  BY <1>3, <1>16, <1>18 DEF Fits, FitsLocks, Holds
<1>20. Height(k, pl[t]) < Height(l, pl[u])
  BY <1>13, <1>15, <1>16, <1>17, <1>19, HigherThanHeld
<1>21. r[t] = Height(k, pl[t]) /\ r[u] = Height(l, pl[u])
  BY <1>11, <1>13, <1>14, <1>15 DEF AboutToLock, Lock
<1>22. r[u] <= r[t] /\ r[u] \in 0 .. 8 /\ r[t] \in 0 .. 8
  BY <1>11, <1>12, <1>14
<1> QED  BY <1>20, <1>21, <1>22

\* No circle of waiting, for any number of threads, through any of the locks of
\* the runtime, the suspension of the threads and the signals that RTProcess
\* holds back; and after a fork nobody waits for a thread that is not there.
THEOREM NobodyIsStuck ==
  ASSUME Adversity = {}
  PROVE  Spec => []NobodyStuck
<1>1. Invariant => NobodyStuck
  BY InvariantFree
<1> QED  BY <1>1, Invariance, PTL
=============================================================================
