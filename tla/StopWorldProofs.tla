--------------------------- MODULE StopWorldProofs --------------------------
(***************************************************************************)
(* Proofs about StopWorld, under SpecUnpreempted: whichever threads there  *)
(* are, however many of them collect, in either way, and however many      *)
(* signals the kernel queues or merges, no assertion fails, the world is   *)
(* stopped while the collector works, and no answer is left over.          *)
(*                                                                         *)
(* The argument: every thread is in a class that its part in the current   *)
(* suspension determines (ThreadsGood), the semaphore counts exactly the   *)
(* threads that have answered (AcksGood), and the suspending thread knows  *)
(* how many it asked (CollectorGood).  A count of answers equal to the     *)
(* count of requests then means that everybody has answered.               *)
(***************************************************************************)
EXTENDS StopWorld, FiniteSetTheorems, SequenceTheorems, TLAPS

-----------------------------------------------------------------------------
(* The inductive invariant.                                                *)

HandlerStack ==
  {<<>>, <<"Entry">>, <<"Decline">>, <<"Stop">>, <<"Ack">>, <<"sigsuspend">>,
   <<"Until">>, <<"Resume">>, <<"AckStart">>, <<"Entry", "sigsuspend">>}

GcRecord ==
  [op : {NIL, "World", "Each"},
   pc : {"Idle", "Next", "Stop", "Restop", "Stopped", "Start", "Restart"},
   act : Thread \union {NIL}, targets : SUBSET Thread, todo : SUBSET Thread,
   cur : Thread \union {NIL}, nLive : Nat, nDead : Nat]

TypeInv ==
  /\ active \subseteq Thread /\ Main \in active
  /\ activeMu \in active \union {NIL}
  /\ state \in [Thread -> ActState]
  /\ context \in [Thread -> BOOLEAN]
  /\ inCritical \in [Thread -> BOOLEAN]
  /\ allocs \in [Thread -> 0..MaxAllocs]
  /\ pending \in [Thread -> 0..MaxPending]
  /\ handler \in [Thread -> HandlerStack]
  /\ acks \in Nat
  /\ gc \in GcRecord

\* A thread that knows of no suspension; a stray signal may be on its way.
Quiet(u) ==
  /\ state[u] = "Started" /\ ~context[u]
  /\ handler[u] \in {<<>>, <<"Entry">>}

\* A stopped thread that has answered.
Asleep(u) ==
  /\ state[u] = "Stopped" /\ context[u] /\ ~inCritical[u]
  /\ handler[u] \in {<<"sigsuspend">>, <<"Until">>, <<"Entry", "sigsuspend">>}

\* A thread that was asked to stop: it has declined, is still to answer, or
\* has answered.
Asked(u) ==
  \/ Quiet(u)
  \/ /\ state[u] = "Stopping" /\ ~context[u]
     /\ handler[u] \in {<<>>, <<"Entry">>, <<"Decline">>, <<"Stop">>}
     /\ handler[u] = <<"Stop">> => ~inCritical[u]
  \/ /\ state[u] = "Stopped" /\ ~context[u] /\ ~inCritical[u]
     /\ handler[u] = <<"Ack">>
  \/ Asleep(u)

\* A thread that was told to go on: it is still to wake up, to answer, or has
\* answered.
Waking(u) ==
  \/ /\ state[u] = "Starting" /\ context[u]
     /\ handler[u] \in {<<"sigsuspend">>, <<"Until">>, <<"Entry", "sigsuspend">>,
                        <<"Resume">>}
  \/ /\ state[u] = "Started" /\ ~context[u]
     /\ handler[u] = <<"AckStart">>
  \/ Quiet(u)

\* The threads that were asked, that sleep, and that were told to go on.
AskedOnes ==
  CASE gc.pc = "Stop" -> gc.targets \ gc.todo
    [] gc.pc = "Restop" -> gc.targets
    [] OTHER -> {}
Sleepers ==
  CASE gc.pc = "Stopped" -> gc.targets
    [] gc.pc = "Start" -> gc.todo
    [] OTHER -> {}
WokenOnes ==
  CASE gc.pc = "Start" -> gc.targets \ gc.todo
    [] gc.pc = "Restart" -> gc.targets
    [] OTHER -> {}

ClassGood(u) ==
  /\ u \in AskedOnes => Asked(u)
  /\ u \in Sleepers => Asleep(u)
  /\ u \in WokenOnes => Waking(u)
  /\ u \notin AskedOnes \union Sleepers \union WokenOnes => Quiet(u)

ThreadsGood == \A u \in Thread : ClassGood(u)

\* The threads whose answer the semaphore counts.
HasWoken(u) == state[u] = "Started" /\ handler[u] # <<"AckStart">>

Answered ==
  {u \in AskedOnes : context[u]} \union {u \in WokenOnes : HasWoken(u)}

AcksGood == acks = Cardinality(Answered)

CollectorGood ==
  /\ IsFiniteSet(active)
  /\ gc.pc = "Idle" <=> activeMu = NIL
  /\ gc.pc = "Idle" => gc = NoGC
  /\ gc.targets \subseteq active \ {activeMu}
  /\ gc.todo \subseteq gc.targets
  /\ gc.act # NIL => gc.act \in active \ {activeMu}
  /\ gc.pc # "Idle" => gc.op \in {"World", "Each"}
  /\ gc.op = "World" /\ gc.pc # "Idle" =>
       gc.targets = active \ {activeMu} /\ gc.pc # "Next"
  /\ gc.cur # NIL =>
       gc.pc = "Restop" /\ gc.cur \in gc.targets /\ state[gc.cur] # "Stopped"
  /\ Cardinality(AskedOnes) <= gc.nLive
  /\ gc.pc \in {"Start", "Restart"} => gc.nDead = Cardinality(WokenOnes)

IInv ==
  TypeInv /\ AssertionsHold /\ ThreadsGood /\ AcksGood /\ CollectorGood

-----------------------------------------------------------------------------
(* Lemmas about the handler stacks and the classes.                        *)

LEMMA ConcatOne ==
  ASSUME NEW e, NEW f
  PROVE  <<e>> \o <<f>> = <<e, f>>
<1> DEFINE S == {e, f}
<1>1. e \in S /\ f \in S
  OBVIOUS
<1> HIDE DEF S
<1>2. <<e>> \in Seq(S) /\ <<f>> \in Seq(S) /\ <<e, f>> \in Seq(S)
  BY <1>1
<1>3. Len(<<e>>) = 1 /\ Len(<<f>>) = 1 /\ Len(<<e, f>>) = 2
  OBVIOUS
<1>4. <<e>>[1] = e /\ <<f>>[1] = f /\ <<e, f>>[1] = e /\ <<e, f>>[2] = f
  OBVIOUS
<1> DEFINE s == <<e>>
           r == <<f>>
           q == <<e, f>>
<1> HIDE DEF s, r, q
<1>5. /\ s \o r \in Seq(S) /\ Len(s \o r) = 2
      /\ \A i \in 1..2 : (s \o r)[i] = IF i <= 1 THEN s[i] ELSE r[i - 1]
  BY <1>2, <1>3, ConcatProperties DEF s, r
<1>6. \A i \in 1..2 : (s \o r)[i] = q[i]
  BY <1>4, <1>5 DEF s, r, q
<1>7. s \o r = q
  BY <1>2, <1>3, <1>5, <1>6, SeqEqual DEF q
<1> QED BY <1>7 DEF s, r, q

LEMMA Stacks ==
  /\ \A l : Len(<<l>>) = 1 /\ Head(<<l>>) = l /\ <<l>> # <<>>
  /\ <<"Entry">> \o <<"sigsuspend">> = <<"Entry", "sigsuspend">>
  /\ Len(<<"Entry", "sigsuspend">>) = 2
  /\ Head(<<"Entry", "sigsuspend">>) = "Entry"
  /\ <<"Entry", "sigsuspend">> # <<>>
  /\ <<"Until">> \o Tail(Tail(<<"Entry", "sigsuspend">>)) = <<"Until">>
  /\ \A l, m : [<<l>> EXCEPT ![1] = m] = <<m>>
  /\ <<"Entry">> \o <<>> = <<"Entry">>
<1>1. /\ Len(<<"Entry", "sigsuspend">>) = 2
      /\ Head(<<"Entry", "sigsuspend">>) = "Entry"
      /\ <<"Entry", "sigsuspend">> # <<>>
      /\ <<"Entry">> \o <<>> = <<"Entry">>
  OBVIOUS
<1>4. ASSUME NEW l PROVE Len(<<l>>) = 1 /\ Head(<<l>>) = l /\ <<l>> # <<>>
  OBVIOUS
<1>5. <<"Entry">> \o <<"sigsuspend">> = <<"Entry", "sigsuspend">>
  BY ConcatOne
<1>2. <<"Until">> \o Tail(Tail(<<"Entry", "sigsuspend">>)) = <<"Until">>
  <2>1. Tail(<<"Entry", "sigsuspend">>) = <<"sigsuspend">>
    OBVIOUS
  <2>2. Tail(<<"sigsuspend">>) = <<>>
    OBVIOUS
  <2> QED BY <2>1, <2>2
<1>3. ASSUME NEW l, NEW m PROVE [<<l>> EXCEPT ![1] = m] = <<m>>
  BY Z3
<1> QED BY <1>1, <1>2, <1>3, <1>4, <1>5

\* A thread whose own variables do not change keeps its class.
LEMMA ClassFrame ==
  ASSUME NEW u \in Thread, gc' = gc, state'[u] = state[u],
         context'[u] = context[u], handler'[u] = handler[u],
         inCritical'[u] = inCritical[u], ClassGood(u)
  PROVE  ClassGood(u)'
BY DEF ClassGood, AskedOnes, Sleepers, WokenOnes, Asked, Asleep, Waking, Quiet

\* The sets of a suspension are finite parts of the ring.
LEMMA Parts ==
  ASSUME IInv
  PROVE  /\ AskedOnes \subseteq gc.targets /\ IsFiniteSet(AskedOnes)
         /\ WokenOnes \subseteq gc.targets /\ IsFiniteSet(WokenOnes)
         /\ AskedOnes = {} \/ WokenOnes = {}
         /\ Answered \subseteq AskedOnes \union WokenOnes
         /\ IsFiniteSet(Answered)
         /\ IsFiniteSet(gc.targets) /\ gc.targets \subseteq Thread
         /\ Cardinality(AskedOnes) \in Nat /\ Cardinality(WokenOnes) \in Nat
         /\ acks = Cardinality(Answered) /\ acks \in Nat
<1>1. IsFiniteSet(gc.targets) /\ gc.targets \subseteq Thread
  <2>1. gc.targets \in SUBSET active /\ IsFiniteSet(active)
    BY DEF IInv, CollectorGood
  <2> QED BY <2>1, FS_Subset DEF IInv, TypeInv
<1>2. AskedOnes \in SUBSET gc.targets /\ WokenOnes \in SUBSET gc.targets
  BY DEF AskedOnes, WokenOnes
<1>3. AskedOnes = {} \/ WokenOnes = {}
  BY DEF AskedOnes, WokenOnes
<1>4. Answered \in SUBSET (AskedOnes \union WokenOnes)
  BY DEF Answered
<1>5. Answered \in SUBSET gc.targets
  BY <1>2, <1>4
<1>6. acks = Cardinality(Answered) /\ acks \in Nat
  BY DEF IInv, AcksGood, TypeInv
<1> QED BY <1>1, <1>2, <1>3, <1>4, <1>5, <1>6, FS_Subset, FS_CardinalityType

\* How the semaphore counts thread u.
Counts(u) ==
  \/ u \in AskedOnes /\ context[u]
  \/ u \in WokenOnes /\ HasWoken(u)

\* A step of thread t alone: the classes of the others, and their answers, are
\* what they were.
LEMMA LocalStep ==
  ASSUME IInv, NEW t \in Thread, gc' = gc,
         \A u \in Thread \ {t} :
           /\ state'[u] = state[u] /\ context'[u] = context[u]
           /\ handler'[u] = handler[u] /\ inCritical'[u] = inCritical[u],
         ClassGood(t)',
         \/ acks' = acks /\ (Counts(t)' <=> Counts(t))
         \/ acks' = acks + 1 /\ ~Counts(t) /\ Counts(t)'
  PROVE  ThreadsGood' /\ AcksGood'
<1>1. ThreadsGood'
  <2>1. ASSUME NEW u \in Thread PROVE ClassGood(u)'
    <3>1. CASE u = t
      BY <3>1
    <3>2. CASE u # t
      <4>1. ClassGood(u)
        BY DEF IInv, ThreadsGood
      <4> QED BY <3>2, <4>1, ClassFrame
    <3> QED BY <3>1, <3>2
  <2> QED BY <2>1 DEF ThreadsGood
<1>2. AskedOnes' = AskedOnes /\ WokenOnes' = WokenOnes
  BY DEF AskedOnes, WokenOnes
<1>3. \A u : u \in Answered <=> Counts(u)
  BY DEF Answered, Counts
<1>4. \A u : u \in Answered' <=> Counts(u)'
  BY DEF Answered, Counts
<1>5. \A u \in Thread \ {t} : Counts(u)' <=> Counts(u)
  BY <1>2 DEF Counts, HasWoken
<1>6. AskedOnes \subseteq Thread /\ WokenOnes \subseteq Thread
  BY Parts
<1>7. Answered \subseteq Thread /\ Answered' \subseteq Thread
  BY <1>2, <1>6 DEF Answered
<1>8. acks = Cardinality(Answered) /\ IsFiniteSet(Answered)
  BY Parts
<1>9. CASE acks' = acks /\ (Counts(t)' <=> Counts(t))
  <2>1. Answered' = Answered
    BY <1>3, <1>4, <1>5, <1>7, <1>9
  <2> QED BY <1>1, <1>8, <1>9, <2>1 DEF AcksGood
<1>10. CASE acks' = acks + 1 /\ ~Counts(t) /\ Counts(t)'
  <2>1. Answered' = Answered \union {t} /\ t \notin Answered
    BY <1>3, <1>4, <1>5, <1>7, <1>10
  <2>2. Cardinality(Answered') = Cardinality(Answered) + 1
    BY <1>8, <2>1, FS_AddElement
  <2> QED BY <1>1, <1>8, <1>10, <2>2 DEF AcksGood
<1> QED BY <1>9, <1>10

-----------------------------------------------------------------------------
(* SignalHandler.                                                          *)

\* What one step of a handler does, in terms of the whole stack.
Becomes(t, s) == handler' = [handler EXCEPT ![t] = s]
Plain == UNCHANGED <<state, context, acks, fault>>

HandlerEffect(t) ==
  \/ /\ handler[t] = <<"Entry">> /\ state[t] # "Stopping"
     /\ Becomes(t, <<>>) /\ Plain
  \/ /\ handler[t] = <<"Entry">> /\ state[t] = "Stopping" /\ inCritical[t]
     /\ Becomes(t, <<"Decline">>) /\ Plain
  \/ /\ handler[t] = <<"Entry">> /\ state[t] = "Stopping" /\ ~inCritical[t]
     /\ Becomes(t, <<"Stop">>) /\ Plain
  \/ /\ handler[t] = <<"Entry", "sigsuspend">>
     /\ Becomes(t, <<"Until">>) /\ Plain
  \/ /\ handler[t] = <<"Decline">>
     /\ SetState(t, "Started") /\ Becomes(t, <<>>)
     /\ UNCHANGED <<context, acks, fault>>
  \/ /\ handler[t] = <<"Stop">>
     /\ SetState(t, "Stopped") /\ Becomes(t, <<"Ack">>)
     /\ UNCHANGED <<context, acks, fault>>
  \/ /\ handler[t] = <<"Ack">>
     /\ Check(~context[t]) /\ context' = [context EXCEPT ![t] = TRUE]
     /\ acks' = acks + 1 /\ Becomes(t, <<"sigsuspend">>) /\ UNCHANGED state
  \/ /\ handler[t] = <<"Until">> /\ state[t] = "Starting"
     /\ Becomes(t, <<"Resume">>) /\ Plain
  \/ /\ handler[t] = <<"Until">> /\ state[t] # "Starting"
     /\ Becomes(t, <<"sigsuspend">>) /\ Plain
  \/ /\ handler[t] = <<"Resume">>
     /\ context' = [context EXCEPT ![t] = FALSE] /\ SetState(t, "Started")
     /\ Becomes(t, <<"AckStart">>) /\ UNCHANGED <<acks, fault>>
  \/ /\ handler[t] = <<"AckStart">>
     /\ acks' = acks + 1 /\ Becomes(t, <<>>)
     /\ UNCHANGED <<state, context, fault>>

\* Only a stopped thread is interrupted in its handler.
LEMMA InterruptedSleeps ==
  ASSUME IInv, NEW t \in Thread, handler[t] = <<"Entry", "sigsuspend">>
  PROVE  state[t] \in {"Stopped", "Starting"}
<1>1. ClassGood(t)
  BY DEF IInv, ThreadsGood
<1>2. handler[t] \notin {<<>>, <<"Entry">>, <<"Decline">>, <<"Stop">>, <<"Ack">>,
                         <<"AckStart">>}
  BY Stacks
<1> QED BY <1>1, <1>2 DEF ClassGood, Asked, Asleep, Waking, Quiet

\* The ways in which a handler moves on: to its next label, back to the client,
\* and into the handler that it interrupted.
LEMMA GoMoves ==
  ASSUME NEW t \in Thread, NEW l, NEW m, handler[t] = <<l>>, HandlerGo(t, m)
  PROVE  Becomes(t, <<m>>)
<1>1. [handler[t] EXCEPT ![1] = m] = <<m>>
  BY Stacks
<1>2. handler' = [handler EXCEPT ![t] = [handler[t] EXCEPT ![1] = m]]
  BY DEF HandlerGo
<1> QED BY <1>1, <1>2 DEF Becomes

LEMMA ReturnMoves ==
  ASSUME NEW t \in Thread, NEW l, handler[t] = <<l>>, HandlerReturn(t)
  PROVE  Becomes(t, <<>>)
<1>1. Len(handler[t]) = 1
  BY Stacks
<1> QED BY <1>1 DEF HandlerReturn, Becomes

LEMMA ReturnWakesSleeper ==
  ASSUME NEW t \in Thread, handler[t] = <<"Entry", "sigsuspend">>,
         HandlerReturn(t)
  PROVE  Becomes(t, <<"Until">>)
<1>1. Len(handler[t]) # 1
  BY Stacks
<1>2. <<"Until">> \o Tail(Tail(handler[t])) = <<"Until">>
  BY Stacks
<1> QED BY <1>1, <1>2 DEF HandlerReturn, Becomes

LEMMA EffectOfHandler ==
  ASSUME IInv, NEW t \in Thread, SignalHandler(t)
  PROVE  HandlerEffect(t)
<1> USE DEF Plain
<1>1. TypeInv
  BY DEF IInv
<1>2. handler[t] \in HandlerStack
  BY <1>1 DEF TypeInv
<1>3. \A l : handler[t] = <<l>> => Innermost(t) = l
  BY Stacks DEF Innermost, Runs
<1>4. handler[t] = <<"Entry", "sigsuspend">> => Innermost(t) = "Entry"
  BY Stacks DEF Innermost, Runs
<1>5. CASE handler[t] = <<>>
  <2>1. Innermost(t) = "client"
    BY <1>5 DEF Innermost, Runs
  <2> QED BY <2>1 DEF SignalHandler
<1>6. CASE handler[t] = <<"Entry">>
  <2>1. HandlerEntry(t)
    <3>1. Innermost(t) = "Entry"
      BY <1>3, <1>6
    <3> QED BY <3>1 DEF SignalHandler
  <2>2. CASE state[t] # "Stopping" /\ HandlerReturn(t)
    BY <1>6, <2>1, <2>2, ReturnMoves DEF HandlerEffect, HandlerEntry
  <2>3. CASE state[t] = "Stopping" /\ Declines(t) /\ HandlerGo(t, "Decline")
    BY <1>6, <2>1, <2>3, GoMoves DEF HandlerEffect, HandlerEntry, Declines
  <2>4. CASE state[t] = "Stopping" /\ ~Declines(t) /\ HandlerGo(t, "Stop")
    BY <1>6, <2>1, <2>4, GoMoves DEF HandlerEffect, HandlerEntry, Declines
  <2> QED BY <2>1, <2>2, <2>3, <2>4 DEF HandlerEntry
<1>7. CASE handler[t] = <<"Entry", "sigsuspend">>
  <2>1. HandlerEntry(t)
    BY <1>4, <1>7 DEF SignalHandler
  <2>2. state[t] # "Stopping"
    BY <1>7, InterruptedSleeps
  <2>3. HandlerReturn(t)
    BY <2>1, <2>2 DEF HandlerEntry
  <2>4. Becomes(t, <<"Until">>)
    BY <1>7, <2>3, ReturnWakesSleeper
  <2> QED BY <1>7, <2>1, <2>4 DEF HandlerEffect, HandlerEntry
<1>8. CASE handler[t] = <<"Decline">>
  <2>1. HandlerDecline(t)
    <3>1. Innermost(t) = "Decline"
      BY <1>3, <1>8
    <3> QED BY <3>1 DEF SignalHandler
  <2>2. Becomes(t, <<>>)
    BY <1>8, <2>1, ReturnMoves DEF HandlerDecline
  <2> QED BY <1>8, <2>1, <2>2 DEF HandlerEffect, HandlerDecline
<1>9. CASE handler[t] = <<"Stop">>
  <2>1. HandlerStop(t)
    <3>1. Innermost(t) = "Stop"
      BY <1>3, <1>9
    <3> QED BY <3>1 DEF SignalHandler
  <2>2. Becomes(t, <<"Ack">>)
    BY <1>9, <2>1, GoMoves DEF HandlerStop
  <2> QED BY <1>9, <2>1, <2>2 DEF HandlerEffect, HandlerStop
<1>10. CASE handler[t] = <<"Ack">>
  <2>1. HandlerAck(t)
    <3>1. Innermost(t) = "Ack"
      BY <1>3, <1>10
    <3> QED BY <3>1 DEF SignalHandler
  <2>2. Becomes(t, <<"sigsuspend">>)
    BY <1>10, <2>1, GoMoves DEF HandlerAck
  <2> QED BY <1>10, <2>1, <2>2 DEF HandlerEffect, HandlerAck
<1>11. CASE handler[t] = <<"Until">>
  <2>1. HandlerUntil(t)
    <3>1. Innermost(t) = "Until"
      BY <1>3, <1>11
    <3> QED BY <3>1 DEF SignalHandler
  <2>2. CASE state[t] = "Starting"
    <3>1. Becomes(t, <<"Resume">>)
      BY <1>11, <2>1, <2>2, GoMoves DEF HandlerUntil
    <3> QED BY <1>11, <2>1, <2>2, <3>1 DEF HandlerEffect, HandlerUntil
  <2>3. CASE state[t] # "Starting"
    <3>1. Becomes(t, <<"sigsuspend">>)
      BY <1>11, <2>1, <2>3, GoMoves DEF HandlerUntil
    <3> QED BY <1>11, <2>1, <2>3, <3>1 DEF HandlerEffect, HandlerUntil
  <2> QED BY <2>2, <2>3
<1>12. CASE handler[t] = <<"Resume">>
  <2>1. HandlerResume(t)
    <3>1. Innermost(t) = "Resume"
      BY <1>3, <1>12
    <3> QED BY <3>1 DEF SignalHandler
  <2>2. Becomes(t, <<"AckStart">>)
    BY <1>12, <2>1, GoMoves DEF HandlerResume
  <2> QED BY <1>12, <2>1, <2>2 DEF HandlerEffect, HandlerResume
<1>13. CASE handler[t] = <<"AckStart">>
  <2>1. HandlerAckStart(t)
    <3>1. Innermost(t) = "AckStart"
      BY <1>3, <1>13
    <3> QED BY <3>1 DEF SignalHandler
  <2>2. Becomes(t, <<>>)
    BY <1>13, <2>1, ReturnMoves DEF HandlerAckStart
  <2> QED BY <1>13, <2>1, <2>2 DEF HandlerEffect, HandlerAckStart
<1>14. CASE handler[t] = <<"sigsuspend">>
  <2>1. Innermost(t) = "sigsuspend"
    BY <1>3, <1>14
  <2> QED BY <2>1 DEF SignalHandler
<1> QED BY <1>2, <1>5, <1>6, <1>7, <1>8, <1>9, <1>10, <1>11, <1>12, <1>13,
           <1>14 DEF HandlerStack

\* The stacks that TypeInv allows are told apart.
LEMMA StacksDiffer ==
  /\ <<"Entry", "sigsuspend">> \notin
       {<<>>, <<"Entry">>, <<"Decline">>, <<"Stop">>, <<"Ack">>, <<"sigsuspend">>,
        <<"Until">>, <<"Resume">>, <<"AckStart">>}
  /\ \A l : <<l>> # <<>>
  /\ \A l, m : <<l>> = <<m>> <=> l = m
<1>1. \A l, m : <<l>> = <<m>> <=> l = m
  OBVIOUS
<1>2. <<"Entry", "sigsuspend">> \notin
       {<<>>, <<"Entry">>, <<"Decline">>, <<"Stop">>, <<"Ack">>, <<"sigsuspend">>,
        <<"Until">>, <<"Resume">>, <<"AckStart">>}
  OBVIOUS
<1> QED BY <1>1, <1>2, Stacks

\* What a handler does to a thread of each class.
LEMMA HandlerKeepsQuiet ==
  ASSUME IInv, NEW t \in Thread, HandlerEffect(t), Quiet(t)
  PROVE  Quiet(t)' /\ acks' = acks /\ fault' = fault /\ state' = state
         /\ handler'[t] = <<>>
BY StacksDiffer, ZenonT(40) DEF IInv, TypeInv, Quiet, HandlerEffect, Plain, Becomes

LEMMA HandlerKeepsAsleep ==
  ASSUME IInv, NEW t \in Thread, HandlerEffect(t), Asleep(t),
         inCritical' = inCritical
  PROVE  Asleep(t)' /\ acks' = acks /\ fault' = fault /\ state' = state
         /\ context' = context
<1>1. /\ Plain
      /\ Becomes(t, <<"Until">>) \/ Becomes(t, <<"sigsuspend">>)
  <2>1. handler[t] \in {<<"sigsuspend">>, <<"Until">>, <<"Entry", "sigsuspend">>}
        /\ state[t] = "Stopped"
    BY DEF Asleep
  <2> QED BY <2>1, StacksDiffer DEF HandlerEffect
<1>2. handler'[t] \in {<<"Until">>, <<"sigsuspend">>}
  BY <1>1 DEF IInv, TypeInv, Becomes
<1>3. state' = state /\ context' = context /\ acks' = acks /\ fault' = fault
  BY <1>1 DEF Plain
<1> QED BY <1>2, <1>3 DEF Asleep

LEMMA HandlerKeepsAsked ==
  ASSUME IInv, NEW t \in Thread, HandlerEffect(t), Asked(t),
         inCritical' = inCritical
  PROVE  /\ Asked(t)' /\ fault' = fault
         /\ \/ acks' = acks /\ (context'[t] <=> context[t])
            \/ acks' = acks + 1 /\ ~context[t] /\ context'[t]
<1>1. CASE Quiet(t)
  <2>1. context'[t] <=> context[t]
    BY <1>1, HandlerKeepsQuiet DEF Quiet
  <2> QED BY <1>1, <2>1, HandlerKeepsQuiet DEF Asked
<1>2. CASE Asleep(t)
  BY <1>2, HandlerKeepsAsleep DEF Asked
<1>3. CASE /\ state[t] = "Stopping" /\ ~context[t]
           /\ handler[t] \in {<<>>, <<"Entry">>, <<"Decline">>, <<"Stop">>}
           /\ handler[t] = <<"Stop">> => ~inCritical[t]
  <2>1. /\ \/ Becomes(t, <<"Decline">>) /\ state' = state
           \/ Becomes(t, <<"Stop">>) /\ ~inCritical[t] /\ state' = state
           \/ Becomes(t, <<>>) /\ SetState(t, "Started")
           \/ Becomes(t, <<"Ack">>) /\ SetState(t, "Stopped") /\ ~inCritical[t]
        /\ UNCHANGED <<context, acks, fault>>
    BY <1>3, StacksDiffer DEF HandlerEffect, Plain
  <2>2. handler \in [Thread -> HandlerStack] /\ state \in [Thread -> ActState]
    BY DEF IInv, TypeInv
  <2>3. ~context'[t]
    BY <1>3, <2>1
  <2>4. CASE Becomes(t, <<"Decline">>) /\ state' = state
    <3>1. handler'[t] = <<"Decline">> /\ state'[t] = "Stopping"
      BY <1>3, <2>2, <2>4 DEF Becomes
    <3> QED BY <1>3, <2>1, <2>3, <3>1, StacksDiffer DEF Asked
  <2>5. CASE Becomes(t, <<"Stop">>) /\ ~inCritical[t] /\ state' = state
    <3>1. handler'[t] = <<"Stop">> /\ state'[t] = "Stopping"
      BY <1>3, <2>2, <2>5 DEF Becomes
    <3> QED BY <1>3, <2>1, <2>3, <2>5, <3>1 DEF Asked
  <2>6. CASE Becomes(t, <<>>) /\ SetState(t, "Started")
    <3>1. handler'[t] = <<>> /\ state'[t] = "Started"
      BY <2>2, <2>6 DEF Becomes, SetState
    <3> QED BY <1>3, <2>1, <2>3, <3>1 DEF Asked, Quiet
  <2>7. CASE Becomes(t, <<"Ack">>) /\ SetState(t, "Stopped") /\ ~inCritical[t]
    <3>1. handler'[t] = <<"Ack">> /\ state'[t] = "Stopped"
      BY <2>2, <2>7 DEF Becomes, SetState
    <3> QED BY <1>3, <2>1, <2>3, <2>7, <3>1 DEF Asked
  <2> QED BY <2>1, <2>4, <2>5, <2>6, <2>7
<1>4. CASE /\ state[t] = "Stopped" /\ ~context[t] /\ ~inCritical[t]
           /\ handler[t] = <<"Ack">>
  <2>1. /\ Check(~context[t]) /\ context' = [context EXCEPT ![t] = TRUE]
        /\ acks' = acks + 1 /\ Becomes(t, <<"sigsuspend">>) /\ UNCHANGED state
    BY <1>4, StacksDiffer DEF HandlerEffect
  <2>2. fault' = fault
    BY <1>4, <2>1 DEF Check
  <2>3. context'[t] /\ handler'[t] = <<"sigsuspend">>
    BY <2>1 DEF IInv, TypeInv, Becomes
  <2> QED BY <1>4, <2>1, <2>2, <2>3 DEF Asked, Asleep
<1> QED BY <1>1, <1>2, <1>3, <1>4 DEF Asked

LEMMA HandlerKeepsWaking ==
  ASSUME IInv, NEW t \in Thread, HandlerEffect(t), Waking(t)
  PROVE  /\ Waking(t)' /\ fault' = fault
         /\ \/ acks' = acks /\ (HasWoken(t)' <=> HasWoken(t))
            \/ acks' = acks + 1 /\ ~HasWoken(t) /\ HasWoken(t)'
<1>1. CASE Quiet(t)
  <2>1. HasWoken(t) /\ HasWoken(t)'
    BY <1>1, HandlerKeepsQuiet, StacksDiffer DEF Quiet, HasWoken
  <2> QED BY <1>1, <2>1, HandlerKeepsQuiet DEF Waking
<1> USE DEF IInv, TypeInv
<1>2. CASE /\ state[t] = "Starting" /\ context[t]
           /\ handler[t] \in {<<"sigsuspend">>, <<"Until">>,
                              <<"Entry", "sigsuspend">>, <<"Resume">>}
  <2>0. \/ Plain /\ (Becomes(t, <<"Until">>) \/ Becomes(t, <<"Resume">>))
        \/ /\ context' = [context EXCEPT ![t] = FALSE]
           /\ SetState(t, "Started") /\ Becomes(t, <<"AckStart">>)
           /\ UNCHANGED <<acks, fault>>
    <3>1. CASE handler[t] = <<"sigsuspend">>
      BY <3>1, StacksDiffer DEF HandlerEffect
    <3>2. CASE handler[t] = <<"Until">>
      BY <1>2, <3>2, StacksDiffer DEF HandlerEffect
    <3>3. CASE handler[t] = <<"Entry", "sigsuspend">>
      BY <3>3, StacksDiffer DEF HandlerEffect
    <3>4. CASE handler[t] = <<"Resume">>
      BY <3>4, StacksDiffer DEF HandlerEffect
    <3> QED BY <1>2, <3>1, <3>2, <3>3, <3>4
  <2>1. acks' = acks /\ fault' = fault
    BY <2>0 DEF Plain
  <2>2. CASE Plain /\ (Becomes(t, <<"Until">>) \/ Becomes(t, <<"Resume">>))
    <3>1. handler'[t] \in {<<"Until">>, <<"Resume">>}
      BY <2>2 DEF Becomes
    <3>2. state'[t] = "Starting" /\ context'[t]
      BY <1>2, <2>2 DEF Plain
    <3> QED BY <1>2, <2>1, <3>1, <3>2 DEF Waking, HasWoken
  <2>3. CASE /\ context' = [context EXCEPT ![t] = FALSE]
             /\ SetState(t, "Started") /\ Becomes(t, <<"AckStart">>)
    <3>1. ~context'[t] /\ state'[t] = "Started" /\ handler'[t] = <<"AckStart">>
      BY <2>3 DEF Becomes, SetState
    <3> QED BY <1>2, <2>1, <3>1 DEF Waking, HasWoken
  <2> QED BY <2>0, <2>2, <2>3
<1>3. CASE /\ state[t] = "Started" /\ ~context[t]
           /\ handler[t] = <<"AckStart">>
  <2>1. /\ acks' = acks + 1 /\ Becomes(t, <<>>)
        /\ UNCHANGED <<state, context, fault>>
    BY <1>3, StacksDiffer DEF HandlerEffect
  <2>2. handler'[t] = <<>>
    BY <2>1 DEF Becomes
  <2> QED BY <1>3, <2>1, <2>2, StacksDiffer DEF Waking, Quiet, HasWoken
<1> QED BY <1>1, <1>2, <1>3 DEF Waking

-----------------------------------------------------------------------------
(* The steps of the threads preserve the invariant.                        *)

\* A step that leaves the suspending thread alone.
LEMMA CollectorFrame ==
  ASSUME IInv, gc' = gc, active' = active, activeMu' = activeMu, Unpreempted
  PROVE  CollectorGood'
<1>1. AskedOnes' = AskedOnes /\ WokenOnes' = WokenOnes
  BY DEF AskedOnes, WokenOnes
<1>2. gc.cur # NIL => state'[gc.cur] # "Stopped"
  BY DEF IInv, TypeInv, GcRecord, CollectorGood, Unpreempted
<1>3. CollectorGood
  BY DEF IInv
<1> QED BY <1>1, <1>2, <1>3 DEF CollectorGood

LEMMA HandlerPreserves ==
  ASSUME IInv, NEW t \in Thread, SignalHandler(t), Unpreempted
  PROVE  IInv'
<1>1. HandlerEffect(t)
  BY EffectOfHandler
<1>2. UNCHANGED <<activeMu, pending, gc, active, inCritical, allocs>>
  BY DEF SignalHandler, mutator
<1>3. ClassGood(t)
  BY DEF IInv, ThreadsGood
<1>4. TypeInv'
  <2>1. /\ handler' \in [Thread -> HandlerStack]
        /\ state' \in [Thread -> ActState]
        /\ context' \in [Thread -> BOOLEAN] /\ acks' \in Nat
    <3>1. \E s \in HandlerStack : Becomes(t, s)
      BY <1>1, Zenon DEF HandlerEffect, HandlerStack
    <3>2. handler' \in [Thread -> HandlerStack]
      BY <3>1 DEF IInv, TypeInv, Becomes
    <3>3. state' = state \/ \E s \in ActState : SetState(t, s)
      BY <1>1 DEF HandlerEffect, Plain, ActState
    <3>4. state' \in [Thread -> ActState]
      BY <3>3 DEF IInv, TypeInv, SetState
    <3>5. context' = context \/ \E b \in BOOLEAN : context' = [context EXCEPT ![t] = b]
      BY <1>1, Zenon DEF HandlerEffect, Plain
    <3>6. context' \in [Thread -> BOOLEAN]
      BY <3>5, Zenon DEF IInv, TypeInv
    <3>7. acks' = acks \/ acks' = acks + 1
      BY <1>1, Zenon DEF HandlerEffect, Plain
    <3>8. acks' \in Nat
      BY <3>7 DEF IInv, TypeInv
    <3> QED BY <3>2, <3>4, <3>6, <3>8
  <2> QED BY <1>2, <2>1 DEF IInv, TypeInv
<1>5. \A u \in Thread \ {t} :
        /\ state'[u] = state[u] /\ context'[u] = context[u]
        /\ handler'[u] = handler[u] /\ inCritical'[u] = inCritical[u]
  BY <1>1, <1>2 DEF IInv, TypeInv, HandlerEffect, Plain, Becomes, SetState
<1>6. /\ AskedOnes' = AskedOnes /\ Sleepers' = Sleepers
      /\ WokenOnes' = WokenOnes
  BY <1>2 DEF AskedOnes, Sleepers, WokenOnes
<1>7. /\ t \in AskedOnes => t \notin Sleepers /\ t \notin WokenOnes
      /\ t \in WokenOnes => t \notin Sleepers
  BY DEF IInv, CollectorGood, AskedOnes, Sleepers, WokenOnes
<1>8. /\ ClassGood(t)' /\ fault' = fault
      /\ \/ acks' = acks /\ (Counts(t)' <=> Counts(t))
         \/ acks' = acks + 1 /\ ~Counts(t) /\ Counts(t)'
  <2>1. CASE t \in AskedOnes
    <3>1. Asked(t)
      BY <1>3, <2>1 DEF ClassGood
    <3>2. /\ Asked(t)' /\ fault' = fault
          /\ \/ acks' = acks /\ (context'[t] <=> context[t])
             \/ acks' = acks + 1 /\ ~context[t] /\ context'[t]
      BY <1>1, <1>2, <3>1, HandlerKeepsAsked
    <3>3. (Counts(t) <=> context[t]) /\ (Counts(t)' <=> context'[t])
      BY <1>6, <1>7, <2>1 DEF Counts
    <3>4. ClassGood(t)'
      BY <1>6, <1>7, <2>1, <3>2 DEF ClassGood
    <3> QED BY <3>2, <3>3, <3>4
  <2>2. CASE t \in Sleepers
    <3>1. /\ Asleep(t)' /\ fault' = fault /\ acks' = acks
      BY <1>1, <1>2, <1>3, <2>2, HandlerKeepsAsleep DEF ClassGood
    <3>2. ~Counts(t) /\ ~Counts(t)'
      BY <1>6, <1>7, <2>2 DEF Counts
    <3>3. ClassGood(t)'
      BY <1>6, <1>7, <2>2, <3>1 DEF ClassGood
    <3> QED BY <3>1, <3>2, <3>3
  <2>3. CASE t \in WokenOnes
    <3>1. /\ Waking(t)' /\ fault' = fault
          /\ \/ acks' = acks /\ (HasWoken(t)' <=> HasWoken(t))
             \/ acks' = acks + 1 /\ ~HasWoken(t) /\ HasWoken(t)'
      BY <1>1, <1>3, <2>3, HandlerKeepsWaking DEF ClassGood
    <3>2. (Counts(t) <=> HasWoken(t)) /\ (Counts(t)' <=> HasWoken(t)')
      BY <1>6, <1>7, <2>3 DEF Counts
    <3>3. ClassGood(t)'
      BY <1>6, <1>7, <2>3, <3>1 DEF ClassGood
    <3> QED BY <3>1, <3>2, <3>3
  <2>4. CASE t \notin AskedOnes \union Sleepers \union WokenOnes
    <3>1. Quiet(t)
      BY <1>3, <2>4 DEF ClassGood
    <3>2. /\ Quiet(t)' /\ fault' = fault /\ acks' = acks
      BY <1>1, <3>1, HandlerKeepsQuiet
    <3>3. ~Counts(t) /\ ~Counts(t)'
      BY <1>6, <2>4 DEF Counts
    <3>4. ClassGood(t)'
      BY <1>6, <2>4, <3>2 DEF ClassGood
    <3> QED BY <3>2, <3>3, <3>4
  <2> QED BY <2>1, <2>2, <2>3, <2>4
<1>9. ThreadsGood' /\ AcksGood'
  BY <1>2, <1>5, <1>8, LocalStep
<1>10. CollectorGood'
  BY <1>2, CollectorFrame
<1>11. AssertionsHold'
  BY <1>8 DEF IInv, AssertionsHold
<1> QED BY <1>4, <1>9, <1>10, <1>11 DEF IInv

LEMMA DeliverPreserves ==
  ASSUME IInv, NEW t \in Thread, Deliver(t), Unpreempted
  PROVE  IInv'
<1>1. ClassGood(t)
  BY DEF IInv, ThreadsGood
<1>2. handler[t] \in {<<>>, <<"sigsuspend">>}
  <2>1. \A l : handler[t] = <<l>> => Innermost(t) = l
    BY Stacks DEF Innermost, Runs
  <2>2. handler[t] = <<"Entry", "sigsuspend">> => Innermost(t) = "Entry"
    BY Stacks DEF Innermost, Runs
  <2>3. handler[t] \in HandlerStack
    BY DEF IInv, TypeInv
  <2>4. Innermost(t) \in {"client", "sigsuspend"}
    BY DEF Deliver, Unmasked
  <2>5. handler[t] \notin {<<"Entry">>, <<"Decline">>, <<"Stop">>, <<"Ack">>,
                           <<"Until">>, <<"Resume">>, <<"AckStart">>,
                           <<"Entry", "sigsuspend">>}
    BY <2>1, <2>2, <2>4
  <2> QED BY <2>3, <2>5 DEF HandlerStack
<1>3. handler'[t] = <<"Entry">> \o handler[t]
  BY DEF IInv, TypeInv, Deliver
<1>4. \/ handler[t] = <<>> /\ handler'[t] = <<"Entry">>
      \/ handler[t] = <<"sigsuspend">> /\ handler'[t] = <<"Entry", "sigsuspend">>
  BY <1>2, <1>3, Stacks
<1>5. UNCHANGED <<activeMu, state, context, acks, gc, fault, active, inCritical,
                  allocs>>
  BY DEF Deliver, mutator
<1>6. TypeInv'
  <2>1. handler' = [handler EXCEPT ![t] = <<"Entry">> \o handler[t]]
    BY DEF Deliver
  <2>2. handler'[t] \in HandlerStack
    BY <1>4 DEF HandlerStack
  <2>3. handler' \in [Thread -> HandlerStack]
    BY <1>3, <2>1, <2>2 DEF IInv, TypeInv
  <2>4. pending' \in [Thread -> 0..MaxPending]
    BY QueueHasRoom DEF IInv, TypeInv, Deliver
  <2> QED BY <1>5, <2>3, <2>4 DEF IInv, TypeInv
<1>7. \A u \in Thread \ {t} :
        /\ state'[u] = state[u] /\ context'[u] = context[u]
        /\ handler'[u] = handler[u] /\ inCritical'[u] = inCritical[u]
  BY <1>5 DEF IInv, TypeInv, Deliver
<1>8. ClassGood(t)'
  <2>1. /\ Quiet(t) => Quiet(t)'
        /\ Asleep(t) => Asleep(t)'
    BY <1>4, <1>5, StacksDiffer DEF Quiet, Asleep
  <2>2. Asked(t) => Asked(t)'
    <3>1. CASE Quiet(t) \/ Asleep(t)
      BY <2>1, <3>1 DEF Asked
    <3>2. CASE /\ state[t] = "Stopping" /\ ~context[t]
               /\ handler[t] \in {<<>>, <<"Entry">>, <<"Decline">>, <<"Stop">>}
      <4>1. handler'[t] = <<"Entry">> /\ state'[t] = "Stopping" /\ ~context'[t]
        BY <1>4, <1>5, <3>2, StacksDiffer, SMTT(30)
      <4> QED BY <4>1, StacksDiffer DEF Asked
    <3>3. handler[t] # <<"Ack">>
      BY <1>2, StacksDiffer
    <3> QED BY <3>1, <3>2, <3>3 DEF Asked
  <2>3. Waking(t) => Waking(t)'
    BY <1>4, <1>5, <2>1, StacksDiffer DEF Waking
  <2>4. /\ AskedOnes' = AskedOnes /\ Sleepers' = Sleepers
        /\ WokenOnes' = WokenOnes
    BY <1>5 DEF AskedOnes, Sleepers, WokenOnes
  <2> QED BY <1>1, <2>1, <2>2, <2>3, <2>4 DEF ClassGood
<1>9. acks' = acks /\ (Counts(t)' <=> Counts(t))
  <2>1. HasWoken(t)' <=> HasWoken(t)
    BY <1>4, <1>5, StacksDiffer DEF HasWoken
  <2>2. AskedOnes' = AskedOnes /\ WokenOnes' = WokenOnes
    BY <1>5 DEF AskedOnes, WokenOnes
  <2> QED BY <1>5, <2>1, <2>2 DEF Counts
<1>10. ThreadsGood' /\ AcksGood'
  BY <1>5, <1>7, <1>8, <1>9, LocalStep
<1>11. CollectorGood'
  BY <1>5, CollectorFrame
<1> QED BY <1>5, <1>6, <1>10, <1>11 DEF IInv, AssertionsHold

\* A pool allocation begins or ends in the client's code: no class speaks of
\* inCritical there, save those of a handler that is on the stack.
LEMMA CriticalPreserves ==
  ASSUME IInv, NEW t \in Thread, EnterCritical(t) \/ LeaveCritical(t),
         Unpreempted
  PROVE  IInv'
<1>1. UNCHANGED <<active, activeMu, state, context, pending, handler, acks, gc,
                  fault>>
  BY DEF EnterCritical, LeaveCritical
<1>2. handler[t] = <<>>
  BY DEF EnterCritical, LeaveCritical, Runs
<1>3. TypeInv'
  <2>1. inCritical' \in [Thread -> BOOLEAN]
    BY Zenon DEF IInv, TypeInv, EnterCritical, LeaveCritical
  <2>2. allocs' \in [Thread -> 0..MaxAllocs]
    <3>1. CASE LeaveCritical(t)
      BY <3>1 DEF IInv, TypeInv, LeaveCritical
    <3>2. CASE EnterCritical(t)
      <4>1. allocs' = [allocs EXCEPT ![t] = IF activeMu = NIL THEN allocs[t]
                                                     ELSE allocs[t] - 1]
            /\ (activeMu = NIL \/ allocs[t] > 0)
        BY <3>2 DEF EnterCritical
      <4>2. allocs[t] \in 0..MaxAllocs /\ MaxAllocs \in Nat
        BY PoolIsFinite DEF IInv, TypeInv
      <4>3. activeMu # NIL => allocs[t] - 1 \in 0..MaxAllocs
        BY <4>1, <4>2
      <4> QED BY <4>1, <4>2, <4>3 DEF IInv, TypeInv
    <3> QED BY <3>1, <3>2
  <2> QED BY <1>1, <2>1, <2>2 DEF IInv, TypeInv
<1>4. \A u \in Thread \ {t} :
        /\ state'[u] = state[u] /\ context'[u] = context[u]
        /\ handler'[u] = handler[u] /\ inCritical'[u] = inCritical[u]
  BY <1>1 DEF IInv, TypeInv, EnterCritical, LeaveCritical
<1>5. ClassGood(t)'
  <2>1. ClassGood(t)
    BY DEF IInv, ThreadsGood
  <2>2. ~Asleep(t) /\ (Waking(t) => Quiet(t))
    BY <1>2, StacksDiffer DEF Asleep, Waking
  <2>3. Quiet(t) => Quiet(t)'
    BY <1>1 DEF Quiet
  <2>4. Asked(t) => Asked(t)'
    BY <1>1, <1>2, <2>2, <2>3, StacksDiffer DEF Asked
  <2>5. /\ AskedOnes' = AskedOnes /\ Sleepers' = Sleepers
        /\ WokenOnes' = WokenOnes
    BY <1>1 DEF AskedOnes, Sleepers, WokenOnes
  <2> QED BY <2>1, <2>2, <2>3, <2>4, <2>5 DEF ClassGood, Waking
<1>6. acks' = acks /\ (Counts(t)' <=> Counts(t))
  BY <1>1 DEF Counts, HasWoken, AskedOnes, WokenOnes
<1>7. ThreadsGood' /\ AcksGood'
  BY <1>1, <1>4, <1>5, <1>6, LocalStep
<1>8. CollectorGood'
  BY <1>1, CollectorFrame
<1> QED BY <1>1, <1>3, <1>7, <1>8 DEF IInv, AssertionsHold

\* Threads come and go while nobody holds activeMu: there is no suspension.
LEMMA RingPreserves ==
  ASSUME IInv, NEW t \in Thread, ThreadStarts(t) \/ ThreadEnds(t)
  PROVE  IInv'
<1>1. UNCHANGED <<activeMu, state, context, inCritical, allocs, handler, acks, gc,
                  fault>>
  BY DEF ThreadStarts, ThreadEnds
<1>2. activeMu = NIL /\ gc = NoGC
  BY DEF IInv, CollectorGood, ThreadStarts, ThreadEnds
<1>3. IsFiniteSet(active') /\ active' \subseteq Thread /\ Main \in active'
  <2>1. IsFiniteSet(active) /\ active \subseteq Thread /\ Main \in active
    BY DEF IInv, CollectorGood, TypeInv
  <2>2. CASE ThreadStarts(t)
    BY <2>1, <2>2, FS_AddElement DEF ThreadStarts
  <2>3. CASE ThreadEnds(t)
    BY <2>1, <2>3, FS_RemoveElement DEF ThreadEnds
  <2> QED BY <2>2, <2>3
<1>4. TypeInv'
  <2>1. pending' \in [Thread -> 0..MaxPending]
    BY QueueHasRoom DEF IInv, TypeInv, ThreadStarts, ThreadEnds
  <2>2. activeMu' \in active' \union {NIL}
    BY <1>1, <1>2
  <2> QED BY <1>1, <1>3, <2>1, <2>2 DEF IInv, TypeInv
<1>5. ThreadsGood'
  <2>1. ASSUME NEW u \in Thread PROVE ClassGood(u)'
    <3>1. ClassGood(u)
      BY DEF IInv, ThreadsGood
    <3> QED BY <1>1, <3>1, ClassFrame
  <2> QED BY <2>1 DEF ThreadsGood
<1>6. AcksGood'
  <2>1. Answered' = Answered
    BY <1>1 DEF Answered, AskedOnes, WokenOnes, HasWoken
  <2> QED BY <1>1, <2>1 DEF IInv, AcksGood
<1>7. CollectorGood'
  <2>1. AskedOnes' = AskedOnes /\ WokenOnes' = WokenOnes
    BY <1>1 DEF AskedOnes, WokenOnes
  <2>2. CollectorGood
    BY DEF IInv
  <2>3. /\ gc.targets = {} /\ gc.todo = {} /\ gc.act = NIL
        /\ gc.cur = NIL /\ gc.pc = "Idle"
    BY <1>2 DEF NoGC
  <2> QED BY <1>1, <1>2, <1>3, <2>1, <2>2, <2>3 DEF CollectorGood
<1> QED BY <1>1, <1>4, <1>5, <1>6, <1>7 DEF IInv, AssertionsHold

LEMMA StutterPreserves ==
  ASSUME IInv, UNCHANGED vars
  PROVE  IInv'
<1> USE DEF vars
<1>1. AskedOnes' = AskedOnes /\ WokenOnes' = WokenOnes /\ Answered' = Answered
  BY DEF AskedOnes, WokenOnes, Answered, HasWoken
<1>2. ThreadsGood'
  <2>1. ASSUME NEW u \in Thread PROVE ClassGood(u)'
    <3>1. ClassGood(u)
      BY DEF IInv, ThreadsGood
    <3> QED BY <3>1, ClassFrame
  <2> QED BY <2>1 DEF ThreadsGood
<1> QED BY <1>1, <1>2 DEF IInv, TypeInv, AssertionsHold, AcksGood, CollectorGood

-----------------------------------------------------------------------------
(* The steps of the suspending thread preserve the invariant.              *)

\* A step that leaves the variables of thread u alone.
SameThread(u) ==
  /\ state'[u] = state[u] /\ context'[u] = context[u]
  /\ handler'[u] = handler[u] /\ inCritical'[u] = inCritical[u]

LEMMA SameClasses ==
  ASSUME NEW u, SameThread(u)
  PROVE  /\ Quiet(u)' <=> Quiet(u)
         /\ Asleep(u)' <=> Asleep(u)
         /\ Asked(u)' <=> Asked(u)
         /\ Waking(u)' <=> Waking(u)
         /\ HasWoken(u)' <=> HasWoken(u)
BY DEF SameThread, Asked, Asleep, Waking, Quiet, HasWoken

\* The sets, at each place of the suspending thread.
LEMMA SetsByPc ==
  /\ gc.pc = "Stop" => AskedOnes = gc.targets \ gc.todo
  /\ gc.pc = "Restop" => AskedOnes = gc.targets
  /\ gc.pc \notin {"Stop", "Restop"} => AskedOnes = {}
  /\ gc.pc = "Stopped" => Sleepers = gc.targets
  /\ gc.pc = "Start" => Sleepers = gc.todo
  /\ gc.pc \notin {"Stopped", "Start"} => Sleepers = {}
  /\ gc.pc = "Start" => WokenOnes = gc.targets \ gc.todo
  /\ gc.pc = "Restart" => WokenOnes = gc.targets
  /\ gc.pc \notin {"Start", "Restart"} => WokenOnes = {}
BY DEF AskedOnes, Sleepers, WokenOnes

\* Between two suspensions everybody is quiet and nothing is counted.
LEMMA BetweenSuspensions ==
  ASSUME IInv, gc.pc \in {"Idle", "Next"}
  PROVE  /\ \A u \in Thread : Quiet(u)
         /\ acks = 0
<1>1. AskedOnes = {} /\ Sleepers = {} /\ WokenOnes = {}
  BY SetsByPc
<1>2. \A u \in Thread : Quiet(u)
  BY <1>1 DEF IInv, ThreadsGood, ClassGood
<1>3. Answered = {}
  BY <1>1 DEF Answered
<1> QED BY <1>2, <1>3, FS_EmptySet DEF IInv, AcksGood

\* A suspension that has no part yet, or no part any more.
LEMMA QuietState ==
  ASSUME \A u \in Thread : Quiet(u)', acks' = 0,
         gc'.pc \in {"Idle", "Next"} \/ (gc'.pc = "Stop" /\ gc'.todo = gc'.targets)
  PROVE  ThreadsGood' /\ AcksGood' /\ AskedOnes' = {} /\ WokenOnes' = {}
<1>1. AskedOnes' = {} /\ Sleepers' = {} /\ WokenOnes' = {}
  BY DEF AskedOnes, Sleepers, WokenOnes
<1>2. Answered' = {}
  BY <1>1 DEF Answered
<1> QED BY <1>1, <1>2, FS_EmptySet DEF ThreadsGood, ClassGood, AcksGood

LEMMA BeginPreserves ==
  ASSUME IInv, NEW t \in Thread, SuspendOthers(t) \/ ProcessEachStack(t)
  PROVE  IInv'
<1>1. UNCHANGED <<active, state, context, inCritical, allocs, pending, handler,
                  acks>>
  BY DEF SuspendOthers, ProcessEachStack, mutator
<1>2. activeMu = NIL /\ activeMu' = t /\ t \in active /\ t # NIL
  BY NilIsNoThread DEF SuspendOthers, ProcessEachStack
<1>3. gc.pc = "Idle"
  BY <1>2 DEF IInv, CollectorGood
<1>4. /\ \A u \in Thread : Quiet(u)
      /\ acks = 0
  BY <1>3, BetweenSuspensions
<1>5. \A u \in Thread : Quiet(u)'
  BY <1>1, <1>4 DEF Quiet
<1>6. IsFiniteSet(active) /\ active \subseteq Thread
  BY DEF IInv, CollectorGood, TypeInv
<1>7. CASE SuspendOthers(t)
  <2>1. gc' = [op |-> "World", pc |-> "Stop", act |-> NIL, targets |-> active \ {t},
               todo |-> active \ {t}, cur |-> NIL, nLive |-> 0, nDead |-> 0]
        /\ fault' = fault
    BY <1>7 DEF SuspendOthers, NoGC, Others
  <2>2. ThreadsGood' /\ AcksGood' /\ AskedOnes' = {} /\ WokenOnes' = {}
    BY <1>1, <1>4, <1>5, <2>1, QuietState
  <2>3. gc' \in GcRecord
    BY <1>6, <2>1 DEF GcRecord
  <2>4. TypeInv'
    BY <1>1, <1>2, <2>3 DEF IInv, TypeInv
  <2>5. CollectorGood'
    BY <1>1, <1>2, <1>6, <2>1, <2>2, FS_EmptySet DEF CollectorGood
  <2> QED BY <2>1, <2>2, <2>4, <2>5 DEF IInv, AssertionsHold
<1>8. CASE ProcessEachStack(t)
  <2>1. PICK next \in (active \ {t}) \union {NIL} :
          gc' = [op |-> "Each", pc |-> "Next", act |-> next, targets |-> {},
                 todo |-> {}, cur |-> NIL, nLive |-> 0, nDead |-> 0]
    BY <1>8 DEF ProcessEachStack, NoGC, Others
  <2>2. ThreadsGood' /\ AcksGood' /\ AskedOnes' = {} /\ WokenOnes' = {}
    BY <1>1, <1>4, <1>5, <2>1, QuietState
  <2>3. gc' \in GcRecord
    BY <1>6, <2>1 DEF GcRecord
  <2>4. TypeInv'
    BY <1>1, <1>2, <2>3 DEF IInv, TypeInv
  <2>5. CollectorGood'
    BY <1>1, <1>2, <1>6, <2>1, <2>2, FS_EmptySet DEF CollectorGood
  <2>6. fault' = fault
    BY <1>4, <1>8 DEF ProcessEachStack, Check, Quiet
  <2> QED BY <2>2, <2>4, <2>5, <2>6 DEF IInv, AssertionsHold
<1> QED BY <1>7, <1>8

LEMMA StackPreserves ==
  ASSUME IInv, NEW t \in Thread, NextStack(t) \/ LastStack(t)
  PROVE  IInv'
<1>1. UNCHANGED <<active, state, context, inCritical, pending, handler, acks,
                  fault>>
  BY DEF NextStack, LastStack, mutator
<1>2. gc.pc = "Next" /\ activeMu = t
  BY DEF NextStack, LastStack, Collects
<1>3. /\ \A u \in Thread : Quiet(u)
      /\ acks = 0
  BY <1>2, BetweenSuspensions
<1>4. \A u \in Thread : Quiet(u)'
  BY <1>1, <1>3 DEF Quiet
<1>5. /\ IsFiniteSet(active) /\ active \subseteq Thread /\ gc \in GcRecord
      /\ gc.op = "Each" /\ (gc.act # NIL => gc.act \in active \ {t})
      /\ gc.cur = NIL /\ t # NIL /\ t \in active
  BY <1>2, NilIsNoThread DEF IInv, CollectorGood, TypeInv
<1>6. CASE NextStack(t)
  <2>1. /\ gc.act \in active \ {t}
        /\ gc' = [gc EXCEPT !.pc = "Stop", !.targets = {gc.act},
                            !.todo = {gc.act}]
        /\ activeMu' = activeMu /\ allocs' = allocs
    BY <1>5, <1>6 DEF NextStack, mutator
  <2>2. /\ gc'.pc = "Stop" /\ gc'.targets = {gc.act} /\ gc'.todo = {gc.act}
        /\ gc'.op = "Each" /\ gc'.act = gc.act /\ gc'.cur = NIL
        /\ gc'.nLive = gc.nLive /\ gc.nLive \in Nat
        /\ gc' \in GcRecord
    BY <1>5, <2>1 DEF GcRecord
  <2>3. ThreadsGood' /\ AcksGood' /\ AskedOnes' = {} /\ WokenOnes' = {}
    BY <1>1, <1>3, <1>4, <2>2, QuietState
  <2>4. TypeInv'
    BY <1>1, <2>1, <2>2 DEF IInv, TypeInv
  <2>5. CollectorGood'
    BY <1>1, <1>2, <1>5, <2>1, <2>2, <2>3, FS_EmptySet DEF CollectorGood
  <2> QED BY <1>1, <2>3, <2>4, <2>5 DEF IInv, AssertionsHold
<1>7. CASE LastStack(t)
  <2>1. activeMu' = NIL /\ gc' = NoGC /\ allocs' = [u \in Thread |-> MaxAllocs]
    BY <1>7 DEF LastStack, Unlock
  <2>2. /\ gc'.pc = "Idle" /\ gc'.targets = {} /\ gc'.todo = {} /\ gc'.act = NIL
        /\ gc'.cur = NIL /\ gc'.nLive = 0 /\ gc' \in GcRecord
    BY <2>1 DEF NoGC, GcRecord
  <2>3. ThreadsGood' /\ AcksGood' /\ AskedOnes' = {} /\ WokenOnes' = {}
    BY <1>1, <1>3, <1>4, <2>2, QuietState
  <2>4. TypeInv'
    BY <1>1, <2>1, <2>2, PoolIsFinite DEF IInv, TypeInv
  <2>5. CollectorGood'
    <3>1. NoGC' = NoGC
      BY DEF NoGC
    <3> QED BY <1>1, <1>5, <2>1, <2>2, <2>3, <3>1, FS_EmptySet DEF CollectorGood
  <2> QED BY <1>1, <2>3, <2>4, <2>5 DEF IInv, AssertionsHold
<1> QED BY <1>6, <1>7

\* A signal changes nothing but what the kernel has queued.
LEMMA SignalType ==
  ASSUME TypeInv, NEW u \in Thread, SignalThread(u)
  PROVE  pending' \in [Thread -> 0..MaxPending]
BY QueueHasRoom DEF TypeInv, SignalThread

\* The first walk of StopWorld asks one more thread, which was quiet.
LEMMA SendStopPreserves ==
  ASSUME IInv, NEW t \in Thread, SendStop(t)
  PROVE  IInv'
<1>1. /\ UNCHANGED <<active, activeMu, context, inCritical, allocs, handler, acks>>
      /\ gc.pc = "Stop" /\ activeMu = t
  BY DEF SendStop, Collects, mutator
<1>2. PICK act \in gc.todo :
        /\ Check(IF gc.op = "World" THEN state[act] # "Starting"
                                    ELSE state[act] = "Started")
        /\ IF gc.op = "Each" \/ state[act] = "Started"
           THEN /\ SetState(act, "Stopping")
                /\ SignalThread(act)
                /\ gc' = [gc EXCEPT !.todo = @ \ {act}, !.nLive = @ + 1]
           ELSE /\ gc' = [gc EXCEPT !.todo = @ \ {act}]
                /\ UNCHANGED <<state, pending>>
  BY DEF SendStop
<1>3. /\ gc \in GcRecord /\ gc.todo \subseteq gc.targets
      /\ gc.targets \subseteq active \ {activeMu} /\ gc.targets \subseteq Thread
      /\ act \in Thread
  BY Parts, <1>2 DEF IInv, CollectorGood, TypeInv
<1>4. /\ AskedOnes = gc.targets \ gc.todo /\ Sleepers = {} /\ WokenOnes = {}
  BY <1>1, SetsByPc
<1>5. Quiet(act)
  BY <1>2, <1>3, <1>4 DEF IInv, ThreadsGood, ClassGood
<1>6. fault' = fault
  BY <1>2, <1>5 DEF Check, Quiet
<1>7. /\ state' = [state EXCEPT ![act] = "Stopping"]
      /\ SignalThread(act)
      /\ gc' = [gc EXCEPT !.todo = gc.todo \ {act}, !.nLive = gc.nLive + 1]
  BY <1>2, <1>5 DEF SetState, Quiet
<1>8. /\ gc'.pc = "Stop" /\ gc'.op = gc.op /\ gc'.act = gc.act
      /\ gc'.targets = gc.targets /\ gc'.todo = gc.todo \ {act}
      /\ gc'.cur = gc.cur /\ gc'.nLive = gc.nLive + 1 /\ gc'.nDead = gc.nDead
      /\ gc' \in GcRecord /\ gc.nLive \in Nat
  <2>1. gc.nLive \in Nat /\ gc.todo \in SUBSET Thread
    BY <1>3 DEF GcRecord
  <2>2. gc.nLive + 1 \in Nat /\ gc.todo \ {act} \in SUBSET Thread
    BY <2>1
  <2>3. gc' \in GcRecord
    BY <1>3, <1>7, <2>2 DEF GcRecord
  <2>4. /\ gc'.pc = gc.pc /\ gc'.op = gc.op /\ gc'.act = gc.act
        /\ gc'.targets = gc.targets /\ gc'.todo = gc.todo \ {act}
        /\ gc'.cur = gc.cur /\ gc'.nLive = gc.nLive + 1 /\ gc'.nDead = gc.nDead
    BY <1>3, <1>7, Zenon DEF GcRecord
  <2> QED BY <1>1, <2>1, <2>3, <2>4
<1>9. TypeInv'
  <2>1. state' \in [Thread -> ActState]
    BY <1>3, <1>7 DEF IInv, TypeInv, ActState
  <2> QED BY <1>1, <1>3, <1>7, <1>8, <2>1, SignalType DEF IInv, TypeInv
<1>10. /\ AskedOnes' = AskedOnes \union {act} /\ act \notin AskedOnes
       /\ Sleepers' = {} /\ WokenOnes' = {}
  BY <1>2, <1>3, <1>4, <1>8 DEF AskedOnes, Sleepers, WokenOnes
<1>11. \A u \in Thread \ {act} : SameThread(u)
  BY <1>1, <1>7 DEF IInv, TypeInv, SameThread
<1>12. Asked(act)' /\ ~context'[act]
  <2>1. state'[act] = "Stopping"
    BY <1>3, <1>7 DEF IInv, TypeInv
  <2> QED BY <1>1, <1>5, <2>1, StacksDiffer DEF Asked, Quiet
<1>13. ThreadsGood'
  <2>1. ASSUME NEW u \in Thread PROVE ClassGood(u)'
    <3>1. ClassGood(u)
      BY DEF IInv, ThreadsGood
    <3>2. CASE u = act
      BY <1>10, <1>12, <3>2 DEF ClassGood
    <3>3. CASE u # act
      BY <1>4, <1>10, <1>11, <3>1, <3>3, SameClasses DEF ClassGood
    <3> QED BY <3>2, <3>3
  <2> QED BY <2>1 DEF ThreadsGood
<1>14. AcksGood'
  <2>1. Answered' = Answered
    BY <1>1, <1>4, <1>10, <1>12 DEF Answered
  <2> QED BY <1>1, <2>1 DEF IInv, AcksGood
<1>15. CollectorGood'
  <2>1. /\ IsFiniteSet(AskedOnes) /\ Cardinality(AskedOnes) <= gc.nLive
        /\ Cardinality(AskedOnes) \in Nat
    BY Parts DEF IInv, CollectorGood
  <2>2. Cardinality(AskedOnes') = Cardinality(AskedOnes) + 1
    BY <1>10, <2>1, FS_AddElement
  <2>3. Cardinality(AskedOnes') <= gc'.nLive
    BY <1>8, <2>1, <2>2
  <2>4. gc.cur = NIL
    BY <1>1 DEF IInv, CollectorGood
  <2> QED BY <1>1, <1>3, <1>8, <2>3, <2>4 DEF IInv, CollectorGood
<1> QED BY <1>6, <1>9, <1>13, <1>14, <1>15 DEF IInv, AssertionsHold

\* Everybody who was asked counts: the answers are as many as the requests.
LEMMA AnswersBounded ==
  ASSUME IInv
  PROVE  /\ gc.pc \in {"Stop", "Restop"} =>
              /\ acks <= Cardinality(AskedOnes)
              /\ acks <= gc.nLive
              /\ acks = Cardinality(AskedOnes) => Answered = AskedOnes
         /\ gc.pc \in {"Start", "Restart"} =>
              /\ acks <= gc.nDead
              /\ acks = gc.nDead => Answered = WokenOnes
<1>1. CASE gc.pc \in {"Stop", "Restop"}
  <2>1. WokenOnes = {}
    BY <1>1, SetsByPc
  <2>2. Answered \in SUBSET AskedOnes
    BY <2>1 DEF Answered
  <2>3. /\ Cardinality(Answered) <= Cardinality(AskedOnes)
        /\ Cardinality(AskedOnes) = Cardinality(Answered) => AskedOnes = Answered
    BY <2>2, Parts, FS_Subset
  <2>4. Cardinality(AskedOnes) <= gc.nLive /\ gc.nLive \in Nat
    BY DEF IInv, CollectorGood, TypeInv, GcRecord
  <2> QED BY <1>1, <2>3, <2>4, Parts
<1>2. CASE gc.pc \in {"Start", "Restart"}
  <2>1. AskedOnes = {}
    BY <1>2, SetsByPc
  <2>2. Answered \in SUBSET WokenOnes
    BY <2>1 DEF Answered
  <2>3. /\ Cardinality(Answered) <= Cardinality(WokenOnes)
        /\ Cardinality(WokenOnes) = Cardinality(Answered) => WokenOnes = Answered
    BY <2>2, Parts, FS_Subset
  <2>4. gc.nDead = Cardinality(WokenOnes)
    BY <1>2 DEF IInv, CollectorGood
  <2> QED BY <1>2, <2>3, <2>4, Parts
<1> QED BY <1>1, <1>2

\* As many answers as requests: all the targets are asleep.
LEMMA AllStoppedPreserves ==
  ASSUME IInv, NEW t \in Thread, AllStopped(t)
  PROVE  IInv'
<1>1. /\ UNCHANGED <<active, activeMu, state, context, inCritical, allocs, pending,
                     handler, fault>>
      /\ gc.pc \in {"Stop", "Restop"} /\ gc.todo = {} /\ gc.cur = NIL
      /\ activeMu = t /\ acks = gc.nLive /\ acks' = acks - gc.nLive
      /\ gc' = [gc EXCEPT !.pc = "Stopped"]
  BY DEF AllStopped, Collects, Walked, Drain, mutator
<1>2. gc \in GcRecord
  BY DEF IInv, TypeInv
<1>3. /\ gc'.pc = "Stopped" /\ gc'.op = gc.op /\ gc'.act = gc.act
      /\ gc'.targets = gc.targets /\ gc'.todo = gc.todo
      /\ gc'.cur = gc.cur /\ gc'.nLive = gc.nLive /\ gc'.nDead = gc.nDead
      /\ gc' \in GcRecord /\ gc.nLive \in Nat
  BY <1>1, <1>2 DEF GcRecord
<1>4. AskedOnes = gc.targets /\ Sleepers = {} /\ WokenOnes = {}
  BY <1>1, SetsByPc
<1>5. Answered = gc.targets
  <2>1. acks <= Cardinality(AskedOnes) /\ Cardinality(AskedOnes) <= gc.nLive
    BY <1>1, AnswersBounded DEF IInv, CollectorGood
  <2>2. acks = Cardinality(AskedOnes)
    BY <1>1, <1>3, <2>1, Parts
  <2> QED BY <1>1, <1>4, <2>2, AnswersBounded
<1>6. \A u \in gc.targets : Asleep(u)
  <2>1. ASSUME NEW u \in gc.targets PROVE Asleep(u)
    <3>1. u \in Thread
      BY Parts
    <3>2. context[u]
      BY <1>4, <1>5 DEF Answered
    <3>3. Asked(u)
      BY <1>4, <3>1 DEF IInv, ThreadsGood, ClassGood
    <3> QED BY <3>2, <3>3 DEF Asked, Quiet
  <2> QED BY <2>1
<1>7. acks' = 0
  BY <1>1, <1>3
<1>8. TypeInv'
  BY <1>1, <1>3, <1>7 DEF IInv, TypeInv
<1>9. AskedOnes' = {} /\ Sleepers' = gc.targets /\ WokenOnes' = {}
  BY <1>3 DEF AskedOnes, Sleepers, WokenOnes
<1>10. ThreadsGood'
  <2>1. ASSUME NEW u \in Thread PROVE ClassGood(u)'
    <3>1. ClassGood(u)
      BY DEF IInv, ThreadsGood
    <3>2. SameThread(u)
      BY <1>1 DEF SameThread
    <3> QED BY <1>4, <1>6, <1>9, <3>1, <3>2, SameClasses DEF ClassGood
  <2> QED BY <2>1 DEF ThreadsGood
<1>11. AcksGood'
  <2>1. Answered' = {}
    BY <1>9 DEF Answered
  <2> QED BY <1>7, <2>1, FS_EmptySet DEF AcksGood
<1>12. CollectorGood'
  BY <1>1, <1>3, <1>9, FS_EmptySet DEF IInv, CollectorGood
<1> QED BY <1>1, <1>8, <1>10, <1>11, <1>12 DEF IInv, AssertionsHold

\* Fewer answers than requests: everybody is to be looked at again.
LEMMA AskAgainPreserves ==
  ASSUME IInv, NEW t \in Thread, AskAgain(t)
  PROVE  IInv'
<1>1. /\ UNCHANGED <<active, activeMu, state, context, inCritical, allocs, pending,
                     handler, acks>>
      /\ gc.pc \in {"Stop", "Restop"} /\ gc.todo = {} /\ gc.cur = NIL
      /\ activeMu = t /\ acks # gc.nLive /\ Check(acks < gc.nLive)
      /\ gc' = [gc EXCEPT !.pc = "Restop", !.todo = gc.targets]
  BY DEF AskAgain, Collects, Walked, mutator
<1>2. gc \in GcRecord
  BY DEF IInv, TypeInv
<1>3. /\ gc'.pc = "Restop" /\ gc'.op = gc.op /\ gc'.act = gc.act
      /\ gc'.targets = gc.targets /\ gc'.todo = gc.targets
      /\ gc'.cur = gc.cur /\ gc'.nLive = gc.nLive /\ gc'.nDead = gc.nDead
      /\ gc' \in GcRecord /\ gc.nLive \in Nat
  BY <1>1, <1>2 DEF GcRecord
<1>4. fault' = fault
  <2>1. acks <= gc.nLive /\ acks \in Nat
    BY <1>1, AnswersBounded, Parts
  <2> QED BY <1>1, <1>3, <2>1 DEF Check
<1>5. AskedOnes = gc.targets /\ Sleepers = {} /\ WokenOnes = {}
  BY <1>1, SetsByPc
<1>6. AskedOnes' = gc.targets /\ Sleepers' = {} /\ WokenOnes' = {}
  BY <1>3 DEF AskedOnes, Sleepers, WokenOnes
<1>7. ThreadsGood'
  <2>1. ASSUME NEW u \in Thread PROVE ClassGood(u)'
    <3>1. ClassGood(u)
      BY DEF IInv, ThreadsGood
    <3>2. SameThread(u)
      BY <1>1 DEF SameThread
    <3> QED BY <1>5, <1>6, <3>1, <3>2, SameClasses DEF ClassGood
  <2> QED BY <2>1 DEF ThreadsGood
<1>8. AcksGood'
  <2>1. Answered' = Answered
    BY <1>1, <1>5, <1>6 DEF Answered
  <2> QED BY <1>1, <2>1 DEF IInv, AcksGood
<1>9. CollectorGood'
  BY <1>1, <1>3, <1>5, <1>6 DEF IInv, CollectorGood
<1>10. TypeInv'
  BY <1>1, <1>3 DEF IInv, TypeInv
<1> QED BY <1>4, <1>7, <1>8, <1>9, <1>10 DEF IInv, AssertionsHold

LEMMA LookAgainPreserves ==
  ASSUME IInv, NEW t \in Thread, LookAgain(t)
  PROVE  IInv'
<1>1. /\ UNCHANGED <<active, activeMu, state, context, inCritical, allocs, pending,
                     handler, acks>>
      /\ gc.pc = "Restop" /\ gc.cur = NIL /\ activeMu = t
  BY DEF LookAgain, Collects, mutator
<1>2. PICK act \in gc.todo :
        /\ Check(state[act] # "Starting")
        /\ gc' = [gc EXCEPT !.todo = @ \ {act},
                            !.cur = IF state[act] # "Stopped" THEN act ELSE NIL]
  BY DEF LookAgain
<1>3. /\ gc \in GcRecord /\ gc.todo \subseteq gc.targets
      /\ gc.targets \subseteq active \ {activeMu} /\ gc.targets \subseteq Thread
      /\ act \in gc.targets /\ act \in Thread
  BY Parts, <1>2 DEF IInv, CollectorGood, TypeInv
<1>4. AskedOnes = gc.targets /\ Sleepers = {} /\ WokenOnes = {}
  BY <1>1, SetsByPc
<1>5. fault' = fault
  <2>1. Asked(act)
    BY <1>3, <1>4 DEF IInv, ThreadsGood, ClassGood
  <2>2. state[act] # "Starting"
    BY <2>1 DEF Asked, Quiet, Asleep
  <2> QED BY <1>2, <2>2 DEF Check
<1>6. /\ gc'.pc = "Restop" /\ gc'.op = gc.op /\ gc'.act = gc.act
      /\ gc'.targets = gc.targets /\ gc'.todo = gc.todo \ {act}
      /\ gc'.cur = (IF state[act] # "Stopped" THEN act ELSE NIL)
      /\ gc'.nLive = gc.nLive /\ gc'.nDead = gc.nDead
  BY <1>1, <1>2, <1>3, Zenon DEF GcRecord
<1>7. gc' \in GcRecord
  BY <1>2, <1>3 DEF GcRecord
<1>8. AskedOnes' = gc.targets /\ Sleepers' = {} /\ WokenOnes' = {}
  BY <1>6 DEF AskedOnes, Sleepers, WokenOnes
<1>9. ThreadsGood'
  <2>1. ASSUME NEW u \in Thread PROVE ClassGood(u)'
    <3>1. ClassGood(u)
      BY DEF IInv, ThreadsGood
    <3>2. SameThread(u)
      BY <1>1 DEF SameThread
    <3> QED BY <1>4, <1>8, <3>1, <3>2, SameClasses DEF ClassGood
  <2> QED BY <2>1 DEF ThreadsGood
<1>10. AcksGood'
  <2>1. Answered' = Answered
    BY <1>1, <1>4, <1>8 DEF Answered
  <2> QED BY <1>1, <2>1 DEF IInv, AcksGood
<1>11. CollectorGood'
  <2>1. gc'.cur # NIL => gc'.cur = act /\ state'[act] # "Stopped"
    BY <1>1, <1>6
  <2> QED BY <1>1, <1>3, <1>4, <1>6, <1>8, <2>1 DEF IInv, CollectorGood
<1>12. TypeInv'
  BY <1>1, <1>7 DEF IInv, TypeInv
<1> QED BY <1>5, <1>9, <1>10, <1>11, <1>12 DEF IInv, AssertionsHold

\* A thread that is asked again was not stopped when it was looked at and, as
\* its handler does not stop in between, is not stopped now.
LEMMA RestopPreserves ==
  ASSUME IInv, NEW t \in Thread, Restop(t)
  PROVE  IInv'
<1>1. /\ UNCHANGED <<active, activeMu, context, inCritical, allocs, handler, acks,
                     fault>>
      /\ gc.pc = "Restop" /\ gc.cur # NIL /\ activeMu = t
      /\ state' = [state EXCEPT ![gc.cur] = "Stopping"]
      /\ SignalThread(gc.cur)
      /\ gc' = [gc EXCEPT !.cur = NIL]
  BY DEF Restop, Collects, mutator, SetState
<1>2. PICK a : a = gc.cur
  OBVIOUS
<1>3. /\ gc \in GcRecord /\ gc.targets \subseteq Thread
      /\ a \in gc.targets /\ a \in Thread /\ state[a] # "Stopped"
  BY <1>1, <1>2, Parts DEF IInv, CollectorGood, TypeInv
<1>4. /\ gc'.pc = "Restop" /\ gc'.op = gc.op /\ gc'.act = gc.act
      /\ gc'.targets = gc.targets /\ gc'.todo = gc.todo
      /\ gc'.cur = NIL /\ gc'.nLive = gc.nLive /\ gc'.nDead = gc.nDead
      /\ gc' \in GcRecord
  BY <1>1, <1>3 DEF GcRecord
<1>5. AskedOnes = gc.targets /\ Sleepers = {} /\ WokenOnes = {}
  BY <1>1, SetsByPc
<1>6. AskedOnes' = gc.targets /\ Sleepers' = {} /\ WokenOnes' = {}
  BY <1>4 DEF AskedOnes, Sleepers, WokenOnes
<1>7. \A u \in Thread \ {a} : SameThread(u)
  BY <1>1, <1>2 DEF IInv, TypeInv, SameThread
<1>8. state'[a] = "Stopping"
  BY <1>1, <1>2, <1>3 DEF IInv, TypeInv
<1>9. Asked(a)' /\ ~context[a]
  <2>1. Asked(a)
    BY <1>3, <1>5 DEF IInv, ThreadsGood, ClassGood
  <2>2. Quiet(a) \/ (/\ state[a] = "Stopping" /\ ~context[a]
                     /\ handler[a] \in {<<>>, <<"Entry">>, <<"Decline">>, <<"Stop">>}
                     /\ handler[a] = <<"Stop">> => ~inCritical[a])
    BY <1>3, <2>1 DEF Asked, Asleep
  <2>3. CASE Quiet(a)
    BY <1>1, <1>8, <2>3, StacksDiffer DEF Quiet, Asked
  <2>4. CASE /\ state[a] = "Stopping" /\ ~context[a]
             /\ handler[a] \in {<<>>, <<"Entry">>, <<"Decline">>, <<"Stop">>}
             /\ handler[a] = <<"Stop">> => ~inCritical[a]
    BY <1>1, <1>8, <2>4 DEF Asked
  <2> QED BY <2>2, <2>3, <2>4
<1>10. ThreadsGood'
  <2>1. ASSUME NEW u \in Thread PROVE ClassGood(u)'
    <3>1. ClassGood(u)
      BY DEF IInv, ThreadsGood
    <3>2. CASE u = a
      BY <1>3, <1>6, <1>9, <3>2 DEF ClassGood
    <3>3. CASE u # a
      BY <1>5, <1>6, <1>7, <3>1, <3>3, SameClasses DEF ClassGood
    <3> QED BY <3>2, <3>3
  <2> QED BY <2>1 DEF ThreadsGood
<1>11. AcksGood'
  <2>1. Answered' = Answered
    BY <1>1, <1>5, <1>6 DEF Answered
  <2> QED BY <1>1, <2>1 DEF IInv, AcksGood
<1>12. CollectorGood'
  BY <1>1, <1>4, <1>5, <1>6 DEF IInv, CollectorGood
<1>13. TypeInv'
  <2>1. pending' \in [Thread -> 0..MaxPending]
    BY <1>1, <1>2, <1>3, SignalType DEF IInv
  <2>2. state' \in [Thread -> ActState]
    BY <1>1, <1>2, <1>3 DEF IInv, TypeInv, ActState
  <2> QED BY <1>1, <1>4, <2>1, <2>2 DEF IInv, TypeInv
<1> QED BY <1>1, <1>10, <1>11, <1>12, <1>13 DEF IInv, AssertionsHold

LEMMA ResumeOthersPreserves ==
  ASSUME IInv, NEW t \in Thread, ResumeOthers(t)
  PROVE  IInv'
<1>1. /\ UNCHANGED <<active, activeMu, state, context, inCritical, allocs, pending,
                     handler, acks>>
      /\ gc.pc = "Stopped" /\ activeMu = t
      /\ Check(\A act \in gc.targets : state[act] = "Stopped")
      /\ gc' = [gc EXCEPT !.pc = "Start", !.todo = gc.targets, !.nDead = 0]
  BY DEF ResumeOthers, Collects, mutator
<1>2. gc \in GcRecord
  BY DEF IInv, TypeInv
<1>3. /\ gc'.pc = "Start" /\ gc'.op = gc.op /\ gc'.act = gc.act
      /\ gc'.targets = gc.targets /\ gc'.todo = gc.targets
      /\ gc'.cur = gc.cur /\ gc'.nLive = gc.nLive /\ gc'.nDead = 0
      /\ gc' \in GcRecord /\ gc.nLive \in Nat
  BY <1>1, <1>2 DEF GcRecord
<1>4. AskedOnes = {} /\ Sleepers = gc.targets /\ WokenOnes = {}
  BY <1>1, SetsByPc
<1>5. AskedOnes' = {} /\ Sleepers' = gc.targets /\ WokenOnes' = {}
  BY <1>3 DEF AskedOnes, Sleepers, WokenOnes
<1>6. fault' = fault
  <2>1. \A act \in gc.targets : state[act] = "Stopped"
    BY <1>4, Parts DEF IInv, ThreadsGood, ClassGood, Asleep
  <2> QED BY <1>1, <2>1 DEF Check
<1>7. ThreadsGood'
  <2>1. ASSUME NEW u \in Thread PROVE ClassGood(u)'
    <3>1. ClassGood(u)
      BY DEF IInv, ThreadsGood
    <3>2. SameThread(u)
      BY <1>1 DEF SameThread
    <3> QED BY <1>4, <1>5, <3>1, <3>2, SameClasses DEF ClassGood
  <2> QED BY <2>1 DEF ThreadsGood
<1>8. AcksGood'
  <2>1. Answered' = Answered
    BY <1>4, <1>5 DEF Answered
  <2> QED BY <1>1, <2>1 DEF IInv, AcksGood
<1>9. CollectorGood'
  BY <1>1, <1>3, <1>4, <1>5, FS_EmptySet DEF IInv, CollectorGood
<1>10. TypeInv'
  BY <1>1, <1>3 DEF IInv, TypeInv
<1> QED BY <1>6, <1>7, <1>8, <1>9, <1>10 DEF IInv, AssertionsHold

\* The first walk of StartWorld tells one more sleeper to go on.
LEMMA SendStartPreserves ==
  ASSUME IInv, NEW t \in Thread, SendStart(t)
  PROVE  IInv'
<1>1. /\ UNCHANGED <<active, activeMu, context, inCritical, allocs, handler, acks>>
      /\ gc.pc = "Start" /\ activeMu = t
  BY DEF SendStart, Collects, mutator
<1>2. PICK act \in gc.todo :
        /\ Check(IF gc.op = "World" THEN state[act] # "Stopping"
                                    ELSE state[act] = "Stopped")
        /\ IF gc.op = "Each" \/ state[act] # "Started"
           THEN /\ SetStarting(act)
                /\ SignalThread(act)
                /\ gc' = [gc EXCEPT !.todo = @ \ {act}, !.nDead = @ + 1]
           ELSE /\ gc' = [gc EXCEPT !.todo = @ \ {act}]
                /\ UNCHANGED <<state, pending>>
  BY DEF SendStart
<1>3. /\ gc \in GcRecord /\ gc.todo \subseteq gc.targets
      /\ gc.targets \subseteq active \ {activeMu} /\ gc.targets \subseteq Thread
      /\ act \in Thread
  BY Parts, <1>2 DEF IInv, CollectorGood, TypeInv
<1>4. /\ AskedOnes = {} /\ Sleepers = gc.todo /\ WokenOnes = gc.targets \ gc.todo
  BY <1>1, SetsByPc
<1>5. Asleep(act)
  BY <1>2, <1>3, <1>4 DEF IInv, ThreadsGood, ClassGood
<1>6. fault' = fault
  BY <1>2, <1>5 DEF Check, Asleep
<1>7. /\ state' = [state EXCEPT ![act] = "Starting"]
      /\ SignalThread(act)
      /\ gc' = [gc EXCEPT !.todo = gc.todo \ {act}, !.nDead = gc.nDead + 1]
  BY <1>2, <1>5 DEF SetState, SetStarting, Asleep
<1>8. /\ gc'.pc = "Start" /\ gc'.op = gc.op /\ gc'.act = gc.act
      /\ gc'.targets = gc.targets /\ gc'.todo = gc.todo \ {act}
      /\ gc'.cur = gc.cur /\ gc'.nLive = gc.nLive /\ gc'.nDead = gc.nDead + 1
      /\ gc' \in GcRecord /\ gc.nDead \in Nat
  <2>1. gc.nDead \in Nat /\ gc.todo \in SUBSET Thread
    BY <1>3 DEF GcRecord
  <2>2. gc.nDead + 1 \in Nat /\ gc.todo \ {act} \in SUBSET Thread
    BY <2>1
  <2>3. gc' \in GcRecord
    BY <1>3, <1>7, <2>2 DEF GcRecord
  <2>4. /\ gc'.pc = gc.pc /\ gc'.op = gc.op /\ gc'.act = gc.act
        /\ gc'.targets = gc.targets /\ gc'.todo = gc.todo \ {act}
        /\ gc'.cur = gc.cur /\ gc'.nLive = gc.nLive /\ gc'.nDead = gc.nDead + 1
    BY <1>3, <1>7, Zenon DEF GcRecord
  <2> QED BY <1>1, <2>1, <2>3, <2>4
<1>9. TypeInv'
  <2>1. state' \in [Thread -> ActState]
    BY <1>3, <1>7 DEF IInv, TypeInv, ActState
  <2> QED BY <1>1, <1>3, <1>7, <1>8, <2>1, SignalType DEF IInv, TypeInv
<1>10. /\ WokenOnes' = WokenOnes \union {act} /\ act \notin WokenOnes
       /\ Sleepers' = gc.todo \ {act} /\ AskedOnes' = {}
  BY <1>2, <1>3, <1>4, <1>8 DEF AskedOnes, Sleepers, WokenOnes
<1>11. \A u \in Thread \ {act} : SameThread(u)
  BY <1>1, <1>7 DEF IInv, TypeInv, SameThread
<1>12. Waking(act)' /\ ~HasWoken(act)'
  <2>1. state'[act] = "Starting"
    BY <1>3, <1>7 DEF IInv, TypeInv
  <2> QED BY <1>1, <1>5, <2>1 DEF Waking, Asleep, HasWoken
<1>13. ThreadsGood'
  <2>1. ASSUME NEW u \in Thread PROVE ClassGood(u)'
    <3>1. ClassGood(u)
      BY DEF IInv, ThreadsGood
    <3>2. CASE u = act
      BY <1>10, <1>12, <3>2 DEF ClassGood
    <3>3. CASE u # act
      BY <1>4, <1>10, <1>11, <3>1, <3>3, SameClasses DEF ClassGood
    <3> QED BY <3>2, <3>3
  <2> QED BY <2>1 DEF ThreadsGood
<1>14. AcksGood'
  <2>1. \A u \in WokenOnes : HasWoken(u)' <=> HasWoken(u)
    BY <1>3, <1>4, <1>10, <1>11, SameClasses
  <2>2. Answered' = Answered
    BY <1>4, <1>10, <1>12, <2>1 DEF Answered
  <2> QED BY <1>1, <2>2 DEF IInv, AcksGood
<1>15. CollectorGood'
  <2>1. /\ IsFiniteSet(WokenOnes) /\ gc.nDead = Cardinality(WokenOnes)
    BY <1>1, Parts DEF IInv, CollectorGood
  <2>2. Cardinality(WokenOnes') = Cardinality(WokenOnes) + 1
    BY <1>10, <2>1, FS_AddElement
  <2>3. gc'.nDead = Cardinality(WokenOnes')
    BY <1>8, <2>1, <2>2
  <2>4. gc.cur = NIL
    BY <1>1 DEF IInv, CollectorGood
  <2> QED BY <1>1, <1>3, <1>4, <1>8, <1>10, <2>3, <2>4 DEF IInv, CollectorGood
<1> QED BY <1>6, <1>9, <1>13, <1>14, <1>15 DEF IInv, AssertionsHold

\* As many answers as threads told: everybody runs again.
LEMMA AllStartedPreserves ==
  ASSUME IInv, NEW t \in Thread, AllStarted(t)
  PROVE  IInv'
<1>1. /\ UNCHANGED <<active, state, context, inCritical, pending, handler, fault>>
      /\ gc.pc \in {"Start", "Restart"} /\ gc.todo = {} /\ gc.cur = NIL
      /\ activeMu = t /\ acks = gc.nDead /\ acks' = acks - gc.nDead
      /\ \/ gc.op = "World" /\ Unlock
         \/ /\ gc.op = "Each" /\ gc' = [gc EXCEPT !.pc = "Next"]
            /\ UNCHANGED <<activeMu, allocs>>
  BY DEF AllStarted, Collects, Walked, Drain
<1>2. gc \in GcRecord
  BY DEF IInv, TypeInv
<1>3. AskedOnes = {} /\ Sleepers = {} /\ WokenOnes = gc.targets
  BY <1>1, SetsByPc
<1>4. Answered = gc.targets
  BY <1>1, <1>3, AnswersBounded
<1>5. \A u \in Thread : Quiet(u)
  <2>1. ASSUME NEW u \in Thread PROVE Quiet(u)
    <3>1. ClassGood(u)
      BY DEF IInv, ThreadsGood
    <3>2. CASE u \in gc.targets
      <4>1. HasWoken(u) /\ Waking(u)
        BY <1>3, <1>4, <3>1, <3>2 DEF Answered, ClassGood
      <4> QED BY <4>1 DEF HasWoken, Waking
    <3>3. CASE u \notin gc.targets
      BY <1>3, <3>1, <3>3 DEF ClassGood
    <3> QED BY <3>2, <3>3
  <2> QED BY <2>1
<1>6. \A u \in Thread : Quiet(u)'
  BY <1>1, <1>5 DEF Quiet
<1>7. acks' = 0
  BY <1>1, Parts
<1>8. CASE gc.op = "World" /\ Unlock
  <2>1. activeMu' = NIL /\ gc' = NoGC /\ allocs' = [u \in Thread |-> MaxAllocs]
    BY <1>8 DEF Unlock
  <2>2. /\ gc'.pc = "Idle" /\ gc'.targets = {} /\ gc'.todo = {} /\ gc'.act = NIL
        /\ gc'.cur = NIL /\ gc'.nLive = 0 /\ gc' \in GcRecord
    BY <2>1 DEF NoGC, GcRecord
  <2>3. ThreadsGood' /\ AcksGood' /\ AskedOnes' = {} /\ WokenOnes' = {}
    BY <1>6, <1>7, <2>2, QuietState
  <2>4. TypeInv'
    BY <1>1, <1>7, <2>1, <2>2, PoolIsFinite DEF IInv, TypeInv
  <2>5. CollectorGood'
    <3>1. NoGC' = NoGC
      BY DEF NoGC
    <3> QED BY <1>1, <2>1, <2>2, <2>3, <3>1, FS_EmptySet DEF CollectorGood, IInv
  <2> QED BY <1>1, <2>3, <2>4, <2>5 DEF IInv, AssertionsHold
<1>9. CASE /\ gc.op = "Each" /\ gc' = [gc EXCEPT !.pc = "Next"]
           /\ UNCHANGED <<activeMu, allocs>>
  <2>1. /\ gc'.pc = "Next" /\ gc'.op = gc.op /\ gc'.act = gc.act
        /\ gc'.targets = gc.targets /\ gc'.todo = gc.todo
        /\ gc'.cur = gc.cur /\ gc'.nLive = gc.nLive /\ gc'.nDead = gc.nDead
        /\ gc' \in GcRecord /\ gc.nLive \in Nat
    BY <1>2, <1>9 DEF GcRecord
  <2>2. ThreadsGood' /\ AcksGood' /\ AskedOnes' = {} /\ WokenOnes' = {}
    <3>1. AskedOnes' = {} /\ Sleepers' = {} /\ WokenOnes' = {}
      BY <2>1 DEF AskedOnes, Sleepers, WokenOnes
    <3>2. Answered' = {}
      BY <3>1 DEF Answered
    <3>3. AcksGood'
      BY <1>7, <3>2, FS_EmptySet DEF AcksGood
    <3>4. ThreadsGood'
      BY <1>6, <3>1 DEF ThreadsGood, ClassGood
    <3> QED BY <3>1, <3>3, <3>4
  <2>3. TypeInv'
    BY <1>1, <1>7, <1>9, <2>1 DEF IInv, TypeInv
  <2>4. gc.op # "World"
    BY <1>9
  <2>5. CollectorGood'
    BY <1>1, <1>9, <2>1, <2>2, <2>4, FS_EmptySet DEF IInv, CollectorGood
  <2> QED BY <1>1, <2>2, <2>3, <2>5 DEF IInv, AssertionsHold
<1> QED BY <1>1, <1>8, <1>9

LEMMA StartAgainPreserves ==
  ASSUME IInv, NEW t \in Thread, StartAgain(t)
  PROVE  IInv'
<1>1. /\ UNCHANGED <<active, activeMu, state, context, inCritical, allocs, pending,
                     handler, acks>>
      /\ gc.pc \in {"Start", "Restart"} /\ gc.todo = {} /\ gc.cur = NIL
      /\ activeMu = t /\ acks # gc.nDead /\ Check(acks < gc.nDead)
      /\ gc' = [gc EXCEPT !.pc = "Restart", !.todo = gc.targets]
  BY DEF StartAgain, Collects, Walked, mutator
<1>2. gc \in GcRecord
  BY DEF IInv, TypeInv
<1>3. /\ gc'.pc = "Restart" /\ gc'.op = gc.op /\ gc'.act = gc.act
      /\ gc'.targets = gc.targets /\ gc'.todo = gc.targets
      /\ gc'.cur = gc.cur /\ gc'.nLive = gc.nLive /\ gc'.nDead = gc.nDead
      /\ gc' \in GcRecord /\ gc.nDead \in Nat
  BY <1>1, <1>2 DEF GcRecord
<1>4. fault' = fault
  <2>1. acks <= gc.nDead /\ acks \in Nat
    BY <1>1, AnswersBounded, Parts
  <2> QED BY <1>1, <1>3, <2>1 DEF Check
<1>5. AskedOnes = {} /\ Sleepers = {} /\ WokenOnes = gc.targets
  BY <1>1, SetsByPc
<1>6. AskedOnes' = {} /\ Sleepers' = {} /\ WokenOnes' = gc.targets
  BY <1>3 DEF AskedOnes, Sleepers, WokenOnes
<1>7. ThreadsGood'
  <2>1. ASSUME NEW u \in Thread PROVE ClassGood(u)'
    <3>1. ClassGood(u)
      BY DEF IInv, ThreadsGood
    <3>2. SameThread(u)
      BY <1>1 DEF SameThread
    <3> QED BY <1>5, <1>6, <3>1, <3>2, SameClasses DEF ClassGood
  <2> QED BY <2>1 DEF ThreadsGood
<1>8. AcksGood'
  <2>1. Answered' = Answered
    BY <1>1, <1>5, <1>6 DEF Answered, HasWoken
  <2> QED BY <1>1, <2>1 DEF IInv, AcksGood
<1>9. CollectorGood'
  BY <1>1, <1>3, <1>5, <1>6 DEF IInv, CollectorGood
<1>10. TypeInv'
  BY <1>1, <1>3 DEF IInv, TypeInv
<1> QED BY <1>4, <1>7, <1>8, <1>9, <1>10 DEF IInv, AssertionsHold

LEMMA RestartPreserves ==
  ASSUME IInv, NEW t \in Thread, Restart(t)
  PROVE  IInv'
<1>1. /\ UNCHANGED <<active, activeMu, state, context, inCritical, allocs,
                     handler, acks>>
      /\ gc.pc = "Restart" /\ activeMu = t
  BY DEF Restart, Collects, mutator
<1>2. PICK act \in gc.todo :
        /\ Check(state[act] # "Stopping")
        /\ gc' = [gc EXCEPT !.todo = @ \ {act}]
        /\ \/ state[act] # "Started" /\ SignalThread(act)
           \/ state[act] = "Started" /\ UNCHANGED pending
  BY DEF Restart
<1>3. /\ gc \in GcRecord /\ gc.todo \subseteq gc.targets
      /\ gc.targets \subseteq active \ {activeMu} /\ gc.targets \subseteq Thread
      /\ act \in gc.targets /\ act \in Thread
  BY Parts, <1>2 DEF IInv, CollectorGood, TypeInv
<1>4. AskedOnes = {} /\ Sleepers = {} /\ WokenOnes = gc.targets
  BY <1>1, SetsByPc
<1>5. fault' = fault
  <2>1. Waking(act)
    BY <1>3, <1>4 DEF IInv, ThreadsGood, ClassGood
  <2>2. state[act] # "Stopping"
    BY <2>1 DEF Waking, Quiet
  <2> QED BY <1>2, <2>2 DEF Check
<1>6. /\ gc'.pc = "Restart" /\ gc'.op = gc.op /\ gc'.act = gc.act
      /\ gc'.targets = gc.targets /\ gc'.todo = gc.todo \ {act}
      /\ gc'.cur = gc.cur /\ gc'.nLive = gc.nLive /\ gc'.nDead = gc.nDead
  BY <1>1, <1>2, <1>3, Zenon DEF GcRecord
<1>7. gc' \in GcRecord
  BY <1>2, <1>3 DEF GcRecord
<1>8. AskedOnes' = {} /\ Sleepers' = {} /\ WokenOnes' = gc.targets
  BY <1>6 DEF AskedOnes, Sleepers, WokenOnes
<1>9. ThreadsGood'
  <2>1. ASSUME NEW u \in Thread PROVE ClassGood(u)'
    <3>1. ClassGood(u)
      BY DEF IInv, ThreadsGood
    <3>2. SameThread(u)
      BY <1>1 DEF SameThread
    <3> QED BY <1>4, <1>8, <3>1, <3>2, SameClasses DEF ClassGood
  <2> QED BY <2>1 DEF ThreadsGood
<1>10. AcksGood'
  <2>1. Answered' = Answered
    BY <1>1, <1>4, <1>8 DEF Answered, HasWoken
  <2> QED BY <1>1, <2>1 DEF IInv, AcksGood
<1>11. CollectorGood'
  BY <1>1, <1>3, <1>4, <1>6, <1>8 DEF IInv, CollectorGood
<1>12. TypeInv'
  <2>1. pending' \in [Thread -> 0..MaxPending]
    BY <1>2, <1>3, SignalType DEF IInv, TypeInv
  <2> QED BY <1>1, <1>7, <2>1 DEF IInv, TypeInv
<1> QED BY <1>5, <1>9, <1>10, <1>11, <1>12 DEF IInv, AssertionsHold

-----------------------------------------------------------------------------
(* The theorems.                                                           *)

LEMMA InitGood == ASSUME Init PROVE IInv
<1>1. /\ active = {Main} /\ activeMu = NIL /\ acks = 0 /\ gc = NoGC
      /\ fault = "none"
      /\ \A u \in Thread :
           state[u] = "Started" /\ ~context[u] /\ handler[u] = <<>>
  BY DEF Init
<1>2. /\ gc.pc = "Idle" /\ gc.targets = {} /\ gc.todo = {} /\ gc.act = NIL
      /\ gc.cur = NIL /\ gc.nLive = 0 /\ gc \in GcRecord
  BY <1>1 DEF NoGC, GcRecord
<1>3. TypeInv
  BY <1>1, <1>2, MainIsAThread, QueueHasRoom, PoolIsFinite
     DEF Init, TypeInv, ActState, HandlerStack
<1>4. AskedOnes = {} /\ Sleepers = {} /\ WokenOnes = {}
  BY <1>2, SetsByPc
<1>5. ThreadsGood
  BY <1>1, <1>4 DEF ThreadsGood, ClassGood, Quiet
<1>6. Answered = {}
  BY <1>4 DEF Answered
<1>7. AcksGood
  BY <1>1, <1>6, FS_EmptySet DEF AcksGood
<1>8. IsFiniteSet(active)
  BY <1>1, FS_Singleton
<1>9. CollectorGood
  BY <1>1, <1>2, <1>4, <1>8, FS_EmptySet DEF CollectorGood
<1> QED BY <1>1, <1>3, <1>5, <1>7, <1>9 DEF IInv, AssertionsHold

LEMMA CollectorPreserves ==
  ASSUME IInv, NEW t \in Thread, Collector(t)
  PROVE  IInv'
BY StackPreserves, SendStopPreserves, AllStoppedPreserves, AskAgainPreserves,
   LookAgainPreserves, RestopPreserves, ResumeOthersPreserves,
   SendStartPreserves, AllStartedPreserves, StartAgainPreserves,
   RestartPreserves DEF Collector

LEMMA NextPreserves ==
  ASSUME IInv, [Next /\ Unpreempted]_vars
  PROVE  IInv'
<1>1. CASE UNCHANGED vars
  BY <1>1, StutterPreserves
<1>2. CASE Next /\ Unpreempted
  <2>1. PICK t \in Thread : Step(t)
    BY <1>2 DEF Next
  <2> QED BY <1>2, <2>1, CriticalPreserves, RingPreserves, DeliverPreserves,
             HandlerPreserves, BeginPreserves, CollectorPreserves DEF Step
<1> QED BY <1>1, <1>2

\* Whatever threads there are and however signals are queued, the invariant
\* holds when the suspending thread is not held up, between its look at a state
\* and its SetState, until that thread stops (StopWorld, SignalHandler).
THEOREM Invariance == SpecUnpreempted => []IInv
<1>1. Init => IInv
  BY InitGood
<1>2. IInv /\ [Next /\ Unpreempted]_vars => IInv'
  BY NextPreserves
<1> QED BY <1>1, <1>2, PTL DEF SpecUnpreempted

\* The variables keep their types; a handler is interrupted in sigsuspend only,
\* and only by one that has just been entered.
THEOREM TypeCorrect == SpecUnpreempted => []TypeOK
<1>1. IInv => TypeOK
  <2>1. SUFFICES ASSUME IInv PROVE TypeOK
    OBVIOUS
  <2>2. ASSUME NEW t \in Thread
        PROVE  \/ handler[t] = <<>>
               \/ \E l \in Labels : handler[t] = <<l>>
               \/ \E l \in {"Entry", "Decline", "Stop", "Ack"} :
                    handler[t] = <<l, "sigsuspend">>
    <3>1. handler[t] \in HandlerStack
      BY <2>1 DEF IInv, TypeInv
    <3> QED BY <3>1, Zenon DEF HandlerStack, Labels
  <2>3. gc.pc \in {"Idle", "Next", "Stop", "Restop", "Stopped", "Start", "Restart"}
    BY <2>1 DEF IInv, TypeInv, GcRecord
  <2> QED BY <2>1, <2>2, <2>3 DEF IInv, TypeInv, TypeOK
<1> QED BY <1>1, Invariance, PTL

\* No assertion of StopWorld, StartWorld, ProcessEachStack, ProcessOther or
\* SignalHandler fails.
THEOREM NoAssertionFails == SpecUnpreempted => []AssertionsHold
<1>1. IInv => AssertionsHold
  BY DEF IInv
<1> QED BY <1>1, Invariance, PTL

\* While the collector works, every thread that it has suspended sleeps in its
\* handler, its context saved, and not in the middle of an allocation.
THEOREM CollectorAlone == SpecUnpreempted => []WorldStopped
<1>1. IInv => WorldStopped
  <2>1. SUFFICES ASSUME IInv, NEW t \in Suspended
                 PROVE  /\ state[t] = "Stopped" /\ context[t] /\ ~inCritical[t]
                        /\ handler[t] # <<>>
                        /\ handler[t][Len(handler[t])] \in {"sigsuspend", "Until"}
    BY DEF WorldStopped, Suspended, IInv, TypeInv
  <2>2. gc.pc = "Stopped" /\ t \in gc.targets
    BY <2>1 DEF Suspended, IInv, CollectorGood
  <2>3. Asleep(t)
    <3>1. t \in Sleepers /\ t \in Thread
      BY <2>1, <2>2, SetsByPc, Parts
    <3> QED BY <2>1, <3>1 DEF IInv, ThreadsGood, ClassGood
  <2>4. CASE handler[t] = <<"sigsuspend">>
    BY <2>3, <2>4 DEF Asleep
  <2>5. CASE handler[t] = <<"Until">>
    BY <2>3, <2>5 DEF Asleep
  <2>6. CASE handler[t] = <<"Entry", "sigsuspend">>
    BY <2>3, <2>6 DEF Asleep
  <2> QED BY <2>3, <2>4, <2>5, <2>6 DEF Asleep
<1> QED BY <1>1, Invariance, PTL

\* No answer is left over when activeMu is released, and none will come.
THEOREM NothingLeftOver == SpecUnpreempted => []NoStrayAck
<1>1. IInv => NoStrayAck
  <2>1. SUFFICES ASSUME IInv, activeMu = NIL
                 PROVE  /\ acks = 0
                        /\ \A u \in Thread :
                             /\ state[u] = "Started" /\ ~context[u]
                             /\ handler[u] \in {<<>>, <<"Entry">>}
    BY DEF NoStrayAck
  <2>2. gc.pc = "Idle"
    BY <2>1 DEF IInv, CollectorGood
  <2> QED BY <2>1, <2>2, BetweenSuspensions DEF Quiet
<1> QED BY <1>1, Invariance, PTL
=============================================================================
