--------------------------- MODULE RdWrPipeProofs ---------------------------
(***************************************************************************)
(* The safety invariants of RdWrPipe for every size of the ring and every  *)
(* set of bytes.                                                           *)
(***************************************************************************)
EXTENDS RdWrPipe, FiniteSetTheorems, SequenceTheorems, TLAPS

------------------------------------------------------------------------------
(* The inductive invariant *)

\* WindowsApart in terms of lengths: the reader's window is no longer than the
\* data, the writer's no longer than the room, one slot excepted.
Windows ==
    /\ rd.pc # "closed" => rd.st = first /\ rd.len <= Distance(first, next)
    /\ wr.pc # "closed" =>
          wr.st = next /\ wr.len <= Size - 1 - Distance(first, next)

\* A seek begins with a used-up window, which WrFlush and RdSeek then empty.
Points ==
    /\ rd.pc = "seek" => rd.used = rd.len
    /\ rd.pc = "wait" => rd.len = 0
    /\ wr.pc = "flush" /\ wr.then = "seek" => wr.used = wr.len
    /\ wr.pc = "signal" /\ wr.then = "seek" => wr.len = 0
    /\ wr.pc \in {"seek", "wait"} => wr.len = 0

\* NoLostWakeup without the count, which follows.
Reasons ==
    /\ "rd" \in waiting =>
          rd.pc = "wait" /\ ~closed /\ (IsEmpty \/ wr.pc = "signal")
    /\ "wr" \in waiting => wr.pc = "wait" /\ (IsFull \/ rd.pc = "signal")

PipeInv == TypeOK /\ Windows /\ Points /\ Reasons

------------------------------------------------------------------------------
(* Arithmetic on the ring *)

\* MOD wraps an index that is at most one turn too far.
LEMMA Wrap ==
    ASSUME NEW a \in Nat, a <= Size
    PROVE  a % Size = IF a < Size THEN a ELSE 0
  <1>1. CASE a < Size
    BY <1>1, SizeAssumption
  <1>2. CASE a = Size
    BY <1>2, SizeAssumption
  <1> QED
    BY <1>1, <1>2, SizeAssumption

\* The number of slots from one index to another, going up.
LEMMA DistanceValue ==
    ASSUME NEW a \in Slot, NEW b \in Slot
    PROVE  /\ Distance(a, b) = IF a <= b THEN b - a ELSE b - a + Size
           /\ Distance(a, b) \in Slot
  <1>1. CASE a <= b
    BY <1>1, SizeAssumption DEF Distance, Slot
  <1>2. CASE ~(a <= b)
    <2>1. (b - a) % Size = b - a + Size
      BY <1>2, SizeAssumption DEF Slot
    <2> QED
      BY <2>1, <1>2, SizeAssumption DEF Distance, Slot
  <1> QED
    BY <1>1, <1>2

\* Where the byte at cur is, for a window inside the buffer.
LEMMA CurIValue ==
    ASSUME NEW e, e.st \in Slot, e.used \in Nat, e.st + e.used <= Size
    PROVE  /\ CurI(e) = IF e.st + e.used < Size THEN e.st + e.used ELSE 0
           /\ CurI(e) \in Slot
  BY Wrap, SizeAssumption DEF CurI, Slot

\* The ring is full when all slots but one are occupied, and then not empty.
LEMMA FullValue ==
    ASSUME first \in Slot, next \in Slot
    PROVE  /\ IsFull <=> Distance(first, next) = Size - 1
           /\ IsEmpty <=> Distance(first, next) = 0
           /\ ~(IsFull /\ IsEmpty)
  <1>1. (next + 1) % Size = IF next + 1 < Size THEN next + 1 ELSE 0
    BY Wrap, SizeAssumption DEF Slot
  <1>2. Distance(first, next) = IF first <= next THEN next - first
                                                 ELSE next - first + Size
    BY DistanceValue
  <1>3. IsFull <=> Distance(first, next) = Size - 1
    BY <1>1, <1>2, SizeAssumption DEF IsFull, Slot
  <1>4. IsEmpty <=> Distance(first, next) = 0
    BY <1>2, SizeAssumption DEF IsEmpty, Slot
  <1> QED
    BY <1>3, <1>4, SizeAssumption

\* A Signal empties a wait set that holds one end.
LEMMA SignalOne ==
    ASSUME NEW e, waiting \subseteq {e}, NEW R \in AfterSignal(waiting)
    PROVE  R = {}
  BY DEF AfterSignal

\* A Signal adds nobody.
LEMMA SignalSubset ==
    ASSUME NEW R \in AfterSignal(waiting)
    PROVE  R \subseteq waiting
  BY DEF AfterSignal

------------------------------------------------------------------------------
(* The initial state and the steps of the writer *)

\* New makes an empty ring whose windows fit.
LEMMA InitInv == Init => PipeInv
  <1> SUFFICES ASSUME Init PROVE PipeInv
    OBVIOUS
  <1>1. 0 \in Slot /\ first \in Slot /\ next \in Slot
    BY SizeAssumption DEF Init, Slot
  <1>2. Distance(first, next) = 0
    BY <1>1, DistanceValue DEF Init
  <1>3. TypeOK
    <2>1. /\ rd \in [st : Slot, used : 0 .. Size, len : 0 .. Size,
                     block : BOOLEAN,
                     pc : {"client", "seek", "wait", "signal", "closed"}]
          /\ wr \in [st : Slot, used : 0 .. Size, len : 0 .. Size,
                     pc : {"client", "flush", "signal", "seek", "wait",
                           "close", "closed"},
                     then : {"client", "seek", "close"}]
      BY <1>1, SizeAssumption DEF Init
    <2>2. /\ rd.used <= rd.len /\ rd.st + rd.len <= Size
          /\ wr.used <= wr.len /\ wr.st + wr.len <= Size
      BY SizeAssumption DEF Init
    <2> QED
      BY <1>1, <2>1, <2>2 DEF Init, TypeOK
  <1> QED
    BY <1>2, <1>3, SizeAssumption
    DEF Init, PipeInv, Windows, Points, Reasons

\* A byte put in the window moves only wr.cur.
LEMMA PutCharInv ==
    ASSUME PipeInv, NEW b \in Byte, PutChar(b)
    PROVE  PipeInv'
  <1>1. TypeOK'
    <2>1. buf' \in [Slot -> Byte]
      BY DEF PipeInv, TypeOK, PutChar
    <2>2. wr.used + 1 \in 0 .. Size /\ wr.used + 1 <= wr.len
      BY SizeAssumption DEF PipeInv, TypeOK, PutChar
    <2> QED
      BY <2>1, <2>2 DEF PipeInv, TypeOK, PutChar
  <1>2. Windows' /\ Points' /\ Reasons'
    BY DEF PipeInv, TypeOK, PutChar, Windows, Points, Reasons, Distance,
           IsEmpty, IsFull
  <1> QED
    BY <1>1, <1>2 DEF PipeInv

\* Entering WrFlush changes no index.
LEMMA WrCallInv ==
    ASSUME PipeInv, NEW then \in {"client", "seek", "close"}, WrCall(then)
    PROVE  PipeInv'
  <1>1. TypeOK'
    BY DEF PipeInv, TypeOK, WrCall
  <1>2. Windows' /\ Points' /\ Reasons'
    BY DEF PipeInv, TypeOK, WrCall, Windows, Points, Reasons, Distance,
           IsEmpty, IsFull
  <1> QED
    BY <1>1, <1>2 DEF PipeInv

\* A failed flush changes no index.
LEMMA FlushFailsInv ==
    ASSUME PipeInv, FlushFails
    PROVE  PipeInv'
  <1>1. TypeOK'
    BY DEF PipeInv, TypeOK, FlushFails
  <1>2. Windows' /\ Points' /\ Reasons'
    BY DEF PipeInv, TypeOK, FlushFails, Windows, Points, Reasons, Distance,
           IsEmpty, IsFull
  <1> QED
    BY <1>1, <1>2 DEF PipeInv

\* What WrFlush publishes adds to the distance and leaves the window's end.
LEMMA WrFlushInv ==
    ASSUME PipeInv, WrFlush
    PROVE  PipeInv'
  <1> DEFINE cur == CurI(wr)
  <1>0. /\ first \in Slot /\ next \in Slot /\ wr.st = next /\ wr.st \in Slot
        /\ wr.used \in Nat /\ wr.len \in Nat /\ wr.used <= wr.len
        /\ wr.st + wr.len <= Size
    BY DEF PipeInv, TypeOK, Windows, WrFlush
  <1>1. /\ cur = IF wr.st + wr.used < Size THEN wr.st + wr.used ELSE 0
        /\ cur \in Slot
    BY <1>0, CurIValue, SizeAssumption DEF Slot
  <1>2. CASE wr.used = 0
    <2>1. next' = next /\ wr' = [wr EXCEPT !.pc = wr.then]
      BY <1>2 DEF WrFlush
    <2>2. TypeOK'
      BY <2>1 DEF PipeInv, TypeOK, WrFlush
    <2>3. Windows' /\ Points' /\ Reasons'
      BY <1>2, <2>1 DEF PipeInv, TypeOK, WrFlush, Windows, Points, Reasons,
                        Distance, IsEmpty, IsFull
    <2> QED
      BY <2>2, <2>3 DEF PipeInv
  <1>3. CASE wr.used > 0
    <2>1. /\ next' = cur
          /\ wr' = [wr EXCEPT !.st = cur, !.used = 0, !.len = @ - wr.used,
                              !.pc = AfterFlush]
      BY <1>3 DEF WrFlush
    <2>2. Distance(first, cur) = Distance(first, next) + wr.used
      <3>1. wr.len <= Size - 1 - Distance(first, next)
        BY DEF PipeInv, Windows, WrFlush
      <3>2. Distance(first, next) = IF first <= next THEN next - first
                                    ELSE next - first + Size
        BY <1>0, DistanceValue
      <3>3. Distance(first, cur) = IF first <= cur THEN cur - first
                                   ELSE cur - first + Size
        BY <1>0, <1>1, DistanceValue
      <3> HIDE DEF cur
      <3> QED
        BY <1>0, <1>1, <3>1, <3>2, <3>3, SizeAssumption DEF Slot
    <2>3. AfterFlush \in {"client", "seek", "signal", "close"}
      BY DEF AfterFlush, PipeInv, TypeOK
    <2>4. TypeOK'
      <3>1. /\ wr.len - wr.used \in 0 .. Size /\ 0 \in 0 .. Size
            /\ 0 <= wr.len - wr.used
            /\ cur + (wr.len - wr.used) <= Size
        BY <1>0, <1>1, SizeAssumption DEF Slot
      <3> HIDE DEF cur
      <3> QED
        BY <1>1, <2>1, <2>3, <3>1 DEF PipeInv, TypeOK, WrFlush
    <2>5. Windows'
      <3>1. rd' = rd /\ first' = first /\ wr'.st = cur
            /\ wr'.len = wr.len - wr.used
        BY <2>1 DEF WrFlush, PipeInv, TypeOK
      <3>2. Distance(first, next)' = Distance(first, next) + wr.used
        BY <2>1, <2>2, <3>1 DEF Distance
      <3>3. Distance(first, next) \in Slot /\ rd.len \in Nat
        BY <1>0, DistanceValue DEF PipeInv, TypeOK
      <3> QED
        BY <1>0, <2>1, <3>1, <3>2, <3>3, SizeAssumption
        DEF PipeInv, Windows, WrFlush, Slot
    <2>6. Points'
      BY <1>0, <2>1 DEF WrFlush, PipeInv, TypeOK, Points, AfterFlush
    <2>7. Reasons'
      BY <2>1 DEF WrFlush, PipeInv, TypeOK, Reasons, AfterFlush
    <2> QED
      BY <2>4, <2>5, <2>6, <2>7 DEF PipeInv
  <1> QED
    BY <1>0, <1>2, <1>3

\* The Signal of WrFlush reaches the reader if it waits, since the writer does not.
LEMMA WrSignalInv ==
    ASSUME PipeInv, WrSignal
    PROVE  PipeInv'
  <1>1. "wr" \notin waiting
    BY DEF PipeInv, Reasons, WrSignal
  <1>2. waiting' = {}
    <2>1. waiting \subseteq {"rd"}
      BY <1>1 DEF PipeInv, TypeOK
    <2> QED
      BY <2>1, SignalOne DEF WrSignal
  <1>3. TypeOK'
    BY <1>2 DEF PipeInv, TypeOK, WrSignal
  <1>4. Windows' /\ Points' /\ Reasons'
    BY <1>2 DEF PipeInv, TypeOK, WrSignal, Windows, Points, Reasons, Distance
  <1> QED
    BY <1>3, <1>4 DEF PipeInv

\* The new window of the writer lies in the room and ends with the buffer.
LEMMA WrSeekInv ==
    ASSUME PipeInv, WrSeek
    PROVE  PipeInv'
  <1>0. /\ first \in Slot /\ next \in Slot /\ wr.st = next /\ wr.len = 0
        /\ wr.used = 0 /\ CurI(wr) = next
    <2>1. /\ first \in Slot /\ next \in Slot /\ wr.st = next /\ wr.len = 0
          /\ wr.used = 0
      BY DEF PipeInv, TypeOK, Windows, Points, WrSeek
    <2>2. CurI(wr) = next
      BY <2>1, CurIValue, SizeAssumption DEF Slot
    <2> QED
      BY <2>1, <2>2
  <1>1. CASE IsFull
    <2>1. waiting' = waiting \cup {"wr"} /\ wr' = [wr EXCEPT !.pc = "wait"]
      BY <1>1 DEF WrSeek
    <2>2. "rd" \notin waiting
      BY <1>0, <1>1, FullValue DEF PipeInv, Reasons, WrSeek
    <2>3. TypeOK'
      BY <2>1 DEF PipeInv, TypeOK, WrSeek
    <2>4. Windows' /\ Points' /\ Reasons'
      BY <1>0, <1>1, <2>1, <2>2
      DEF PipeInv, TypeOK, WrSeek, Windows, Points, Reasons, Distance, IsFull
    <2> QED
      BY <2>3, <2>4 DEF PipeInv
  <1>2. CASE ~IsFull
    <2>1. waiting' = waiting
          /\ wr' = [wr EXCEPT !.len = @ + Room, !.pc = "client"]
      BY <1>2 DEF WrSeek
    <2>2. Distance(first, next) = IF first <= next THEN next - first
                                  ELSE next - first + Size
      BY <1>0, DistanceValue
    <2>3. Distance(first, next) # Size - 1
      BY <1>0, <1>2, FullValue
    <2>4. /\ Room \in 0 .. Size /\ wr.st + Room <= Size
          /\ Room <= Size - 1 - Distance(first, next)
      BY <1>0, <2>2, <2>3, SizeAssumption DEF Room, Slot
    <2>5. /\ wr'.len = Room /\ wr'.used = 0 /\ wr'.st = next
          /\ wr'.pc = "client" /\ wr'.then = wr.then
          /\ wr' \in [st : Slot, used : 0 .. Size, len : 0 .. Size,
                      pc : {"client", "flush", "signal", "seek", "wait",
                            "close", "closed"},
                      then : {"client", "seek", "close"}]
      <3> HIDE DEF Room
      <3>1. 0 + Room = Room
        BY <2>4
      <3>2. wr' = [wr EXCEPT !.len = Room, !.pc = "client"]
        BY <1>0, <2>1, <3>1
      <3> QED
        BY <1>0, <2>4, <3>2 DEF PipeInv, TypeOK
    <2>6. TypeOK'
      BY <1>0, <2>1, <2>4, <2>5, SizeAssumption DEF PipeInv, TypeOK, WrSeek
    <2>7. Windows' /\ Points' /\ Reasons'
      BY <1>0, <2>1, <2>4, <2>5
      DEF PipeInv, WrSeek, Windows, Points, Reasons, Distance, IsFull, IsEmpty
    <2> QED
      BY <2>6, <2>7 DEF PipeInv
  <1> QED
    BY <1>1, <1>2

\* An alerted writer leaves an empty window behind.
LEMMA WrAlertedInv ==
    ASSUME PipeInv, WrAlerted
    PROVE  PipeInv'
  <1>1. TypeOK'
    BY DEF PipeInv, TypeOK, WrAlerted
  <1>2. Windows' /\ Points' /\ Reasons'
    BY DEF PipeInv, TypeOK, WrAlerted, Windows, Points, Reasons, Distance,
           IsEmpty, IsFull
  <1> QED
    BY <1>1, <1>2 DEF PipeInv

\* Closing the writer wakes the reader.
LEMMA WrCloseInv ==
    ASSUME PipeInv, WrClose
    PROVE  PipeInv'
  <1>1. waiting' = {}
    <2>1. waiting \subseteq {"rd"}
      BY DEF PipeInv, TypeOK, Reasons, WrClose
    <2>2. CASE closed
      BY <2>1, <2>2 DEF PipeInv, Reasons, WrClose, CloseSignal
    <2>3. CASE ~closed
      BY <2>1, <2>3, SignalOne DEF WrClose, CloseSignal
    <2> QED
      BY <2>2, <2>3
  <1>2. TypeOK'
    <2>1. 0 \in 0 .. Size
      BY SizeAssumption
    <2>2. wr.st + 0 <= Size
      BY SizeAssumption DEF PipeInv, TypeOK, Slot
    <2>3. /\ wr'.used = 0 /\ wr'.len = 0 /\ wr'.st = wr.st
          /\ wr' \in [st : Slot, used : 0 .. Size, len : 0 .. Size,
                      pc : {"client", "flush", "signal", "seek", "wait",
                            "close", "closed"},
                      then : {"client", "seek", "close"}]
      BY <2>1 DEF PipeInv, TypeOK, WrClose
    <2>4. /\ buf' = buf /\ first' = first /\ next' = next /\ closed' = TRUE
          /\ rd' = rd /\ out' = out
      BY DEF WrClose
    <2> QED
      BY <1>1, <2>2, <2>3, <2>4 DEF PipeInv, TypeOK
  <1>3. Windows' /\ Points' /\ Reasons'
    BY <1>1 DEF PipeInv, TypeOK, WrClose, Windows, Points, Reasons, Distance
  <1> QED
    BY <1>2, <1>3 DEF PipeInv

------------------------------------------------------------------------------
(* The steps of the reader *)

\* A byte taken from the window moves only rd.cur.
LEMMA GetCharInv ==
    ASSUME PipeInv, GetChar
    PROVE  PipeInv'
  <1>1. TypeOK'
    <2>1. rd.used + 1 \in 0 .. Size /\ rd.used + 1 <= rd.len
      BY SizeAssumption DEF PipeInv, TypeOK, GetChar
    <2>2. rd.st + rd.used \in Slot
      BY <2>1, SizeAssumption DEF PipeInv, TypeOK, Slot
    <2>3. out' \in Byte
      BY <2>2 DEF PipeInv, TypeOK, GetChar
    <2> QED
      BY <2>1, <2>3 DEF PipeInv, TypeOK, GetChar
  <1>2. Windows' /\ Points' /\ Reasons'
    BY DEF PipeInv, TypeOK, GetChar, Windows, Points, Reasons, Distance,
           IsEmpty, IsFull
  <1> QED
    BY <1>1, <1>2 DEF PipeInv

\* Entering RdSeek changes no index.
LEMMA RdCallInv ==
    ASSUME PipeInv, NEW block \in BOOLEAN, RdCall(block)
    PROVE  PipeInv'
  <1>1. TypeOK'
    BY DEF PipeInv, TypeOK, RdCall
  <1>2. Windows' /\ Points' /\ Reasons'
    BY DEF PipeInv, TypeOK, RdCall, Windows, Points, Reasons, Distance,
           IsEmpty, IsFull
  <1> QED
    BY <1>1, <1>2 DEF PipeInv

\* What the loop of RdSeek leaves behind, from an empty window at cur.
LEMMA RdLoopResult ==
    ASSUME PipeInv, NEW cur \in Slot, NEW w \in SUBSET {"wr"},
           NEW after \in {"client", "signal"}, RdLoop(cur, w, after)
    PROVE  /\ rd' \in [st : Slot, used : 0 .. Size, len : 0 .. Size,
                       block : BOOLEAN,
                       pc : {"client", "seek", "wait", "signal", "closed"}]
           /\ rd'.st = cur /\ rd'.used = 0
           /\ cur + rd'.len <= Size /\ rd'.len <= Distance(cur, next)
           /\ rd'.pc \in {after, "client", "wait"}
           /\ rd'.pc = "wait" => rd'.len = 0
           /\ cur # next => rd'.pc = after
           /\ waiting' \subseteq {"rd", "wr"}
           /\ "wr" \in waiting' => "wr" \in w
           /\ "rd" \in waiting' => rd'.pc = "wait" /\ ~closed /\ cur = next
           /\ out' \in Byte \cup {Eof, WouldBlock, Nothing}
  <1> DEFINE some == IF cur <= next THEN next - cur ELSE Size - cur
  <1>0. next \in Slot /\ 0 \in 0 .. Size /\ cur + 0 <= Size
    BY SizeAssumption DEF PipeInv, TypeOK, Slot
  <1>1. Distance(cur, next) = IF cur <= next THEN next - cur
                              ELSE next - cur + Size
    BY <1>0, DistanceValue
  <1>2. some \in 0 .. Size /\ cur + some <= Size /\ some <= Distance(cur, next)
    BY <1>0, <1>1, SizeAssumption DEF Slot
  <1>3. 0 <= Distance(cur, next)
    BY <1>0, <1>1, SizeAssumption DEF Slot
  <1>4. CASE cur = next
    <2>1. PICK pc \in {"client", "wait"} :
            rd' = [rd EXCEPT !.st = cur, !.used = 0, !.len = 0, !.pc = pc]
      BY <1>4 DEF RdLoop
    <2>2. /\ rd' \in [st : Slot, used : 0 .. Size, len : 0 .. Size,
                      block : BOOLEAN,
                      pc : {"client", "seek", "wait", "signal", "closed"}]
          /\ rd'.st = cur /\ rd'.used = 0 /\ rd'.len = 0
          /\ rd'.pc \in {"client", "wait"}
      BY <1>0, <2>1 DEF PipeInv, TypeOK
    <2>3. /\ waiting' \subseteq {"rd", "wr"}
          /\ "wr" \in waiting' => "wr" \in w
          /\ out' \in Byte \cup {Eof, WouldBlock, Nothing}
      BY <1>4 DEF RdLoop, PipeInv, TypeOK
    <2>4. "rd" \in waiting' => rd'.pc = "wait" /\ ~closed
      BY <1>4 DEF RdLoop, PipeInv, TypeOK
    <2> QED
      BY <1>0, <1>3, <1>4, <2>2, <2>3, <2>4
  <1>5. CASE cur # next
    <2>1. /\ rd' = [rd EXCEPT !.st = cur, !.used = 0, !.len = some,
                              !.pc = after]
          /\ waiting' = w /\ out' = out
      BY <1>5 DEF RdLoop
    <2> HIDE DEF some
    <2> QED
      BY <1>0, <1>2, <1>5, <2>1 DEF PipeInv, TypeOK
  <1> QED
    BY <1>4, <1>5

\* Giving back the reader's window shortens the distance by its length.
LEMMA RdSeekInv ==
    ASSUME PipeInv, RdSeek
    PROVE  PipeInv'
  <1> DEFINE cur == CurI(rd)
  <1>0. /\ first \in Slot /\ next \in Slot /\ rd.st = first /\ rd.st \in Slot
        /\ rd.used = rd.len /\ rd.used \in Nat /\ rd.st + rd.used <= Size
        /\ rd.len <= Distance(first, next)
    BY DEF PipeInv, TypeOK, Windows, Points, RdSeek
  <1>1. /\ cur = IF rd.st + rd.used < Size THEN rd.st + rd.used ELSE 0
        /\ cur \in Slot
    BY <1>0, CurIValue
  <1>2. PICK w \in IF IsFull /\ cur = next THEN AfterSignal(waiting)
                                          ELSE {waiting} :
          RdLoop(cur, w, AfterSeek)
    BY DEF RdSeek
  <1>3. /\ first' = cur /\ next' = next /\ closed' = closed /\ buf' = buf
        /\ wr' = wr
    BY DEF RdSeek
  <1>4. waiting \subseteq {"wr"} /\ ("wr" \in waiting => IsFull)
    BY DEF PipeInv, TypeOK, Reasons, RdSeek
  <1>5. w \subseteq waiting /\ (IsFull /\ cur = next => w = {})
    BY <1>2, <1>4, SignalOne, SignalSubset
  <1>6. AfterSeek = IF IsFull THEN "signal" ELSE "client"
    BY DEF AfterSeek
  <1>7. Distance(cur, next) = Distance(first, next) - rd.len
    <2>1. Distance(first, next) = IF first <= next THEN next - first
                                  ELSE next - first + Size
      BY <1>0, DistanceValue
    <2>2. Distance(cur, next) = IF cur <= next THEN next - cur
                                ELSE next - cur + Size
      BY <1>0, <1>1, DistanceValue
    <2> HIDE DEF cur
    <2> QED
      BY <1>0, <1>1, <2>1, <2>2, SizeAssumption DEF Slot
  <1>8. Distance(first, next)' = Distance(cur, next)
    BY <1>3 DEF Distance
  <1>9. Distance(first, next) \in Slot
    BY <1>0, DistanceValue
  <1> HIDE DEF cur
  <1>10. /\ rd' \in [st : Slot, used : 0 .. Size, len : 0 .. Size,
                     block : BOOLEAN,
                     pc : {"client", "seek", "wait", "signal", "closed"}]
         /\ rd'.st = cur /\ rd'.used = 0
         /\ cur + rd'.len <= Size /\ rd'.len <= Distance(cur, next)
         /\ rd'.pc \in {AfterSeek, "client", "wait"}
         /\ rd'.pc = "wait" => rd'.len = 0
         /\ cur # next => rd'.pc = AfterSeek
         /\ waiting' \subseteq {"rd", "wr"}
         /\ "wr" \in waiting' => "wr" \in w
         /\ "rd" \in waiting' => rd'.pc = "wait" /\ ~closed /\ cur = next
         /\ out' \in Byte \cup {Eof, WouldBlock, Nothing}
    <2>1. w \in SUBSET {"wr"} /\ AfterSeek \in {"client", "signal"}
      BY <1>4, <1>5, <1>6
    <2> QED
      BY <1>1, <1>2, <2>1, RdLoopResult
  <1>11. TypeOK'
    BY <1>1, <1>3, <1>10, SizeAssumption DEF PipeInv, TypeOK
  <1>12. Windows'
    BY <1>0, <1>3, <1>7, <1>8, <1>9, <1>10, SizeAssumption, SMTT(30)
    DEF PipeInv, TypeOK, Windows, Slot
  <1>13. Points'
    BY <1>3, <1>6, <1>10 DEF PipeInv, Points
  <1>14. Reasons'
    <2>1. ASSUME "rd" \in waiting'
          PROVE  rd'.pc = "wait" /\ ~closed' /\ IsEmpty'
      BY <1>3, <1>10, <2>1 DEF IsEmpty
    <2>2. ASSUME "wr" \in waiting'
          PROVE  wr'.pc = "wait" /\ rd'.pc = "signal"
      BY <1>3, <1>4, <1>5, <1>6, <1>10, <2>2 DEF PipeInv, Reasons
    <2> QED
      BY <2>1, <2>2 DEF Reasons
  <1> QED
    BY <1>11, <1>12, <1>13, <1>14 DEF PipeInv

\* The reader wakes up to bytes, to the end, or waits again with a reason.
LEMMA RdAwakeInv ==
    ASSUME PipeInv, RdAwake
    PROVE  PipeInv'
  <1>1. /\ rd.st = first /\ rd.st \in Slot
        /\ waiting \in SUBSET {"wr"} /\ ("wr" \in waiting => IsFull)
    BY DEF PipeInv, TypeOK, Windows, Reasons, RdAwake
  <1>2. /\ rd' \in [st : Slot, used : 0 .. Size, len : 0 .. Size,
                    block : BOOLEAN,
                    pc : {"client", "seek", "wait", "signal", "closed"}]
        /\ rd'.st = rd.st /\ rd'.used = 0
        /\ rd.st + rd'.len <= Size /\ rd'.len <= Distance(rd.st, next)
        /\ rd'.pc \in {"client", "wait"}
        /\ rd'.pc = "wait" => rd'.len = 0
        /\ waiting' \subseteq {"rd", "wr"}
        /\ "wr" \in waiting' => "wr" \in waiting
        /\ "rd" \in waiting' => rd'.pc = "wait" /\ ~closed /\ rd.st = next
        /\ out' \in Byte \cup {Eof, WouldBlock, Nothing}
    BY <1>1, RdLoopResult DEF RdAwake
  <1>3. /\ first' = first /\ next' = next /\ closed' = closed /\ buf' = buf
        /\ wr' = wr
    BY DEF RdAwake
  <1>4. TypeOK'
    BY <1>2, <1>3, SizeAssumption DEF PipeInv, TypeOK
  <1>5. Windows'
    BY <1>1, <1>2, <1>3 DEF PipeInv, Windows, Distance
  <1>6. Points' /\ Reasons'
    BY <1>1, <1>2, <1>3 DEF PipeInv, Points, Reasons, IsEmpty, IsFull
  <1> QED
    BY <1>4, <1>5, <1>6 DEF PipeInv

\* The Signal of RdSeek reaches the writer if it waits, since the reader does not.
LEMMA RdSignalInv ==
    ASSUME PipeInv, RdSignal
    PROVE  PipeInv'
  <1>1. waiting' = {}
    <2>1. waiting \subseteq {"wr"}
      BY DEF PipeInv, TypeOK, Reasons, RdSignal
    <2> QED
      BY <2>1, SignalOne DEF RdSignal
  <1>2. TypeOK'
    BY <1>1 DEF PipeInv, TypeOK, RdSignal
  <1>3. Windows' /\ Points' /\ Reasons'
    BY <1>1 DEF PipeInv, TypeOK, RdSignal, Windows, Points, Reasons, Distance
  <1> QED
    BY <1>2, <1>3 DEF PipeInv

\* An alerted reader leaves an empty window behind.
LEMMA RdAlertedInv ==
    ASSUME PipeInv, RdAlerted
    PROVE  PipeInv'
  <1>1. TypeOK'
    BY DEF PipeInv, TypeOK, RdAlerted
  <1>2. Windows' /\ Points' /\ Reasons'
    BY DEF PipeInv, TypeOK, RdAlerted, Windows, Points, Reasons, Distance,
           IsEmpty, IsFull
  <1> QED
    BY <1>1, <1>2 DEF PipeInv

\* Closing the reader moves no index.
LEMMA RdCloseInv ==
    ASSUME PipeInv, RdClose
    PROVE  PipeInv'
  <1>1. waiting \subseteq {"wr"}
    BY DEF PipeInv, TypeOK, Reasons, RdClose
  <1>2. waiting' \subseteq waiting
    BY SignalSubset DEF RdClose, CloseSignal
  <1>3. TypeOK'
    <2>1. 0 \in 0 .. Size
      BY SizeAssumption
    <2>2. rd.st + 0 <= Size
      BY SizeAssumption DEF PipeInv, TypeOK, Slot
    <2>3. /\ rd'.used = 0 /\ rd'.len = 0 /\ rd'.st = rd.st
          /\ rd' \in [st : Slot, used : 0 .. Size, len : 0 .. Size,
                      block : BOOLEAN,
                      pc : {"client", "seek", "wait", "signal", "closed"}]
      BY <2>1 DEF PipeInv, TypeOK, RdClose
    <2>4. /\ buf' = buf /\ first' = first /\ next' = next /\ closed' = TRUE
          /\ wr' = wr /\ out' = out
      BY DEF RdClose
    <2> QED
      BY <1>1, <1>2, <2>2, <2>3, <2>4 DEF PipeInv, TypeOK
  <1>4. Windows' /\ Points' /\ Reasons'
    BY <1>1, <1>2
    DEF PipeInv, TypeOK, RdClose, Windows, Points, Reasons, Distance, IsEmpty,
        IsFull
  <1> QED
    BY <1>3, <1>4 DEF PipeInv

------------------------------------------------------------------------------
(* The theorems *)

\* Nothing changes when the pipe does not move.
LEMMA StutterInv == PipeInv /\ UNCHANGED vars => PipeInv'
  BY DEF PipeInv, TypeOK, Windows, Points, Reasons, Distance, IsEmpty, IsFull,
         vars

\* Every step preserves the invariant.
LEMMA StepInv == PipeInv /\ [Next]_vars => PipeInv'
  <1> SUFFICES ASSUME PipeInv, [Next]_vars PROVE PipeInv'
    OBVIOUS
  <1>1. CASE Client
    BY <1>1, PutCharInv, WrCallInv, RdCallInv, GetCharInv, RdCloseInv,
       WrAlertedInv, RdAlertedInv DEF Client
  <1>2. CASE WrProgress
    BY <1>2, FlushFailsInv, WrFlushInv, WrSignalInv, WrSeekInv, WrCloseInv
    DEF WrProgress
  <1>3. CASE RdProgress
    BY <1>3, RdSeekInv, RdAwakeInv, RdSignalInv DEF RdProgress
  <1>4. CASE UNCHANGED vars
    BY <1>4, StutterInv
  <1> QED
    BY <1>1, <1>2, <1>3, <1>4 DEF Next

\* The inductive invariant holds in every state the pipe reaches, whatever its
\* size.
THEOREM PipeInvariance == Spec => []PipeInv
  BY InitInv, StepInv, PTL DEF Spec

\* RdSeek, WrSeek, Rd and Wr never index the shared buffer outside its bounds,
\* and the streams keep lo <= cur <= hi (RdClass.i3 V2, WrClass.i3 V4).
THEOREM PipeTypes == Spec => []TypeOK
  <1>1. PipeInv => TypeOK
    BY DEF PipeInv
  <1> QED
    BY <1>1, PipeInvariance, PTL

\* The assertions of RdSeek and WrSeek hold, the reader's window covers
\* published bytes only and the writer's free slots only.
THEOREM PipeWindows == Spec => []WindowsApart
  <1>1. PipeInv => WindowsApart
    <2> SUFFICES ASSUME PipeInv PROVE WindowsApart
      OBVIOUS
    <2>0. /\ first \in Slot /\ next \in Slot
          /\ rd.st \in Slot /\ rd.len \in Nat /\ rd.st + rd.len <= Size
          /\ wr.st \in Slot /\ wr.len \in Nat /\ wr.st + wr.len <= Size
      BY DEF PipeInv, TypeOK
    <2>1. Distance(first, next) = IF first <= next THEN next - first
                                  ELSE next - first + Size
      BY <2>0, DistanceValue
    <2>2. ASSUME rd.pc # "closed", NEW k \in 0 .. rd.len - 1
          PROVE  rd.st + k \in Occupied
      <3>1. rd.st = first /\ rd.len <= Distance(first, next)
        BY <2>2 DEF PipeInv, Windows
      <3>2. rd.st + k \in Slot
        BY <2>0, SizeAssumption DEF Slot
      <3>3. Distance(first, rd.st + k) = k
        BY <2>0, <3>1, <3>2, DistanceValue DEF Slot
      <3>4. k < Distance(first, next)
        BY <2>0, <2>1, <3>1, SizeAssumption DEF Slot
      <3> QED
        BY <3>2, <3>3, <3>4 DEF Occupied
    <2>3. ASSUME wr.pc # "closed", NEW k \in 0 .. wr.len - 1
          PROVE  wr.st + k \notin Occupied
      <3>1. wr.st = next /\ wr.len <= Size - 1 - Distance(first, next)
        BY <2>3 DEF PipeInv, Windows
      <3>2. wr.st + k \in Slot
        BY <2>0, SizeAssumption DEF Slot
      <3> DEFINE s == wr.st + k
      <3>3. s \in Slot
        BY <3>2
      <3> HIDE DEF s
      <3>4. Distance(first, s) = IF first <= s THEN s - first
                                               ELSE s - first + Size
        BY <2>0, <3>3, DistanceValue
      <3>5. s \in Nat /\ s >= next /\ s < Size
        BY <2>0, <3>1, <3>2, SizeAssumption DEF s, Slot
      <3>6. s < next + (Size - 1 - Distance(first, next))
        BY <2>0, <2>1, <3>1, SizeAssumption DEF s, Slot
      <3>7. ~(Distance(first, s) < Distance(first, next))
        BY <2>0, <2>1, <3>4, <3>5, <3>6, SizeAssumption DEF Slot
      <3> QED
        BY <3>7 DEF Occupied, s
    <2>4. ASSUME wr.pc # "closed", wr.len > 0
          PROVE  (wr.st + wr.len) % Size # first
      <3>1. wr.st = next /\ wr.len <= Size - 1 - Distance(first, next)
        BY <2>4 DEF PipeInv, Windows
      <3>2. (wr.st + wr.len) % Size = IF wr.st + wr.len < Size
                                      THEN wr.st + wr.len ELSE 0
        BY <2>0, Wrap DEF Slot
      <3> QED
        BY <2>0, <2>1, <2>4, <3>1, <3>2, SizeAssumption DEF Slot
    <2> QED
      BY <2>2, <2>3, <2>4 DEF WindowsApart, PipeInv, Windows
  <1> QED
    BY <1>1, PipeInvariance, PTL

\* An end blocked on the condition has a reason to be, or its signal is on the
\* way, and the two ends are never blocked together.
THEOREM PipeWakeups == Spec => []NoLostWakeup
  <1>1. PipeInv => NoLostWakeup
    <2> SUFFICES ASSUME PipeInv PROVE NoLostWakeup
      OBVIOUS
    <2>1. first \in Slot /\ next \in Slot /\ waiting \subseteq {"rd", "wr"}
      BY DEF PipeInv, TypeOK
    <2>2. ~("rd" \in waiting /\ "wr" \in waiting)
      BY <2>1, FullValue DEF PipeInv, Reasons
    <2>3. waiting = {} \/ \E e \in {"rd", "wr"} : waiting = {e}
      BY <2>1, <2>2
    <2>4. Cardinality(waiting) <= 1
      <3>1. Cardinality({}) = 0 /\ \A e : Cardinality({e}) = 1
        BY FS_EmptySet, FS_Singleton
      <3>2. Cardinality(waiting) \in {0, 1}
        BY <2>3, <3>1
      <3> QED
        BY <3>2
    <2> QED
      BY <2>4 DEF PipeInv, Reasons, NoLostWakeup
  <1> QED
    BY <1>1, PipeInvariance, PTL

------------------------------------------------------------------------------
(* The pipe implements ByteQueue.  The invariant needs what the ends know     *)
(* about each other's close.                                                  *)

\* Only a close sets `closed'; a writer reaches its close with nothing pending,
\* unless the reader has closed.
Ends ==
    /\ closed <=> rd.pc = "closed" \/ wr.pc = "closed"
    /\ wr.pc \in {"signal", "closed"} => wr.used = 0
    /\ wr.pc = "close" => wr.used = 0 \/ rd.pc = "closed"

LEMMA EndsInv == PipeInv /\ Ends /\ [Next]_vars => Ends'
  <1> SUFFICES ASSUME PipeInv, Ends, [Next]_vars PROVE Ends'
    OBVIOUS
  <1> USE DEF Ends
  <1>1. ASSUME NEW b \in Byte, PutChar(b) PROVE Ends'
    BY <1>1 DEF PutChar, PipeInv, TypeOK
  <1>2. ASSUME NEW then \in {"client", "seek", "close"}, WrCall(then)
        PROVE  Ends'
    BY <1>2 DEF WrCall, PipeInv, TypeOK
  <1>3. ASSUME NEW block \in BOOLEAN, RdCall(block) PROVE Ends'
    BY <1>3 DEF RdCall, PipeInv, TypeOK
  <1>4. CASE GetChar
    BY <1>4 DEF GetChar, PipeInv, TypeOK
  <1>5. CASE RdClose
    BY <1>5 DEF RdClose, PipeInv, TypeOK
  <1>6. CASE WrAlerted
    BY <1>6 DEF WrAlerted, PipeInv, TypeOK
  <1>7. CASE RdAlerted
    BY <1>7 DEF RdAlerted, PipeInv, TypeOK
  <1>8. CASE FlushFails
    BY <1>8 DEF FlushFails, PipeInv, TypeOK
  <1>9. CASE WrFlush
    <2>1. wr \in [st : Slot, used : 0 .. Size, len : 0 .. Size,
                  pc : {"client", "flush", "signal", "seek", "wait", "close",
                        "closed"},
                  then : {"client", "seek", "close"}]
      BY DEF PipeInv, TypeOK
    <2>2. /\ wr'.used = 0 /\ rd' = rd /\ closed' = closed /\ ~closed
          /\ wr'.pc # "closed" /\ wr.pc = "flush"
      <3>1. CASE wr.used > 0
        BY <1>9, <2>1, <3>1 DEF WrFlush, AfterFlush
      <3>2. CASE wr.used = 0
        BY <1>9, <2>1, <3>2 DEF WrFlush
      <3> QED
        BY <2>1, <3>1, <3>2, SizeAssumption
    <2> QED
      BY <2>2
  <1>10. CASE WrSignal
    BY <1>10 DEF WrSignal, PipeInv, TypeOK
  <1>11. CASE WrSeek
    BY <1>11 DEF WrSeek, PipeInv, TypeOK
  <1>12. CASE WrClose
    BY <1>12 DEF WrClose, PipeInv, TypeOK
  <1>13. CASE RdSeek \/ RdAwake
    <2>1. /\ wr' = wr /\ closed' = closed /\ rd.pc # "closed"
          /\ rd'.pc # "closed"
      BY <1>13 DEF RdSeek, RdAwake, RdLoop, AfterSeek, PipeInv, TypeOK
    <2> QED
      BY <2>1
  <1>14. CASE RdSignal
    BY <1>14 DEF RdSignal, PipeInv, TypeOK
  <1>15. CASE UNCHANGED vars
    BY <1>15 DEF vars
  <1> QED
    BY <1>1, <1>2, <1>3, <1>4, <1>5, <1>6, <1>7, <1>8, <1>9, <1>10, <1>11,
       <1>12, <1>13, <1>14, <1>15 DEF Next, Client, WrProgress, RdProgress

------------------------------------------------------------------------------
(* Bytes in the ring *)

\* MOD brings an index that is less than a turn too far back.
LEMMA Turn ==
    ASSUME NEW a \in Nat, a < 2 * Size
    PROVE  /\ a % Size = IF a < Size THEN a ELSE a - Size
           /\ a % Size \in Slot
  <1>1. CASE a < Size
    BY <1>1, SizeAssumption DEF Slot
  <1>2. CASE a >= Size
    <2>1. a % Size = a - Size
      BY <1>2, SizeAssumption
    <2> QED
      BY <1>2, <2>1, SizeAssumption DEF Slot
  <1> QED
    BY <1>1, <1>2, SizeAssumption

\* A stretch of the ring is a sequence of bytes.
LEMMA BytesSeq ==
    ASSUME buf \in [Slot -> Byte], NEW s \in Slot, NEW n \in 0 .. Size
    PROVE  /\ Bytes(s, n) \in Seq(Byte) /\ Len(Bytes(s, n)) = n
           /\ \A k \in 1 .. n :
                 /\ Bytes(s, n)[k] = buf[(s + k - 1) % Size]
                 /\ (s + k - 1) % Size \in Slot
  <1>1. ASSUME NEW k \in 1 .. n
        PROVE  (s + k - 1) % Size \in Slot
    <2>1. s + k - 1 \in Nat /\ s + k - 1 < 2 * Size
      BY SizeAssumption DEF Slot
    <2> QED
      BY <2>1, Turn
  <1>2. Bytes(s, n) \in [1 .. n -> Byte]
    BY <1>1 DEF Bytes
  <1>3. n \in Nat
    OBVIOUS
  <1>4. Bytes(s, n) \in Seq(Byte) /\ Len(Bytes(s, n)) = n
    BY <1>2, <1>3
  <1> QED
    BY <1>1, <1>4 DEF Bytes

\* Writing a slot outside a stretch leaves it alone.
LEMMA BytesFrame ==
    ASSUME buf \in [Slot -> Byte], NEW s \in Slot, NEW n \in 0 .. Size,
           NEW p, NEW b, buf' = [buf EXCEPT ![p] = b],
           \A k \in 1 .. n : (s + k - 1) % Size # p
    PROVE  [k \in 1 .. n |-> buf'[(s + k - 1) % Size]] = Bytes(s, n)
  <1>1. ASSUME NEW k \in 1 .. n
        PROVE  buf'[(s + k - 1) % Size] = buf[(s + k - 1) % Size]
    <2>1. (s + k - 1) % Size \in Slot
      BY BytesSeq
    <2> QED
      BY <2>1
  <1> QED
    BY <1>1 DEF Bytes

\* What ByteQueue calls pending and visible.
Pending == IF rd.pc = "closed" THEN <<>> ELSE Bytes(next, wr.used)
Visible == IF rd.pc = "closed" THEN <<>>
           ELSE Bytes(CurI(rd), Distance(CurI(rd), next))

\* The stretch that is visible begins where the reader is and ends at next.
LEMMA Reader ==
    ASSUME PipeInv, rd.pc # "closed"
    PROVE  /\ first \in Slot /\ next \in Slot /\ CurI(rd) \in Slot
           /\ rd.used \in Nat /\ rd.len \in Nat /\ rd.used <= rd.len
           /\ rd.len <= Distance(first, next)
           /\ CurI(rd) = IF rd.st + rd.used < Size THEN rd.st + rd.used ELSE 0
           /\ rd.st = first
           /\ Distance(first, next) \in Slot
           /\ Distance(CurI(rd), next) \in Slot
           /\ Distance(CurI(rd), next) = Distance(first, next) - rd.used
  <1>1. /\ first \in Slot /\ next \in Slot /\ rd.st = first
        /\ rd.used \in Nat /\ rd.len \in Nat /\ rd.used <= rd.len
        /\ rd.st + rd.len <= Size /\ rd.len <= Distance(first, next)
    BY DEF PipeInv, TypeOK, Windows
  <1>2. rd.st + rd.used <= Size
    BY <1>1, SizeAssumption DEF Slot
  <1>3. /\ CurI(rd) = IF rd.st + rd.used < Size THEN rd.st + rd.used ELSE 0
        /\ CurI(rd) \in Slot
    BY <1>1, <1>2, CurIValue
  <1> DEFINE c == CurI(rd)
  <1>4. /\ c \in Slot
        /\ c = IF first + rd.used < Size THEN first + rd.used ELSE 0
        /\ first + rd.used <= Size
    BY <1>1, <1>2, <1>3
  <1> HIDE DEF c
  <1>5. /\ Distance(first, next) = IF first <= next THEN next - first
                                   ELSE next - first + Size
        /\ Distance(first, next) \in Slot
    BY <1>1, DistanceValue
  <1>6. /\ Distance(c, next) = IF c <= next THEN next - c ELSE next - c + Size
        /\ Distance(c, next) \in Slot
    BY <1>1, <1>4, DistanceValue
  <1>7. Distance(c, next) = Distance(first, next) - rd.used
    BY <1>1, <1>4, <1>5, <1>6, SizeAssumption DEF Slot
  <1> QED
    BY <1>1, <1>3, <1>5, <1>6, <1>7 DEF c

\* The writer's window begins at next and fits in the room.
LEMMA Writer ==
    ASSUME PipeInv, wr.pc # "closed"
    PROVE  /\ wr.st = next /\ wr.used \in Nat /\ wr.len \in Nat
           /\ wr.used <= wr.len /\ next + wr.len <= Size
           /\ wr.len <= Size - 1 - Distance(first, next)
  BY DEF PipeInv, TypeOK, Windows

\* With both ends open the two stretches fit in the ring.
LEMMA Both ==
    ASSUME PipeInv, Ends, rd.pc # "closed"
    PROVE  /\ wr.used \in Nat
           /\ Distance(CurI(rd), next) + wr.used <= Size - 1
           /\ Pending \in Seq(Byte) /\ Len(Pending) = wr.used
           /\ Visible \in Seq(Byte) /\ Len(Visible) = Distance(CurI(rd), next)
           /\ Pending = Bytes(next, wr.used)
           /\ Visible = Bytes(CurI(rd), Distance(CurI(rd), next))
  <1>1. /\ next \in Slot /\ CurI(rd) \in Slot /\ rd.used \in Nat
        /\ Distance(CurI(rd), next) \in Slot /\ Distance(first, next) \in Slot
        /\ Distance(CurI(rd), next) = Distance(first, next) - rd.used
    BY Reader
  <1>2. /\ wr.used \in Nat
        /\ Distance(CurI(rd), next) + wr.used <= Size - 1
    <2>1. CASE wr.pc = "closed"
      BY <1>1, <2>1, SizeAssumption DEF Ends, Slot
    <2>2. CASE wr.pc # "closed"
      BY <1>1, <2>2, Writer, SizeAssumption DEF Slot
    <2> QED
      BY <2>1, <2>2
  <1>3. /\ Pending = Bytes(next, wr.used)
        /\ Visible = Bytes(CurI(rd), Distance(CurI(rd), next))
    BY DEF Pending, Visible
  <1>4. wr.used \in 0 .. Size /\ Distance(CurI(rd), next) \in 0 .. Size
    BY <1>1, <1>2, SizeAssumption DEF Slot
  <1>5. buf \in [Slot -> Byte]
    BY DEF PipeInv, TypeOK
  <1>6. Pending \in Seq(Byte) /\ Len(Pending) = wr.used
    BY <1>1, <1>3, <1>4, <1>5, BytesSeq
  <1>7. Visible \in Seq(Byte) /\ Len(Visible) = Distance(CurI(rd), next)
    BY <1>1, <1>3, <1>4, <1>5, BytesSeq
  <1> QED
    BY <1>2, <1>3, <1>6, <1>7

\* A step that moves neither cursor nor closes an end leaves both as they are.
LEMMA SameBytes ==
    ASSUME buf' = buf, next' = next, wr'.used = wr.used,
           rd.pc # "closed", rd'.pc # "closed", CurI(rd)' = CurI(rd)
    PROVE  Pending' = Pending /\ Visible' = Visible
  BY DEF Pending, Visible, Bytes, Distance

------------------------------------------------------------------------------
(* The steps that ByteQueue sees *)

\* PutChar writes the slot behind what is pending, which is not visible.
LEMMA PutCharSeen ==
    ASSUME PipeInv, Ends, NEW b \in Byte, PutChar(b), rd.pc # "closed"
    PROVE  /\ Len(Pending) + Len(Visible) < Size - 1
           /\ Pending' = Append(Pending, b) /\ Visible' = Visible
  <1> DEFINE p == wr.st + wr.used
             c == CurI(rd)
             d == Distance(CurI(rd), next)
             n == wr.used
  <1>1. /\ buf' = [buf EXCEPT ![p] = b] /\ wr'.used = n + 1 /\ rd' = rd
        /\ next' = next /\ wr.pc = "client" /\ wr.used < wr.len
    BY DEF PutChar, PipeInv, TypeOK
  <1>2. /\ c \in Slot /\ next \in Slot /\ d \in Slot
        /\ d = (IF c <= next THEN next - c ELSE next - c + Size)
    <2>1. c \in Slot /\ next \in Slot /\ d \in Slot
      BY Reader
    <2> QED
      BY <2>1, DistanceValue
  <1>3. /\ n \in Nat /\ p = next + n /\ p < Size /\ d + n < Size - 1
    <2>1. /\ wr.st = next /\ wr.used \in Nat /\ wr.len \in Nat
          /\ next + wr.len <= Size /\ wr.len <= Size - 1 - Distance(first, next)
      BY <1>1, Writer
    <2>2. d = Distance(first, next) - rd.used /\ rd.used \in Nat
          /\ Distance(first, next) \in Slot
      BY Reader
    <2> QED
      BY <1>1, <1>2, <2>1, <2>2, SizeAssumption DEF Slot
  <1>4. /\ Len(Pending) = n /\ Len(Visible) = d /\ Pending \in Seq(Byte)
        /\ Pending = Bytes(next, n) /\ Visible = Bytes(c, d)
    BY Both
  <1>5. buf \in [Slot -> Byte] /\ buf' \in [Slot -> Byte]
    BY <1>1 DEF PipeInv, TypeOK
  <1>6. Visible' = Visible
    <2>1. \A k \in 1 .. d : (c + k - 1) % Size # p
      <3>1. ASSUME NEW k \in 1 .. d
            PROVE  (c + k - 1) % Size # p
        <4> HIDE DEF p, c, d, n
        <4>1. c + k - 1 \in Nat /\ c + k - 1 < 2 * Size
          BY <1>2, SizeAssumption DEF Slot
        <4> DEFINE a == c + k - 1
        <4>2. a \in Nat /\ a < 2 * Size
          BY <4>1
        <4> HIDE DEF a
        <4>3. a % Size = IF a < Size THEN a ELSE a - Size
          BY <4>2, Turn
        <4>4. a % Size # p
          BY <1>2, <1>3, <4>3, SizeAssumption DEF Slot, a
        <4> QED
          BY <4>4 DEF a
      <3> QED
        BY <3>1
    <2>2. d \in 0 .. Size
      BY <1>2, SizeAssumption DEF Slot
    <2>3. [k \in 1 .. d |-> buf'[(c + k - 1) % Size]] = Bytes(c, d)
      BY <1>1, <1>2, <1>5, <2>1, <2>2, BytesFrame
    <2>4. Visible' = [k \in 1 .. d |-> buf'[(c + k - 1) % Size]]
      BY <1>1 DEF Visible, Bytes, CurI, Distance
    <2> QED
      BY <1>4, <2>3, <2>4
  <1>7. Pending' = Append(Pending, b)
    <2>1. Pending' = [k \in 1 .. n + 1 |-> buf'[(next + k - 1) % Size]]
      BY <1>1 DEF Pending, Bytes
    <2>2. ASSUME NEW k \in 1 .. n + 1
          PROVE  (next + k - 1) % Size = next + k - 1 /\ next + k - 1 \in Slot
      <3> HIDE DEF p, c, d, n
      <3>1. next + k - 1 \in Nat /\ next + k - 1 < Size
        BY <1>2, <1>3, SizeAssumption DEF Slot
      <3> QED
        BY <3>1, Wrap, SizeAssumption DEF Slot
    <2>3. Append(Pending, b)
            = [k \in 1 .. n + 1 |-> IF k <= n THEN Pending[k] ELSE b]
      BY <1>3, <1>4
    <2>4. ASSUME NEW k \in 1 .. n + 1
          PROVE  buf'[(next + k - 1) % Size] = IF k <= n THEN Pending[k] ELSE b
      <3>1. CASE k <= n
        <4>1. k \in 1 .. n
          BY <1>3, <3>1
        <4>2. Pending[k] = buf[(next + k - 1) % Size]
          BY <1>4, <4>1 DEF Bytes
        <4>3. next + k - 1 # p
          BY <1>2, <1>3, <3>1 DEF Slot
        <4> QED
          BY <1>1, <1>5, <2>2, <3>1, <4>2, <4>3
      <3>2. CASE ~(k <= n)
        <4>1. next + k - 1 = p
          BY <1>2, <1>3, <3>2 DEF Slot
        <4> QED
          BY <1>1, <1>5, <2>2, <3>2, <4>1
      <3> QED
        BY <3>1, <3>2
    <2> QED
      BY <2>1, <2>3, <2>4
  <1> QED
    BY <1>2, <1>3, <1>4, <1>6, <1>7, SizeAssumption DEF Slot

\* WrFlush makes what is pending visible: the two stretches become one.
LEMMA WrFlushSeen ==
    ASSUME PipeInv, Ends, WrFlush
    PROVE  /\ rd.pc # "closed" /\ wr.pc = "flush"
           /\ rd'.pc # "closed" /\ wr'.pc # "closed"
           /\ Visible' = Visible \o Pending /\ Pending' = <<>>
  <1> DEFINE c == CurI(rd)
             d == Distance(CurI(rd), next)
             n == wr.used
             to == CurI(wr)
  <1>1. /\ buf' = buf /\ rd' = rd /\ rd.pc # "closed" /\ wr.pc = "flush"
    BY DEF WrFlush, Ends
  <1>2. /\ wr'.used = 0 /\ wr'.pc # "closed"
        /\ next' = to
    <2>1. /\ wr.used \in Nat /\ wr.st = next
          /\ wr \in [st : Slot, used : 0 .. Size, len : 0 .. Size,
                     pc : {"client", "flush", "signal", "seek", "wait",
                           "close", "closed"},
                     then : {"client", "seek", "close"}]
      BY <1>1, Writer DEF PipeInv, TypeOK
    <2>2. CASE wr.used > 0
      BY <2>1, <2>2 DEF WrFlush, AfterFlush
    <2>3. CASE wr.used = 0
      <3>1. wr' = [wr EXCEPT !.pc = wr.then] /\ next' = next
        BY <2>3 DEF WrFlush
      <3>2. to = next
        <4>1. wr.st + wr.used <= Size /\ wr.st < Size
          BY <2>1, <2>3, SizeAssumption DEF Slot
        <4> QED
          BY <2>1, <2>3, <4>1, CurIValue DEF Slot
      <3> QED
        BY <2>1, <2>3, <3>1, <3>2
    <2> QED
      BY <2>1, <2>2, <2>3
  <1>3. /\ c \in Slot /\ next \in Slot /\ d \in Slot /\ n \in Nat
        /\ d = (IF c <= next THEN next - c ELSE next - c + Size)
        /\ d + n <= Size - 1
        /\ Len(Pending) = n /\ Len(Visible) = d
        /\ Pending \in Seq(Byte) /\ Visible \in Seq(Byte)
        /\ Pending = Bytes(next, n) /\ Visible = Bytes(c, d)
    BY <1>1, Reader, DistanceValue, Both
  <1>4. /\ to \in Slot
        /\ to = IF next + n < Size THEN next + n ELSE 0
        /\ next + n <= Size
    <2>1. /\ wr.st = next /\ wr.used \in Nat /\ wr.len \in Nat
          /\ wr.used <= wr.len /\ next + wr.len <= Size
      BY <1>1, Writer
    <2>2. wr.st + wr.used <= Size /\ wr.st \in Slot
      BY <1>3, <2>1, SizeAssumption DEF Slot
    <2> QED
      BY <2>1, <2>2, CurIValue
  <1> HIDE DEF c, d, n, to
  <1>5. Distance(c, to) = d + n
    <2>1. Distance(c, to) = IF c <= to THEN to - c ELSE to - c + Size
      BY <1>3, <1>4, DistanceValue
    <2> QED
      BY <1>3, <1>4, <2>1, SizeAssumption DEF Slot
  <1>6. Visible' = [k \in 1 .. d + n |-> buf[(c + k - 1) % Size]]
    <2>1. Visible' = Bytes(CurI(rd), Distance(CurI(rd), to))
      BY <1>1, <1>2 DEF Visible, Bytes, CurI, Distance
    <2>2. Visible' = Bytes(c, d + n)
      BY <1>5, <2>1 DEF c
    <2> QED
      BY <2>2 DEF Bytes
  <1>7. Visible \o Pending
          = [k \in 1 .. d + n |-> IF k <= d THEN Visible[k] ELSE Pending[k - d]]
    <2>1. /\ Visible \o Pending \in Seq(Byte)
          /\ Len(Visible \o Pending) = d + n
          /\ \A k \in 1 .. d + n : (Visible \o Pending)[k] =
                IF k <= d THEN Visible[k] ELSE Pending[k - d]
      <3>1. /\ Visible \o Pending \in Seq(Byte)
            /\ Len(Visible \o Pending) = Len(Visible) + Len(Pending)
            /\ \A k \in 1 .. Len(Visible) + Len(Pending) :
                  (Visible \o Pending)[k] = IF k <= Len(Visible) THEN Visible[k]
                                            ELSE Pending[k - Len(Visible)]
        <4>1. Visible \in Seq(Byte) /\ Pending \in Seq(Byte)
          BY <1>3
        <4> QED
          BY <4>1, ConcatProperties
      <3>2. Len(Visible) = d /\ Len(Pending) = n
        BY <1>3
      <3> QED
        BY <3>1, <3>2
    <2> DEFINE s == Visible \o Pending
    <2>2. /\ s \in Seq(Byte) /\ Len(s) = d + n
          /\ \A k \in 1 .. d + n :
                s[k] = IF k <= d THEN Visible[k] ELSE Pending[k - d]
      BY <2>1
    <2> HIDE DEF s
    <2>3. s = [k \in 1 .. d + n |-> s[k]]
      BY <2>2
    <2>4. s = [k \in 1 .. d + n |->
                  IF k <= d THEN Visible[k] ELSE Pending[k - d]]
      BY <2>2, <2>3
    <2> QED
      BY <2>4 DEF s
  <1>8. ASSUME NEW k \in 1 .. d + n
        PROVE  buf[(c + k - 1) % Size]
                 = IF k <= d THEN Visible[k] ELSE Pending[k - d]
    <2>1. CASE k <= d
      <3>1. k \in 1 .. d
        BY <1>3, <2>1 DEF Slot
      <3> QED
        BY <1>3, <2>1, <3>1 DEF Bytes
    <2>2. CASE ~(k <= d)
      <3>1. k - d \in 1 .. n
        BY <1>3, <2>2 DEF Slot
      <3>2. Pending[k - d] = buf[(next + (k - d) - 1) % Size]
        BY <1>3, <3>1 DEF Bytes
      <3> DEFINE a == c + k - 1
                 e == next + (k - d) - 1
      <3>3. /\ a \in Nat /\ a < 2 * Size /\ e \in Nat /\ e < Size
            /\ a = IF c <= next THEN e ELSE e + Size
        BY <1>3, <1>4, <2>2, <3>1, SizeAssumption DEF Slot
      <3> HIDE DEF a, e
      <3>4. a % Size = IF a < Size THEN a ELSE a - Size
        BY <3>3, Turn
      <3>5. e % Size = e
        BY <3>3, Wrap, SizeAssumption
      <3>6. a % Size = e % Size
        BY <3>3, <3>4, <3>5, SizeAssumption
      <3> QED
        BY <2>2, <3>2, <3>6 DEF a, e
    <2> QED
      BY <2>1, <2>2
  <1>9. Visible' = Visible \o Pending
    BY <1>6, <1>7, <1>8
  <1>10. Pending' = <<>>
    BY <1>1, <1>2 DEF Pending, Bytes
  <1> QED
    BY <1>1, <1>2, <1>9, <1>10

\* GetChar reads the oldest visible byte.
LEMMA GetCharSeen ==
    ASSUME PipeInv, Ends, GetChar
    PROVE  /\ rd.pc # "closed" /\ rd'.pc # "closed" /\ Visible # <<>>
           /\ out' = Head(Visible) /\ Visible' = Tail(Visible)
           /\ Pending' = Pending
  <1> DEFINE c == CurI(rd)
             d == Distance(CurI(rd), next)
  <1>1. /\ buf' = buf /\ next' = next /\ wr' = wr /\ rd.pc = "client"
        /\ rd.used < rd.len /\ out' = buf[rd.st + rd.used]
        /\ rd' = [rd EXCEPT !.used = rd.used + 1]
    BY DEF GetChar
  <1>2. /\ rd'.pc = "client" /\ rd'.st = rd.st /\ rd'.used = rd.used + 1
    BY <1>1 DEF PipeInv, TypeOK
  <1>3. /\ c \in Slot /\ next \in Slot /\ d \in Slot
        /\ rd.used \in Nat /\ rd.len \in Nat /\ rd.st \in Slot
        /\ rd.len <= Distance(first, next) /\ Distance(first, next) \in Slot
        /\ c = (IF rd.st + rd.used < Size THEN rd.st + rd.used ELSE 0)
        /\ d = Distance(first, next) - rd.used
        /\ d = (IF c <= next THEN next - c ELSE next - c + Size)
        /\ rd.st + rd.len <= Size
    <2>1. rd.st \in Slot /\ rd.st + rd.len <= Size
      BY DEF PipeInv, TypeOK
    <2> QED
      BY <1>1, <2>1, Reader, DistanceValue
  <1>4. /\ Len(Visible) = d /\ Visible \in Seq(Byte) /\ Visible = Bytes(c, d)
    BY <1>1, Both
  <1>5. c = rd.st + rd.used /\ d > 0
    BY <1>1, <1>3, SizeAssumption DEF Slot
  <1> DEFINE f == (rd.st + (rd.used + 1)) % Size
  <1>6. /\ f = (IF c + 1 < Size THEN c + 1 ELSE 0) /\ f \in Slot
    <2>1. rd.st + (rd.used + 1) = c + 1 /\ c + 1 \in Nat /\ c + 1 <= Size
      BY <1>3, <1>5, SizeAssumption DEF Slot
    <2> QED
      BY <2>1, Wrap, SizeAssumption DEF Slot
  <1>7. Visible' = Bytes(f, Distance(f, next))
    BY <1>1, <1>2 DEF Visible, Bytes, Distance, CurI
  <1> HIDE DEF c, d, f
  <1>8. Distance(f, next) = d - 1
    <2>1. Distance(f, next) = IF f <= next THEN next - f ELSE next - f + Size
      BY <1>3, <1>6, DistanceValue
    <2> QED
      BY <1>3, <1>5, <1>6, <2>1, SizeAssumption DEF Slot
  <1>9. Visible # <<>> /\ Head(Visible) = out'
    <2>1. Visible[1] = buf[(c + 1 - 1) % Size]
      BY <1>3, <1>4, <1>5 DEF Bytes, Slot
    <2>2. (c + 1 - 1) % Size = c
      BY <1>3, SizeAssumption DEF Slot
    <2>3. Visible # <<>> /\ Head(Visible) = Visible[1]
      BY <1>3, <1>4, <1>5 DEF Slot
    <2> QED
      BY <1>1, <1>5, <2>1, <2>2, <2>3
  <1>10. Visible' = Tail(Visible)
    <2>1. Tail(Visible) = [k \in 1 .. d - 1 |-> Visible[k + 1]]
      BY <1>3, <1>4, <1>5, SMTT(30) DEF Slot
    <2>2. Visible' = [k \in 1 .. d - 1 |-> buf[(f + k - 1) % Size]]
      BY <1>7, <1>8 DEF Bytes
    <2>3. ASSUME NEW k \in 1 .. d - 1
          PROVE  buf[(f + k - 1) % Size] = Visible[k + 1]
      <3>1. k + 1 \in 1 .. d
        BY <1>3, <1>5 DEF Slot
      <3>2. Visible[k + 1] = buf[(c + (k + 1) - 1) % Size]
        BY <1>4, <3>1 DEF Bytes
      <3> DEFINE a == c + (k + 1) - 1
                 e == f + k - 1
      <3>3. /\ a \in Nat /\ a < 2 * Size /\ e \in Nat /\ e < 2 * Size
            /\ a = IF c + 1 < Size THEN e ELSE e + Size
        BY <1>3, <1>6, SizeAssumption DEF Slot
      <3> HIDE DEF a, e
      <3>4. a % Size = IF a < Size THEN a ELSE a - Size
        BY <3>3, Turn
      <3>5. e % Size = IF e < Size THEN e ELSE e - Size
        BY <3>3, Turn
      <3>6. a % Size = e % Size
        BY <3>3, <3>4, <3>5, SizeAssumption
      <3> QED
        BY <3>2, <3>6 DEF a, e
    <2> QED
      BY <2>1, <2>2, <2>3
  <1>11. Pending' = Pending
    BY <1>1, <1>2 DEF Pending, Bytes
  <1> QED
    BY <1>1, <1>2, <1>9, <1>10, <1>11

\* RdSeek gives up the slots of what was read and moves no cursor, and what its
\* loop reports is what the queue would.
LEMMA RdLoopSeen ==
    ASSUME PipeInv, Ends, NEW c, c = CurI(rd), rd.pc \in {"seek", "wait"},
           NEW w, NEW after, after \in {"client", "signal"},
           RdLoop(c, w, after), UNCHANGED <<buf, next, closed, wr>>
    PROVE  /\ rd'.pc # "closed"
           /\ Pending' = Pending /\ Visible' = Visible
           /\ \/ out' = out
              \/ out' = WouldBlock /\ Visible = <<>>
              \/ /\ out' = Eof /\ wr.pc = "closed"
                 /\ Visible = <<>> /\ Pending = <<>>
  <1>1. rd.pc # "closed" /\ c \in Slot /\ next \in Slot
        /\ Visible = Bytes(c, Distance(c, next))
        /\ Pending = Bytes(next, wr.used)
    BY Reader, Both
  <1>2. PICK pc \in {"client", "wait", "signal"} :
          \E len : rd' = [rd EXCEPT !.st = c, !.used = 0, !.len = len, !.pc = pc]
    BY DEF RdLoop
  <1>3. rd'.pc = pc /\ rd'.st = c /\ rd'.used = 0
    BY <1>2 DEF PipeInv, TypeOK
  <1>4. CurI(rd)' = CurI(rd)
    <2>1. (c + 0) % Size = c
      BY <1>1, SizeAssumption DEF Slot
    <2> QED
      BY <1>3, <2>1 DEF CurI
  <1>5. Pending' = Pending /\ Visible' = Visible
    BY <1>1, <1>3, <1>4, SameBytes
  <1>6. c = next => Visible = <<>>
    <2>1. c = next => Distance(c, next) = 0
      BY <1>1, DistanceValue, SizeAssumption DEF Slot
    <2> QED
      BY <1>1, <2>1 DEF Bytes
  <1>7. closed => wr.pc = "closed" /\ Pending = <<>>
    <2>1. SUFFICES ASSUME closed PROVE wr.pc = "closed" /\ Pending = <<>>
      OBVIOUS
    <2>2. wr.pc = "closed" /\ wr.used = 0
      BY <1>1, <2>1 DEF Ends
    <2> QED
      BY <1>1, <2>2 DEF Bytes
  <1>8. \/ out' = out
        \/ out' = WouldBlock /\ c = next
        \/ out' = Eof /\ c = next /\ closed
    BY DEF RdLoop
  <1> QED
    BY <1>3, <1>5, <1>6, <1>7, <1>8

\* The initial pipe is an empty queue.
LEMMA InitSeen == Init => Queue!Init
  <1> SUFFICES ASSUME Init PROVE Queue!Init
    OBVIOUS
  <1>1. /\ rd.pc = "client" /\ wr.pc = "client" /\ wr.used = 0
        /\ rd.st = 0 /\ rd.used = 0 /\ next = 0 /\ out = Nothing
    BY DEF Init
  <1>2. CurI(rd) = 0 /\ Distance(0, 0) = 0
    BY <1>1, SizeAssumption DEF CurI, Distance
  <1>3. Bytes(next, wr.used) = <<>>
        /\ Bytes(CurI(rd), Distance(CurI(rd), next)) = <<>>
    BY <1>1, <1>2 DEF Bytes
  <1> QED
    BY <1>1, <1>3 DEF Queue!Init

\* What ByteQueue sees of a step is one of its steps or nothing.
LEMMA StepSeen ==
    ASSUME PipeInv, Ends, [Next]_vars
    PROVE  [Queue!Next]_(Queue!vars)
  <1> DEFINE Hidden == /\ Pending' = Pending /\ Visible' = Visible
                       /\ (wr'.pc # "closed") = (wr.pc # "closed")
                       /\ (rd'.pc # "closed") = (rd.pc # "closed")
                       /\ out' = out
  <1>0. Hidden => UNCHANGED Queue!vars
    BY DEF Queue!vars, Pending, Visible
  <1>1. ASSUME NEW b \in Byte, PutChar(b)
        PROVE  [Queue!Next]_(Queue!vars)
    <2>1. /\ wr.pc = "client" /\ wr'.pc = "client" /\ rd' = rd /\ out' = out
      BY <1>1 DEF PutChar, PipeInv, TypeOK
    <2>2. CASE rd.pc = "closed"
      BY <1>0, <2>1, <2>2 DEF Pending, Visible
    <2>3. CASE rd.pc # "closed"
      <3>1. /\ Len(Pending) + Len(Visible) < Size - 1
            /\ Pending' = Append(Pending, b) /\ Visible' = Visible
        BY <1>1, <2>3, PutCharSeen
      <3>2. Queue!Put(b)
        BY <2>1, <2>3, <3>1 DEF Queue!Put, Pending, Visible
      <3> QED
        BY <3>2 DEF Queue!Next
    <2> QED
      BY <2>2, <2>3
  <1>2. CASE WrFlush
    <2>1. /\ rd.pc # "closed" /\ wr.pc = "flush"
          /\ rd'.pc # "closed" /\ wr'.pc # "closed"
          /\ Visible' = Visible \o Pending /\ Pending' = <<>> /\ out' = out
      BY <1>2, WrFlushSeen DEF WrFlush
    <2>2. Queue!Flush
      BY <2>1 DEF Queue!Flush, Pending, Visible
    <2> QED
      BY <2>2 DEF Queue!Next
  <1>3. CASE GetChar
    <2>1. wr' = wr
      BY <1>3 DEF GetChar
    <2>2. Queue!Get
      BY <1>3, <2>1, GetCharSeen DEF Queue!Get, Pending, Visible
    <2> QED
      BY <2>2 DEF Queue!Next
  <1>4. CASE RdSeek \/ RdAwake
    <2>0. PICK w : \E after \in {"client", "signal"} : RdLoop(CurI(rd), w, after)
      <3>1. CASE RdSeek
        <4>1. PICK w : RdLoop(CurI(rd), w, AfterSeek)
          BY <3>1 DEF RdSeek
        <4>2. AfterSeek \in {"client", "signal"}
          BY DEF AfterSeek
        <4> QED
          BY <4>1, <4>2
      <3>2. CASE RdAwake
        <4>1. rd.st = CurI(rd)
          <5>1. rd.used = 0 /\ rd.st \in Slot
            BY <3>2 DEF RdAwake, PipeInv, TypeOK, Points
          <5> QED
            BY <5>1, SizeAssumption DEF CurI, Slot
        <4> QED
          <5>1. RdLoop(CurI(rd), waiting, "client")
            BY <3>2, <4>1 DEF RdAwake
          <5> QED
            BY <5>1
      <3> QED
        BY <1>4, <3>1, <3>2
    <2>1. PICK after \in {"client", "signal"} : RdLoop(CurI(rd), w, after)
      BY <2>0
    <2>2. /\ rd.pc \in {"seek", "wait"} /\ UNCHANGED <<buf, next, closed, wr>>
      BY <1>4 DEF RdSeek, RdAwake
    <2>3. /\ rd'.pc # "closed"
          /\ Pending' = Pending /\ Visible' = Visible
          /\ \/ out' = out
             \/ out' = WouldBlock /\ Visible = <<>>
             \/ /\ out' = Eof /\ wr.pc = "closed"
                /\ Visible = <<>> /\ Pending = <<>>
      BY <2>1, <2>2, RdLoopSeen
    <2>4. wr' = wr /\ rd.pc # "closed"
      BY <2>2
    <2>5. CASE out' = out
      BY <1>0, <2>3, <2>4, <2>5
    <2>6. CASE out' = WouldBlock /\ Visible = <<>>
      <3>1. Queue!Empty
        BY <2>3, <2>4, <2>6 DEF Queue!Empty, Pending, Visible
      <3> QED
        BY <3>1 DEF Queue!Next
    <2>7. CASE /\ out' = Eof /\ wr.pc = "closed"
               /\ Visible = <<>> /\ Pending = <<>>
      <3>1. Queue!End
        BY <2>3, <2>4, <2>7 DEF Queue!End, Pending, Visible
      <3> QED
        BY <3>1 DEF Queue!Next
    <2> QED
      BY <2>3, <2>5, <2>6, <2>7
  <1>5. CASE WrClose
    <2>1. /\ wr.pc = "close" /\ wr'.pc = "closed" /\ wr'.used = 0 /\ rd' = rd
          /\ buf' = buf /\ next' = next /\ out' = out
      BY <1>5 DEF WrClose, PipeInv, TypeOK
    <2>2. Pending = <<>> /\ Pending' = <<>>
      BY <2>1 DEF Pending, Ends, Bytes
    <2>3. Visible' = Visible
      BY <2>1 DEF Visible, Bytes, CurI, Distance
    <2>4. Queue!CloseWr
      BY <2>1, <2>2, <2>3 DEF Queue!CloseWr, Pending, Visible
    <2> QED
      BY <2>4 DEF Queue!Next
  <1>6. CASE RdClose
    <2>1. /\ rd.pc = "client" /\ rd'.pc = "closed" /\ wr' = wr /\ out' = out
      BY <1>6 DEF RdClose, PipeInv, TypeOK
    <2>2. Queue!CloseRd
      BY <2>1 DEF Queue!CloseRd
    <2> QED
      BY <2>2 DEF Queue!Next
  <1>7. ASSUME \/ FlushFails \/ WrSignal \/ WrSeek \/ WrAlerted
               \/ \E then \in {"client", "seek", "close"} : WrCall(then)
        PROVE  [Queue!Next]_(Queue!vars)
    <2>1. /\ buf' = buf /\ next' = next /\ rd' = rd /\ out' = out
          /\ wr.pc # "closed"
      BY <1>7 DEF FlushFails, WrSignal, WrSeek, WrAlerted, WrCall
    <2>2. wr'.used = wr.used /\ wr'.pc # "closed"
      BY <1>7 DEF FlushFails, WrSignal, WrSeek, WrAlerted, WrCall, PipeInv, TypeOK
    <2>3. Pending' = Pending /\ Visible' = Visible
      BY <2>1, <2>2 DEF Pending, Visible, Bytes, CurI, Distance
    <2> QED
      BY <1>0, <2>1, <2>2, <2>3
  <1>8. ASSUME RdSignal \/ RdAlerted \/ \E block \in BOOLEAN : RdCall(block)
        PROVE  [Queue!Next]_(Queue!vars)
    <2>1. /\ buf' = buf /\ next' = next /\ wr' = wr /\ out' = out
          /\ rd.pc # "closed"
      BY <1>8 DEF RdSignal, RdAlerted, RdCall
    <2>2. rd'.used = rd.used /\ rd'.st = rd.st /\ rd'.pc # "closed"
      BY <1>8 DEF RdSignal, RdAlerted, RdCall, PipeInv, TypeOK
    <2>3. CurI(rd)' = CurI(rd)
      BY <2>2 DEF CurI
    <2>4. Pending' = Pending /\ Visible' = Visible
      BY <2>1, <2>2, <2>3, SameBytes
    <2> QED
      BY <1>0, <2>1, <2>2, <2>4
  <1>9. CASE UNCHANGED vars
    <2>1. Hidden
      BY <1>9 DEF vars, Pending, Visible, Bytes, CurI, Distance
    <2> QED
      BY <1>0, <2>1
  <1> QED
    BY <1>1, <1>2, <1>3, <1>4, <1>5, <1>6, <1>7, <1>8, <1>9
    DEF Next, Client, WrProgress, RdProgress

\* Whatever the size of the ring and the bytes that clients write: every byte
\* is read once and in order, the end is reported after all of them, and a
\* close of the writer loses nothing (RdWrPipe.i3, Rd.i3, Wr.i3).
THEOREM PipeImplementsQueue == Spec => ImplementsQueue
  <1>1. Init => Ends
    BY DEF Init, Ends
  <1>2. Spec => [](PipeInv /\ Ends)
    BY <1>1, InitInv, StepInv, EndsInv, PTL DEF Spec
  <1>3. PipeInv /\ Ends /\ [Next]_vars => [Queue!Next]_(Queue!vars)
    BY StepSeen
  <1> QED
    BY <1>2, <1>3, InitSeen, PTL DEF Spec, ImplementsQueue, Queue!Spec
==============================================================================
