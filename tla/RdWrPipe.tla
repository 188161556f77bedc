------------------------------ MODULE RdWrPipe -------------------------------
(***************************************************************************)
(* The in-memory pipe of m3-comm/rdwr/src/RdWrPipe.m3: a reader and a      *)
(* writer that share a ring buffer, a mutex and one condition, driven by   *)
(* the class-independent code of Rd and Wr.                                *)
(*                                                                         *)
(* The lock of a stream (LOCK rd, LOCK wr) lets one operation of each end  *)
(* run at a time, so each end is one sequential process.  A section under  *)
(* share.mu is one step; a Signal after the section is another.  Wait and  *)
(* Signal are those of ThreadSpec: a Signal removes at least one thread    *)
(* from the condition if there is one.                                     *)
(*                                                                         *)
(* The code counts cur, lo and hi from the beginning of the stream and     *)
(* uses only their differences (ResetRdCounter subtracts lo from all       *)
(* three): here used = cur - lo and len = hi - lo.                         *)
(***************************************************************************)
EXTENDS Integers, Sequences, FiniteSets

CONSTANTS
    Size,                        \* buff_size
    Byte,                        \* what a CHAR can be
    Eof, WouldBlock, Nothing     \* results other than bytes

\* With one slot the ring would be full and empty at once, with none there is
\* no index.
ASSUME SizeAssumption == Size \in Nat /\ Size >= 2
ASSUME ResultAssumption ==
    /\ Eof \notin Byte /\ WouldBlock \notin Byte /\ Nothing \notin Byte
    /\ Eof # WouldBlock /\ Eof # Nothing /\ WouldBlock # Nothing

VARIABLES
    buf,       \* shared_buff
    first,     \* share.first_i
    next,      \* share.next_i
    closed,    \* share.closed
    waiting,   \* the ends blocked on share.cv
    rd,        \* the reader: st, used, len, and where it is in a procedure
    wr,        \* the writer, likewise
    out        \* what the reader's client was last told

vars == <<buf, first, next, closed, waiting, rd, wr, out>>

Slot == 0 .. Size - 1

\* The slot of the byte at cur: (st + cur - lo) MOD size.
CurI(e) == (e.st + e.used) % Size

IsEmpty == first = next
IsFull == (next + 1) % Size = first

\* What Thread.Signal can leave of a set of waiting threads.
AfterSignal(S) == IF S = {} THEN {{}} ELSE {R \in SUBSET S : R # S}

\* The Signal of RdClose and WrClose, inside the section.
CloseSilently == {waiting}
CloseSignal == IF closed THEN {waiting} ELSE AfterSignal(waiting)

Init ==
    /\ buf \in [Slot -> Byte]
    /\ first = 0 /\ next = 0 /\ closed = FALSE
    /\ waiting = {}
    /\ rd = [st |-> 0, used |-> 0, len |-> 0, pc |-> "client", block |-> TRUE]
    /\ wr = [st |-> 0, used |-> 0, len |-> Size - 1, pc |-> "client",
             then |-> "client"]
    /\ out = Nothing

------------------------------------------------------------------------------
(* The writer *)

\* Wr.PutChar while the window has room.
PutChar(b) ==
    /\ wr.pc = "client" /\ wr.used < wr.len
    /\ buf' = [buf EXCEPT ![wr.st + wr.used] = b]
    /\ wr' = [wr EXCEPT !.used = @ + 1]
    /\ UNCHANGED <<first, next, closed, waiting, rd, out>>

WrCallCloseFirst(then) ==
    /\ wr.pc = "client"
    /\ then = "seek" => wr.used = wr.len
    /\ wr' = [wr EXCEPT !.pc = IF then = "close" THEN "close" ELSE "flush",
                        !.then = then]
    /\ UNCHANGED <<buf, first, next, closed, waiting, rd, out>>

\* The client calls Flush, Close, or PutChar with a used-up window.  All three
\* begin with WrFlush and go on to `then'.
WrCall(then) ==
    /\ wr.pc = "client"
    /\ then = "seek" => wr.used = wr.len
    /\ wr' = [wr EXCEPT !.pc = "flush", !.then = then]
    /\ UNCHANGED <<buf, first, next, closed, waiting, rd, out>>

\* WrFlush when the other end has closed: Wr.Failure, after which only Close
\* goes on.
FlushFails ==
    /\ wr.pc = "flush" /\ closed
    /\ wr' = [wr EXCEPT !.pc = IF wr.then = "close" THEN "close" ELSE "client"]
    /\ UNCHANGED <<buf, first, next, closed, waiting, rd, out>>

\* WrFlush remembers to signal if the ring was empty before: a reader may be
\* blocked.
AfterFlushLate == IF first = CurI(wr) THEN "signal" ELSE wr.then
AfterFlush == IF IsEmpty THEN "signal" ELSE wr.then

\* WrFlush: publish what was written.
WrFlush ==
    /\ wr.pc = "flush" /\ ~closed
    /\ IF wr.used > 0
       THEN /\ next' = CurI(wr)
            /\ wr' = [wr EXCEPT !.st = CurI(wr), !.used = 0,
                                !.len = @ - wr.used,
                                !.pc = AfterFlush]
       ELSE /\ wr' = [wr EXCEPT !.pc = wr.then]
            /\ UNCHANGED next
    /\ UNCHANGED <<buf, first, closed, waiting, rd, out>>

\* The Signal of WrFlush, after the section.
WrSignal ==
    /\ wr.pc = "signal"
    /\ waiting' \in AfterSignal(waiting)
    /\ wr' = [wr EXCEPT !.pc = wr.then]
    /\ UNCHANGED <<buf, first, next, closed, rd, out>>

RoomPastEnd == IF first <= next THEN Size - 1 - next + first
                                ELSE first - 1 - next
RoomNoGap == IF first <= next THEN Size - CurI(wr) ELSE first - 1 - CurI(wr)

\* The slots from wr.st that the writer may fill without wrapping.
Room ==
    IF first <= next
    THEN IF first > 0 THEN Size - CurI(wr) ELSE Size - CurI(wr) - 1
    ELSE first - 1 - CurI(wr)

\* WrSeek after the flush, and again after each AlertWait that returns.
WrSeek ==
    /\ \/ wr.pc = "seek"
       \/ wr.pc = "wait" /\ "wr" \notin waiting
    /\ IF IsFull
       THEN /\ waiting' = waiting \cup {"wr"}
            /\ wr' = [wr EXCEPT !.pc = "wait"]
       ELSE /\ wr' = [wr EXCEPT !.len = @ + Room, !.pc = "client"]
            /\ UNCHANGED waiting
    /\ UNCHANGED <<buf, first, next, closed, rd, out>>

\* AlertWait raises Alerted, out of PutChar.
WrAlerted ==
    /\ wr.pc = "wait"
    /\ waiting' = waiting \ {"wr"}
    /\ wr' = [wr EXCEPT !.pc = "client"]
    /\ UNCHANGED <<buf, first, next, closed, rd, out>>

\* WrClose, and the rest of Wr.FastClose.
WrClose ==
    /\ wr.pc = "close"
    /\ waiting' \in CloseSignal
    /\ closed' = TRUE
    /\ wr' = [wr EXCEPT !.used = 0, !.len = 0, !.pc = "closed"]
    /\ UNCHANGED <<buf, first, next, rd, out>>

------------------------------------------------------------------------------
(* The reader *)

\* Rd.GetChar while the window holds bytes.
GetChar ==
    /\ rd.pc = "client" /\ rd.used < rd.len
    /\ out' = buf[rd.st + rd.used]
    /\ rd' = [rd EXCEPT !.used = @ + 1]
    /\ UNCHANGED <<buf, first, next, closed, waiting, wr>>

\* The window is used up: GetChar and EOF call RdSeek and may block, CharsReady
\* calls it and may not.
RdCall(block) ==
    /\ rd.pc = "client" /\ rd.used = rd.len
    /\ rd' = [rd EXCEPT !.pc = "seek", !.block = block]
    /\ UNCHANGED <<buf, first, next, closed, waiting, wr, out>>

\* The loop of RdSeek and what follows it, with the reader's window empty at
\* slot cur, `w' the waiting set at that point, `after' where a successful
\* RdSeek goes on.
RdLoop(cur, w, after) ==
    LET At(pc, len) ==
            rd' = [rd EXCEPT !.st = cur, !.used = 0, !.len = len, !.pc = pc]
    IN  IF cur = next
        THEN \/ /\ ~rd.block
                /\ out' = WouldBlock
                /\ At("client", 0) /\ waiting' = w
             \/ /\ rd.block /\ closed
                /\ out' = Eof
                /\ At("client", 0) /\ waiting' = w
             \/ /\ rd.block /\ ~closed
                /\ At("wait", 0) /\ waiting' = w \cup {"rd"}
                /\ UNCHANGED out
        ELSE /\ At(after, IF cur <= next THEN next - cur ELSE Size - cur)
             /\ waiting' = w
             /\ UNCHANGED out

\* RdSeek remembers to signal if the ring was full before: a writer may be
\* blocked.
AfterSeekForgotten == "client"
AfterSeek == IF IsFull THEN "signal" ELSE "client"

\* RdSeek up to its first wait or its return: give back what was read.  A
\* blocked writer is signalled here when the reader is about to wait itself,
\* else after the section.
RdSeek ==
    /\ rd.pc = "seek"
    /\ first' = CurI(rd)
    /\ \E w \in IF IsFull /\ CurI(rd) = next THEN AfterSignal(waiting)
                                             ELSE {waiting} :
          RdLoop(CurI(rd), w, AfterSeek)
    /\ UNCHANGED <<buf, next, closed, wr>>

\* The same loop after an AlertWait that returns.
RdAwake ==
    /\ rd.pc = "wait" /\ "rd" \notin waiting
    /\ RdLoop(rd.st, waiting, "client")
    /\ UNCHANGED <<buf, first, next, closed, wr>>

\* The Signal of RdSeek, after the section.
RdSignal ==
    /\ rd.pc = "signal"
    /\ waiting' \in AfterSignal(waiting)
    /\ rd' = [rd EXCEPT !.pc = "client"]
    /\ UNCHANGED <<buf, first, next, closed, wr, out>>

\* AlertWait raises Alerted, out of GetChar or EOF.
RdAlerted ==
    /\ rd.pc = "wait"
    /\ waiting' = waiting \ {"rd"}
    /\ rd' = [rd EXCEPT !.pc = "client"]
    /\ UNCHANGED <<buf, first, next, closed, wr, out>>

\* RdClose, and the rest of Rd.FastClose.
RdClose ==
    /\ rd.pc = "client"
    /\ waiting' \in CloseSignal
    /\ closed' = TRUE
    /\ rd' = [rd EXCEPT !.used = 0, !.len = 0, !.pc = "closed"]
    /\ UNCHANGED <<buf, first, next, wr, out>>

------------------------------------------------------------------------------

\* What clients and Thread.Alert may do, at any time or never.
Client ==
    \/ \E b \in Byte : PutChar(b)
    \/ \E then \in {"client", "seek", "close"} : WrCall(then)
    \/ \E block \in BOOLEAN : RdCall(block)
    \/ GetChar \/ RdClose
    \/ WrAlerted \/ RdAlerted

\* The rest of a procedure that the writer, or the reader, has entered.
WrProgress == FlushFails \/ WrFlush \/ WrSignal \/ WrSeek \/ WrClose
RdProgress == RdSeek \/ RdAwake \/ RdSignal

Next == Client \/ WrProgress \/ RdProgress

Spec == Init /\ [][Next]_vars

\* A thread that can run is scheduled, and nobody keeps share.mu.
FairSpec == Spec /\ WF_vars(WrProgress) /\ WF_vars(RdProgress)
------------------------------------------------------------------------------
(* Safety *)

\* The slots between first_i and next_i hold the data.
Distance(from, to) == (to - from) % Size
Occupied == {s \in Slot : Distance(first, s) < Distance(first, next)}

\* The types, and that a window lies inside the buffer: Rd and Wr index buff
\* with st + cur - lo and never wrap.
TypeOK ==
    /\ buf \in [Slot -> Byte]
    /\ first \in Slot /\ next \in Slot
    /\ closed \in BOOLEAN
    /\ waiting \subseteq {"rd", "wr"}
    /\ rd \in [st : Slot, used : 0 .. Size, len : 0 .. Size, block : BOOLEAN,
               pc : {"client", "seek", "wait", "signal", "closed"}]
    /\ wr \in [st : Slot, used : 0 .. Size, len : 0 .. Size,
               pc : {"client", "flush", "signal", "seek", "wait", "close",
                     "closed"},
               then : {"client", "seek", "close"}]
    /\ out \in Byte \cup {Eof, WouldBlock, Nothing}
    /\ rd.used <= rd.len /\ rd.st + rd.len <= Size
    /\ wr.used <= wr.len /\ wr.st + wr.len <= Size

\* The comment at RdWrPipe.m3 55-65 and the assertions of RdSeek and WrSeek:
\* the reader's window begins at first_i and covers published bytes only, the
\* writer's begins at next_i and covers free slots only, and one slot always
\* stays free, so that a full ring does not look empty.
WindowsApart ==
    /\ rd.pc # "closed" =>
          /\ rd.st = first
          /\ \A k \in 0 .. rd.len - 1 : rd.st + k \in Occupied
    /\ wr.pc # "closed" =>
          /\ wr.st = next
          /\ \A k \in 0 .. wr.len - 1 : wr.st + k \notin Occupied
          /\ wr.len > 0 => (wr.st + wr.len) % Size # first

\* The end blocked on the shared condition has a reason, or the signal that
\* ends its wait is about to be sent: no wakeup is lost between a section and
\* the Signal after it, and the ends never wait for each other.  (A writer
\* need not be woken by the reader's close: see WriterLearns.)
NoLostWakeup ==
    /\ "rd" \in waiting =>
          /\ rd.pc = "wait" /\ ~closed
          /\ IsEmpty \/ wr.pc = "signal"
    /\ "wr" \in waiting =>
          /\ wr.pc = "wait"
          /\ IsFull \/ rd.pc = "signal"
    /\ Cardinality(waiting) <= 1

------------------------------------------------------------------------------
(* Refinement: what the streams promise is ByteQueue *)

\* The bytes in n slots from slot s on.
Bytes(s, n) == [k \in 1 .. n |-> buf[(s + k - 1) % Size]]

Queue == INSTANCE ByteQueue WITH
    Capacity <- Size - 1,
    pending <- IF rd.pc = "closed" THEN <<>> ELSE Bytes(next, wr.used),
    visible <- IF rd.pc = "closed" THEN <<>>
               ELSE Bytes(CurI(rd), Distance(CurI(rd), next)),
    wrOpen <- wr.pc # "closed",
    rdOpen <- rd.pc # "closed"

\* Every byte written is read once and in order, the end is reported after the
\* last byte and never before it, and closing the writer loses nothing,
\* although the ends run concurrently and may be alerted.
ImplementsQueue == Queue!Spec

------------------------------------------------------------------------------
(* Liveness *)

\* A blocked reader goes on when there are bytes or the writer closes.
ReaderGoesOn ==
    (rd.pc = "wait" /\ (~IsEmpty \/ closed)) ~> (rd.pc # "wait")

\* A blocked writer goes on when there is room.
WriterGoesOn == (wr.pc = "wait" /\ ~IsFull) ~> (wr.pc # "wait")

\* RdClose sends its signal "in case the writer is blocked" (RdWrPipe.m3 250):
\* a writer that waits when the reader closes does not wait for ever.
WriterLearns == (wr.pc = "wait" /\ rd.pc = "closed") ~> (wr.pc # "wait")
==============================================================================
