------------------------------ MODULE ByteQueue ------------------------------
(***************************************************************************)
(* What the pair of streams made by RdWrPipe.New promises: "anything       *)
(* written to the writer" reaches the reader, once and in order, with the  *)
(* buffering that the interfaces Rd and Wr allow.  Bytes that were written *)
(* and not flushed are `pending', bytes that were flushed and not read are *)
(* `visible'.  The end of the stream is reported only after the writer is  *)
(* closed and everything it flushed has been read.                         *)
(***************************************************************************)
EXTENDS Naturals, Sequences

CONSTANTS
    Byte,        \* what a CHAR can be
    Capacity,    \* how many bytes fit between the two ends
    Eof,         \* SeekResult.Eof
    WouldBlock,  \* SeekResult.WouldBlock
    Nothing      \* the reader has not been called yet

VARIABLES
    pending,     \* written, not flushed
    visible,     \* flushed, not read
    wrOpen,      \* the writer is not closed
    rdOpen,      \* the reader is not closed
    out          \* the last thing the reader's client was told

vars == <<pending, visible, wrOpen, rdOpen, out>>

Init ==
    /\ pending = <<>> /\ visible = <<>>
    /\ wrOpen = TRUE /\ rdOpen = TRUE
    /\ out = Nothing

\* Wr.PutChar: a byte is written as long as there is room.
Put(b) ==
    /\ wrOpen /\ rdOpen
    /\ Len(pending) + Len(visible) < Capacity
    /\ pending' = Append(pending, b)
    /\ UNCHANGED <<visible, wrOpen, rdOpen, out>>

\* Wr.Flush: everything written becomes visible at once.
Flush ==
    /\ wrOpen /\ rdOpen
    /\ visible' = visible \o pending
    /\ pending' = <<>>
    /\ UNCHANGED <<wrOpen, rdOpen, out>>

\* Rd.GetChar: the oldest visible byte.
Get ==
    /\ rdOpen /\ visible # <<>>
    /\ out' = Head(visible)
    /\ visible' = Tail(visible)
    /\ UNCHANGED <<pending, wrOpen, rdOpen>>

\* Rd.EndOfFile: nothing is left and nothing can come.
End ==
    /\ rdOpen /\ ~wrOpen
    /\ pending = <<>> /\ visible = <<>>
    /\ out' = Eof
    /\ UNCHANGED <<pending, visible, wrOpen, rdOpen>>

\* Rd.CharsReady answers 0: nothing is visible.
Empty ==
    /\ rdOpen /\ visible = <<>>
    /\ out' = WouldBlock
    /\ UNCHANGED <<pending, visible, wrOpen, rdOpen>>

\* Wr.Close loses nothing.
CloseWr ==
    /\ wrOpen /\ pending = <<>>
    /\ wrOpen' = FALSE
    /\ UNCHANGED <<pending, visible, rdOpen, out>>

\* Rd.Close drops whatever was not read, and ends the conversation.
CloseRd ==
    /\ rdOpen
    /\ rdOpen' = FALSE
    /\ pending' = <<>> /\ visible' = <<>>
    /\ UNCHANGED <<wrOpen, out>>

Next ==
    \/ \E b \in Byte : Put(b)
    \/ Flush \/ Get \/ End \/ Empty \/ CloseWr \/ CloseRd

Spec == Init /\ [][Next]_vars
==============================================================================
