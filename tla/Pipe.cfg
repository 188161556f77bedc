\* Four slots: windows of up to three bytes, split by the end of the buffer in
\* every way.  Two bytes are enough to tell order, loss and duplication.
SPECIFICATION FairSpec
CONSTANTS
  Size = 4
  Byte = {a, b}
  Eof = Eof
  WouldBlock = WouldBlock
  Nothing = Nothing
\* The system stops when both ends are closed.
CHECK_DEADLOCK FALSE
INVARIANTS
  TypeOK
  WindowsApart
  NoLostWakeup
PROPERTIES
  ImplementsQueue
  ReaderGoesOn
  WriterGoesOn
