\* The smallest ring in which a writer can block while the reader closes.
SPECIFICATION FairSpec
CONSTANTS
  Size = 2
  Byte = {a}
  Eof = Eof
  WouldBlock = WouldBlock
  Nothing = Nothing
\* The system stops when both ends are closed.
CHECK_DEADLOCK FALSE
PROPERTIES
  WriterLearns
