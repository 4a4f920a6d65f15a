\* Every input of up to four bytes, every split of it into reads, and a
\* close at any point.
CONSTANTS
  CR = CR
  LF = LF
  Chars <- MCChars
  MaxLineLen = 4
SPECIFICATION Spec
INVARIANT LineSoFar
\* the reading is one-shot: it stops at NGX_OK or NGX_ERROR
CHECK_DEADLOCK FALSE
