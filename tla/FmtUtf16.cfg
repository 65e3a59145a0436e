SPECIFICATION TextSpec
CONSTANTS
  Descriptors = {3, 4, 5, 6}
  Files = {f, g}
  Streams = {s}
  NoFd = none
  MaxErrors = 2
  Names = {a, b}
  NoName = noname
  MaxPacked = 2
  MaxArgs = 4
  ArraySize = 2
  AllocMax = 5
  Limits = {0, 1, 3}
  MaxText = 6
  MaxPiece = 3
CHECK_DEADLOCK FALSE
INVARIANT Utf16ReadsBack
