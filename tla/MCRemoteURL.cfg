SPECIFICATION UrlSpec
CONSTANTS
  Radix = 5
  MaxMajor = 3
  Servers = {planet, mirror}
INVARIANT UrlTypeOK
INVARIANT CopyIsSame
PROPERTY IncrementIsNextFile
PROPERTY DecrementUndoesIncrement
