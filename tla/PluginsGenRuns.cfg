SPECIFICATION Spec
CONSTANTS
  a = a  b = b  c = c  d = d
  cmdW = cmdW  cmdB = cmdB  cmdD = cmdD  kindK = kindK
  absent = absent  torn = torn  locked = locked  pinned = pinned
  Plugin = {a, b, c, d}
  Word = {cmdW, cmdB, cmdD, kindK}
  Command = {cmdW, cmdB, cmdD}
  Sorted <- MCSorted
  Branch <- MCBranch
  Tag <- MCTag
  Configs <- MCConfigs
  Overrides <- MCOverrides
  MaxRuns = 2
INVARIANTS
  IndexNamesOwner
  WeldedPinned
  BinaryAsAsked
