SPECIFICATION Spec
CONSTANTS
  b1 = b1
  b2 = b2
  b3 = b3
  k1 = k1
  k2 = k2
  k3 = k3
  none = none
  Builder <- MCBuilder
  Key <- MCKey
  Size <- MCSize
  Limits <- MCLimits
  Reaper = FALSE
INVARIANTS
  CurrentBuildHasFile
