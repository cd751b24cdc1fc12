SPECIFICATION BarrierSpec
CONSTANTS
  t1 = t1
  t2 = t2
  t3 = t3
  t4 = t4
  Thread <- MCThread
  Parties = 3
INVARIANTS
  RoundsDoNotMix
  NoMissedBroadcast
PROPERTIES
  PartyReturns
