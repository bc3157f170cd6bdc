SPECIFICATION FairSpec
CONSTANTS
  a = a  b = b  c = c  d = d
  Sessions <- FourSessions
  MaxSessions = 3
  QueueCapacity = 2
INVARIANTS TypeOK RotationComplete BypassBounded
PROPERTIES StopIsFinal WorkIsServed
