CONSTANTS
  Builds = {v7, v8, temp}
  Home = v8
  Temp = temp
  NoBuild = NoBuild
  Operators = {o1, o2}
  Verify = verify
  Sessions = {s1}
  First = first
  Second = second
  Low = {s1, first}
SPECIFICATION Spec
INVARIANTS OwnSessionsServed PassIsProof
PROPERTIES AckedPromotion PinningPasses
