SPECIFICATION FairTurnsSpec
CONSTANTS
  u1 = u1
  u2 = u2
  u3 = u3
  b1 = b1
  r1 = r1
  r2 = r2
  r3 = r3
  Calls = {u1, u2, u3, b1}
  Rooms = {r1, r2, r3}
  RoomOf <- MCRoomOf
  PriorityOf <- MCPriorityOf
  Capacities = {0, 2}
  InitialCapacity = 2
  History = 2
INVARIANTS
  NoSleepingWinner
PROPERTIES
  PoolSpec
  OneTurnEach
  PersonServed
  BackgroundServed
