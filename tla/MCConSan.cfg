SPECIFICATION Spec
CONSTANTS
  d = d
  w = w
  b1 = b1
  b2 = b2
  m1 = m1
  m2 = m2
  Parts <- MCParts
  Default = d
  Buffers <- MCBuffers
  Overlaps <- MCOverlaps
  Barriers <- MCBarriers
  Menus <- MCMenus
  Prologue <- MCPrologue
  Budget <- MCBudget
  AfterJoin = 0
  CountBits = 8
INVARIANTS
  AlarmIsRace
  
  
  DeadlockExact
