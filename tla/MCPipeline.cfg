SPECIFICATION Spec
CONSTANT Loops <- MCLoops
INVARIANTS
  RunsLikeTheLoop
  LeavesWhatTheLoopLeaves
