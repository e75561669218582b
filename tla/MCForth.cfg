SPECIFICATION ForthSpec
CONSTANTS
  Half = 4
  Interpreters = {task1, task2}
  InitialSize = 1
  Growth = 1
  Blocks = {b1, b2}
  NULL = NULL
  Cells = 5
  Chunk = 3
  Programs <- SomePrograms
  Lines <- SomeLines
  Scraps <- SomeScraps
VIEW Present
SYMMETRY Alike
CHECK_DEADLOCK FALSE
INVARIANTS BlocksHeld OwnProgram
 
