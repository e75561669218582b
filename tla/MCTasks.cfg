SPECIFICATION TasksFairSpec
CONSTANTS
  MaxTasks = 4
  Garbage <- SomeGarbage
INVARIANT TasksInv
PROPERTIES NoStarvation LethalFreezes
