SPECIFICATION SystemFairSpec
CONSTANTS
  MaxTasks = 6
  Garbage <- NoGarbage
INVARIANTS OneReader ShellWaits ImageIntact HangsOnlyWhenSpoiled CrashedStayOff
PROPERTIES PromptReturns
