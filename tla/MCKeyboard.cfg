SPECIFICATION ConsoleSpec
CONSTANTS
  Capacity = 2
  Zero = Zero
  Keys <- TypingKeys
  Modifiers <- BothModifiers
  Places <- Tabs
CONSTRAINT OneAtATime
VIEW TypingView
INVARIANTS StruckAsMeant
