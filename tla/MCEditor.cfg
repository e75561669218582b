SPECIFICATION EditorSpec
CONSTANTS
  Size = 3
  Zero = Zero
  Pieces <- SomePieces
  Codes <- SomeCodes
  TextEnd = 3
  LineEnd = 2
  AsmEnd = 3
CONSTRAINT Going
VIEW Present
INVARIANTS TypedText AssembledByLines
PROPERTIES ImplementsQueue
