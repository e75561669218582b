SPECIFICATION ConsoleFairSpec
CONSTANTS
  Capacity = 1
  Zero = Zero
  Keys <- DesktopKeys
  Modifiers <- NoModifiers
  Places <- AllPlaces
VIEW DesktopView
INVARIANTS ShownIsCurrent HangsOnlyAtWindow
PROPERTIES ActsOnWholeLines RefreshHappens
