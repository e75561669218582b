----------------------------- MODULE MCConsole -----------------------------
EXTENDS ConsoleProps, Functions

(* For the modifiers: the end of a line, which is a key like any other to  *)
(* them, and the mouse for the way to the desktop.                         *)
TypingKeys == {"enter"}
Tabs == {"explorer"}

BothModifiers == {"shift", "ctrl"}

(* They have nothing in common but the ring: one is used at a time.        *)
InUse ==
  LET codes == Range(queue) \union {fetched[r] : r \in Readers}
  IN  held \union dropped
        \union UNION {{c.key} \union c.held \union c.lacks : c \in codes \ {Zero}}
        \union {u[2] : u \in unheeded}
        \union (IF ctrl_pressed THEN {"ctrl"} ELSE {})
        \union (IF asof \/ \E r \in Readers : shift_pressed[r] THEN {"shift"} ELSE {})

(* What is drawn and which lines were ended does not matter to them.       *)
TypingView ==
  <<queue, ui, keys, struck, keyboard_lock, bin_running, doing, step, fetched, asof>>

OneAtATime == ~(BothModifiers \subseteq InUse)

(* For the modes: the tabs and the menu are left to the mouse.             *)
DesktopKeys == {"enter", "f2", "esc"}

(* What was drawn before does not matter once a redraw is due or under     *)
(* way: only Draw brings shown and ncount = 0 together again.              *)
DesktopView ==
  <<queue, ui, ctrl_pressed, shift_pressed, unheeded, struck, keyboard_lock,
    bin_running, doing, step, fetched, asof, whole,
    IF ui.ncount = 0 /\ doing["shell"] # "draw" THEN <<shown>> ELSE <<>>>>

NoModifiers == {}

AllPlaces ==
  {"title", "explorer", "explorer_x", "terminal", "terminal_x", "files", "system",
   "bottom", "menu_terminal", "calcos_menu_terminal", "menu_terminal_explorer",
   "menu_explorer", "menu_x", "calcos"}

=============================================================================
