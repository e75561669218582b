---------------------------- MODULE ConsoleProps ----------------------------
(***************************************************************************)
(* What the console keeps between the keys, the mouse, the shell and a     *)
(* program.                                                                *)
(***************************************************************************)
EXTENDS Console

Pending(m) == \E r \in Readers : IsModifier(fetched[r]) /\ fetched[r].key = m

Pressed(r, m) == IF m = "ctrl" THEN ctrl_pressed ELSE shift_pressed[r]

(* A key means what was held when it was struck, however long it waited in *)
(* the ring: Ctrl and C interrupts for a C struck with Ctrl down and for   *)
(* no other, and letters come in the case they were typed in.  It fails    *)
(* only for a modifier whose last code was dropped by a full ring, or went *)
(* to somebody else than the reader: the desktop, SYS_READ, touch, cube,   *)
(* another line, or a line that was cut; that was down before the line     *)
(* began; or of which another reader got a code meanwhile (keyboard.c 138, *)
(* 143-170, multiline.c 44-52, manual_x86.c 30, 159).                      *)
StruckAsMeant ==
  \A r \in Readers :
    LET c == fetched[r]
    IN  Handling(r) /\ IsPlain(c) /\ ui.ncount = 0 =>
          \A m \in (IF Reading(r) THEN Modifiers ELSE Modifiers \ {"shift"}) \ c.lacks :
            <<r, m>> \notin unheeded /\ ~Pending(m) => Pressed(r, m) = (m \in c.held)

(* What the shell's loop acts upon was ended by Enter: a command, and both *)
(* lines of a new file, for which its window is still on the screen.  A    *)
(* line of the loop that is cut, by a click, by a key that changes the     *)
(* mode, also when it is a program that gets the key, or by a full screen, *)
(* is not carried out (kernel.c 84, 157-177).  casm and su, which read a   *)
(* line of their own, do not look, and carry out what there is of it       *)
(* (manual_x86.c 40-42, manual.c 109-112).                                 *)
ActsOnWholeLines ==
  [][/\ doing["shell"] = "command" /\ doing'["shell"] \notin {"command", "refresh"} =>
          "line" \in whole
     /\ doing["shell"] = "filed" /\ doing'["shell"] = "top" =>
          /\ {"name", "content"} \subseteq whole
          /\ shown.window = 1 /\ ui.mode = 2]_consoleVars

(* The screen shows the mode, the tabs and the windows there are, unless a *)
(* redraw is due (ncount) or under way: no key, click or program changes   *)
(* them behind the picture's back.                                         *)
ShownIsCurrent ==
  ui.ncount = 0 /\ doing["shell"] # "draw" => shown = Picture(ui)

(* Whoever had it faulted while it read, and nobody gives it back.         *)
LockIsLost == keyboard_lock = 1 /\ \A r \in Readers : ~Reading(r)

(* The machine hangs on keyboard_lock only when a program asks for a line  *)
(* while the shell reads one in the file window: in text mode the shell,   *)
(* and what it starts, does not read beside a program.  There are two      *)
(* exceptions: an interpreter's SYS_EXIT cleared bin_running beside the    *)
(* program, or the lock went with one that faulted (kernel.c 70-73,        *)
(* 157-161, syscalls.c 27-28).                                             *)
HangsOnlyAtWindow ==
  Wedged /\ bin_running = 1 /\ ~LockIsLost => doing["shell"] \in {"name", "content"}

(* The shell is where it does not look at ncount.                          *)
Occupied ==
  \/ doing["shell"] \in {"edit", "cube"}
  \/ doing["shell"] = "prompt" /\ bin_running = 1
  \/ doing["shell"] \in {"prompt", "window", "named", "asking"} /\ keyboard_lock = 1

(* A redraw that is due takes place, unless the machine hangs, or again    *)
(* and again finds the shell in touch or in cube, which Escape ends, in    *)
(* text mode beside a program, or waiting for the lock, which a program    *)
(* that reads line after line may take each time before it, and one that   *)
(* faults keeps (kernel.c 70-73, multiline.c 27-141, manual_x86.c 158-180, *)
(* mutex.c 4-6).                                                           *)
RefreshHappens == ui.ncount = 1 ~> ui.ncount = 0 \/ Wedged \/ Occupied

=============================================================================
