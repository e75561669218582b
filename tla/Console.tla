------------------------------ MODULE Console ------------------------------
(***************************************************************************)
(* The shell's loop over the desktop's modes (kernel.c system), the lines  *)
(* it and a program read from the keyboard (keyboard.c input_wait_string), *)
(* the keys and clicks that change the mode while they do (keyboard_x86.c  *)
(* handle_hotkeys, mouse.c check_ui_clicks), and the picture that is drawn *)
(* of it (desktop.c graphics).                                             *)
(*                                                                         *)
(* The shell and a program run as the timer lets them, so their steps may  *)
(* interleave: they share the ring of scan codes, keyboard_lock, ncount,   *)
(* bin_running and the mode.  Some commands read from the same ring: casm  *)
(* and su a line, touch a text, cube keys; so may a program.  A line is as *)
(* good as its end: what it says is left out.  The ring is the queue that  *)
(* KeyBuffer implements.  Programs that start programs are in System.      *)
(***************************************************************************)
EXTENDS Integers, Sequences, FiniteSets

CONSTANTS
  Capacity,  (* how many codes may wait: KBD_BUFFER_SIZE - 1               *)
  Zero,      (* no code                                                    *)
  Keys,      (* the keys struck, besides the modifiers                     *)
  Modifiers, (* "shift", "ctrl"                                            *)
  Places     (* the places clicked on                                      *)

Readers == {"shell", "program"}
Lines == {"line", "name", "content", "own"}   (* "own": of casm and su     *)

VARIABLES
  queue,         (* the codes that wait                                    *)
  ui,            (* the globals of screen.c: mode, windows, buttons, ncount *)
  ctrl_pressed,  (* the global                                             *)
  shift_pressed, (* input_wait_string's local, for each reader             *)
  keyboard_lock,
  bin_running,
  doing,         (* where each reader is, or which line it reads           *)
  step,          (* how far it is in an iteration of its loop              *)
  fetched,       (* the code it got                                        *)
  held,          (* history: the modifiers that are down                   *)
  dropped,       (* history: those whose last code met a full ring         *)
  asof,          (* history: Shift was down at the last code taken         *)
  unheeded,      (* history: <<r, m>> when r misses the last code of m     *)
  whole,         (* history: the lines Enter ended, until they are used    *)
  shown          (* history: what was drawn last                           *)

keys == <<ctrl_pressed, shift_pressed, unheeded>>
struck == <<held, dropped>>
consoleVars == <<queue, ui, keys, struck, keyboard_lock, bin_running, doing, step,
                 fetched, asof, whole, shown>>

-----------------------------------------------------------------------------
(* A code, with what was down when it was struck and, for a key that is no *)
(* modifier, the modifiers whose codes were dropped by the ring before it, *)
(* or taken by the other reader since it was taken.                        *)
Codes ==
  [key : Keys \union Modifiers, make : BOOLEAN, held : SUBSET Modifiers,
   lacks : SUBSET Modifiers]

ASSUME ConsoleAssumption ==
  /\ Modifiers \subseteq {"shift", "ctrl"} /\ Keys \cap Modifiers = {}
  /\ Capacity \in Nat \ {0} /\ Zero \notin Codes

Code(key, make, down, missed) ==
  [key |-> key, make |-> make, held |-> down,
   lacks |-> IF key \in Modifiers THEN {} ELSE missed]

Ring(r) == INSTANCE KeyQueue WITH taken <- fetched[r]

IsModifier(c) == c # Zero /\ c.key \in Modifiers
IsPlain(c) == c # Zero /\ c.key \notin Modifiers

UI == [mode : {-1, 0, 1, 2, 3}, ncount : {0, 1},
       show_crt_window : {0, 1}, is_window_crt : {0, 1},
       is_button_files : {0, 1}, is_button_apps : {0, 1}, is_button_calc : {0, 1},
       draw_0 : {0, 1}, draw_1 : {0, 1}]

(* What there is to see of the mode, the windows and the buttons.          *)
Picture(u) ==
  [mode |-> u.mode, tabs |-> <<u.draw_0, u.draw_1>>, menu |-> u.is_button_calc,
   choice |-> IF u.mode = 1 THEN u.is_button_files ELSE 0,
   window |-> IF u.mode = 2 THEN u.show_crt_window ELSE 0]

ConsoleInit ==
  /\ queue = <<>>
  /\ ui = [mode |-> 0, ncount |-> 0, show_crt_window |-> 0, is_window_crt |-> 0,
           is_button_files |-> 1, is_button_apps |-> 0, is_button_calc |-> 0,
           draw_0 |-> 1, draw_1 |-> 1]
  /\ ctrl_pressed = FALSE
  /\ shift_pressed = [r \in Readers |-> FALSE]
  /\ keyboard_lock = 0
  /\ bin_running = 0
  /\ doing = [shell |-> "refresh", program |-> "none"]
  /\ step = [r \in Readers |-> "update"]
  /\ fetched = [r \in Readers |-> Zero]
  /\ held = {} /\ dropped = {} /\ asof = FALSE /\ unheeded = {}
  /\ whole = {}
  /\ shown = Picture(ui)

(* A program that waits for the lock with interrupts off stops everything. *)
Wedged == doing["program"] = "stuck"

-----------------------------------------------------------------------------
(* The keyboard.                                                           *)

Strike(key, make) ==
  /\ ~Wedged
  /\ UNCHANGED <<ui, keys, keyboard_lock, bin_running, doing, step, fetched, asof, whole,
                 shown>>
  /\ LET down == IF key \notin Modifiers THEN held
                 ELSE IF make THEN held \union {key} ELSE held \ {key}
         missed == IF key \notin Modifiers THEN dropped
                   ELSE IF Ring("shell")!Full THEN dropped \union {key} ELSE dropped \ {key}
     IN  /\ Ring("shell")!Put(Code(key, make, down, missed))
         /\ held' = down
         /\ dropped' = missed

(* A modifier repeats while it is down.  The break codes of other keys are *)
(* left out: who takes one ignores it.                                     *)
Types ==
  \/ \E key \in Keys : Strike(key, TRUE)
  \/ \E key \in Modifiers : Strike(key, TRUE)
  \/ \E key \in held : Strike(key, FALSE)

-----------------------------------------------------------------------------
(* handle_hotkeys.  A signal for Ctrl and C does not change the console.   *)

Hot(key, u) ==
  CASE key = "left" /\ u.mode # 0 ->
         [u EXCEPT !.mode = 0, !.is_window_crt = 0, !.show_crt_window = 0, !.ncount = 1]
    [] key = "right" /\ u.mode = 0 -> [u EXCEPT !.mode = 1, !.ncount = 1]
    [] key = "f2" /\ u.mode = 1 ->
         [u EXCEPT !.show_crt_window = 1, !.is_window_crt = 0, !.ncount = 1]
    [] key = "enter" /\ u.mode = 1 /\ u.is_button_files = 1 ->
         [u EXCEPT !.mode = 2, !.ncount = 1]
    [] key = "enter" /\ u.mode = 1 /\ u.is_button_files = 0 /\ u.is_button_apps = 1 ->
         [u EXCEPT !.mode = 3, !.ncount = 1]
    [] key = "down" /\ u.mode = 1 /\ u.is_button_files = 1 ->
         [u EXCEPT !.is_button_apps = 1, !.is_button_files = 0, !.ncount = 1]
    [] key = "up" /\ u.mode = 1 /\ u.is_button_apps = 1 ->
         [u EXCEPT !.is_button_apps = 0, !.is_button_files = 1, !.ncount = 1]
    [] key = "super" -> [u EXCEPT !.is_button_calc = 1, !.ncount = 1]
    [] OTHER -> u

Hotkeys(c, u) == IF IsPlain(c) THEN Hot(c.key, u) ELSE u

(* check_ui_clicks, from top to bottom.  A place is what the pointer is    *)
(* over: the tabs with and without their x, the buttons, the title of the  *)
(* file window, and the menu, two of whose rows of pixels belong to two    *)
(* buttons each.                                                           *)
Dragged(at, u) ==
  IF at = "title" /\ u.mode = 2 /\ u.is_window_crt = 1
  THEN [u EXCEPT !.ncount = 1] ELSE u

Tabbed(at, u) ==
  CASE at \in {"explorer", "explorer_x"} /\ u.mode # 1 -> [u EXCEPT !.mode = 1, !.ncount = 1]
    [] at \in {"terminal", "terminal_x"} /\ u.mode # 0 -> [u EXCEPT !.mode = 0, !.ncount = 1]
    [] OTHER -> u

Chosen(at, u) ==
  CASE at = "files" /\ u.mode = 1 -> [u EXCEPT !.mode = 2, !.ncount = 1]
    [] at = "system" /\ u.mode = 1 -> [u EXCEPT !.mode = 3, !.ncount = 1]
    [] at = "bottom" /\ u.mode = 2 -> [u EXCEPT !.show_crt_window = 1, !.ncount = 1]
    [] OTHER -> u

(* Mutated: closing the menu asks for no redraw.                           *)
FromMenuQuiet(at, u) ==
  IF u.is_button_calc = 0 THEN u
  ELSE CASE at \in {"menu_terminal", "calcos_menu_terminal"} ->
              [u EXCEPT !.mode = 0, !.draw_0 = 1, !.is_button_calc = 0, !.ncount = 1]
         [] at = "menu_terminal_explorer" ->
              [u EXCEPT !.mode = 1, !.draw_0 = 1, !.draw_1 = 1, !.is_button_calc = 0,
                        !.ncount = 1]
         [] at = "menu_explorer" ->
              [u EXCEPT !.mode = 1, !.draw_1 = 1, !.is_button_calc = 0, !.ncount = 1]
         [] at = "menu_x" -> [u EXCEPT !.is_button_calc = 0]
         [] OTHER -> u

FromMenu(at, u) ==
  IF u.is_button_calc = 0 THEN u
  ELSE CASE at \in {"menu_terminal", "calcos_menu_terminal"} ->
              [u EXCEPT !.mode = 0, !.draw_0 = 1, !.is_button_calc = 0, !.ncount = 1]
         [] at = "menu_terminal_explorer" ->
              [u EXCEPT !.mode = 1, !.draw_0 = 1, !.draw_1 = 1, !.is_button_calc = 0,
                        !.ncount = 1]
         [] at = "menu_explorer" ->
              [u EXCEPT !.mode = 1, !.draw_1 = 1, !.is_button_calc = 0, !.ncount = 1]
         [] at = "menu_x" -> [u EXCEPT !.is_button_calc = 0, !.ncount = 1]
         [] OTHER -> u

InCorner(at, u) ==
  CASE at \in {"calcos", "calcos_menu_terminal"} ->
         [u EXCEPT !.is_button_calc = 1, !.ncount = 1]
    [] at = "terminal_x" -> [u EXCEPT !.draw_0 = 0, !.is_button_calc = 0, !.ncount = 1]
    [] at = "explorer_x" -> [u EXCEPT !.draw_1 = 0, !.is_button_calc = 0, !.ncount = 1]
    [] OTHER -> u

Clicked(at, u) == InCorner(at, FromMenu(at, Chosen(at, Tabbed(at, Dragged(at, u)))))

(* Wherever the pointer is when it is looked at, if the button is down.    *)
Click(u) == {u} \union {Clicked(at, u) : at \in Places}

-----------------------------------------------------------------------------
(* graphics: a mode whose tab is closed gives way to the other one, or to  *)
(* the bare desktop, without being drawn.                                  *)

Closed(u) == (u.mode = 0 /\ u.draw_0 = 0) \/ (u.mode = 1 /\ u.draw_1 = 0)

Drawn(u) ==
  CASE Closed(u) ->
         [u EXCEPT !.ncount = 1,
                   !.mode = IF u.draw_0 = 0 /\ u.draw_1 = 0 THEN -1 ELSE 1 - u.mode]
    [] u.mode = 2 /\ u.show_crt_window = 1 -> [u EXCEPT !.is_window_crt = 1]
    [] OTHER -> u

Go(r, where) == doing' = [doing EXCEPT ![r] = where]

(* Mutated: the request is not taken back.                                 *)
RefreshKeeping ==
  /\ doing["shell"] = "refresh"
  /\ Go("shell", "draw")
  /\ whole' = {}
  /\ UNCHANGED <<queue, ui, keys, struck, keyboard_lock, bin_running, step,
                 fetched, asof, shown>>

Refresh ==
  /\ doing["shell"] = "refresh"
  /\ ui' = [ui EXCEPT !.ncount = 0]
  /\ whole' = {}
  /\ Go("shell", "draw")
  /\ UNCHANGED <<queue, keys, struck, keyboard_lock, bin_running, step, fetched, asof,
                 shown>>

Draw ==
  /\ doing["shell"] = "draw"
  /\ ui' = Drawn(ui)
  /\ shown' = IF Closed(ui) THEN shown ELSE Picture(ui)
  /\ Go("shell", "top")
  /\ UNCHANGED <<queue, keys, struck, keyboard_lock, bin_running, step, fetched, asof,
                 whole>>

(* The head of the loop: update_system between two looks at ncount.        *)
Top ==
  /\ doing["shell"] = "top"
  /\ ui' \in IF ui.ncount = 1 THEN {ui} ELSE Click(ui)
  /\ Go("shell", IF ui'.ncount = 1 THEN "refresh" ELSE "prompt")
  /\ UNCHANGED <<queue, keys, struck, keyboard_lock, bin_running, step, fetched, asof,
                 whole, shown>>

-----------------------------------------------------------------------------
(* input_wait_string                                                       *)

Reading(r) == doing[r] \in Lines

(* Shift counts as up when a line begins, even if it is down.              *)
Acquire(r, line) ==
  /\ keyboard_lock = 0
  /\ keyboard_lock' = 1
  /\ Go(r, line)
  /\ step' = [step EXCEPT ![r] = "update"]
  /\ shift_pressed' = [shift_pressed EXCEPT ![r] = FALSE]
  /\ unheeded' = IF asof THEN unheeded \union {<<r, "shift">>}
                 ELSE unheeded \ {<<r, "shift">>}
  /\ whole' = IF r = "shell" THEN whole \ {line} ELSE whole
  /\ UNCHANGED <<queue, ui, ctrl_pressed, struck, bin_running, fetched, asof,
                 shown>>

Update(r) ==
  /\ Reading(r) /\ step[r] = "update"
  /\ ui' \in Click(ui)
  /\ step' = [step EXCEPT ![r] = "get"]
  /\ UNCHANGED <<queue, keys, struck, keyboard_lock, bin_running, doing, fetched, asof,
                 whole, shown>>

(* Who misses the code of a modifier that r takes: everybody unless r reads *)
(* a line, and other lines if it is Shift.                                 *)
MissedBy(r, c) ==
  CASE ~IsModifier(c) -> unheeded
    [] IsModifier(c) /\ ~Reading(r) -> unheeded \union (Readers \X {c.key})
    [] IsModifier(c) /\ Reading(r) /\ c.key = "ctrl" -> unheeded \ (Readers \X {"ctrl"})
    [] IsModifier(c) /\ Reading(r) /\ c.key = "shift" ->
         (unheeded \union (Readers \X {"shift"})) \ {<<r, "shift">>}

(* The code r has got is lost.                                             *)
LostBy(r) ==
  IF IsModifier(fetched[r]) THEN unheeded \union (Readers \X {fetched[r].key}) ELSE unheeded

(* What c lacks when another reader takes a later code before c is used.   *)
Overtaken(c, later) ==
  IF IsPlain(c) /\ IsModifier(later) THEN [c EXCEPT !.lacks = @ \union {later.key}] ELSE c

(* get_scancode                                                            *)
Take(r) ==
  LET c == IF queue = <<>> THEN Zero ELSE Head(queue)
  IN  /\ fetched' = [s \in Readers |-> IF s = r THEN c ELSE Overtaken(fetched[s], c)]
      /\ Ring(r)!Get
      /\ asof' = IF c = Zero THEN asof ELSE "shift" \in c.held
      /\ unheeded' = MissedBy(r, c)
      /\ step' = [step EXCEPT ![r] = "handle"]
      /\ UNCHANGED <<ui, ctrl_pressed, shift_pressed, struck, keyboard_lock, bin_running,
                     doing, whole, shown>>

Fetch(r) == step[r] = "get" /\ Take(r)

(* r takes a code for itself, outside a line.                              *)
TakeAway(r) ==
  LET c == Head(queue)
  IN  /\ queue # <<>>
      /\ queue' = Tail(queue)
      /\ asof' = ("shift" \in c.held)
      /\ unheeded' = MissedBy(r, c)
      /\ fetched' = [s \in Readers |-> Overtaken(fetched[s], c)]

Idle == queue = <<>> /\ UNCHANGED <<queue, asof, unheeded, fetched>>

Handling(r) == step[r] = "handle"

(* Where a reader goes on after a line.                                    *)
After(r) ==
  IF r = "program" THEN "run"
  ELSE CASE doing[r] = "line" -> "command"
         [] doing[r] = "name" -> "named"
         [] doing[r] = "content" -> "filed"
         [] doing[r] = "own" -> "top"

(* ncount is looked at after the code was taken: the code is lost.         *)
Cut(r) ==
  /\ Reading(r) /\ Handling(r)
  /\ ui.ncount = 1
  /\ keyboard_lock' = 0
  /\ Go(r, After(r))
  /\ step' = [step EXCEPT ![r] = "update"]
  /\ fetched' = [fetched EXCEPT ![r] = Zero]
  /\ unheeded' = LostBy(r)
  /\ UNCHANGED <<queue, ui, ctrl_pressed, shift_pressed, struck, bin_running, asof, whole,
                 shown>>

(* Mutated: the test for break codes comes before the one for Ctrl.        *)
HeedModifierLate(r) ==
  LET c == fetched[r]
  IN  CASE c.key = "shift" ->
             /\ shift_pressed' = [shift_pressed EXCEPT ![r] = c.make]
             /\ UNCHANGED ctrl_pressed
        [] c.key = "ctrl" ->
             /\ ctrl_pressed' = (ctrl_pressed \/ c.make)
             /\ UNCHANGED shift_pressed

HeedModifier(r) ==
  LET c == fetched[r]
  IN  CASE c.key = "shift" ->
             /\ shift_pressed' = [shift_pressed EXCEPT ![r] = c.make]
             /\ UNCHANGED ctrl_pressed
        [] c.key = "ctrl" ->
             /\ ctrl_pressed' = c.make
             /\ UNCHANGED shift_pressed

Heed(r) ==
  LET c == fetched[r]
      ends == IsPlain(c) /\ c.key = "enter"
  IN  /\ Reading(r) /\ Handling(r)
      /\ ui.ncount = 0
      /\ IF IsModifier(c) THEN HeedModifier(r) ELSE UNCHANGED <<ctrl_pressed,
                                                                shift_pressed>>
      /\ ui' = Hotkeys(c, ui)
      /\ IF ends
         THEN /\ keyboard_lock' = 0
              /\ Go(r, After(r))
              /\ whole' = IF r = "shell" THEN whole \union ({doing[r]} \ {"own"}) ELSE whole
         ELSE UNCHANGED <<keyboard_lock, doing, whole>>
      /\ step' = [step EXCEPT ![r] = "update"]
      /\ fetched' = [fetched EXCEPT ![r] = Zero]
      /\ UNCHANGED <<queue, unheeded, struck, bin_running, asof, shown>>

-----------------------------------------------------------------------------
(* system                                                                  *)

(* Mutated: the shell asks for a line beside a program.                    *)
PromptAtOnce ==
  /\ doing["shell"] = "prompt"
  /\ \/ ui.mode = 0 /\ Acquire("shell", "line")
     \/ /\ ui.mode # 0
        /\ Go("shell", IF ui.mode = 2 THEN "files" ELSE "poll")
        /\ step' = [step EXCEPT !["shell"] = "get"]
        /\ UNCHANGED <<queue, ui, keys, struck, keyboard_lock, bin_running, fetched, asof, whole,
                       shown>>

(* In text mode the shell waits for bin_running, which SYS_EXIT clears.    *)
Prompt ==
  /\ doing["shell"] = "prompt"
  /\ \/ /\ ui.mode = 0 /\ bin_running = 0
        /\ Acquire("shell", "line")
     \/ /\ ui.mode # 0
        /\ Go("shell", IF ui.mode = 2 THEN "files" ELSE "poll")
        /\ step' = [step EXCEPT !["shell"] = "get"]
        /\ UNCHANGED <<queue, ui, keys, struck, keyboard_lock, bin_running, fetched, asof,
                       whole, shown>>

(* Mutated: a cut command line is carried out all the same.                *)
CommandAnyway ==
  /\ doing["shell"] = "command"
  /\ Go("shell", "top")
  /\ whole' = whole \ {"line"}
  /\ UNCHANGED <<queue, ui, keys, struck, keyboard_lock, bin_running, step, fetched, asof,
                 shown>>

(* A line that was cut is forgotten.  A command prints at most, or reads   *)
(* for itself, or a program is started, if there is room and the disk      *)
(* answers.  touch begins with a clear screen.                             *)
Command ==
  /\ doing["shell"] = "command"
  /\ \/ ui.ncount = 1 /\ Go("shell", "refresh") /\ UNCHANGED <<ui, bin_running>>
     \/ /\ ui.ncount = 0
        /\ \E place \in {"top", "cube", "casm", "asking"} : Go("shell", place)
        /\ UNCHANGED <<ui, bin_running>>
     \/ /\ ui.ncount = 0
        /\ Go("shell", "edit")
        /\ ui' = [ui EXCEPT !.ncount = 1]
        /\ UNCHANGED bin_running
     \/ /\ ui.ncount = 0
        /\ bin_running' = 1
        /\ \E there \in {doing["program"]}
                        \union (IF doing["program"] = "none" THEN {"run"} ELSE {}) :
             doing' = [shell |-> "prompt", program |-> there]
        /\ UNCHANGED ui
  /\ whole' = whole \ {"line"}
  /\ UNCHANGED <<queue, keys, struck, keyboard_lock, step, fetched, asof,
                 shown>>

(* casm: SYS_READ of descriptor 0 takes a code instead of the file; then,  *)
(* like su, it asks for a line, and goes on with what there is of it.      *)
Casm ==
  /\ doing["shell"] = "casm"
  /\ TakeAway("shell") \/ UNCHANGED <<queue, asof, unheeded, fetched>>
  /\ Go("shell", "asking")
  /\ UNCHANGED <<ui, ctrl_pressed, shift_pressed, struck, keyboard_lock, bin_running, step,
                 whole, shown>>

Asks == doing["shell"] = "asking" /\ Acquire("shell", "own")

(* cube clears the screen for every code that is not its end.              *)
Cube ==
  /\ doing["shell"] = "cube"
  /\ TakeAway("shell")
  /\ IF Head(queue).key = "esc" /\ Head(queue).make
     THEN Go("shell", "top") /\ UNCHANGED ui
     ELSE ui' = [ui EXCEPT !.ncount = 1] /\ UNCHANGED doing
  /\ UNCHANGED <<ctrl_pressed, shift_pressed, struck, keyboard_lock, bin_running, step, whole,
                 shown>>

(* input_wait_multiline, of touch or SYS_WAIT_MULTILINE: it looks at the   *)
(* mouse but at ncount never, has modifiers of its own, and takes no lock. *)
Edit(r) ==
  LET ends == queue # <<>> /\ Head(queue).key = "esc" /\ Head(queue).make
  IN  /\ doing[r] = "edit"
      /\ TakeAway(r) \/ Idle
      /\ \E u \in Click(ui) :
           ui' = IF ends /\ r = "shell" THEN [u EXCEPT !.ncount = 1] ELSE u
      /\ IF ends THEN Go(r, IF r = "shell" THEN "top" ELSE "run") ELSE UNCHANGED doing
      /\ UNCHANGED <<ctrl_pressed, shift_pressed, struck, keyboard_lock, bin_running, step,
                     whole, shown>>

(* The desktop looks at one code a turn; it does not know modifiers.       *)
Poll ==
  LET c == fetched["shell"]
      u == Hotkeys(c, ui)
  IN  /\ doing["shell"] = "poll" /\ Handling("shell")
      /\ ui' = u
      /\ Go("shell", IF u.ncount = 1 THEN "refresh" ELSE "top")
      /\ step' = [step EXCEPT !["shell"] = "update"]
      /\ fetched' = [fetched EXCEPT !["shell"] = Zero]
      /\ UNCHANGED <<queue, keys, struck, keyboard_lock, bin_running, asof,
                     whole, shown>>

Files ==
  LET c == fetched["shell"]
      u == IF IsPlain(c) /\ c.key = "f2"
           THEN [Hotkeys(c, ui) EXCEPT !.show_crt_window = 1, !.ncount = 1]
           ELSE Hotkeys(c, ui)
      opens == u.ncount = 0 /\ u.show_crt_window = 1
  IN  /\ doing["shell"] = "files" /\ Handling("shell")
      /\ ui' = IF opens THEN [u EXCEPT !.is_window_crt = 1] ELSE u
      /\ Go("shell", IF u.ncount = 1 THEN "refresh" ELSE IF opens THEN "window" ELSE "top")
      /\ step' = [step EXCEPT !["shell"] = "update"]
      /\ fetched' = [fetched EXCEPT !["shell"] = Zero]
      /\ UNCHANGED <<queue, keys, struck, keyboard_lock, bin_running, asof,
                     whole, shown>>

(* The window asks for a name, then for the content.                       *)
Window ==
  \/ /\ doing["shell"] = "window"
     /\ IF ui.ncount = 1
        THEN /\ Go("shell", "refresh")
             /\ UNCHANGED <<queue, ui, keys, struck, keyboard_lock, bin_running, step,
                            fetched, asof, whole, shown>>
        ELSE Acquire("shell", "name")
  \/ doing["shell"] = "named" /\ Acquire("shell", "content")

CreateFile ==
  /\ doing["shell"] = "filed"
  /\ IF ui.ncount = 1
     THEN Go("shell", "refresh") /\ UNCHANGED ui
     ELSE /\ ui' = [ui EXCEPT !.show_crt_window = 0, !.is_window_crt = 0, !.ncount = 1]
          /\ Go("shell", "top")
  /\ whole' = whole \ {"name", "content"}
  /\ UNCHANGED <<queue, keys, struck, keyboard_lock, bin_running, step, fetched, asof,
                 shown>>

-----------------------------------------------------------------------------
(* A program: SYS_WAIT_STRING, which comes to the lock with interrupts     *)
(* off, SYS_READ, SYS_WAIT_MULTILINE and SYS_EXIT.                         *)

ProgramWaits ==
  /\ doing["program"] = "run"
  /\ \/ Acquire("program", "line")
     \/ /\ keyboard_lock = 1
        /\ Go("program", "stuck")
        /\ UNCHANGED <<queue, ui, keys, struck, keyboard_lock, bin_running, step, fetched,
                       asof, whole, shown>>

(* SYS_READ hands out the code.                                            *)
ProgramReads ==
  /\ doing["program"] = "run"
  /\ TakeAway("program")
  /\ UNCHANGED <<ui, ctrl_pressed, shift_pressed, struck, keyboard_lock, bin_running, doing,
                 step, whole, shown>>

ProgramEdits ==
  /\ doing["program"] = "run"
  /\ Go("program", "edit")
  /\ UNCHANGED <<queue, ui, keys, struck, keyboard_lock, bin_running, step, fetched, asof,
                 whole, shown>>

ProgramExits ==
  /\ doing["program"] = "run"
  /\ Go("program", "none")
  /\ bin_running' = 0
  /\ UNCHANGED <<queue, ui, keys, struck, keyboard_lock, step, fetched, asof,
                 whole, shown>>

(* It may fault wherever it is, also with the lock.                        *)
ProgramFaults ==
  /\ doing["program"] # "none"
  /\ Go("program", "none")
  /\ step' = [step EXCEPT !["program"] = "update"]
  /\ fetched' = [fetched EXCEPT !["program"] = Zero]
  /\ unheeded' = LostBy("program")
  /\ UNCHANGED <<queue, ui, ctrl_pressed, shift_pressed, struck, keyboard_lock, bin_running,
                 asof, whole, shown>>

(* Another task: an interpreter ends, with SYS_EXIT, also beside a program, *)
(* or whoever prints comes to the end of the screen, and put_char clears it. *)
Beside ==
  /\ \/ /\ bin_running = 1
        /\ bin_running' = 0
        /\ UNCHANGED ui
     \/ /\ ui.ncount = 0
        /\ ui' = [ui EXCEPT !.ncount = 1]
        /\ UNCHANGED bin_running
  /\ UNCHANGED <<queue, keys, struck, keyboard_lock, doing, step, fetched, asof,
                 whole, shown>>

-----------------------------------------------------------------------------

LineStep(r) == Update(r) \/ Fetch(r) \/ Cut(r) \/ Heed(r)

ShellStep ==
  /\ ~Wedged
  /\ \/ Refresh \/ Draw \/ Top \/ Prompt \/ Command \/ Casm \/ Asks \/ Cube
     \/ Edit("shell") \/ Poll \/ Files \/ Window \/ CreateFile \/ LineStep("shell")

ProgramStep ==
  /\ ~Wedged
  /\ \/ ProgramWaits \/ ProgramReads \/ ProgramEdits \/ Edit("program")
     \/ ProgramExits \/ ProgramFaults \/ LineStep("program")

Hangs == Wedged /\ UNCHANGED consoleVars

ConsoleNext == Types \/ ShellStep \/ ProgramStep \/ (~Wedged /\ Beside) \/ Hangs

ConsoleSpec == ConsoleInit /\ [][ConsoleNext]_consoleVars

(* The timer lets the shell run again and again, and a program that has    *)
(* begun to read a line.                                                   *)
ConsoleFairSpec ==
  /\ ConsoleSpec
  /\ WF_consoleVars(ShellStep)
  /\ WF_consoleVars(~Wedged /\ LineStep("program"))

=============================================================================
