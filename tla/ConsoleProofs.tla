---------------------------- MODULE ConsoleProofs ----------------------------
(***************************************************************************)
(* The console, for every size of the ring, any keys and any places to     *)
(* click on.                                                               *)
(***************************************************************************)
EXTENDS ConsoleProps, SequenceTheorems, TLAPS

ShellPlaces ==
  {"refresh", "draw", "top", "prompt", "command", "casm", "asking", "cube", "edit",
   "poll", "files", "window", "named", "filed"} \union Lines
ProgramPlaces == {"none", "run", "line", "edit", "stuck"}

(* The code of a modifier tells by itself whether that is down.            *)
WellFormed(c) == c.key \in Modifiers => (c.key \in c.held <=> c.make)
GoodCodes == {c \in Codes : WellFormed(c)}

(* What the variables hold.                                                *)
ConsoleTypeOK ==
  /\ queue \in Seq(GoodCodes) /\ fetched \in [Readers -> GoodCodes \union {Zero}]
  /\ ui \in UI /\ ctrl_pressed \in BOOLEAN /\ shift_pressed \in [Readers -> BOOLEAN]
  /\ keyboard_lock \in {0, 1} /\ bin_running \in {0, 1}
  /\ doing \in [Readers -> ShellPlaces \union ProgramPlaces]
  /\ step \in [Readers -> {"update", "get", "handle"}]
  /\ held \subseteq Modifiers /\ dropped \subseteq Modifiers
  /\ asof \in BOOLEAN /\ (asof => "shift" \in Modifiers)
  /\ unheeded \subseteq Readers \X Modifiers
  /\ whole \subseteq Lines

(* The places of the two readers, and the lock.                            *)
InPlace ==
  /\ doing["program"] \in ProgramPlaces /\ doing["shell"] \in ShellPlaces
  /\ \A r \in Readers : Reading(r) => keyboard_lock = 1
  /\ ~(Reading("shell") /\ Reading("program"))
  /\ doing["shell"] \in {"line", "command", "casm", "asking", "own"} => bin_running = 0
  /\ Wedged => keyboard_lock = 1
  /\ \A r \in Readers :
       /\ fetched[r] # Zero => Handling(r)
       /\ step[r] # "update" =>
            \/ Reading(r)
            \/ r = "shell" /\ doing["shell"] \in {"poll", "files"}

-----------------------------------------------------------------------------
(* The mode and the windows.                                               *)

(* What changes of them without a redraw being due: nothing.               *)
Quiet(u, v) == v \in UI /\ (v.ncount = 1 \/ v = u)

LEMMA HotQuiet ==
  ASSUME NEW u \in UI, NEW key
  PROVE  Quiet(u, Hot(key, u))
BY DEF Hot, Quiet, UI

LEMMA HotkeysQuiet ==
  ASSUME NEW u \in UI, NEW c
  PROVE  Quiet(u, Hotkeys(c, u))
BY HotQuiet DEF Hotkeys, Quiet

LEMMA QuietThenQuiet ==
  ASSUME NEW u, NEW v, NEW w, Quiet(u, v), Quiet(v, w)
  PROVE  Quiet(u, w)
BY DEF Quiet

LEMMA ClickedQuiet ==
  ASSUME NEW u \in UI, NEW at
  PROVE  Quiet(u, Clicked(at, u))
<1>1. ASSUME NEW v \in UI PROVE Quiet(v, Dragged(at, v))
  BY <1>1 DEF Dragged, Quiet, UI
<1>2. ASSUME NEW v \in UI PROVE Quiet(v, Tabbed(at, v))
  BY <1>2 DEF Tabbed, Quiet, UI
<1>3. ASSUME NEW v \in UI PROVE Quiet(v, Chosen(at, v))
  BY <1>3 DEF Chosen, Quiet, UI
<1>4. ASSUME NEW v \in UI PROVE Quiet(v, FromMenu(at, v))
  <2>1. CASE v.is_button_calc = 0
    BY <1>4, <2>1 DEF FromMenu, Quiet
  <2>2. CASE v.is_button_calc # 0 /\ at \in {"menu_terminal", "calcos_menu_terminal"}
    BY <1>4, <2>2 DEF FromMenu, Quiet, UI
  <2>3. CASE v.is_button_calc # 0 /\ at = "menu_terminal_explorer"
    BY <1>4, <2>3 DEF FromMenu, Quiet, UI
  <2>4. CASE v.is_button_calc # 0 /\ at = "menu_explorer"
    BY <1>4, <2>4 DEF FromMenu, Quiet, UI
  <2>5. CASE v.is_button_calc # 0 /\ at = "menu_x"
    BY <1>4, <2>5 DEF FromMenu, Quiet, UI
  <2>6. CASE /\ v.is_button_calc # 0
             /\ at \notin {"menu_terminal", "calcos_menu_terminal",
                           "menu_terminal_explorer", "menu_explorer", "menu_x"}
    BY <1>4, <2>6 DEF FromMenu, Quiet
  <2> QED
    BY <2>1, <2>2, <2>3, <2>4, <2>5, <2>6
<1>5. ASSUME NEW v \in UI PROVE Quiet(v, InCorner(at, v))
  BY <1>5 DEF InCorner, Quiet, UI
<1> DEFINE a == Dragged(at, u)
           b == Tabbed(at, a)
           c == Chosen(at, b)
           d == FromMenu(at, c)
           e == InCorner(at, d)
<1>6. Quiet(u, a)
  BY <1>1
<1>7. Quiet(u, b)
  <2>1. a \in UI
    BY <1>6 DEF Quiet
  <2>2. Quiet(a, b)
    BY <1>2, <2>1
  <2> QED
    BY <1>6, <2>2, QuietThenQuiet
<1>8. Quiet(u, c)
  <2>1. b \in UI
    BY <1>7 DEF Quiet
  <2>2. Quiet(b, c)
    BY <1>3, <2>1
  <2> QED
    BY <1>7, <2>2, QuietThenQuiet
<1>9. Quiet(u, d)
  <2>1. c \in UI
    BY <1>8 DEF Quiet
  <2>2. Quiet(c, d)
    BY <1>4, <2>1
  <2> QED
    BY <1>8, <2>2, QuietThenQuiet
<1>10. Quiet(u, e)
  <2>1. d \in UI
    BY <1>9 DEF Quiet
  <2>2. Quiet(d, e)
    BY <1>5, <2>1
  <2> QED
    BY <1>9, <2>2, QuietThenQuiet
<1> QED
  BY <1>10 DEF Clicked

LEMMA ClickQuiet ==
  ASSUME NEW u \in UI, NEW v \in Click(u)
  PROVE  Quiet(u, v)
BY ClickedQuiet DEF Click, Quiet

LEMMA DrawnTyped ==
  ASSUME NEW u \in UI
  PROVE  /\ Drawn(u) \in UI
         /\ ~Closed(u) => Picture(Drawn(u)) = Picture(u) /\ Drawn(u).ncount = u.ncount
         /\ Closed(u) => Drawn(u).ncount = 1
<1>1. CASE Closed(u)
  <2> DEFINE m == IF u.draw_0 = 0 /\ u.draw_1 = 0 THEN -1 ELSE 1 - u.mode
  <2>1. m \in {-1, 0, 1, 2, 3}
    BY <1>1 DEF Closed, UI
  <2>2. Drawn(u) = [u EXCEPT !.ncount = 1, !.mode = m]
    BY <1>1 DEF Drawn, Closed, UI
  <2> HIDE DEF m
  <2> QED
    BY <1>1, <2>1, <2>2 DEF UI
<1>2. CASE ~Closed(u)
  BY <1>2 DEF Drawn, UI, Picture
<1> QED
  BY <1>1, <1>2

-----------------------------------------------------------------------------
(* Types.                                                                  *)

LEMMA StrikeTyped ==
  ASSUME ConsoleTypeOK, Types
  PROVE  ConsoleTypeOK'
<1>1. PICK key \in Keys \union Modifiers, make \in BOOLEAN :
        Strike(key, make) /\ (key \in Modifiers => make \/ key \in held)
  BY DEF Types, ConsoleTypeOK
<1> DEFINE down == IF key \notin Modifiers THEN held
                   ELSE IF make THEN held \union {key} ELSE held \ {key}
           missed == IF key \notin Modifiers THEN dropped
                     ELSE IF Ring("shell")!Full THEN dropped \union {key}
                     ELSE dropped \ {key}
           code == Code(key, make, down, missed)
<1>2. down \in SUBSET Modifiers /\ missed \in SUBSET Modifiers
  BY DEF ConsoleTypeOK
<1>3. held' = down /\ dropped' = missed
  BY <1>1 DEF Strike
<1>4. queue' = queue \/ queue' = Append(queue, code)
  BY <1>1 DEF Strike, Ring!Put
<1>5. code \in GoodCodes
  BY <1>2 DEF Code, Codes, GoodCodes, WellFormed
<1>6. queue' \in Seq(GoodCodes)
  BY <1>4, <1>5 DEF ConsoleTypeOK
<1>7. UNCHANGED <<ui, keys, keyboard_lock, bin_running, doing, step, fetched, asof, whole,
                  shown>>
  BY <1>1 DEF Strike
<1> QED
  BY <1>2, <1>3, <1>6, <1>7 DEF ConsoleTypeOK, keys

LEMMA HeadTyped ==
  ASSUME ConsoleTypeOK, queue # <<>>
  PROVE  Head(queue) \in GoodCodes /\ Tail(queue) \in Seq(GoodCodes)
BY DEF ConsoleTypeOK

LEMMA OvertakenTyped ==
  ASSUME NEW c \in GoodCodes \union {Zero}, NEW later \in GoodCodes \union {Zero}
  PROVE  Overtaken(c, later) \in GoodCodes \union {Zero}
<1>1. CASE IsPlain(c) /\ IsModifier(later)
  <2>1. c \in GoodCodes /\ c.key \notin Modifiers /\ later.key \in Modifiers
    BY <1>1 DEF IsPlain, IsModifier
  <2>2. [c EXCEPT !.lacks = @ \union {later.key}] \in GoodCodes
    BY <2>1 DEF GoodCodes, Codes, WellFormed
  <2> QED
    BY <1>1, <2>2 DEF Overtaken
<1>2. CASE ~(IsPlain(c) /\ IsModifier(later))
  BY <1>2 DEF Overtaken
<1> QED
  BY <1>1, <1>2

LEMMA MissedByTyped ==
  ASSUME ConsoleTypeOK, NEW r \in Readers, NEW c
  PROVE  MissedBy(r, c) \subseteq Readers \X Modifiers
<1>1. CASE ~IsModifier(c)
  BY <1>1 DEF ConsoleTypeOK, MissedBy
<1>2. CASE IsModifier(c)
  <2>1. c.key \in Modifiers /\ c.key \in {"shift", "ctrl"}
    BY <1>2, ConsoleAssumption DEF IsModifier
  <2>2. CASE ~Reading(r)
    BY <1>2, <2>1, <2>2 DEF MissedBy, ConsoleTypeOK
  <2>3. CASE Reading(r) /\ c.key = "ctrl"
    BY <1>2, <2>1, <2>3 DEF MissedBy, ConsoleTypeOK
  <2>4. CASE Reading(r) /\ c.key = "shift"
    BY <1>2, <2>1, <2>4 DEF MissedBy, ConsoleTypeOK
  <2> QED
    BY <2>1, <2>2, <2>3, <2>4
<1> QED
  BY <1>1, <1>2

(* What SYS_READ and get_scancode have in common.                          *)
LEMMA TakeTyped ==
  ASSUME ConsoleTypeOK, NEW r \in Readers, Take(r)
  PROVE  ConsoleTypeOK'
<1> DEFINE c == IF queue = <<>> THEN Zero ELSE Head(queue)
<1>1. c \in GoodCodes \union {Zero} /\ (c # Zero => c \in GoodCodes)
  BY HeadTyped
<1>2. /\ fetched' = [s \in Readers |-> IF s = r THEN c ELSE Overtaken(fetched[s], c)]
      /\ asof' = IF c = Zero THEN asof ELSE "shift" \in c.held
      /\ unheeded' = MissedBy(r, c) /\ step' = [step EXCEPT ![r] = "handle"]
      /\ queue' = queue \/ (queue # <<>> /\ queue' = Tail(queue))
      /\ UNCHANGED <<ui, ctrl_pressed, shift_pressed, struck, keyboard_lock, bin_running,
                     doing, whole, shown>>
  BY DEF Take, Ring!Get
<1>3. queue' \in Seq(GoodCodes)
  BY <1>2, HeadTyped DEF ConsoleTypeOK
<1> HIDE DEF c
<1>4. fetched' \in [Readers -> GoodCodes \union {Zero}]
  <2>1. \A s \in Readers : Overtaken(fetched[s], c) \in GoodCodes \union {Zero}
    BY <1>1, OvertakenTyped DEF ConsoleTypeOK
  <2> QED
    BY <1>1, <1>2, <2>1
<1>5. asof' \in BOOLEAN /\ (asof' => "shift" \in Modifiers)
  <2>1. CASE c = Zero
    BY <1>2, <2>1 DEF ConsoleTypeOK
  <2>2. CASE c # Zero
    <3>1. asof' = ("shift" \in c.held)
      BY <1>2, <2>2
    <3>2. c.held \subseteq Modifiers
      BY <1>1, <2>2 DEF GoodCodes, Codes
    <3>3. asof' \in BOOLEAN
      BY <3>1
    <3>4. asof' => "shift" \in c.held
      BY <3>1
    <3> QED
      BY <3>2, <3>3, <3>4
  <2> QED
    BY <2>1, <2>2
<1>6. unheeded' \subseteq Readers \X Modifiers
  BY <1>2, MissedByTyped
<1> QED
  BY <1>2, <1>3, <1>4, <1>5, <1>6 DEF ConsoleTypeOK, struck

(* r takes a code outside a line, or none.                                 *)
Taking(r) == TakeAway(r) \/ UNCHANGED <<queue, asof, unheeded, fetched>>

LEMMA TakingTyped ==
  ASSUME ConsoleTypeOK, NEW r \in Readers, Taking(r)
  PROVE  /\ queue' \in Seq(GoodCodes) /\ fetched' \in [Readers -> GoodCodes \union {Zero}]
         /\ asof' \in BOOLEAN /\ (asof' => "shift" \in Modifiers)
         /\ unheeded' \subseteq Readers \X Modifiers
<1>0. CASE UNCHANGED <<queue, asof, unheeded, fetched>>
  BY <1>0 DEF ConsoleTypeOK
<1> SUFFICES ASSUME TakeAway(r)
             PROVE  /\ queue' \in Seq(GoodCodes)
                    /\ fetched' \in [Readers -> GoodCodes \union {Zero}]
                    /\ asof' \in BOOLEAN /\ (asof' => "shift" \in Modifiers)
                    /\ unheeded' \subseteq Readers \X Modifiers
  BY <1>0 DEF Taking
<1> DEFINE c == Head(queue)
<1>1. c \in GoodCodes /\ Tail(queue) \in Seq(GoodCodes)
  BY HeadTyped DEF TakeAway
<1>2. /\ fetched' = [s \in Readers |-> Overtaken(fetched[s], c)]
      /\ asof' = ("shift" \in c.held)
      /\ unheeded' = MissedBy(r, c)
      /\ queue' = Tail(queue)
  BY DEF TakeAway
<1> HIDE DEF c
<1>3. fetched' \in [Readers -> GoodCodes \union {Zero}]
  <2>1. \A s \in Readers : Overtaken(fetched[s], c) \in GoodCodes \union {Zero}
    BY <1>1, OvertakenTyped DEF ConsoleTypeOK
  <2> QED
    BY <1>2, <2>1
<1>4. unheeded' \subseteq Readers \X Modifiers
  BY <1>2, MissedByTyped
<1>5. asof' \in BOOLEAN /\ (asof' => "shift" \in Modifiers)
  <2>1. c.held \subseteq Modifiers
    BY <1>1 DEF GoodCodes, Codes
  <2>2. asof' \in BOOLEAN
    BY <1>2
  <2>3. asof' => "shift" \in c.held
    BY <1>2
  <2> QED
    BY <2>1, <2>2, <2>3
<1> QED
  BY <1>1, <1>2, <1>3, <1>4, <1>5

LEMMA HotkeysTyped ==
  ASSUME NEW u \in UI, NEW c
  PROVE  Hotkeys(c, u) \in UI
BY HotkeysQuiet DEF Quiet

LEMMA ClickTyped ==
  ASSUME NEW u \in UI, NEW v \in Click(u)
  PROVE  v \in UI
BY ClickQuiet DEF Quiet

LEMMA AcquireTyped ==
  ASSUME ConsoleTypeOK, NEW r \in Readers, NEW line \in Lines, Acquire(r, line)
  PROVE  ConsoleTypeOK'
<1>1. line \in ShellPlaces /\ keyboard_lock' \in {0, 1}
  BY DEF Acquire, ShellPlaces
<1>2. unheeded' \subseteq Readers \X Modifiers
  BY DEF Acquire, ConsoleTypeOK
<1>3. /\ doing' \in [Readers -> ShellPlaces \union ProgramPlaces]
      /\ step' \in [Readers -> {"update", "get", "handle"}]
      /\ shift_pressed' \in [Readers -> BOOLEAN]
  BY <1>1 DEF Acquire, Go, ConsoleTypeOK
<1> QED
  BY <1>1, <1>2, <1>3 DEF Acquire, ConsoleTypeOK, struck

LEMMA GoTyped ==
  ASSUME ConsoleTypeOK, NEW r \in Readers, NEW where \in ShellPlaces \union ProgramPlaces,
         Go(r, where)
  PROVE  doing' \in [Readers -> ShellPlaces \union ProgramPlaces]
BY DEF Go, ConsoleTypeOK

LEMMA AfterTyped ==
  ASSUME NEW r \in Readers, Reading(r)
  PROVE  After(r) \in {"run", "command", "named", "filed", "top"}
BY DEF After, Reading, Lines, Readers

LEMMA LineTyped ==
  ASSUME ConsoleTypeOK, NEW r \in Readers, Update(r) \/ Cut(r) \/ Heed(r)
  PROVE  ConsoleTypeOK'
<1>0. {"run", "command", "named", "filed", "top"} \subseteq ShellPlaces \union ProgramPlaces
  BY DEF ShellPlaces, ProgramPlaces
<1>1. CASE Update(r)
  <2>1. ui' \in UI
    BY <1>1, ClickTyped DEF Update, ConsoleTypeOK
  <2> QED
    BY <1>1, <2>1 DEF Update, ConsoleTypeOK, keys, struck
<1>2. CASE Cut(r)
  <2>1. doing' \in [Readers -> ShellPlaces \union ProgramPlaces]
    BY <1>0, <1>2, AfterTyped, GoTyped DEF Cut
  <2>2. unheeded' \subseteq Readers \X Modifiers
    BY <1>2 DEF Cut, LostBy, ConsoleTypeOK, IsModifier
  <2> QED
    BY <1>2, <2>1, <2>2 DEF Cut, ConsoleTypeOK, struck
<1>3. CASE Heed(r)
  <2>1. ui' \in UI
    BY <1>3, HotkeysTyped DEF Heed, ConsoleTypeOK
  <2>2. doing' \in [Readers -> ShellPlaces \union ProgramPlaces]
    BY <1>0, <1>3, AfterTyped, GoTyped DEF Heed, ConsoleTypeOK
  <2>3. ctrl_pressed' \in BOOLEAN /\ shift_pressed' \in [Readers -> BOOLEAN]
    <3>1. CASE ~IsModifier(fetched[r])
      BY <1>3, <3>1 DEF Heed, ConsoleTypeOK
    <3>2. CASE IsModifier(fetched[r])
      <4>1. HeedModifier(r)
        BY <1>3, <3>2 DEF Heed
      <4>2. fetched[r].key \in {"shift", "ctrl"} /\ fetched[r].make \in BOOLEAN
        BY <3>2, ConsoleAssumption DEF IsModifier, ConsoleTypeOK, GoodCodes, Codes
      <4> QED
        BY <4>1, <4>2 DEF HeedModifier, ConsoleTypeOK
    <3> QED
      BY <3>1, <3>2
  <2>4. keyboard_lock' \in {0, 1} /\ whole' \subseteq Lines
    BY <1>3 DEF Heed, ConsoleTypeOK, Reading
  <2> QED
    BY <1>3, <2>1, <2>2, <2>3, <2>4 DEF Heed, ConsoleTypeOK, struck
<1> QED
  BY <1>1, <1>2, <1>3

LEMMA ShellTyped ==
  ASSUME ConsoleTypeOK,
         Refresh \/ Draw \/ Top \/ Prompt \/ Command \/ Poll \/ Files \/ Window \/ CreateFile
  PROVE  ConsoleTypeOK'
<1>1. /\ ShellPlaces \subseteq ShellPlaces \union ProgramPlaces
      /\ {"refresh", "draw", "top", "prompt", "command", "poll", "files", "window"}
            \subseteq ShellPlaces
      /\ "shell" \in Readers /\ "program" \in Readers
  BY DEF ShellPlaces, Readers
<1>2. CASE Refresh
  <2>1. doing' \in [Readers -> ShellPlaces \union ProgramPlaces]
    BY <1>1, <1>2, GoTyped DEF Refresh
  <2>2. ui' \in UI
    BY <1>2 DEF Refresh, ConsoleTypeOK, UI
  <2> QED
    BY <1>2, <2>1, <2>2 DEF Refresh, ConsoleTypeOK, keys, struck
<1>3. CASE Draw
  <2>1. doing' \in [Readers -> ShellPlaces \union ProgramPlaces]
    BY <1>1, <1>3, GoTyped DEF Draw
  <2>2. ui' \in UI
    BY <1>3, DrawnTyped DEF Draw, ConsoleTypeOK
  <2> QED
    BY <1>3, <2>1, <2>2 DEF Draw, ConsoleTypeOK, keys, struck
<1>4. CASE Top
  <2>1. doing' \in [Readers -> ShellPlaces \union ProgramPlaces]
    BY <1>1, <1>4, GoTyped DEF Top
  <2>2. ui' \in UI
    BY <1>4, ClickTyped DEF Top, ConsoleTypeOK
  <2> QED
    BY <1>4, <2>1, <2>2 DEF Top, ConsoleTypeOK, keys, struck
<1>5. CASE Prompt
  <2>1. CASE Acquire("shell", "line")
    BY <1>1, <2>1, AcquireTyped DEF Lines
  <2>2. CASE /\ Go("shell", IF ui.mode = 2 THEN "files" ELSE "poll")
             /\ step' = [step EXCEPT !["shell"] = "get"]
             /\ UNCHANGED <<queue, ui, keys, struck, keyboard_lock, bin_running, fetched,
                            asof, whole, shown>>
    <3>1. doing' \in [Readers -> ShellPlaces \union ProgramPlaces]
      BY <1>1, <2>2, GoTyped
    <3> QED
      BY <2>2, <3>1 DEF ConsoleTypeOK, keys, struck
  <2> QED
    BY <1>5, <2>1, <2>2 DEF Prompt
<1>6. CASE Command
  <2>1. doing' \in [Readers -> ShellPlaces \union ProgramPlaces]
    <3>1. ASSUME NEW there \in {doing["program"], "run"},
                 doing' = [shell |-> "prompt", program |-> there]
          PROVE  doing' \in [Readers -> ShellPlaces \union ProgramPlaces]
      BY <3>1 DEF Readers, ShellPlaces, ProgramPlaces, ConsoleTypeOK
    <3>2. ASSUME NEW where \in {"refresh", "top", "cube", "casm", "asking", "edit"},
                 Go("shell", where)
          PROVE  doing' \in [Readers -> ShellPlaces \union ProgramPlaces]
      BY <1>1, <3>2, GoTyped DEF ShellPlaces
    <3> QED
      BY <1>6, <3>1, <3>2 DEF Command
  <2>2. ui' \in UI
    BY <1>6 DEF Command, ConsoleTypeOK, UI
  <2> QED
    BY <1>6, <2>1, <2>2 DEF Command, ConsoleTypeOK, keys, struck
<1>7. CASE Poll
  <2>1. doing' \in [Readers -> ShellPlaces \union ProgramPlaces]
    BY <1>1, <1>7, GoTyped DEF Poll
  <2>2. ui' \in UI
    BY <1>7, HotkeysTyped DEF Poll, ConsoleTypeOK
  <2> QED
    BY <1>7, <2>1, <2>2 DEF Poll, ConsoleTypeOK, keys, struck
<1>8. CASE Files
  <2> DEFINE h == Hotkeys(fetched["shell"], ui)
  <2>1. h \in UI
    BY HotkeysTyped DEF ConsoleTypeOK
  <2>2. doing' \in [Readers -> ShellPlaces \union ProgramPlaces]
    BY <1>1, <1>8, GoTyped DEF Files
  <2>3. ui' \in UI
    <3>1. \A u \in UI : [u EXCEPT !.show_crt_window = 1, !.ncount = 1] \in UI
      BY DEF UI
    <3>2. \A u \in UI : [u EXCEPT !.is_window_crt = 1] \in UI
      BY DEF UI
    <3> QED
      BY <1>8, <2>1, <3>1, <3>2 DEF Files
  <2> QED
    BY <1>8, <2>2, <2>3 DEF Files, ConsoleTypeOK, keys, struck
<1>9. CASE Window
  <2>1. CASE Acquire("shell", "name") \/ Acquire("shell", "content")
    BY <1>1, <2>1, AcquireTyped DEF Lines
  <2>2. CASE /\ Go("shell", "refresh")
             /\ UNCHANGED <<queue, ui, keys, struck, keyboard_lock, bin_running, step,
                            fetched, asof, whole, shown>>
    <3>1. doing' \in [Readers -> ShellPlaces \union ProgramPlaces]
      BY <1>1, <2>2, GoTyped
    <3> QED
      BY <2>2, <3>1 DEF ConsoleTypeOK, keys, struck
  <2> QED
    BY <1>9, <2>1, <2>2 DEF Window
<1>10. CASE CreateFile
  <2>1. doing' \in [Readers -> ShellPlaces \union ProgramPlaces]
    BY <1>1, <1>10, GoTyped DEF CreateFile
  <2>2. ui' \in UI
    BY <1>10 DEF CreateFile, ConsoleTypeOK, UI
  <2> QED
    BY <1>10, <2>1, <2>2 DEF CreateFile, ConsoleTypeOK, keys, struck
<1> QED
  BY <1>2, <1>3, <1>4, <1>5, <1>6, <1>7, <1>8, <1>9, <1>10

(* The commands that read for themselves, and whoever edits a text.        *)
LEMMA ReadersTyped ==
  ASSUME ConsoleTypeOK, Casm \/ Asks \/ Cube \/ \E r \in Readers : Edit(r)
  PROVE  ConsoleTypeOK'
<1>1. /\ {"asking", "top", "run"} \subseteq ShellPlaces \union ProgramPlaces
      /\ "shell" \in Readers
  BY DEF ShellPlaces, ProgramPlaces, Readers
<1>2. \A u \in UI : [u EXCEPT !.ncount = 1] \in UI
  BY DEF UI
<1>3. CASE Casm
  <2>1. doing' \in [Readers -> ShellPlaces \union ProgramPlaces]
    BY <1>1, <1>3, GoTyped DEF Casm
  <2> QED
    BY <1>1, <1>3, <2>1, TakingTyped DEF Casm, Taking, ConsoleTypeOK, struck
<1>4. CASE Asks
  BY <1>1, <1>4, AcquireTyped DEF Asks, Lines
<1>5. CASE Cube
  <2>1. doing' \in [Readers -> ShellPlaces \union ProgramPlaces] /\ ui' \in UI
    BY <1>1, <1>2, <1>5, GoTyped DEF Cube, ConsoleTypeOK
  <2> QED
    BY <1>1, <1>5, <2>1, TakingTyped DEF Cube, Taking, ConsoleTypeOK, struck
<1>6. ASSUME NEW r \in Readers, Edit(r)
      PROVE  ConsoleTypeOK'
  <2>1. Taking(r)
    BY <1>6 DEF Edit, Taking, Idle
  <2>2. doing' \in [Readers -> ShellPlaces \union ProgramPlaces]
    BY <1>1, <1>6, GoTyped DEF Edit, ConsoleTypeOK
  <2>3. ui' \in UI
    BY <1>2, <1>6, ClickTyped DEF Edit, ConsoleTypeOK
  <2> QED
    BY <1>6, <2>1, <2>2, <2>3, TakingTyped DEF Edit, ConsoleTypeOK, struck
<1> QED
  BY <1>3, <1>4, <1>5, <1>6

LEMMA ProgramTyped ==
  ASSUME ConsoleTypeOK,
         \/ ProgramWaits \/ ProgramReads \/ ProgramEdits \/ ProgramExits
         \/ ProgramFaults \/ Beside
  PROVE  ConsoleTypeOK'
<1>1. /\ "program" \in Readers
      /\ {"none", "stuck", "edit"} \subseteq ShellPlaces \union ProgramPlaces
  BY DEF Readers, ProgramPlaces
<1>2. CASE Acquire("program", "line")
  BY <1>1, <1>2, AcquireTyped DEF Lines
<1>3. CASE /\ Go("program", "stuck") \/ Go("program", "none") \/ Go("program", "edit")
           /\ bin_running' \in {0, bin_running}
           /\ UNCHANGED <<queue, ui, keys, struck, keyboard_lock, step, fetched,
                          asof, whole, shown>>
  <2>1. doing' \in [Readers -> ShellPlaces \union ProgramPlaces]
    BY <1>1, <1>3, GoTyped
  <2> QED
    BY <1>3, <2>1 DEF ConsoleTypeOK, keys, struck
<1>4. CASE ProgramReads
  BY <1>1, <1>4, TakingTyped DEF ProgramReads, Taking, ConsoleTypeOK, struck
<1>5. CASE ProgramFaults
  <2>1. doing' \in [Readers -> ShellPlaces \union ProgramPlaces]
    BY <1>1, <1>5, GoTyped DEF ProgramFaults
  <2>2. unheeded' \subseteq Readers \X Modifiers
    BY <1>5 DEF ProgramFaults, LostBy, ConsoleTypeOK, IsModifier
  <2> QED
    BY <1>5, <2>1, <2>2 DEF ProgramFaults, ConsoleTypeOK, struck
<1>6. CASE Beside
  BY <1>6 DEF Beside, ConsoleTypeOK, UI, keys, struck
<1> QED
  BY <1>2, <1>3, <1>4, <1>5, <1>6 DEF ProgramWaits, ProgramEdits, ProgramExits

(* Every step, by name.                                                    *)
LEMMA Steps ==
  ASSUME ConsoleNext
  PROVE  \/ UNCHANGED consoleVars
         \/ /\ ~Wedged
            /\ \/ Types \/ ProgramReads \/ ProgramWaits \/ ProgramEdits \/ ProgramExits
               \/ ProgramFaults \/ Beside
               \/ Refresh \/ Draw \/ Top \/ Prompt \/ Command \/ Casm \/ Asks \/ Cube
               \/ Poll \/ Files \/ Window \/ CreateFile
               \/ \E r \in Readers : Edit(r)
               \/ \E r \in Readers : Update(r) \/ Fetch(r) \/ Cut(r) \/ Heed(r)
BY DEF ConsoleNext, Types, Strike, ShellStep, ProgramStep, LineStep, Hangs, Readers

LEMMA ConsoleStepTyped ==
  ASSUME ConsoleTypeOK, [ConsoleNext]_consoleVars
  PROVE  ConsoleTypeOK'
<1>1. CASE UNCHANGED consoleVars
  BY <1>1 DEF ConsoleTypeOK, consoleVars, keys, struck
<1>2. CASE \E r \in Readers : Fetch(r)
  BY <1>2, TakeTyped DEF Fetch
<1> QED
  BY <1>1, <1>2, Steps, StrikeTyped, ShellTyped, LineTyped, ReadersTyped, ProgramTyped

LEMMA ConsoleInitTyped ==
  ASSUME ConsoleInit
  PROVE  ConsoleTypeOK
<1>1. queue \in Seq(GoodCodes)
  BY DEF ConsoleInit
<1>2. doing \in [Readers -> ShellPlaces \union ProgramPlaces]
  BY DEF ConsoleInit, Readers, ShellPlaces, ProgramPlaces
<1>3. ui \in UI
  BY DEF ConsoleInit, UI
<1>4. /\ ctrl_pressed \in BOOLEAN /\ shift_pressed \in [Readers -> BOOLEAN]
      /\ keyboard_lock \in {0, 1} /\ bin_running \in {0, 1} /\ step \in [Readers -> {"update", "get", "handle"}]
      /\ fetched \in [Readers -> GoodCodes \union {Zero}]
  BY DEF ConsoleInit
<1>5. /\ held \subseteq Modifiers /\ dropped \subseteq Modifiers
      /\ asof \in BOOLEAN /\ (asof => "shift" \in Modifiers)
      /\ unheeded \subseteq Readers \X Modifiers
      /\ whole \subseteq Lines
  BY DEF ConsoleInit
<1> QED
  BY <1>1, <1>2, <1>3, <1>4, <1>5 DEF ConsoleTypeOK

(* Types, for every ring, keys and places.                                 *)
THEOREM ConsoleTypeCorrect == ConsoleSpec => []ConsoleTypeOK
<1>1. ConsoleInit => ConsoleTypeOK
  BY ConsoleInitTyped
<1>2. ConsoleTypeOK /\ [ConsoleNext]_consoleVars => ConsoleTypeOK'
  BY ConsoleStepTyped
<1> QED
  BY <1>1, <1>2, PTL DEF ConsoleSpec

-----------------------------------------------------------------------------
(* The places of the readers.                                              *)

LEMMA ConsoleInitInPlace ==
  ASSUME ConsoleInit
  PROVE  InPlace
<1>1. doing["shell"] = "refresh" /\ doing["program"] = "none"
  BY DEF ConsoleInit
<1> QED
  BY <1>1 DEF ConsoleInit, InPlace, Reading, Handling, Wedged, Lines, Readers, ShellPlaces, ProgramPlaces

LEMMA ConsoleStepInPlace ==
  ASSUME ConsoleTypeOK, InPlace, [ConsoleNext]_consoleVars
  PROVE  InPlace'
<1> USE DEF InPlace, Reading, Handling, Lines, Readers, ShellPlaces, ProgramPlaces
<1>1. CASE UNCHANGED consoleVars
  BY <1>1 DEF consoleVars, Wedged
<1>2. CASE Types
  BY <1>2 DEF Types, Strike, Wedged
<1>3. ASSUME NEW r \in Readers, Update(r)
      PROVE  InPlace'
  BY <1>3 DEF Update, Wedged, ConsoleTypeOK
<1>4. ASSUME NEW r \in Readers, Fetch(r)
      PROVE  InPlace'
  BY <1>4 DEF Fetch, Take, Wedged, Overtaken, IsPlain, ConsoleTypeOK
<1>5. ASSUME NEW r \in Readers, Cut(r), ~Wedged
      PROVE  InPlace'
  <2>1. /\ doing' = [doing EXCEPT ![r] = After(r)]
        /\ After(r) \in {"run", "command", "named", "filed", "top"}
    BY <1>5, AfterTyped DEF Cut, Go
  <2>2. r = "program" => After(r) = "run"
    BY DEF After
  <2>3. r = "shell" => After(r) # "run" /\ (After(r) = "command" => doing["shell"] = "line")
    BY <1>5 DEF After, Cut
  <2> QED
    BY <1>5, <2>1, <2>2, <2>3 DEF Cut, Wedged, ConsoleTypeOK
<1>6. ASSUME NEW r \in Readers, Heed(r), ~Wedged
      PROVE  InPlace'
  <2>1. CASE ~(IsPlain(fetched[r]) /\ fetched[r].key = "enter")
    BY <1>6, <2>1 DEF Heed, Wedged, ConsoleTypeOK
  <2>2. CASE IsPlain(fetched[r]) /\ fetched[r].key = "enter"
    <3>1. /\ doing' = [doing EXCEPT ![r] = After(r)]
          /\ After(r) \in {"run", "command", "named", "filed", "top"}
      BY <1>6, <2>2, AfterTyped DEF Heed, Go
    <3>2. r = "program" => After(r) = "run"
      BY DEF After
    <3>3. r = "shell" => After(r) # "run" /\ (After(r) = "command" => doing["shell"] = "line")
      BY <1>6 DEF After, Heed
    <3> QED
      BY <1>6, <2>2, <3>1, <3>2, <3>3 DEF Heed, Wedged, ConsoleTypeOK
  <2> QED
    BY <2>1, <2>2
<1>7. CASE Refresh \/ Draw \/ Top \/ CreateFile
  BY <1>7 DEF Refresh, Draw, Top, CreateFile, Go, Wedged, ConsoleTypeOK, keys, struck
<1>8. CASE Prompt
  BY <1>8 DEF Prompt, Acquire, Go, Wedged, ConsoleTypeOK
<1>9. CASE Command
  <2>1. /\ doing'["shell"] \in {"refresh", "top", "cube", "casm", "asking", "edit", "prompt"}
        /\ doing'["program"] = doing["program"] \/ doing'["program"] = "run"
        /\ doing'["program"] # doing["program"] => doing["program"] = "none"
        /\ doing'["shell"] # "prompt" => UNCHANGED bin_running
    BY <1>9 DEF Command, Go, ConsoleTypeOK
  <2>2. UNCHANGED <<keyboard_lock, step, fetched>> /\ doing["shell"] = "command"
    BY <1>9 DEF Command
  <2> QED
    BY <2>1, <2>2 DEF Wedged
<1>10. CASE Poll \/ Files
  BY <1>10 DEF Poll, Files, Go, Wedged, ConsoleTypeOK
<1>11. CASE Window \/ Asks
  BY <1>11 DEF Window, Asks, Acquire, Go, Wedged, ConsoleTypeOK
<1>12. ASSUME NEW r \in Readers, Taking(r), fetched[r] = Zero,
              UNCHANGED <<keyboard_lock, bin_running, step>>, ~Wedged,
              doing[r] \in {"casm", "cube", "edit", "run"},
              doing' = doing \/
                (\E where \in {"asking", "top", "run"} :
                   /\ doing' = [doing EXCEPT ![r] = where]
                   /\ where = "asking" => doing[r] = "casm"
                   /\ IF r = "shell" THEN where # "run" ELSE where = "run")
       PROVE  InPlace'
  <2>1. \A s \in Readers : fetched'[s] # Zero => fetched[s] # Zero
    BY <1>12 DEF Taking, TakeAway, Overtaken, IsPlain, ConsoleTypeOK
  <2>2. \A s \in Readers : Reading(s)' = Reading(s)
    BY <1>12 DEF ConsoleTypeOK
  <2> QED
    BY <1>12, <2>1, <2>2 DEF Wedged, ConsoleTypeOK
<1>13. CASE ProgramReads
  <2>1. Taking("program") /\ fetched["program"] = Zero
    BY <1>13 DEF ProgramReads, Taking
  <2> QED
    BY <1>12, <1>13, <2>1 DEF ProgramReads, Wedged
<1>14. CASE (Casm \/ Cube) /\ ~Wedged
  <2>1. Taking("shell") /\ fetched["shell"] = Zero
    BY <1>14 DEF Casm, Cube, Taking
  <2>2. /\ UNCHANGED <<keyboard_lock, bin_running, step>>
        /\ doing["shell"] \in {"casm", "cube"}
        /\ \/ doing' = doing \/ doing' = [doing EXCEPT !["shell"] = "top"]
           \/ doing' = [doing EXCEPT !["shell"] = "asking"] /\ doing["shell"] = "casm"
    BY <1>14 DEF Casm, Cube, Go
  <2> QED
    BY <1>12, <1>14, <2>1, <2>2
<1>15. ASSUME NEW r \in Readers, Edit(r), ~Wedged
       PROVE  InPlace'
  <2>1. Taking(r) /\ fetched[r] = Zero
    BY <1>15 DEF Edit, Idle, Taking
  <2>2. /\ UNCHANGED <<keyboard_lock, bin_running, step>> /\ doing[r] = "edit"
        /\ \/ doing' = doing
           \/ doing' = [doing EXCEPT ![r] = IF r = "shell" THEN "top" ELSE "run"]
    BY <1>15 DEF Edit, Go
  <2> QED
    BY <1>12, <1>15, <2>1, <2>2
<1>16. CASE ProgramWaits
  BY <1>16 DEF ProgramWaits, Acquire, Go, Wedged, ConsoleTypeOK
<1>17. CASE ProgramExits \/ ProgramEdits
  BY <1>17 DEF ProgramExits, ProgramEdits, Go, Wedged, ConsoleTypeOK
<1>18. CASE ProgramFaults
  BY <1>18 DEF ProgramFaults, Go, Wedged, ConsoleTypeOK
<1>19. CASE Beside
  BY <1>19 DEF Beside, Wedged
<1> QED
  BY <1>1, <1>2, <1>3, <1>4, <1>5, <1>6, <1>7, <1>8, <1>9, <1>10, <1>11, <1>13,
     <1>14, <1>15, <1>16, <1>17, <1>18, <1>19, Steps

-----------------------------------------------------------------------------
(* The picture.                                                            *)

(* The shell has drawn what there is, or is about to.                      *)
LEMMA SeenStays ==
  ASSUME ShownIsCurrent, Quiet(ui, ui'), UNCHANGED shown,
         doing["shell"] = "draw" => doing'["shell"] = "draw"
  PROVE  ShownIsCurrent'
BY DEF ShownIsCurrent, Quiet

LEMMA FilesSeen ==
  ASSUME ConsoleTypeOK, Files
  PROVE  /\ ui'.ncount = 0 => Picture(ui') = Picture(ui) /\ ui.ncount = 0
         /\ ui'.ncount = 0 => ui'.mode = ui.mode /\ ui'.show_crt_window = ui.show_crt_window
         /\ doing'["shell"] = "window" => ui'.show_crt_window = 1
         /\ doing'["shell"] \in {"refresh", "window", "top"}
<1> DEFINE c == fetched["shell"]
           h == Hotkeys(c, ui)
           u == IF IsPlain(c) /\ c.key = "f2"
                THEN [h EXCEPT !.show_crt_window = 1, !.ncount = 1] ELSE h
           opens == u.ncount = 0 /\ u.show_crt_window = 1
<1>1. ui \in UI /\ Quiet(ui, h)
  BY HotkeysQuiet DEF ConsoleTypeOK
<1>2. u \in UI /\ (u.ncount = 0 => u = ui)
  <2>1. [h EXCEPT !.show_crt_window = 1, !.ncount = 1].ncount = 1
    BY <1>1 DEF Quiet, UI
  <2>2. [h EXCEPT !.show_crt_window = 1, !.ncount = 1] \in UI
    BY <1>1 DEF Quiet, UI
  <2> QED
    BY <1>1, <2>1, <2>2 DEF Quiet
<1>3. /\ ui' = IF opens THEN [u EXCEPT !.is_window_crt = 1] ELSE u
      /\ doing' = [doing EXCEPT !["shell"] =
                     IF u.ncount = 1 THEN "refresh" ELSE IF opens THEN "window" ELSE "top"]
  BY DEF Files, Go
<1> HIDE DEF h, u
<1>4. doing'["shell"] = IF u.ncount = 1 THEN "refresh" ELSE IF opens THEN "window" ELSE "top"
  BY <1>3 DEF ConsoleTypeOK, Readers
<1>5. CASE opens
  <2>1. ui' = [ui EXCEPT !.is_window_crt = 1] /\ ui.show_crt_window = 1 /\ ui.ncount = 0
    BY <1>2, <1>3, <1>5
  <2>2. doing'["shell"] = "window"
    BY <1>2, <1>4, <1>5 DEF UI
  <2> QED
    BY <1>1, <2>1, <2>2 DEF Picture, UI
<1>6. CASE ~opens
  <2>1. ui' = u /\ doing'["shell"] \in {"refresh", "top"}
    BY <1>3, <1>4, <1>6
  <2> QED
    BY <1>2, <2>1
<1> QED
  BY <1>5, <1>6

LEMMA StepSeen ==
  ASSUME ConsoleTypeOK, InPlace, ShownIsCurrent, [ConsoleNext]_consoleVars
  PROVE  ShownIsCurrent'
<1> USE DEF Go
<1>0. ui \in UI /\ Quiet(ui, ui) /\ doing \in [Readers -> ShellPlaces \union ProgramPlaces]
  BY DEF ConsoleTypeOK, Quiet
<1>1. CASE UNCHANGED consoleVars
  BY <1>1 DEF consoleVars, ShownIsCurrent
<1>2. CASE Types \/ ProgramReads
  BY <1>0, <1>2, SeenStays DEF Types, Strike, ProgramReads
<1>2a. \A u \in UI : Quiet(ui, [u EXCEPT !.ncount = 1])
  BY DEF Quiet, UI
<1>3. ASSUME NEW r \in Readers, Update(r)
      PROVE  ShownIsCurrent'
  BY <1>0, <1>3, ClickQuiet, SeenStays DEF Update
<1>4. ASSUME NEW r \in Readers, Fetch(r)
      PROVE  ShownIsCurrent'
  BY <1>0, <1>4, SeenStays DEF Fetch, Take
<1>5. ASSUME NEW r \in Readers, NEW line, Acquire(r, line), r = "shell" => doing["shell"] # "draw"
      PROVE  ShownIsCurrent'
  <2>1. doing["shell"] = "draw" => doing'["shell"] = "draw"
    BY <1>0, <1>5 DEF Acquire, Readers
  <2> QED
    BY <1>0, <1>5, <2>1, SeenStays DEF Acquire
<1>6. ASSUME NEW r \in Readers, Cut(r)
      PROVE  ShownIsCurrent'
  <2>1. doing["shell"] = "draw" => doing'["shell"] = "draw"
    BY <1>0, <1>6 DEF Cut, Readers, Reading, Lines
  <2> QED
    BY <1>0, <1>6, <2>1, SeenStays DEF Cut
<1>7. ASSUME NEW r \in Readers, Heed(r)
      PROVE  ShownIsCurrent'
  <2>1. doing["shell"] = "draw" => doing'["shell"] = "draw"
    BY <1>0, <1>7 DEF Heed, Readers, Reading, Lines
  <2>2. Quiet(ui, ui') /\ UNCHANGED shown
    BY <1>0, <1>7, HotkeysQuiet DEF Heed
  <2> QED
    BY <2>1, <2>2, SeenStays
<1>8. CASE Refresh
  BY <1>0, <1>8 DEF Refresh, ShownIsCurrent, Readers
<1>9. CASE Draw
  <2>1. ui' = Drawn(ui) /\ shown' = IF Closed(ui) THEN shown ELSE Picture(ui)
    BY <1>9 DEF Draw
  <2> QED
    BY <1>0, <2>1, DrawnTyped DEF ShownIsCurrent
<1>10. CASE Top
  BY <1>0, <1>10, ClickQuiet, SeenStays DEF Top
<1>11. CASE Prompt
  <2>1. CASE UNCHANGED <<ui, shown>> /\ doing["shell"] = "prompt"
    BY <1>0, <2>1, SeenStays
  <2> QED
    BY <1>5, <1>11, <2>1 DEF Prompt, Readers
<1>12. CASE Command
  <2>1. Quiet(ui, ui')
    BY <1>0, <1>2a, <1>12 DEF Command
  <2> QED
    BY <1>12, <2>1, SeenStays DEF Command
<1>13. CASE Poll
  BY <1>0, <1>13, HotkeysQuiet, SeenStays DEF Poll
<1>14. CASE Files
  <2>1. doing["shell"] = "files" /\ UNCHANGED shown
    BY <1>14 DEF Files
  <2> QED
    BY <1>14, <2>1, FilesSeen DEF ShownIsCurrent
<1>15. CASE Window
  <2>1. CASE UNCHANGED <<ui, shown>> /\ doing["shell"] \in {"window", "named"}
    BY <1>0, <2>1, SeenStays
  <2> QED
    BY <1>5, <1>15, <2>1 DEF Window, Readers
<1>16. CASE CreateFile
  <2>1. CASE UNCHANGED ui
    BY <1>0, <1>16, <2>1, SeenStays DEF CreateFile
  <2>2. CASE ui' = [ui EXCEPT !.show_crt_window = 0, !.is_window_crt = 0, !.ncount = 1]
    BY <1>0, <2>2 DEF ShownIsCurrent, UI
  <2> QED
    BY <1>16, <2>1, <2>2 DEF CreateFile
<1>17. CASE ProgramWaits \/ ProgramEdits \/ ProgramExits
  <2>1. CASE /\ Go("program", "none") \/ Go("program", "stuck") \/ Go("program", "edit")
             /\ UNCHANGED <<ui, shown>>
    <3>1. doing'["shell"] = doing["shell"]
      BY <1>0, <2>1 DEF Readers
    <3> QED
      BY <1>0, <2>1, <3>1, SeenStays
  <2> QED
    BY <1>5, <1>17, <2>1 DEF ProgramWaits, ProgramEdits, ProgramExits, Readers
<1>18. CASE ProgramFaults
  <2>1. doing'["shell"] = doing["shell"]
    BY <1>0, <1>18 DEF ProgramFaults, Readers
  <2> QED
    BY <1>0, <1>18, <2>1, SeenStays DEF ProgramFaults
<1>19. CASE Beside
  <2>1. Quiet(ui, ui')
    BY <1>0, <1>2a, <1>19 DEF Beside
  <2> QED
    BY <1>19, <2>1, SeenStays DEF Beside
<1>20. CASE Casm \/ Cube
  <2>1. Quiet(ui, ui') /\ UNCHANGED shown /\ doing["shell"] # "draw"
    BY <1>0, <1>2a, <1>20 DEF Casm, Cube
  <2> QED
    BY <2>1, SeenStays
<1>21. CASE Asks
  BY <1>5, <1>21 DEF Asks, Readers
<1>22. ASSUME NEW r \in Readers, Edit(r)
       PROVE  ShownIsCurrent'
  <2>1. Quiet(ui, ui') /\ UNCHANGED shown
    BY <1>0, <1>2a, <1>22, ClickQuiet, ClickTyped DEF Edit
  <2>2. doing["shell"] = "draw" => doing'["shell"] = "draw"
    BY <1>0, <1>22 DEF Edit, Readers
  <2> QED
    BY <2>1, <2>2, SeenStays
<1> QED
  BY <1>1, <1>2, <1>3, <1>4, <1>6, <1>7, <1>8, <1>9, <1>10, <1>11, <1>12, <1>13, <1>14,
     <1>15, <1>16, <1>17, <1>18, <1>19, <1>20, <1>21, <1>22, Steps

-----------------------------------------------------------------------------
(* The lines.                                                              *)

InWindow == {"window", "name", "named", "content", "filed"}

(* Unless a redraw is due, which is what cuts lines, the shell has what it *)
(* comes to act upon, and the file window is there while it asks in it.    *)
LinesHeld ==
  ui.ncount = 0 =>
    /\ doing["shell"] = "command" => "line" \in whole
    /\ doing["shell"] \in {"named", "content", "filed"} => "name" \in whole
    /\ doing["shell"] = "filed" => "content" \in whole
    /\ doing["shell"] \in InWindow \union {"files"} => ui.mode = 2
    /\ doing["shell"] \in InWindow => ui.show_crt_window = 1

(* Whoever else moves.                                                     *)
LEMMA OthersLeaveLines ==
  ASSUME LinesHeld, Quiet(ui, ui'), doing'["shell"] = doing["shell"], whole \subseteq whole'
  PROVE  LinesHeld'
BY DEF LinesHeld, Quiet

LEMMA StepHoldsLines ==
  ASSUME ConsoleTypeOK, InPlace, LinesHeld, [ConsoleNext]_consoleVars
  PROVE  LinesHeld'
<1> USE DEF Go, InWindow
<1>0. /\ ui \in UI /\ Quiet(ui, ui) /\ doing \in [Readers -> ShellPlaces \union ProgramPlaces]
      /\ whole \subseteq whole
  BY DEF ConsoleTypeOK, Quiet
<1>1. CASE UNCHANGED consoleVars
  BY <1>1 DEF consoleVars, LinesHeld
<1>2. CASE Types \/ ProgramReads
  BY <1>0, <1>2, OthersLeaveLines DEF Types, Strike, ProgramReads
<1>3. ASSUME NEW r \in Readers, Update(r)
      PROVE  LinesHeld'
  BY <1>0, <1>3, ClickQuiet, OthersLeaveLines DEF Update
<1>4. ASSUME NEW r \in Readers, Fetch(r)
      PROVE  LinesHeld'
  BY <1>0, <1>4, OthersLeaveLines DEF Fetch, Take
<1>5. ASSUME NEW r \in Readers, Cut(r)
      PROVE  LinesHeld'
  BY <1>5 DEF Cut, LinesHeld, UI
<1>6. ASSUME NEW r \in Readers, Heed(r)
      PROVE  LinesHeld'
  <2>1. Quiet(ui, ui')
    BY <1>0, <1>6, HotkeysQuiet DEF Heed
  <2>2. CASE r = "program" \/ ~(IsPlain(fetched[r]) /\ fetched[r].key = "enter")
    <3>1. doing'["shell"] = doing["shell"] /\ whole' = whole
      BY <1>0, <1>6, <2>2 DEF Heed, Readers
    <3> QED
      BY <2>1, <3>1, OthersLeaveLines
  <2>3. CASE r = "shell" /\ IsPlain(fetched[r]) /\ fetched[r].key = "enter"
    <3>1. /\ doing'["shell"] = After("shell")
          /\ whole' = whole \union ({doing["shell"]} \ {"own"})
      BY <1>0, <1>6, <2>3 DEF Heed
    <3>2. CASE doing["shell"] = "line"
      BY <3>1, <3>2 DEF LinesHeld, After
    <3>3. CASE doing["shell"] = "name"
      BY <2>1, <3>1, <3>3 DEF LinesHeld, After, Quiet
    <3>4. CASE doing["shell"] = "content"
      BY <2>1, <3>1, <3>4 DEF LinesHeld, After, Quiet
    <3>5. CASE doing["shell"] = "own"
      BY <3>1, <3>5 DEF LinesHeld, After
    <3> QED
      BY <1>6, <2>3, <3>2, <3>3, <3>4, <3>5 DEF Heed, Reading, Lines
  <2> QED
    BY <2>2, <2>3 DEF Readers
<1>7. CASE Refresh \/ Draw \/ Command \/ Poll \/ CreateFile \/ Casm \/ Asks \/ Cube
  <2>1. doing'["shell"] \in {"draw", "top", "prompt", "refresh", "cube", "casm", "asking",
                            "edit", "own"}
    BY <1>0, <1>7 DEF Refresh, Draw, Command, Poll, CreateFile, Casm, Asks, Cube, Acquire,
                      Readers
  <2> QED
    BY <2>1 DEF LinesHeld
<1>8. CASE Top
  <2>1. doing'["shell"] \in {"refresh", "prompt"}
    BY <1>0, <1>8 DEF Top, Readers
  <2> QED
    BY <2>1 DEF LinesHeld
<1>9. CASE Prompt
  <2>1. UNCHANGED ui /\ (doing'["shell"] \in {"line", "poll"} \/ (doing'["shell"] = "files" /\ ui.mode = 2))
    BY <1>0, <1>9 DEF Prompt, Acquire, Readers
  <2> QED
    BY <2>1 DEF LinesHeld
<1>10. CASE Files
  <2>1. doing["shell"] = "files"
    BY <1>10 DEF Files
  <2> QED
    BY <1>10, <2>1, FilesSeen DEF LinesHeld
<1>11. CASE Window
  <2>1. CASE doing["shell"] = "window" /\ ui.ncount = 1 /\ UNCHANGED ui
    BY <2>1 DEF LinesHeld
  <2>2. CASE doing["shell"] = "window" /\ Acquire("shell", "name")
    <3>1. doing'["shell"] = "name" /\ UNCHANGED ui
      BY <1>0, <2>2 DEF Acquire, Readers
    <3> QED
      BY <2>2, <3>1 DEF LinesHeld
  <2>3. CASE doing["shell"] = "named" /\ Acquire("shell", "content")
    <3>1. doing'["shell"] = "content" /\ UNCHANGED ui /\ whole' = whole \ {"content"}
      BY <1>0, <2>3 DEF Acquire, Readers
    <3> QED
      BY <2>3, <3>1 DEF LinesHeld
  <2> QED
    BY <1>11, <2>1, <2>2, <2>3 DEF Window
<1>12. CASE ProgramWaits \/ ProgramEdits \/ ProgramExits \/ ProgramFaults
  <2>1. UNCHANGED ui /\ doing'["shell"] = doing["shell"] /\ UNCHANGED whole
    BY <1>0, <1>12 DEF ProgramWaits, ProgramEdits, ProgramExits, ProgramFaults, Acquire,
                       Readers
  <2> QED
    BY <2>1 DEF LinesHeld
<1>13. CASE Beside
  <2>1. Quiet(ui, ui')
    BY <1>0, <1>13 DEF Beside, Quiet, UI
  <2> QED
    BY <1>0, <1>13, <2>1, OthersLeaveLines DEF Beside
<1>14. CASE Edit("shell")
  <2>1. doing'["shell"] \in {"edit", "top"}
    BY <1>0, <1>14 DEF Edit, Readers
  <2> QED
    BY <2>1 DEF LinesHeld
<1>15. CASE Edit("program")
  <2>1. Quiet(ui, ui')
    BY <1>0, <1>15, ClickQuiet DEF Edit
  <2>2. doing'["shell"] = doing["shell"] /\ UNCHANGED whole
    BY <1>0, <1>15 DEF Edit, Readers
  <2> QED
    BY <1>0, <2>1, <2>2, OthersLeaveLines
<1> QED
  BY <1>1, <1>2, <1>3, <1>4, <1>5, <1>6, <1>7, <1>8, <1>9, <1>10, <1>11, <1>12, <1>13,
     <1>14, <1>15, Steps DEF Readers

(* What ActsOnWholeLines says of a step.                                   *)
ActsOnWhole ==
  /\ doing["shell"] = "command" /\ doing'["shell"] \notin {"command", "refresh"} =>
       "line" \in whole
  /\ doing["shell"] = "filed" /\ doing'["shell"] = "top" =>
       /\ {"name", "content"} \subseteq whole
       /\ shown.window = 1 /\ ui.mode = 2

(* Where the shell is after a line, it alone goes on, with one action.     *)
LEMMA ShellGoesOn ==
  ASSUME ConsoleTypeOK, InPlace, [ConsoleNext]_consoleVars,
         doing["shell"] \in {"command", "filed"}, doing'["shell"] # doing["shell"]
  PROVE  Command \/ CreateFile
<1> USE DEF Go, Readers
<1>0. doing \in [Readers -> ShellPlaces \union ProgramPlaces]
  BY DEF ConsoleTypeOK
<1>1. ~UNCHANGED consoleVars
  BY DEF consoleVars
<1>2. ASSUME NEW r \in Readers, Update(r) \/ Fetch(r) \/ Cut(r) \/ Heed(r)
      PROVE  FALSE
  <2>1. doing'["shell"] = doing["shell"] \/ r = "shell"
    BY <1>0, <1>2 DEF Update, Fetch, Take, Cut, Heed
  <2>2. r # "shell"
    BY <1>2 DEF InPlace, Update, Fetch, Take, Cut, Heed, Reading, Lines
  <2> QED
    BY <2>1, <2>2
<1>3. ASSUME NEW r \in Readers, Edit(r)
      PROVE  FALSE
  <2>1. doing'["shell"] = doing["shell"] \/ r = "shell"
    BY <1>0, <1>3 DEF Edit
  <2>2. r # "shell"
    BY <1>3 DEF Edit
  <2> QED
    BY <2>1, <2>2
<1>4. ~(\/ Types \/ ProgramReads \/ ProgramWaits \/ ProgramEdits \/ ProgramExits
        \/ ProgramFaults \/ Beside)
  BY <1>0 DEF Types, Strike, ProgramReads, ProgramWaits, ProgramEdits, ProgramExits,
              ProgramFaults, Beside, Acquire
<1>5. ~(\/ Refresh \/ Draw \/ Top \/ Prompt \/ Casm \/ Asks \/ Cube \/ Poll \/ Files
        \/ Window)
  BY DEF Refresh, Draw, Top, Prompt, Casm, Asks, Cube, Poll, Files, Window
<1> QED
  BY <1>1, <1>2, <1>3, <1>4, <1>5, Steps

LEMMA StepActsOnWhole ==
  ASSUME ConsoleTypeOK, InPlace, ShownIsCurrent, LinesHeld, [ConsoleNext]_consoleVars
  PROVE  [ActsOnWhole]_consoleVars
<1>0. ui \in UI /\ doing \in [Readers -> ShellPlaces \union ProgramPlaces]
  BY DEF ConsoleTypeOK
<1>1. CASE doing["shell"] = "command" /\ doing'["shell"] \notin {"command", "refresh"}
  <2>1. Command
    BY <1>1, ShellGoesOn DEF CreateFile
  <2>2. ui.ncount = 0
    BY <1>0, <1>1, <2>1 DEF Command, Go, Readers
  <2> QED
    BY <1>1, <2>2 DEF LinesHeld, ActsOnWhole
<1>2. CASE doing["shell"] = "filed" /\ doing'["shell"] = "top"
  <2>1. CreateFile
    BY <1>2, ShellGoesOn DEF Command
  <2>2. ui.ncount = 0
    BY <1>0, <1>2, <2>1 DEF CreateFile, Go, Readers, UI
  <2> QED
    BY <1>2, <2>2 DEF LinesHeld, ActsOnWhole, ShownIsCurrent, Picture, InWindow
<1> QED
  BY <1>1, <1>2 DEF ActsOnWhole

-----------------------------------------------------------------------------
(* The modifiers.                                                          *)

(* What would be struck now, behind the codes that wait.                   *)
Now == [key |-> "now", make |-> TRUE, held |-> held, lacks |-> dropped]
Points == 1 .. Len(queue) + 1
At(i) == IF i <= Len(queue) THEN queue[i] ELSE Now

(* The last code of m before the i-th was put in the ring; none of m is    *)
(* from i to j.                                                            *)
Heard(m, i) == At(i).key \notin Modifiers /\ m \notin At(i).lacks
Silent(m, i, j) == \A k \in i .. j : At(k).key # m

(* What r knows of m, or will when the code of m that it, or for Ctrl who  *)
(* reads a line, has got is looked at, is v.                               *)
Brings(s, r, m) ==
  Reading(s) /\ IsModifier(fetched[s]) /\ fetched[s].key = m /\ (m = "shift" => s = r)
Told(r, m, v) ==
  <<r, m>> \notin unheeded =>
    /\ \A s \in Readers : Brings(s, r, m) => fetched[s].make = v
    /\ (\A s \in Readers : ~Brings(s, r, m)) => Pressed(r, m) = v

(* Between two codes of a modifier all codes agree on it; those before the *)
(* first agree with the last code taken and with what the readers know;    *)
(* and so does a code that was taken.                                      *)
Steady ==
  \A m \in Modifiers : \A i, j \in Points :
    i < j /\ Heard(m, j) /\ Silent(m, i + 1, j - 1) =>
      (m \in At(i).held <=> m \in At(j).held)
Following ==
  \A m \in Modifiers : \A j \in Points :
    Heard(m, j) /\ Silent(m, 1, j - 1) =>
      /\ m = "shift" => (asof <=> m \in At(j).held)
      /\ \A r \in Readers : Told(r, m, m \in At(j).held)
Taken ==
  \A r \in Readers : \A m \in Modifiers :
    IsPlain(fetched[r]) /\ m \notin fetched[r].lacks => Told(r, m, m \in fetched[r].held)

Understood == Steady /\ Following /\ Taken

(* A truth, as a value.                                                    *)
LEMMA TruthValue ==
  ASSUME NEW S, NEW m
  PROVE  \E v \in BOOLEAN : v <=> m \in S
<1>1. CASE m \in S
  <2>1. TRUE <=> m \in S
    BY <1>1
  <2> QED
    BY <2>1
<1>2. CASE m \notin S
  <2>1. FALSE <=> m \in S
    BY <1>2
  <2> QED
    BY <2>1
<1> QED
  BY <1>1, <1>2

(* What r knows stays the same if nothing it hangs on changes.             *)
LEMMA ToldStays ==
  ASSUME UNCHANGED <<unheeded, fetched, ctrl_pressed, shift_pressed>>,
         \A s \in Readers : Reading(s)' = Reading(s),
         NEW r \in Readers, NEW m, NEW v
  PROVE  Told(r, m, v)' <=> Told(r, m, v)
BY DEF Told, Brings, Pressed, Reading

LEMMA UnderstoodKept ==
  ASSUME ConsoleTypeOK, Understood, UNCHANGED <<queue, struck, asof>>,
         \A r \in Readers : fetched'[r] = fetched[r] \/ fetched'[r] = Zero,
         \A r \in Readers, m \in Modifiers, v \in BOOLEAN :
           Told(r, m, v) /\ (fetched[r] # Zero \/ (m = "shift" => v = asof)) => Told(r, m, v)'
  PROVE  Understood'
<1>1. /\ Len(queue') = Len(queue) /\ Points' = Points
      /\ \A i \in Points : At(i)' = At(i)
  BY DEF struck, At, Now, Points
<1>2. \A m : \A i \in Points : Heard(m, i)' <=> Heard(m, i)
  BY <1>1 DEF Heard
<1>3. \A m : \A i, j \in 0 .. Len(queue) + 1 : i > 0 => (Silent(m, i, j)' <=> Silent(m, i, j))
  BY <1>1 DEF Silent, Points
<1>4. Steady'
  BY <1>1, <1>2, <1>3 DEF Understood, Steady, Points
<1>5. Following'
  <2>1. SUFFICES ASSUME NEW m \in Modifiers, NEW j \in Points', Heard(m, j)',
                        Silent(m, 1, j - 1)'
                 PROVE  /\ m = "shift" => (asof' <=> (m \in At(j).held)')
                        /\ \A r \in Readers : Told(r, m, m \in At(j).held)'
    BY DEF Following
  <2>2. j \in Points /\ Heard(m, j) /\ Silent(m, 1, j - 1) /\ At(j)' = At(j)
    BY <1>1, <1>2, <1>3, <2>1 DEF Points
  <2>3. /\ m = "shift" => (asof <=> m \in At(j).held)
        /\ \A r \in Readers : Told(r, m, m \in At(j).held)
    BY <2>2 DEF Understood, Following
  <2>4. PICK v \in BOOLEAN : v <=> m \in At(j).held
    BY TruthValue
  <2>5. \A r \in Readers : Told(r, m, v)
    BY <2>3, <2>4 DEF Told
  <2>6. m = "shift" => v = asof
    BY <2>3, <2>4 DEF ConsoleTypeOK
  <2>7. \A r \in Readers : Told(r, m, v)'
    BY <2>5, <2>6
  <2>8. v <=> (m \in At(j).held)'
    BY <2>2, <2>4
  <2> QED
    BY <2>6, <2>7, <2>8 DEF Told, struck
<1>6. Taken'
  <2>1. SUFFICES ASSUME NEW r \in Readers, NEW m \in Modifiers,
                        IsPlain(fetched[r])', m \notin fetched'[r].lacks
                 PROVE  Told(r, m, m \in fetched[r].held)'
    BY DEF Taken
  <2>2. fetched'[r] = fetched[r] /\ fetched[r] # Zero
    BY <2>1 DEF IsPlain
  <2>3. PICK v \in BOOLEAN : v <=> m \in fetched[r].held
    BY TruthValue
  <2>4. Told(r, m, m \in fetched[r].held)
    BY <2>1, <2>2 DEF Understood, Taken, IsPlain
  <2>5. Told(r, m, v)
    BY <2>3, <2>4 DEF Told
  <2>6. Told(r, m, v)'
    BY <2>2, <2>5
  <2> QED
    BY <2>2, <2>3, <2>6 DEF Told
<1> QED
  BY <1>4, <1>5, <1>6 DEF Understood

(* What would be struck next, after the step.                              *)
Struck == [key |-> "now", make |-> TRUE, held |-> held', lacks |-> dropped']

(* A code struck goes behind those that wait.                              *)
LEMMA StruckPoints ==
  ASSUME ConsoleTypeOK, Types, NEW n \in Nat, n = Len(queue)
  PROVE  \E key \in Keys \union Modifiers :
           /\ \/ /\ Len(queue') = n /\ At(n + 1)' = Struck
                 /\ key \in Modifiers => dropped' = dropped \union {key}
              \/ /\ Len(queue') = n + 1 /\ At(n + 2)' = Struck
                 /\ key \in Modifiers => dropped' = dropped \ {key}
                 /\ At(n + 1).key' = key /\ At(n + 1).held' = held'
                 /\ key \notin Modifiers => At(n + 1).lacks' = dropped
           /\ \A i \in 1 .. n : At(i)' = At(i)
           /\ key \notin Modifiers => UNCHANGED struck
           /\ \A m \in Modifiers \ {key} : m \in held' <=> m \in held
           /\ UNCHANGED <<keys, doing, fetched, asof>>
<1>1. PICK key \in Keys \union Modifiers, make \in BOOLEAN : Strike(key, make)
  BY DEF Types, ConsoleTypeOK
<1> DEFINE down == IF key \notin Modifiers THEN held
                   ELSE IF make THEN held \union {key} ELSE held \ {key}
           missed == IF key \notin Modifiers THEN dropped
                     ELSE IF Ring("shell")!Full THEN dropped \union {key}
                     ELSE dropped \ {key}
           code == Code(key, make, down, missed)
<1>2. /\ held' = down /\ dropped' = missed
      /\ UNCHANGED <<keys, doing, fetched, asof>>
  BY <1>1 DEF Strike
<1>3. queue' = IF Ring("shell")!Full THEN queue ELSE Append(queue, code)
  BY <1>1 DEF Strike, Ring!Put
<1>4. queue \in Seq(GoodCodes) /\ Len(queue) \in Nat
  BY DEF ConsoleTypeOK
<1>5. code.key = key /\ code.held = down /\ (key \notin Modifiers => code.lacks = missed)
  BY DEF Code
<1>6. /\ key \notin Modifiers => UNCHANGED struck
      /\ \A m \in Modifiers \ {key} : m \in held' <=> m \in held
  BY <1>2 DEF struck
<1> HIDE DEF code, down
<1>7. CASE Ring("shell")!Full
  <2>1. queue' = queue /\ (key \in Modifiers => dropped' = dropped \union {key})
    BY <1>2, <1>3, <1>7
  <2>2. \A i \in 1 .. n : At(i)' = At(i)
    BY <1>4, <2>1 DEF At
  <2>3. At(n + 1)' = Struck
    BY <1>4, <2>1 DEF At, Now, Struck
  <2> QED
    BY <1>2, <1>6, <2>1, <2>2, <2>3
<1>8. CASE ~Ring("shell")!Full
  <2>1. queue' = Append(queue, code)
    BY <1>3, <1>8
  <2>2. /\ Len(queue') = Len(queue) + 1
        /\ \A i \in 1 .. Len(queue) : queue'[i] = queue[i]
        /\ queue'[Len(queue) + 1] = code
    BY <1>4, <2>1
  <2>3. \A i \in 1 .. n : At(i)' = At(i)
    BY <1>4, <2>2 DEF At
  <2>4. At(n + 1)' = code
    BY <1>4, <2>2 DEF At
  <2>5. At(n + 2)' = Struck
    BY <1>4, <2>2 DEF At, Now, Struck
  <2>6. key \in Modifiers => dropped' = dropped \ {key}
    BY <1>2, <1>8
  <2>7. key \notin Modifiers => code.lacks = dropped
    BY <1>5
  <2> QED
    BY <1>2, <1>5, <1>6, <2>2, <2>3, <2>4, <2>5, <2>6, <2>7
<1> QED
  BY <1>7, <1>8

(* What agrees on m with a code that is heard after the strike, agreed     *)
(* with one that was heard before.                                         *)
LEMMA StruckHeard ==
  ASSUME ConsoleTypeOK, Types, NEW n \in Nat, n = Len(queue),
         NEW m \in Modifiers, NEW i \in 0 .. n, NEW j \in Points', i < j,
         Heard(m, j)', Silent(m, i + 1, j - 1)'
  PROVE  \E k \in Points : /\ i < k /\ Heard(m, k) /\ Silent(m, i + 1, k - 1)
                           /\ (m \in At(k).held) <=> (m \in At(j).held)'
<1>1. PICK key \in Keys \union Modifiers :
        /\ \/ /\ Len(queue') = n /\ At(n + 1)' = Struck
              /\ key \in Modifiers => dropped' = dropped \union {key}
           \/ /\ Len(queue') = n + 1 /\ At(n + 2)' = Struck
              /\ key \in Modifiers => dropped' = dropped \ {key}
              /\ At(n + 1).key' = key /\ At(n + 1).held' = held'
              /\ key \notin Modifiers => At(n + 1).lacks' = dropped
        /\ \A a \in 1 .. n : At(a)' = At(a)
        /\ key \notin Modifiers => UNCHANGED struck
        /\ \A a \in Modifiers \ {key} : a \in held' <=> a \in held
  BY StruckPoints
<1>2. At(n + 1) = Now /\ Points = 1 .. n + 1 /\ "now" \notin Modifiers
  BY ConsoleAssumption DEF At, Points
<1>3. CASE j <= n
  <2>1. At(j)' = At(j) /\ Heard(m, j) /\ j \in Points
    BY <1>1, <1>2, <1>3 DEF Heard, Points
  <2>2. Silent(m, i + 1, j - 1)
    BY <1>1, <1>3 DEF Silent, Points
  <2> QED
    BY <2>1, <2>2
<1>4. ASSUME m \notin dropped, m \in held <=> (m \in At(j).held)', Silent(m, i + 1, n)
      PROVE  \E k \in Points : /\ i < k /\ Heard(m, k) /\ Silent(m, i + 1, k - 1)
                               /\ (m \in At(k).held) <=> (m \in At(j).held)'
  <2>1. Heard(m, n + 1) /\ (m \in At(n + 1).held <=> m \in held)
    BY <1>2, <1>4 DEF Heard, Now
  <2>2. n + 1 \in Points /\ i < n + 1 /\ (n + 1) - 1 = n
    BY <1>2
  <2> QED
    BY <1>4, <2>1, <2>2
<1>5. CASE Len(queue') = n /\ j = n + 1
  <2>1. At(j)' = Struck /\ (key \in Modifiers => dropped' = dropped \union {key})
    BY <1>1, <1>5
  <2>2. m \notin dropped' /\ ((m \in At(j).held)' <=> m \in held')
    BY <2>1 DEF Heard, Struck
  <2>3. m \notin dropped /\ (m \in held' <=> m \in held)
    BY <1>1, <2>1, <2>2 DEF struck
  <2>4. Silent(m, i + 1, n)
    BY <1>1, <1>5 DEF Silent
  <2> QED
    BY <1>4, <2>2, <2>3, <2>4
<1>6. CASE Len(queue') = n + 1 /\ j = n + 1
  <2>1. /\ At(j).key' = key /\ At(j).held' = held'
        /\ key \notin Modifiers => At(j).lacks' = dropped
    BY <1>1, <1>6
  <2>2. key \notin Modifiers /\ m \notin dropped
    BY <2>1 DEF Heard
  <2>3. (m \in At(j).held)' <=> m \in held
    BY <1>1, <2>1, <2>2 DEF struck
  <2>4. Silent(m, i + 1, n)
    BY <1>1, <1>6 DEF Silent
  <2> QED
    BY <1>4, <2>2, <2>3, <2>4
<1>7. CASE Len(queue') = n + 1 /\ j = n + 2
  <2>1. /\ At(j)' = Struck /\ (key \in Modifiers => dropped' = dropped \ {key})
        /\ At(n + 1).key' = key
    BY <1>1, <1>7
  <2>2. m \notin dropped' /\ ((m \in At(j).held)' <=> m \in held')
    BY <2>1 DEF Heard, Struck
  <2>3. key # m
    BY <1>7, <2>1 DEF Silent
  <2>4. m \notin dropped /\ (m \in held' <=> m \in held)
    BY <1>1, <2>1, <2>2, <2>3 DEF struck
  <2>5. Silent(m, i + 1, n)
    BY <1>1, <1>7 DEF Silent
  <2> QED
    BY <1>4, <2>2, <2>4, <2>5
<1> QED
  BY <1>1, <1>3, <1>5, <1>6, <1>7 DEF Points

LEMMA StrikeUnderstood ==
  ASSUME ConsoleTypeOK, Understood, Types
  PROVE  Understood'
<1>1. PICK n \in Nat : n = Len(queue)
  BY DEF ConsoleTypeOK
<1>2. UNCHANGED <<keys, doing, fetched, asof>> /\ (\A a \in 1 .. n : At(a)' = At(a))
  BY <1>1, StruckPoints
<1>3. Steady'
  <2>1. SUFFICES ASSUME NEW m \in Modifiers, NEW i \in Points', NEW j \in Points', i < j,
                        Heard(m, j)', Silent(m, i + 1, j - 1)'
                 PROVE  (m \in At(i).held <=> m \in At(j).held)'
    BY DEF Steady
  <2>2. CASE i <= n
    <3>1. PICK k \in Points : /\ i < k /\ Heard(m, k) /\ Silent(m, i + 1, k - 1)
                              /\ (m \in At(k).held) <=> (m \in At(j).held)'
      BY <1>1, <2>1, <2>2, StruckHeard DEF Points
    <3>2. i \in Points /\ At(i)' = At(i)
      BY <1>1, <1>2, <2>2 DEF Points
    <3>3. m \in At(i).held <=> m \in At(k).held
      BY <3>1, <3>2 DEF Understood, Steady
    <3> QED
      BY <3>1, <3>2, <3>3
  <2>3. CASE i > n
    <3>1. i = n + 1 /\ j = n + 2 /\ At(i).held' = held' /\ At(j)' = Struck
      BY <1>1, <2>1, <2>3, StruckPoints DEF Points
    <3> QED
      BY <3>1 DEF Struck
  <2> QED
    BY <1>1, <2>2, <2>3 DEF Points
<1>4. \A r \in Readers : \A m, v : Told(r, m, v)' <=> Told(r, m, v)
  BY <1>2, ToldStays DEF keys, Reading
<1>5. Following'
  <2>1. SUFFICES ASSUME NEW m \in Modifiers, NEW j \in Points', Heard(m, j)',
                        Silent(m, 1, j - 1)'
                 PROVE  /\ m = "shift" => (asof' <=> (m \in At(j).held)')
                        /\ \A r \in Readers : Told(r, m, m \in At(j).held)'
    BY DEF Following
  <2>2. PICK k \in Points : /\ Heard(m, k) /\ Silent(m, 1, k - 1)
                            /\ (m \in At(k).held) <=> (m \in At(j).held)'
    <3>1. 0 \in 0 .. n /\ 0 < j /\ Silent(m, 0 + 1, j - 1)'
      BY <1>1, <2>1 DEF Points
    <3>2. \E k \in Points : /\ 0 < k /\ Heard(m, k) /\ Silent(m, 0 + 1, k - 1)
                            /\ (m \in At(k).held) <=> (m \in At(j).held)'
      BY <1>1, <2>1, <3>1, StruckHeard
    <3> QED
      BY <3>2
  <2>3. /\ m = "shift" => (asof <=> m \in At(k).held)
        /\ \A r \in Readers : Told(r, m, m \in At(k).held)
    BY <2>2 DEF Understood, Following
  <2>4. PICK v \in BOOLEAN : v <=> m \in At(k).held
    BY TruthValue
  <2>5. \A r \in Readers : Told(r, m, v)
    BY <2>3, <2>4 DEF Told
  <2>6. \A r \in Readers : Told(r, m, v)'
    BY <1>4, <2>5
  <2>7. v <=> (m \in At(j).held)'
    BY <2>2, <2>4
  <2>8. \A r \in Readers : Told(r, m, m \in At(j).held)'
    BY <2>6, <2>7 DEF Told
  <2> QED
    BY <1>2, <2>2, <2>3, <2>8
<1>6. Taken'
  <2>1. SUFFICES ASSUME NEW r \in Readers, NEW m \in Modifiers,
                        IsPlain(fetched[r])', m \notin fetched'[r].lacks
                 PROVE  Told(r, m, m \in fetched[r].held)'
    BY DEF Taken
  <2>2. Told(r, m, m \in fetched[r].held)
    BY <1>2, <2>1 DEF Understood, Taken, IsPlain
  <2> QED
    BY <1>2, <2>2 DEF Told, Brings, Pressed, Reading, keys
<1> QED
  BY <1>3, <1>5, <1>6 DEF Understood

(* A code taken from the ring.                                             *)
LEMMA TakenUnderstood ==
  ASSUME ConsoleTypeOK, Understood, queue # <<>>, queue' = Tail(queue), UNCHANGED struck,
         NEW c, c = Head(queue), asof' = ("shift" \in c.held),
         \A s \in Readers : fetched'[s] = c \/ fetched'[s] = Overtaken(fetched[s], c),
         \A s \in Readers : \A m \in Modifiers : \A v \in BOOLEAN :
           c.key # m /\ Told(s, m, v) => Told(s, m, v)',
         \A s \in Readers : c.key \in Modifiers => Told(s, c.key, c.make)'
  PROVE  Understood'
<1>1. PICK n \in Nat : n = Len(queue) /\ n > 0 /\ Len(queue') = n - 1
  BY DEF ConsoleTypeOK
<1>2. c \in GoodCodes /\ At(1) = c
  BY <1>1, HeadTyped DEF At, ConsoleTypeOK
<1>3. Points' = 1 .. n /\ Points = 1 .. n + 1 /\ (\A i \in 1 .. n : At(i)' = At(i + 1))
  BY <1>1 DEF Points, At, Now, struck, ConsoleTypeOK
<1>4. \A m : \A i, j \in 1 .. n + 1 : Silent(m, i, j - 1)' => Silent(m, i + 1, j)
  <2>1. SUFFICES ASSUME NEW m, NEW i \in 1 .. n + 1, NEW j \in 1 .. n + 1,
                        Silent(m, i, j - 1)', NEW k \in (i + 1) .. j
                 PROVE  At(k).key # m
    BY DEF Silent
  <2>2. k - 1 \in i .. (j - 1) /\ k - 1 \in 1 .. n /\ (k - 1) + 1 = k
    OBVIOUS
  <2>3. \A l \in i .. (j - 1) : At(l).key' # m
    BY <2>1 DEF Silent
  <2>4. PICK l \in 1 .. n : l = k - 1
    BY <2>2
  <2>5. At(l)' = At(k)
    BY <1>3, <2>2, <2>4
  <2>6. At(l).key' # m
    BY <2>2, <2>3, <2>4
  <2> QED
    BY <2>5, <2>6
<1>5. \A m : \A j \in 1 .. n : Heard(m, j)' => Heard(m, j + 1)
  BY <1>3 DEF Heard
<1>6. Steady'
  <2>1. SUFFICES ASSUME NEW m \in Modifiers, NEW i \in Points', NEW j \in Points', i < j,
                        Heard(m, j)', Silent(m, i + 1, j - 1)'
                 PROVE  (m \in At(i).held <=> m \in At(j).held)'
    BY DEF Steady
  <2>2. i \in 1 .. n /\ j \in 1 .. n
    BY <1>3
  <2>3. Heard(m, j + 1)
    BY <1>5, <2>1, <2>2
  <2>4. Silent(m, (i + 1) + 1, j) /\ (j + 1) - 1 = j
    BY <1>4, <2>1, <2>2
  <2>5. m \in At(i + 1).held <=> m \in At(j + 1).held
    BY <1>3, <2>1, <2>2, <2>3, <2>4 DEF Understood, Steady
  <2> QED
    BY <1>3, <2>2, <2>5
<1>7. Following'
  <2>1. SUFFICES ASSUME NEW m \in Modifiers, NEW j \in Points', Heard(m, j)',
                        Silent(m, 1, j - 1)'
                 PROVE  /\ m = "shift" => (asof' <=> (m \in At(j).held)')
                        /\ \A s \in Readers : Told(s, m, m \in At(j).held)'
    BY DEF Following
  <2>2. j \in 1 .. n /\ (j + 1) - 1 = j
    BY <1>3
  <2>3. Heard(m, j + 1) /\ Silent(m, 1 + 1, j)
    BY <1>4, <1>5, <2>1, <2>2
  <2>4. m \in c.held <=> m \in At(j + 1).held
    <3>1. 1 < j + 1 /\ 1 \in Points /\ j + 1 \in Points
      BY <1>3, <2>2
    <3> QED
      BY <1>2, <2>2, <2>3, <3>1 DEF Understood, Steady
  <2>5. m \in c.held <=> (m \in At(j).held)'
    BY <1>3, <2>2, <2>4
  <2>6. PICK v \in BOOLEAN : v <=> m \in c.held
    BY TruthValue
  <2>7. \A s \in Readers : Told(s, m, v)'
    <3>1. CASE c.key = m
      <4>1. c.make = v
        BY <1>2, <2>6, <3>1 DEF GoodCodes, Codes, WellFormed
      <4> QED
        BY <3>1, <4>1
    <3>2. CASE c.key # m
      <4>1. Silent(m, 1, j)
        BY <1>2, <2>2, <2>3, <3>2 DEF Silent
      <4>2. j + 1 \in Points
        BY <1>3, <2>2
      <4>3. \A s \in Readers : Told(s, m, m \in At(j + 1).held)
        BY <2>2, <2>3, <4>1, <4>2 DEF Understood, Following
      <4>4. \A s \in Readers : Told(s, m, v)
        BY <2>4, <2>6, <4>3 DEF Told
      <4> QED
        BY <3>2, <4>4
    <3> QED
      BY <3>1, <3>2
  <2>8. v <=> (m \in At(j).held)'
    BY <2>5, <2>6
  <2>9. \A s \in Readers : Told(s, m, m \in At(j).held)'
    BY <2>7, <2>8 DEF Told
  <2> QED
    BY <2>5, <2>9
<1>8. Taken'
  <2>1. SUFFICES ASSUME NEW s \in Readers, NEW m \in Modifiers,
                        IsPlain(fetched[s])', m \notin fetched'[s].lacks
                 PROVE  Told(s, m, m \in fetched[s].held)'
    BY DEF Taken
  <2>2. PICK v \in BOOLEAN : v <=> m \in fetched'[s].held
    BY TruthValue
  <2>3. CASE fetched'[s] = c
    <3>1. c.key \notin Modifiers /\ m \notin c.lacks
      BY <2>1, <2>3 DEF IsPlain
    <3>2. 1 \in Points /\ Heard(m, 1) /\ Silent(m, 1, 1 - 1)
      BY <1>1, <1>2, <3>1 DEF Points, Heard, Silent
    <3>3. Told(s, m, m \in At(1).held)
      BY <3>2 DEF Understood, Following
    <3>4. Told(s, m, v)
      BY <1>2, <2>2, <2>3, <3>3 DEF Told
    <3> QED
      BY <2>2, <3>1, <3>4 DEF Told
  <2>4. CASE fetched'[s] = Overtaken(fetched[s], c)
    <3>1. /\ IsPlain(fetched[s]) /\ m \notin fetched[s].lacks /\ c.key # m
          /\ fetched'[s].held = fetched[s].held
      <4>1. CASE IsPlain(fetched[s]) /\ IsModifier(c)
        <5>1. fetched[s] \in GoodCodes /\ fetched'[s] = [fetched[s] EXCEPT !.lacks = @ \union {c.key}]
          BY <2>4, <4>1 DEF Overtaken, IsPlain, ConsoleTypeOK
        <5> QED
          BY <2>1, <4>1, <5>1 DEF GoodCodes, Codes
      <4>2. CASE ~(IsPlain(fetched[s]) /\ IsModifier(c))
        <5>1. fetched'[s] = fetched[s]
          BY <2>4, <4>2 DEF Overtaken
        <5>2. c.key \notin Modifiers
          BY <1>2, <2>1, <4>2, <5>1, ConsoleAssumption DEF IsPlain, IsModifier, GoodCodes
        <5> QED
          BY <2>1, <5>1, <5>2 DEF IsPlain
      <4> QED
        BY <4>1, <4>2
    <3>2. Told(s, m, m \in fetched[s].held)
      BY <3>1 DEF Understood, Taken
    <3>3. Told(s, m, v)
      BY <2>2, <3>1, <3>2 DEF Told
    <3> QED
      BY <2>2, <3>1, <3>3 DEF Told
  <2> QED
    BY <2>3, <2>4
<1> QED
  BY <1>6, <1>7, <1>8 DEF Understood

LEMMA OvertakenModifier ==
  ASSUME NEW c \in GoodCodes \union {Zero}, NEW later
  PROVE  /\ IsModifier(Overtaken(c, later)) <=> IsModifier(c)
         /\ IsModifier(c) => Overtaken(c, later) = c
<1>1. CASE IsPlain(c) /\ IsModifier(later)
  <2>1. c \in Codes /\ Overtaken(c, later) = [c EXCEPT !.lacks = @ \union {later.key}]
    BY <1>1 DEF Overtaken, IsPlain, GoodCodes
  <2>2. Overtaken(c, later).key = c.key
    BY <2>1 DEF Codes
  <2> QED
    BY <1>1, <2>2 DEF IsPlain, IsModifier
<1>2. CASE ~(IsPlain(c) /\ IsModifier(later))
  BY <1>2 DEF Overtaken, IsModifier
<1> QED
  BY <1>1, <1>2

(* What a reader knows once it has taken a code, of other modifiers and of *)
(* the one the code is of.                                                 *)
LEMMA TakeTold ==
  ASSUME ConsoleTypeOK, InPlace, NEW r \in Readers, Fetch(r), queue # <<>>,
         NEW c \in GoodCodes, c = Head(queue),
         NEW s \in Readers, NEW m \in Modifiers, NEW v \in BOOLEAN,
         IF c.key = m THEN v = c.make ELSE Told(s, m, v)
  PROVE  Told(s, m, v)'
<1>1. /\ fetched' = [x \in Readers |-> IF x = r THEN c ELSE Overtaken(fetched[x], c)]
      /\ unheeded' = MissedBy(r, c)
      /\ UNCHANGED <<ctrl_pressed, shift_pressed, doing>>
  BY DEF Fetch, Take
<1>2. c # Zero
  BY ConsoleAssumption DEF GoodCodes
<1>3. \A x \in Readers : Reading(x)' = Reading(x)
  BY <1>1 DEF Reading
<1>4. \A x \in Readers : x # r =>
        /\ IsModifier(fetched[x])' <=> IsModifier(fetched[x])
        /\ IsModifier(fetched[x]) => fetched'[x] = fetched[x]
  <2>1. \A x \in Readers : x # r => fetched'[x] = Overtaken(fetched[x], c)
    BY <1>1
  <2>2. \A x \in Readers : fetched[x] \in GoodCodes \union {Zero}
    BY DEF ConsoleTypeOK
  <2>3. \A x \in Readers :
          /\ IsModifier(Overtaken(fetched[x], c)) <=> IsModifier(fetched[x])
          /\ IsModifier(fetched[x]) => Overtaken(fetched[x], c) = fetched[x]
    BY <2>2, OvertakenModifier
  <2> QED
    BY <2>1, <2>3 DEF IsModifier
<1>5. fetched[r] = Zero /\ fetched'[r] = c
  BY <1>1 DEF InPlace, Fetch, Handling
<1>6. CASE c.key # m
  <2>1. Told(s, m, v)
    BY <1>6
  <2>2. <<s, m>> \notin unheeded' => <<s, m>> \notin unheeded
    <3>1. CASE ~IsModifier(c)
      BY <1>1, <3>1 DEF MissedBy
    <3>2. CASE IsModifier(c) /\ ~Reading(r)
      BY <1>1, <3>2 DEF MissedBy
    <3>3. CASE IsModifier(c) /\ Reading(r) /\ c.key = "ctrl"
      BY <1>1, <1>6, <3>3 DEF MissedBy
    <3>4. CASE IsModifier(c) /\ Reading(r) /\ c.key = "shift"
      BY <1>1, <1>6, <3>4 DEF MissedBy
    <3> QED
      BY <3>1, <3>2, <3>3, <3>4, ConsoleAssumption DEF IsModifier
  <2>3. \A x \in Readers : Brings(x, s, m)' <=> Brings(x, s, m)
    <3>1. \A x \in Readers : x # r => (Brings(x, s, m)' <=> Brings(x, s, m))
      BY <1>3, <1>4 DEF Brings
    <3>2. ~Brings(r, s, m) /\ ~Brings(r, s, m)'
      BY <1>5, <1>6 DEF Brings, IsModifier
    <3> QED
      BY <3>1, <3>2
  <2>4. \A x \in Readers : Brings(x, s, m) => fetched'[x] = fetched[x]
    BY <1>4, <1>5 DEF Brings, IsModifier
  <2> QED
    BY <1>1, <2>1, <2>2, <2>3, <2>4 DEF Told, Pressed
<1>7. CASE c.key = m
  <2>1. IsModifier(c) /\ v = c.make
    BY <1>2, <1>7 DEF IsModifier
  <2>2. <<s, m>> \notin unheeded' => Reading(r) /\ (m = "shift" => s = r)
    <3>1. CASE ~Reading(r)
      BY <1>1, <1>7, <2>1, <3>1 DEF MissedBy
    <3>2. CASE Reading(r) /\ c.key = "shift"
      BY <1>1, <1>7, <2>1, <3>2 DEF MissedBy
    <3> QED
      BY <1>7, <3>1, <3>2
  <2>3. <<s, m>> \notin unheeded' => Brings(r, s, m)'
    BY <1>3, <1>5, <1>7, <2>1, <2>2 DEF Brings, IsModifier
  <2>4. \A x \in Readers : Brings(x, s, m)' /\ Reading(r) => x = r
    BY <1>3 DEF Brings, InPlace, Readers
  <2> QED
    BY <1>5, <2>1, <2>2, <2>3, <2>4 DEF Told
<1> QED
  BY <1>6, <1>7

LEMMA FetchUnderstood ==
  ASSUME ConsoleTypeOK, InPlace, Understood, NEW r \in Readers, Fetch(r)
  PROVE  Understood'
<1>1. CASE queue = <<>>
  <2>1. fetched[r] = Zero
    BY DEF InPlace, Fetch, Handling
  <2>2. \A s \in Readers : Overtaken(fetched[s], Zero) = fetched[s]
    BY DEF Overtaken, IsModifier
  <2>3. /\ fetched' = [s \in Readers |-> IF s = r THEN Zero ELSE Overtaken(fetched[s], Zero)]
        /\ UNCHANGED <<queue, struck, asof, unheeded, ctrl_pressed, shift_pressed, doing>>
    BY <1>1 DEF Fetch, Take, MissedBy, IsModifier, Ring!Get
  <2>4. fetched' = fetched
    BY <2>1, <2>2, <2>3 DEF ConsoleTypeOK
  <2>5. \A s \in Readers : \A m, v : Told(s, m, v)' <=> Told(s, m, v)
    BY <2>3, <2>4, ToldStays DEF Reading
  <2> QED
    BY <2>3, <2>4, <2>5, UnderstoodKept
<1>2. CASE queue # <<>>
  <2>1. PICK c \in GoodCodes : c = Head(queue)
    BY <1>2, HeadTyped
  <2>2. c # Zero /\ c.make \in BOOLEAN
    BY ConsoleAssumption DEF GoodCodes, Codes
  <2>3. /\ queue' = Tail(queue) /\ UNCHANGED struck
        /\ asof' = ("shift" \in c.held)
        /\ \A s \in Readers : fetched'[s] = c \/ fetched'[s] = Overtaken(fetched[s], c)
    BY <1>2, <2>1, <2>2 DEF Fetch, Take, Ring!Get
  <2>4. \A s \in Readers : \A m \in Modifiers : \A v \in BOOLEAN :
          c.key # m /\ Told(s, m, v) => Told(s, m, v)'
    BY <1>2, <2>1, TakeTold
  <2>5. \A s \in Readers : c.key \in Modifiers => Told(s, c.key, c.make)'
    BY <1>2, <2>1, <2>2, TakeTold
  <2> QED
    BY <1>2, <2>1, <2>3, <2>4, <2>5, TakenUnderstood
<1> QED
  BY <1>1, <1>2

(* What is taken outside a line nobody knows of.                           *)
LEMMA TakeAwayUnderstood ==
  ASSUME ConsoleTypeOK, Understood, NEW r \in Readers, TakeAway(r),
         ~Reading(r), fetched[r] = Zero,
         UNCHANGED <<struck, ctrl_pressed, shift_pressed>>,
         \A s \in Readers : Reading(s)' = Reading(s)
  PROVE  Understood'
<1>1. queue # <<>>
  BY DEF TakeAway
<1>2. PICK c \in GoodCodes : c = Head(queue)
  BY <1>1, HeadTyped
<1>3. c # Zero /\ c.make \in BOOLEAN
  BY ConsoleAssumption DEF GoodCodes, Codes
<1>4. /\ queue' = Tail(queue)
      /\ asof' = ("shift" \in c.held)
      /\ unheeded' = MissedBy(r, c)
      /\ fetched' = [s \in Readers |-> Overtaken(fetched[s], c)]
  BY <1>2 DEF TakeAway
<1>6. \A s \in Readers : fetched'[s] = Overtaken(fetched[s], c)
  BY <1>4
<1>7. \A x \in Readers :
        /\ IsModifier(fetched[x])' <=> IsModifier(fetched[x])
        /\ IsModifier(fetched[x]) => fetched'[x] = fetched[x]
  <2>1. \A x \in Readers : fetched[x] \in GoodCodes \union {Zero}
    BY DEF ConsoleTypeOK
  <2>2. \A x \in Readers :
          /\ IsModifier(Overtaken(fetched[x], c)) <=> IsModifier(fetched[x])
          /\ IsModifier(fetched[x]) => Overtaken(fetched[x], c) = fetched[x]
    BY <2>1, OvertakenModifier
  <2> QED
    BY <1>6, <2>2 DEF IsModifier
<1>8. \A s \in Readers : \A m \in Modifiers : \A v \in BOOLEAN :
        c.key # m /\ Told(s, m, v) => Told(s, m, v)'
  <2>1. SUFFICES ASSUME NEW s \in Readers, NEW m \in Modifiers, NEW v \in BOOLEAN,
                        c.key # m, Told(s, m, v)
                 PROVE  Told(s, m, v)'
    OBVIOUS
  <2>2. <<s, m>> \notin unheeded' => <<s, m>> \notin unheeded
    BY <1>4, <2>1 DEF MissedBy
  <2>3. \A x \in Readers : Brings(x, s, m)' <=> Brings(x, s, m)
    BY <1>7 DEF Brings
  <2>4. \A x \in Readers : Brings(x, s, m) => fetched'[x] = fetched[x]
    BY <1>7 DEF Brings
  <2> QED
    BY <1>4, <2>1, <2>2, <2>3, <2>4 DEF Told, Pressed
<1>9. \A s \in Readers : c.key \in Modifiers => Told(s, c.key, c.make)'
  <2>1. \A s \in Readers : c.key \in Modifiers => <<s, c.key>> \in unheeded'
    BY <1>3, <1>4 DEF MissedBy, IsModifier
  <2> QED
    BY <2>1 DEF Told
<1> QED
  BY <1>1, <1>2, <1>4, <1>6, <1>8, <1>9, TakenUnderstood

(* Who begins a line with Shift up, or down and unheeded.                  *)
LEMMA AcquireUnderstood ==
  ASSUME ConsoleTypeOK, InPlace, Understood, NEW r \in Readers, NEW line,
         Acquire(r, line), step[r] = "update"
  PROVE  Understood'
<1>1. /\ fetched[r] = Zero /\ doing' = [doing EXCEPT ![r] = line]
      /\ shift_pressed' = [shift_pressed EXCEPT ![r] = FALSE]
      /\ unheeded' = IF asof THEN unheeded \union {<<r, "shift">>}
                     ELSE unheeded \ {<<r, "shift">>}
      /\ UNCHANGED <<queue, ctrl_pressed, struck, fetched, asof>>
  BY DEF Acquire, Go, InPlace, Handling
<1>2. \A x, s \in Readers : \A m : Brings(x, s, m)' <=> Brings(x, s, m)
  <2>1. \A x \in Readers : x # r => (Reading(x)' <=> Reading(x))
    BY <1>1 DEF Reading, ConsoleTypeOK
  <2>2. ~IsModifier(fetched[r]) /\ ~IsModifier(fetched[r])'
    BY <1>1 DEF IsModifier
  <2> QED
    BY <1>1, <2>1, <2>2 DEF Brings, IsModifier
<1>3. ASSUME NEW s \in Readers, NEW m \in Modifiers, NEW v \in BOOLEAN, Told(s, m, v),
             fetched[s] # Zero \/ (m = "shift" => v = asof)
      PROVE  Told(s, m, v)'
  <2>1. CASE s = r /\ m = "shift"
    <3>1. <<s, m>> \notin unheeded' => ~asof
      BY <1>1, <2>1
    <3>2. ~asof => v = FALSE
      BY <1>1, <1>3, <2>1 DEF ConsoleTypeOK
    <3>3. \A x \in Readers : ~Brings(x, s, m)'
      BY <1>1, <2>1 DEF Brings, IsModifier
    <3>4. Pressed(s, m)' = FALSE
      BY <1>1, <2>1 DEF Pressed, ConsoleTypeOK
    <3> QED
      BY <3>1, <3>2, <3>3, <3>4 DEF Told
  <2>2. CASE ~(s = r /\ m = "shift")
    <3>1. <<s, m>> \notin unheeded' => <<s, m>> \notin unheeded
      BY <1>1, <2>2
    <3>2. Pressed(s, m)' = Pressed(s, m)
      BY <1>1, <2>2, ConsoleAssumption DEF Pressed, ConsoleTypeOK
    <3> QED
      BY <1>1, <1>2, <1>3, <3>1, <3>2 DEF Told
  <2> QED
    BY <2>1, <2>2
<1> QED
  BY <1>1, <1>3, UnderstoodKept

(* A code that is given up, or taken for what it is.                       *)
LEMMA LostUnderstood ==
  ASSUME ConsoleTypeOK, InPlace, Understood, NEW r \in Readers, NEW where, Go(r, where),
         fetched' = [fetched EXCEPT ![r] = Zero], unheeded' = LostBy(r),
         UNCHANGED <<queue, ctrl_pressed, shift_pressed, struck, asof>>
  PROVE  Understood'
<1>1. /\ fetched' = [fetched EXCEPT ![r] = Zero] /\ doing' = [doing EXCEPT ![r] = where]
      /\ unheeded' = IF IsModifier(fetched[r])
                     THEN unheeded \union (Readers \X {fetched[r].key}) ELSE unheeded
      /\ UNCHANGED <<queue, ctrl_pressed, shift_pressed, struck, asof>>
  BY DEF LostBy, Go
<1>2. \A s \in Readers : fetched'[s] = fetched[s] \/ fetched'[s] = Zero
  BY <1>1 DEF ConsoleTypeOK
<1>3. ASSUME NEW s \in Readers, NEW m \in Modifiers, NEW v \in BOOLEAN, Told(s, m, v)
      PROVE  Told(s, m, v)'
  <2>1. CASE IsModifier(fetched[r]) /\ fetched[r].key = m
    BY <1>1, <2>1 DEF Told
  <2>2. CASE ~(IsModifier(fetched[r]) /\ fetched[r].key = m)
    <3>1. <<s, m>> \notin unheeded' => <<s, m>> \notin unheeded
      BY <1>1
    <3>2. \A x \in Readers : x # r => (Brings(x, s, m)' <=> Brings(x, s, m))
      BY <1>1 DEF Brings, Reading, IsModifier, ConsoleTypeOK
    <3>3. ~Brings(r, s, m)
      BY <2>2 DEF Brings
    <3>4. ~Brings(r, s, m)'
      BY <1>1 DEF Brings, IsModifier, ConsoleTypeOK
    <3>5. \A x \in Readers : Brings(x, s, m)' => fetched'[x] = fetched[x]
      BY <1>1, <3>4 DEF ConsoleTypeOK
    <3> QED
      BY <1>1, <1>3, <3>1, <3>2, <3>3, <3>4, <3>5 DEF Told, Pressed
  <2> QED
    BY <2>1, <2>2
<1> QED
  BY <1>1, <1>2, <1>3, UnderstoodKept

LEMMA HeedUnderstood ==
  ASSUME ConsoleTypeOK, InPlace, Understood, NEW r \in Readers, Heed(r)
  PROVE  Understood'
<1> DEFINE c == fetched[r]
<1>1. /\ fetched' = [fetched EXCEPT ![r] = Zero] /\ Reading(r)
      /\ doing' = doing \/ doing' = [doing EXCEPT ![r] = After(r)]
      /\ UNCHANGED <<queue, unheeded, struck, asof>>
      /\ IF IsModifier(c) THEN HeedModifier(r)
         ELSE UNCHANGED <<ctrl_pressed, shift_pressed>>
  BY DEF Heed, Go
<1>2. \A s \in Readers : fetched'[s] = fetched[s] \/ fetched'[s] = Zero
  BY <1>1 DEF ConsoleTypeOK
<1>3. ASSUME NEW s \in Readers, NEW m \in Modifiers, NEW v \in BOOLEAN, Told(s, m, v)
      PROVE  Told(s, m, v)'
  <2>1. \A x \in Readers : x # r => (Brings(x, s, m)' <=> Brings(x, s, m))
    BY <1>1 DEF Brings, Reading, IsModifier, ConsoleTypeOK
  <2>2. ~Brings(r, s, m)'
    BY <1>1 DEF Brings, IsModifier, ConsoleTypeOK
  <2>3. CASE Brings(r, s, m)
    <3>1. \A x \in Readers : ~Brings(x, s, m)'
      BY <1>1, <2>1, <2>2 DEF Brings, InPlace, Readers
    <3>2. IsModifier(c) /\ c.key = m /\ (m = "shift" => s = r)
      BY <2>3 DEF Brings
    <3>3. Pressed(s, m)' = c.make
      <4>1. HeedModifier(r) /\ m \in {"shift", "ctrl"}
        BY <1>1, <3>2, ConsoleAssumption
      <4>2. CASE m = "shift"
        BY <3>2, <4>1, <4>2 DEF HeedModifier, Pressed, ConsoleTypeOK
      <4>3. CASE m = "ctrl"
        BY <3>2, <4>1, <4>3 DEF HeedModifier, Pressed
      <4> QED
        BY <4>1, <4>2, <4>3
    <3>4. <<s, m>> \notin unheeded' => c.make = v
      BY <1>1, <1>3, <2>3 DEF Told
    <3> QED
      BY <3>1, <3>3, <3>4 DEF Told
  <2>4. CASE ~Brings(r, s, m)
    <3>1. Pressed(s, m)' = Pressed(s, m)
      <4>1. CASE ~IsModifier(c)
        BY <1>1, <4>1 DEF Pressed
      <4>2. CASE IsModifier(c)
        <5>1. HeedModifier(r) /\ c.key \in {"shift", "ctrl"} /\ m \in {"shift", "ctrl"}
          BY <1>1, <4>2, ConsoleAssumption DEF IsModifier
        <5>2. c.key # m \/ (m = "shift" /\ s # r)
          BY <1>1, <2>4, <4>2 DEF Brings
        <5>3. CASE c.key = "shift"
          BY <5>1, <5>2, <5>3 DEF HeedModifier, Pressed, ConsoleTypeOK
        <5>4. CASE c.key = "ctrl"
          BY <5>1, <5>2, <5>4 DEF HeedModifier, Pressed
        <5> QED
          BY <5>1, <5>3, <5>4
      <4> QED
        BY <4>1, <4>2
    <3>2. \A x \in Readers : Brings(x, s, m)' => fetched'[x] = fetched[x]
      BY <1>1, <2>2 DEF ConsoleTypeOK
    <3> QED
      BY <1>1, <1>3, <2>1, <2>2, <2>4, <3>1, <3>2 DEF Told
  <2> QED
    BY <2>3, <2>4
<1> QED
  BY <1>1, <1>2, <1>3, UnderstoodKept

(* Steps that have nothing to do with codes but, at most, give up one that *)
(* the shell took for its desktop.                                         *)
LEMMA AsideUnderstood ==
  ASSUME ConsoleTypeOK, InPlace, Understood, UNCHANGED <<queue, keys, struck, asof>>,
         \A r \in Readers : Reading(r)' = Reading(r),
         \A r \in Readers : fetched'[r] = fetched[r] \/ (fetched'[r] = Zero /\ ~Reading(r))
  PROVE  Understood'
<1>1. ASSUME NEW s \in Readers, NEW m \in Modifiers, NEW v \in BOOLEAN, Told(s, m, v)
      PROVE  Told(s, m, v)'
  <2>1. \A x \in Readers : Brings(x, s, m)' <=> Brings(x, s, m)
    BY DEF Brings, IsModifier
  <2>2. \A x \in Readers : Brings(x, s, m) => fetched'[x] = fetched[x]
    BY DEF Brings
  <2> QED
    BY <1>1, <2>1, <2>2 DEF Told, Pressed, keys
<1> QED
  BY <1>1, UnderstoodKept

LEMMA StepUnderstood ==
  ASSUME ConsoleTypeOK, InPlace, Understood, [ConsoleNext]_consoleVars
  PROVE  Understood'
<1> USE DEF Go, Readers
<1>0. /\ doing \in [Readers -> ShellPlaces \union ProgramPlaces]
      /\ fetched \in [Readers -> GoodCodes \union {Zero}]
  BY DEF ConsoleTypeOK
<1>1. CASE UNCHANGED consoleVars
  BY <1>1, AsideUnderstood DEF consoleVars, Reading
<1>2. ASSUME NEW r \in Readers, Update(r)
      PROVE  Understood'
  BY <1>2, AsideUnderstood DEF Update, Reading
<1>3. CASE \/ Refresh \/ Draw \/ Top \/ Command \/ CreateFile \/ ProgramExits
           \/ ProgramEdits \/ Beside
  <2>1. /\ UNCHANGED <<queue, keys, struck, fetched, asof>>
        /\ \A r \in Readers : Reading(r)' = Reading(r)
    BY <1>0, <1>3 DEF Refresh, Draw, Top, Command, CreateFile, ProgramExits, ProgramEdits,
                      Beside, Reading, Lines, InPlace
  <2> QED
    BY <2>1, AsideUnderstood
<1>4. CASE Poll \/ Files
  <2>1. /\ UNCHANGED <<queue, keys, struck, asof>> /\ ~Reading("shell")
        /\ fetched' = [fetched EXCEPT !["shell"] = Zero]
    BY <1>4 DEF Poll, Files, Reading, Lines
  <2>2. \A r \in Readers : Reading(r)' = Reading(r)
    <3>1. doing'["shell"] \notin Lines /\ doing'["program"] = doing["program"]
      BY <1>0, <1>4 DEF Poll, Files, Lines
    <3> QED
      BY <2>1, <3>1 DEF Reading
  <2>3. \A r \in Readers : fetched'[r] = fetched[r] \/ (fetched'[r] = Zero /\ ~Reading(r))
    BY <1>0, <2>1
  <2> QED
    BY <2>1, <2>2, <2>3, AsideUnderstood
<1>5. CASE Prompt
  <2>1. CASE Acquire("shell", "line")
    <3>1. step["shell"] = "update"
      BY <1>5 DEF Prompt, InPlace, Reading, Lines
    <3> QED
      BY <2>1, <3>1, AcquireUnderstood
  <2>2. CASE /\ Go("shell", IF ui.mode = 2 THEN "files" ELSE "poll")
             /\ UNCHANGED <<queue, keys, struck, fetched, asof>>
    <3>1. \A r \in Readers : Reading(r)' = Reading(r)
      BY <1>0, <1>5, <2>2 DEF Prompt, Reading, Lines
    <3> QED
      BY <2>2, <3>1, AsideUnderstood
  <2> QED
    BY <1>5, <2>1, <2>2 DEF Prompt
<1>6. CASE Window
  <2>1. doing["shell"] \in {"window", "named"} /\ step["shell"] = "update"
    BY <1>6 DEF Window, InPlace, Reading, Lines
  <2>2. CASE Acquire("shell", "name") \/ Acquire("shell", "content")
    BY <2>1, <2>2, AcquireUnderstood
  <2>3. CASE Go("shell", "refresh") /\ UNCHANGED <<queue, keys, struck, fetched, asof>>
    <3>1. \A r \in Readers : Reading(r)' = Reading(r)
      BY <1>0, <2>1, <2>3 DEF Reading, Lines
    <3> QED
      BY <2>3, <3>1, AsideUnderstood
  <2> QED
    BY <1>6, <2>2, <2>3 DEF Window
<1>7. CASE ProgramWaits
  <2>1. doing["program"] = "run" /\ step["program"] = "update"
    BY <1>7 DEF ProgramWaits, InPlace, Reading, Lines
  <2>2. CASE Acquire("program", "line")
    BY <2>1, <2>2, AcquireUnderstood
  <2>3. CASE Go("program", "stuck") /\ UNCHANGED <<queue, keys, struck, fetched, asof>>
    <3>1. \A r \in Readers : Reading(r)' = Reading(r)
      BY <1>0, <2>1, <2>3 DEF Reading, Lines
    <3> QED
      BY <2>3, <3>1, AsideUnderstood
  <2> QED
    BY <1>7, <2>2, <2>3 DEF ProgramWaits
<1>8. CASE Asks
  <2>1. step["shell"] = "update"
    BY <1>8 DEF Asks, InPlace, Reading, Lines
  <2> QED
    BY <1>8, <2>1, AcquireUnderstood DEF Asks
<1>9. CASE ProgramFaults
  BY <1>9, LostUnderstood DEF ProgramFaults
<1>10. ASSUME NEW r \in Readers, Cut(r)
       PROVE  Understood'
  BY <1>10, LostUnderstood DEF Cut
<1>11. ASSUME NEW r \in Readers, Taking(r), doing[r] \in {"run", "casm", "cube", "edit"},
              UNCHANGED <<struck, ctrl_pressed, shift_pressed>>,
              \A s \in Readers : Reading(s)' = Reading(s)
       PROVE  Understood'
  <2>1. ~Reading(r) /\ fetched[r] = Zero
    BY <1>11 DEF InPlace, Reading, Handling, Lines
  <2>2. CASE UNCHANGED <<queue, asof, unheeded, fetched>>
    BY <1>11, <2>2, AsideUnderstood DEF keys
  <2>3. CASE TakeAway(r)
    BY <1>11, <2>1, <2>3, TakeAwayUnderstood
  <2> QED
    BY <1>11, <2>2, <2>3 DEF Taking
<1>12. CASE ProgramReads
  BY <1>11, <1>12 DEF ProgramReads, Taking, Reading
<1>13. CASE Casm \/ Cube
  <2>1. \A s \in Readers : Reading(s)' = Reading(s)
    BY <1>0, <1>13 DEF Casm, Cube, Reading, Lines
  <2> QED
    BY <1>11, <1>13, <2>1 DEF Casm, Cube, Taking
<1>14. ASSUME NEW r \in Readers, Edit(r)
       PROVE  Understood'
  <2>1. \A s \in Readers : Reading(s)' = Reading(s)
    BY <1>0, <1>14 DEF Edit, Reading, Lines
  <2> QED
    BY <1>11, <1>14, <2>1 DEF Edit, Idle, Taking
<1> QED
  BY <1>1, <1>2, <1>3, <1>4, <1>5, <1>6, <1>7, <1>8, <1>9, <1>10, <1>12, <1>13, <1>14,
     Steps, StrikeUnderstood, FetchUnderstood, HeedUnderstood

-----------------------------------------------------------------------------
(* The inductive invariant, and what it says.                              *)

ConsoleInv == ConsoleTypeOK /\ InPlace /\ ShownIsCurrent /\ LinesHeld /\ Understood

LEMMA ConsoleInitInv ==
  ASSUME ConsoleInit
  PROVE  ConsoleInv
<1>1. ConsoleTypeOK /\ InPlace
  BY ConsoleInitTyped, ConsoleInitInPlace
<1>2. ShownIsCurrent /\ LinesHeld
  BY DEF ConsoleInit, ShownIsCurrent, LinesHeld, InWindow
<1>3. Points = {1} /\ At(1) = Now /\ \A r \in Readers : fetched[r] = Zero
  BY DEF ConsoleInit, Points, At
<1>4. \A r \in Readers : \A m : Pressed(r, m) = FALSE /\ \A s \in Readers : ~Brings(s, r, m)
  BY <1>3 DEF ConsoleInit, Brings, IsModifier, Pressed
<1>5. Steady
  BY <1>3 DEF Steady
<1>6. Following
  <2>1. \A m : m \notin At(1).held
    BY <1>3 DEF ConsoleInit, Now
  <2>2. \A m : (m \in At(1).held) = FALSE
    BY <2>1
  <2>3. \A r \in Readers : \A m : Told(r, m, m \in At(1).held)
    BY <1>4, <2>2 DEF Told
  <2> QED
    BY <1>3, <2>1, <2>3 DEF Following, ConsoleInit
<1>7. Taken
  BY <1>3 DEF Taken, IsPlain
<1> QED
  BY <1>1, <1>2, <1>5, <1>6, <1>7 DEF ConsoleInv, Understood

LEMMA ConsoleStepInv ==
  ASSUME ConsoleInv, [ConsoleNext]_consoleVars
  PROVE  ConsoleInv'
BY ConsoleStepTyped, ConsoleStepInPlace, StepSeen, StepHoldsLines, StepUnderstood DEF ConsoleInv

(* What the queue, the readers and the modes say of each other, at every   *)
(* step (keyboard.c 134-198, kernel.c 55-190).                             *)
THEOREM ConsoleInvHolds == ConsoleSpec => []ConsoleInv
<1>1. ConsoleInit => ConsoleInv
  BY ConsoleInitInv
<1>2. ConsoleInv /\ [ConsoleNext]_consoleVars => ConsoleInv'
  BY ConsoleStepInv
<1> QED
  BY <1>1, <1>2, PTL DEF ConsoleSpec

LEMMA UnderstoodAsMeant ==
  ASSUME ConsoleInv
  PROVE  StruckAsMeant
<1>1. SUFFICES ASSUME NEW r \in Readers, IsPlain(fetched[r]),
                      NEW m \in Modifiers, m \notin fetched[r].lacks,
                      <<r, m>> \notin unheeded, ~Pending(m)
               PROVE  Pressed(r, m) = (m \in fetched[r].held)
  BY DEF StruckAsMeant
<1>2. Told(r, m, m \in fetched[r].held)
  BY <1>1 DEF ConsoleInv, Understood, Taken
<1>3. \A s \in Readers : ~Brings(s, r, m)
  BY <1>1 DEF Pending, Brings
<1> QED
  BY <1>1, <1>2, <1>3 DEF Told

(* A key means what was held when it was struck, through a ring of any     *)
(* size and any number of keys that wait (keyboard.c 138, 143-170).        *)
THEOREM StruckAsMeantHolds == ConsoleSpec => []StruckAsMeant
<1>1. ConsoleInv => StruckAsMeant
  BY UnderstoodAsMeant
<1> QED
  BY <1>1, ConsoleInvHolds, PTL

(* The screen shows what there is, wherever is clicked and whatever key is *)
(* struck, unless a redraw is due (mouse.c 177-241, desktop.c, kernel.c).  *)
THEOREM ShownIsCurrentHolds == ConsoleSpec => []ShownIsCurrent
<1>1. ConsoleInv => ShownIsCurrent
  BY DEF ConsoleInv
<1> QED
  BY <1>1, ConsoleInvHolds, PTL

(* Only a program that asks for a line beside the file window hangs the    *)
(* machine, unless bin_running was cleared beside it or the lock went with *)
(* another program (syscalls.c 27-28, 170-177, kernel.c 70-73, 157-161).   *)
THEOREM HangsOnlyAtWindowHolds == ConsoleSpec => []HangsOnlyAtWindow
<1>1. ConsoleInv => HangsOnlyAtWindow
  BY DEF ConsoleInv, InPlace, HangsOnlyAtWindow, LockIsLost, Wedged, Reading, Lines, Readers
<1> QED
  BY <1>1, ConsoleInvHolds, PTL

(* A line of the loop that was cut is never acted upon (kernel.c 84,       *)
(* 157-177).                                                               *)
THEOREM ActsOnWholeLinesHolds == ConsoleSpec => ActsOnWholeLines
<1>1. ConsoleInv /\ [ConsoleNext]_consoleVars => [ActsOnWhole]_consoleVars
  BY StepActsOnWhole DEF ConsoleInv
<1>2. ConsoleSpec => [][ActsOnWhole]_consoleVars
  BY <1>1, ConsoleInvHolds, PTL DEF ConsoleSpec
<1>3. [][ActsOnWhole]_consoleVars => ActsOnWholeLines
  BY DEF ActsOnWholeLines, ActsOnWhole
<1> QED
  BY <1>2, <1>3

=============================================================================
