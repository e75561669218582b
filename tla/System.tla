------------------------------- MODULE System -------------------------------
(***************************************************************************)
(* What the tasks of the x86 kernel do to each other through bin_running,  *)
(* keyboard_lock and the one address programs are loaded at: kernel_main   *)
(* makes the clock, the interpreter and the shell; the shell (kernel.c     *)
(* system, text mode) reads a command and starts an interpreter or a       *)
(* program, which the timer lets run among the others.                     *)
(*                                                                         *)
(* A line read from the keyboard is one step that ends whenever it ends;   *)
(* what it says is chosen freely.  A program may read lines, start another *)
(* program with SYS_EXEC, fault or end.                                    *)
(***************************************************************************)
EXTENDS Tasks

VARIABLES
  role,          (* which function each task was made to run               *)
  pc,            (* where in it the task is                                *)
  bin_running,
  keyboard_lock,
  image,         (* the task whose program is at 0x400000, None if nobody's*)
  cut,           (* a task ended while a program other than it was there   *)
  chained        (* a program called SYS_EXEC                              *)

systemVars == <<role, pc, bin_running, keyboard_lock, image, cut, chained>>
allVars == <<taskVars, systemVars>>

Roles == {"main", "clock", "forth", "shell", "program"}
Places == {"boot", "link", "idle", "run", "prompt", "command", "make_forth",
           "launch", "exec", "make_program", "reading", "stuck"}

SystemInit ==
  /\ TasksInit
  /\ role = [t \in Pids |-> "main"]
  /\ pc = [t \in Pids |-> "boot"]
  /\ bin_running = 0
  /\ keyboard_lock = 0
  /\ image = None
  /\ cut = FALSE
  /\ chained = FALSE

-----------------------------------------------------------------------------

At(c, r, place) == Executes(c) /\ role[c] = r /\ pc[c] = place
Goto(c, place) == pc' = [pc EXCEPT ![c] = place]

Living(r) == {t \in linked \ halted : role[t] = r /\ is_active[t]}

(* Where the function a task is made for starts.                           *)
Entry(r) == CASE r = "shell" -> "prompt" [] r = "clock" -> "idle" [] OTHER -> "run"

(* create_task by c of a task that is to run r.                            *)
Make(c, r) ==
  /\ CreateTask(c)
  /\ role' = [role EXCEPT ![next_pid] = r]
  /\ pc' = [pc EXCEPT ![next_pid] = Entry(r), ![c] = "link"]

(* Where a task goes on after it made one.                                 *)
Home(r) == CASE r = "main" -> "boot" [] r = "shell" -> "prompt" [] OTHER -> "run"

(* The end of create_task; c goes on at the place where its loop is.       *)
Link(c) ==
  /\ pc[c] = "link"
  /\ LinkTask(c)
  /\ Goto(c, Home(role[c]))
  /\ UNCHANGED <<role, bin_running, keyboard_lock, image, cut, chained>>

(* kernel_main                                                             *)
Boot ==
  /\ At(main_task, "main", "boot")
  /\ next_pid <= 3
  /\ Make(main_task, <<"clock", "forth", "shell">>[next_pid])
  /\ UNCHANGED <<bin_running, keyboard_lock, image, cut, chained>>

-----------------------------------------------------------------------------
(* input_wait_string                                                       *)

(* Mutated: the lock is set without a test.                                *)
AcquireBlindly(c) ==
  /\ keyboard_lock' = 1
  /\ Goto(c, "reading")

Acquire(c) ==
  /\ keyboard_lock = 0
  /\ keyboard_lock' = 1
  /\ Goto(c, "reading")

(* Mutated: returns without releasing the lock.                            *)
ReadLineKeeping(c) ==
  /\ Executes(c) /\ pc[c] = "reading"
  /\ Goto(c, IF role[c] = "shell" THEN "command" ELSE "run")
  /\ UNCHANGED <<taskVars, role, bin_running, keyboard_lock, image, cut, chained>>

(* Return, or the window was redrawn: the lock is released.                *)
ReadLine(c) ==
  /\ Executes(c) /\ pc[c] = "reading"
  /\ keyboard_lock' = 0
  /\ Goto(c, IF role[c] = "shell" THEN "command" ELSE "run")
  /\ UNCHANGED <<taskVars, role, bin_running, image, cut, chained>>

(* Ctrl and C                                                              *)
Interrupt(c) ==
  /\ Executes(c) /\ pc[c] = "reading"
  /\ SendSignal(SIGINT)
  /\ UNCHANGED systemVars

-----------------------------------------------------------------------------
(* The shell                                                               *)

(* Mutated: the shell does not wait for bin_running.                       *)
ShellPromptAtOnce(c) ==
  /\ At(c, "shell", "prompt")
  /\ Acquire(c)
  /\ UNCHANGED <<taskVars, role, bin_running, image, cut, chained>>

(* It waits for bin_running, then for the lock, with interrupts on.        *)
ShellPrompt(c) ==
  /\ At(c, "shell", "prompt")
  /\ bin_running = 0
  /\ Acquire(c)
  /\ UNCHANGED <<taskVars, role, bin_running, image, cut, chained>>

ShellCommand(c) ==
  /\ At(c, "shell", "command")
  /\ \E place \in {"prompt", "make_forth", "launch"} : Goto(c, place)
  /\ UNCHANGED <<taskVars, role, bin_running, keyboard_lock, image, cut, chained>>

(* Mutated: bin_running is not set.                                        *)
ShellLaunchUnmarked(c) ==
  /\ At(c, "shell", "launch")
  /\ Goto(c, "exec")
  /\ UNCHANGED <<taskVars, role, bin_running, keyboard_lock, image, cut, chained>>

ShellLaunch(c) ==
  /\ At(c, "shell", "launch")
  /\ bin_running' = 1
  /\ Goto(c, "exec")
  /\ UNCHANGED <<taskVars, role, keyboard_lock, image, cut, chained>>

(* SYS_EXEC, which asks neither who calls nor for bin_running: read_file,  *)
(* with interrupts on while the disk works, over whatever program is there.*)
Loads(c) ==
  /\ image' = None
  /\ Goto(c, "make_program")
  /\ UNCHANGED <<taskVars, role, bin_running, keyboard_lock, cut>>

(* -ENOENT, when the disk does not answer: bin_running stays set.          *)
ShellExec(c) ==
  /\ At(c, "shell", "exec")
  /\ \/ Loads(c) /\ UNCHANGED chained
     \/ /\ Goto(c, "prompt")
        /\ UNCHANGED <<taskVars, role, bin_running, keyboard_lock, image, cut, chained>>

ProgramExec(c) ==
  /\ At(c, "program", "run")
  /\ Loads(c)
  /\ chained' = TRUE

(* create_task fails without a word when there is no room.                 *)
Makes(c) ==
  \/ /\ Executes(c) /\ pc[c] = "make_program"
     /\ Make(c, "program")
     /\ image' = next_pid
     /\ UNCHANGED <<bin_running, keyboard_lock, cut, chained>>
  \/ /\ Executes(c) /\ pc[c] = "make_forth"
     /\ Make(c, "forth")
     /\ UNCHANGED <<bin_running, keyboard_lock, image, cut, chained>>
  \/ /\ Executes(c) /\ pc[c] \in {"make_program", "make_forth"}
     /\ ~HasRoom
     /\ Goto(c, Home(role[c]))
     /\ UNCHANGED <<taskVars, role, bin_running, keyboard_lock, image, cut, chained>>

-----------------------------------------------------------------------------
(* Programs and interpreters                                               *)

(* A program other than c is loaded, or about to run, or running.          *)
ProgramBeside(c) ==
  \/ Living("program") \ {c} # {}
  \/ \E d \in Living("shell") :
       \/ pc[d] \in {"exec", "make_program"}
       \/ pc[d] = "link" /\ role[making[d]] = "program"

(* SYS_EXIT clears bin_running whoever calls it.                           *)
Ends(c) ==
  /\ Executes(c) /\ role[c] \in {"program", "forth"} /\ pc[c] = "run"
  /\ Exit(c)
  /\ bin_running' = 0
  /\ cut' = (cut \/ ProgramBeside(c))
  /\ UNCHANGED <<role, pc, keyboard_lock, image, chained>>

(* SYS_WAIT_STRING comes to acquire_lock with interrupts off: a lock that  *)
(* is taken is never released, because nobody else runs any more.          *)
ProgramReads(c) ==
  /\ At(c, "program", "run")
  /\ IF keyboard_lock = 0
     THEN Acquire(c)
     ELSE Goto(c, "stuck") /\ UNCHANGED keyboard_lock
  /\ UNCHANGED <<taskVars, role, bin_running, image, cut, chained>>

(* The replacement for a shell that faults runs task3_main.                *)
Faults(c) ==
  /\ role[c] \in {"program", "forth", "shell"}
  /\ pc[c] # "stuck"
  /\ Crash(c)
  /\ IF c = ShellPid /\ HasRoom
     THEN /\ role' = [role EXCEPT ![next_pid] = "forth"]
          /\ pc' = [pc EXCEPT ![next_pid] = Entry("forth")]
     ELSE UNCHANGED <<role, pc>>
  /\ UNCHANGED <<bin_running, keyboard_lock, image, cut, chained>>

-----------------------------------------------------------------------------

Wedged == pc[current_task] = "stuck"

SystemTimer == ~Wedged /\ Timer /\ UNCHANGED systemVars

Dead == (~Alive \/ Wedged) /\ UNCHANGED allVars

ShellStep(c) ==
  ShellPrompt(c) \/ ShellCommand(c) \/ ShellLaunch(c) \/ ShellExec(c)

UserStep(c) == Ends(c) \/ ProgramReads(c) \/ ProgramExec(c) \/ Faults(c)

SystemNext ==
  \/ Boot
  \/ \E c \in Pids :
       \/ Link(c) \/ Makes(c) \/ ReadLine(c) \/ Interrupt(c)
       \/ ShellStep(c) \/ UserStep(c)
  \/ SystemTimer
  \/ Dead

SystemSpec == SystemInit /\ [][SystemNext]_allVars

(* The timer goes on, and the kernel's main task and the shell do their    *)
(* next step when they get the processor again and again.  Nobody is sure  *)
(* to type a line, to fault or to end.                                     *)
ShellGoesOn ==
  \/ Link(ShellPid) \/ ShellPrompt(ShellPid) \/ ShellLaunch(ShellPid)
  \/ ShellExec(ShellPid) \/ Makes(ShellPid)

SystemFairSpec ==
  /\ SystemSpec
  /\ WF_allVars(SystemTimer)
  /\ SF_allVars(Boot \/ Link(main_task))
  /\ SF_allVars(ShellGoesOn)

=============================================================================
