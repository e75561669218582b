-------------------------------- MODULE Tasks --------------------------------
(***************************************************************************)
(* The tasks of the x86 kernel and the three places that switch between    *)
(* them: the timer interrupt (idt.c timer_handler, sched.c schedule), the  *)
(* exception handler (idt.c exception_handler) and the system call that    *)
(* ends a task (syscalls.c SYS_EXIT, task.c delete_task).                  *)
(*                                                                         *)
(* The Task records form a ring through their next fields.  A new task is  *)
(* linked in right behind its creator; none is ever taken out.  A task is  *)
(* a record, numbered by next_pid, which counts those made so far; pid is  *)
(* that number unless two makers meet between the load and the store of    *)
(* next_pid++ and give two records one pid, which is left out.  Nothing    *)
(* of a task is ever given back to the heap, so the heap has room for      *)
(* MaxTasks of them in all, and create_task returns without effect once    *)
(* they are made.                                                          *)
(***************************************************************************)
EXTENDS Integers, FiniteSets

CONSTANTS
  MaxTasks,   (* how many tasks fit in the heap, main_task included        *)
  Garbage     (* what pending_signals of a fresh Task may hold: kmalloc    *)
              (* does not clear it, create_task does not set it            *)

SIGINT == 2
Fatal == {2, 4, 8, 15}          (* SIGINT, SIGILL, SIGFPE, SIGTERM         *)
Signals == 1 .. 31              (* 1 .. NUM_SIGNALS - 1                    *)

ASSUME TasksAssumption ==
  /\ MaxTasks \in Nat /\ MaxTasks >= 4
  /\ Garbage \subseteq SUBSET Signals /\ Garbage # {}

Pids == 0 .. MaxTasks - 1
main_task == 0
ShellPid == 3                   (* the pid exception_handler singles out   *)
None == MaxTasks

VARIABLES
  current_task,
  next_pid,
  linked,          (* the tasks of the ring                                *)
  next,            (* Task.next                                            *)
  is_active,       (* Task.is_active                                       *)
  pending_signals, (* Task.pending_signals, as the set of its bits         *)
  halted,          (* tasks that halt for ever in delete_task              *)
  making,          (* the task a task in create_task is about to link      *)
  in_service,      (* the timer interrupt was never acknowledged           *)
  fatal            (* the kernel stopped in exception_handler              *)

ring == <<linked, next>>
taskVars == <<current_task, next_pid, linked, next, is_active, pending_signals,
              halted, making, in_service, fatal>>

TasksInit ==
  /\ current_task = main_task
  /\ next_pid = 1
  /\ linked = {main_task}
  /\ next = [t \in Pids |-> main_task]
  /\ is_active = [t \in Pids |-> TRUE]
  /\ pending_signals = [t \in Pids |-> {}]
  /\ halted = {}
  /\ making = [t \in Pids |-> None]
  /\ in_service = FALSE
  /\ fatal = FALSE

-----------------------------------------------------------------------------

(* Interrupts are acknowledged and the processor is not halted for good.   *)
Alive == ~in_service /\ ~fatal

(* t is the task the processor works for, and does not halt.               *)
Executes(t) == Alive /\ current_task = t /\ t \notin halted

(* while (!next->is_active && loops < n) next = next->next, for n turns.   *)
Skip(active, nxt, t)   == IF active[t] THEN t ELSE nxt[t]
Skip2(active, nxt, t)  == Skip(active, nxt, Skip(active, nxt, t))
(* Mutated: looks past two tasks.                                          *)
Skip4Short(active, nxt, t) == Skip2(active, nxt, t)

Skip4(active, nxt, t)  == Skip2(active, nxt, Skip2(active, nxt, t))
Skip10(active, nxt, t) == Skip2(active, nxt, Skip4(active, nxt, Skip4(active, nxt, t)))

-----------------------------------------------------------------------------
(* create_task: the memory is taken and the pid drawn with interrupts on;  *)
(* the linking happens between cli and sti, perhaps after other tasks ran. *)

HasRoom == next_pid < MaxTasks

CreateTask(c) ==
  /\ Executes(c)
  /\ making[c] = None
  /\ HasRoom
  /\ next_pid' = next_pid + 1
  /\ making' = [making EXCEPT ![c] = next_pid]
  /\ \E bits \in Garbage :
       pending_signals' = [pending_signals EXCEPT ![next_pid] = bits]
  /\ is_active' = [is_active EXCEPT ![next_pid] = TRUE]
  /\ UNCHANGED <<current_task, linked, next, halted, in_service, fatal>>

(* Mutated: the creator's next pointer is left as it was.                  *)
LinkTaskHalf(c) ==
  /\ Executes(c)
  /\ making[c] # None
  /\ next' = [next EXCEPT ![making[c]] = next[c]]
  /\ linked' = linked \union {making[c]}
  /\ making' = [making EXCEPT ![c] = None]
  /\ UNCHANGED <<current_task, next_pid, is_active, pending_signals, halted,
                 in_service, fatal>>

LinkTask(c) ==
  /\ Executes(c)
  /\ making[c] # None
  /\ next' = [next EXCEPT ![making[c]] = next[c], ![c] = making[c]]
  /\ linked' = linked \union {making[c]}
  /\ making' = [making EXCEPT ![c] = None]
  /\ UNCHANGED <<current_task, next_pid, is_active, pending_signals, halted,
                 in_service, fatal>>

-----------------------------------------------------------------------------
(* Signals and the end of a task.                                          *)

(* send_signal marks the task that runs, whatever task it is given.        *)
SendSignal(signum) ==
  /\ Executes(current_task)
  /\ signum \in Signals
  /\ pending_signals' = [pending_signals EXCEPT ![current_task] = @ \union {signum}]
  /\ UNCHANGED <<current_task, next_pid, linked, next, is_active, halted, making,
                 in_service, fatal>>

(* SYS_EXIT: delete_task finds nobody to deactivate, since its loop starts *)
(* where it ends; the caller halts with interrupts on and stays scheduled. *)
Exit(c) ==
  /\ Executes(c)
  /\ making[c] = None
  /\ halted' = halted \union {c}
  /\ UNCHANGED <<current_task, next_pid, linked, next, is_active,
                 pending_signals, making, in_service, fatal>>

-----------------------------------------------------------------------------
(* timer_handler: check_signals, schedule, end of interrupt.               *)

(* Mutated: Ctrl and C is not among them.                                  *)
LethalSignalsButInt == pending_signals[current_task] \intersect {4, 8, 15}

LethalSignals == pending_signals[current_task] \intersect Fatal

Delivered(s) == {b \in pending_signals[current_task] : b <= s}

(* The first lethal signal: delete_task halts inside the handler, before   *)
(* the end of interrupt is sent.                                           *)
TimerKills ==
  /\ Alive
  /\ \E s \in LethalSignals :
       /\ \A b \in LethalSignals : s <= b
       /\ pending_signals' =
            [pending_signals EXCEPT ![current_task] = @ \ Delivered(s)]
  /\ halted' = halted \union {current_task}
  /\ in_service' = TRUE
  /\ UNCHANGED <<current_task, next_pid, linked, next, is_active, making, fatal>>

(* Mutated: the search starts at main_task every time.                     *)
TimerSwitchesFromMain ==
  /\ Alive
  /\ LethalSignals = {}
  /\ pending_signals' = [pending_signals EXCEPT ![current_task] = {}]
  /\ current_task' = Skip10(is_active, next, next[main_task])
  /\ UNCHANGED <<next_pid, linked, next, is_active, halted, making, in_service,
                 fatal>>

TimerSwitches ==
  /\ Alive
  /\ LethalSignals = {}
  /\ pending_signals' = [pending_signals EXCEPT ![current_task] = {}]
  /\ current_task' = Skip10(is_active, next, next[current_task])
  /\ UNCHANGED <<next_pid, linked, next, is_active, halted, making, in_service,
                 fatal>>

Timer == TimerKills \/ TimerSwitches

-----------------------------------------------------------------------------
(* exception_handler                                                       *)

(* How the handler of c ends once the replacement is linked: it goes on to *)
(* it, keeping c's signals, or a tick does, with none left, or the first   *)
(* lethal signal of c halts it as in TimerKills.                           *)
CrashEnds(c, left) ==
  \/ /\ left = pending_signals[c] \/ (left = {} /\ LethalSignals = {})
     /\ current_task' = next_pid
     /\ UNCHANGED <<halted, in_service>>
  \/ /\ \E s \in LethalSignals :
          (\A b \in LethalSignals : s <= b) /\ left = pending_signals[c] \ Delivered(s)
     /\ halted' = halted \union {c}
     /\ in_service' = TRUE
     /\ UNCHANGED current_task

(* A task crashes and the next one runs; only the task with pid 3 is       *)
(* replaced, by a new task behind it.  create_task then leaves interrupts  *)
(* on: a tick that comes before the handler has looked for the next task   *)
(* goes on to the replacement, or kills the crashed task for a signal it   *)
(* still has.  (A tick in the few instructions after current_task is set   *)
(* is left out.)                                                           *)
Crash(c) ==
  /\ Executes(c)
  /\ c # main_task
  /\ making[c] = None
  /\ UNCHANGED <<making, fatal>>
  /\ \/ /\ c = ShellPid /\ HasRoom
        /\ is_active' = [is_active EXCEPT ![c] = FALSE, ![next_pid] = TRUE]
        /\ next' = [next EXCEPT ![next_pid] = next[c], ![c] = next_pid]
        /\ linked' = linked \union {next_pid}
        /\ next_pid' = next_pid + 1
        /\ \E bits \in Garbage, left \in SUBSET pending_signals[c] :
             /\ pending_signals' =
                  [pending_signals EXCEPT ![next_pid] = bits, ![c] = left]
             /\ CrashEnds(c, left)
     \/ /\ ~(c = ShellPid /\ HasRoom)
        /\ is_active' = [is_active EXCEPT ![c] = FALSE]
        /\ current_task' = Skip4(is_active', next, next[c])
        /\ UNCHANGED <<linked, next, next_pid, pending_signals, halted, in_service>>

KernelFatal ==
  /\ Executes(main_task)
  /\ making[main_task] = None
  /\ fatal' = TRUE
  /\ UNCHANGED <<current_task, next_pid, linked, next, is_active,
                 pending_signals, halted, making, in_service>>

-----------------------------------------------------------------------------

(* The machine has stopped: nothing changes any more.                      *)
Stopped == ~Alive /\ UNCHANGED taskVars

TaskStep(c) ==
  \/ CreateTask(c) \/ LinkTask(c) \/ Crash(c)
  \/ c # main_task /\ Exit(c)

TasksNext ==
  \/ \E c \in Pids : TaskStep(c)
  \/ SendSignal(SIGINT)
  \/ Timer
  \/ KernelFatal
  \/ Stopped

TasksSpec == TasksInit /\ [][TasksNext]_taskVars

(* The timer keeps interrupting as long as its interrupts are acknowledged,*)
(* and a task inside create_task gets on when it runs.                     *)
TasksFairSpec ==
  /\ TasksSpec
  /\ WF_taskVars(Timer)
  /\ \A c \in Pids : SF_taskVars(LinkTask(c))

=============================================================================
