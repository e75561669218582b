----------------------------- MODULE SystemProps -----------------------------
(***************************************************************************)
(* What the shell, the programs and the interpreters may rely on.          *)
(***************************************************************************)
EXTENDS System, TasksProps

(* The types of the variables the tasks share.                             *)
SystemTypeOK ==
  /\ role \in [Pids -> Roles]
  /\ pc \in [Pids -> Places]
  /\ bin_running \in {0, 1}
  /\ keyboard_lock \in {0, 1}
  /\ image \in Pids \union {None}
  /\ cut \in BOOLEAN /\ chained \in BOOLEAN

Readers == {t \in Pids : pc[t] = "reading"}

(* The keyboard is read by one task at a time, and the lock is taken just  *)
(* when one reads, a task that faulted while it read included              *)
(* (keyboard.c 131-149, 178-182, mutex.c).                                 *)
OneReader ==
  /\ \A s, t \in Readers : s = t
  /\ keyboard_lock = 1 <=> Readers # {}

(* Two things of the code let the shell go on beside a program: SYS_EXIT   *)
(* of an interpreter, or of one of two programs, beside it (forth.c 248,   *)
(* syscalls.c 28), and more than five crashed tasks, of which              *)
(* exception_handler may resume one (idt.c 79-84).                         *)
Spared == ~cut /\ Cardinality(Crashed) <= 5

(* While programs run the shell keeps out of their way: bin_running is set *)
(* and the shell is back at its prompt, at most still linking the program  *)
(* (kernel.c 70-73, 121-125).                                              *)
ShellWaits ==
  Spared /\ Living("program") # {} =>
    /\ bin_running = 1
    /\ \A c \in Living("shell") : pc[c] \in {"prompt", "link"}

(* A program that runs is not overwritten by the shell's next one: all are *)
(* loaded at the same address (syscalls.c 104-112), and bin_running keeps  *)
(* the shell from it.  Nothing keeps a program: one that calls SYS_EXEC    *)
(* overwrites itself, and whatever other program there is.                 *)
ImageIntact ==
  Spared /\ ~chained => \A t \in Living("program") : image = t

(* In text mode the machine hangs in acquire_lock with interrupts off only *)
(* when two readers meet that bin_running keeps apart otherwise: the shell *)
(* beside a program after a cut, a crashed program that was resumed, or a  *)
(* program and one that it started (syscalls.c 170-177, mutex.c 4-6).  A   *)
(* program that faults with the lock keeps it, but then bin_running keeps  *)
(* the shell from starting another one.  Console says what the file window *)
(* does to it.                                                             *)
HangsOnlyWhenSpoiled == Wedged => ~Spared \/ chained

(* The keyboard comes back: a shell that waits at its prompt after         *)
(* bin_running is cleared reads its next line, unless it faults, the       *)
(* machine stops, a program was spoiled, or the lock was lost in a fault.  *)
PromptReturns ==
  pc[ShellPid] = "prompt" /\ bin_running = 0 /\ role[ShellPid] = "shell" ~>
    \/ pc[ShellPid] = "reading"
    \/ ~Alive \/ cut
    \/ \E t \in Pids : ~is_active[t] /\ (t = ShellPid \/ t \in Readers)

=============================================================================
