----------------------------- MODULE TasksProps -----------------------------
(***************************************************************************)
(* What the kernel's task ring and its switches keep.                      *)
(***************************************************************************)
EXTENDS Tasks

(* The types of the task records and of what the kernel knows of them.     *)
TasksTypeOK ==
  /\ current_task \in Pids
  /\ next_pid \in 1 .. MaxTasks
  /\ linked \subseteq Pids
  /\ next \in [Pids -> Pids]
  /\ is_active \in [Pids -> BOOLEAN]
  /\ pending_signals \in [Pids -> SUBSET Signals]
  /\ halted \subseteq Pids
  /\ making \in [Pids -> Pids \union {None}]
  /\ in_service \in BOOLEAN
  /\ fatal \in BOOLEAN

(* The ring is one ring: a set of linked tasks that the next pointers do   *)
(* not leave is all of them.  So schedule, starting anywhere, comes past   *)
(* every task, whatever tasks were inserted while others ran (task.c       *)
(* 98-101, also from inside exception_handler).                            *)
RingIsWhole ==
  \A S \in SUBSET linked :
    S # {} /\ (\A t \in S : next[t] \in S) => S = linked

(* The task that runs, and every task a running one leads to, is in the    *)
(* ring; a task being made is not, and belongs to one maker.               *)
RingIsClosed ==
  /\ current_task \in linked
  /\ \A t \in linked : next[t] \in linked
  /\ \A c \in Pids : making[c] # None =>
       /\ c \in linked /\ making[c] \notin linked /\ making[c] < next_pid
       /\ \A d \in Pids : making[d] = making[c] => d = c
  /\ \A t \in linked : t < next_pid

(* All of it: the ring stays one closed ring through tasks being made,     *)
(* linked, stopped by a signal, and replaced after a crash, in the middle  *)
(* of each other (task.c 69-102, idt.c 61-93).                             *)
TasksInv == TasksTypeOK /\ RingIsClosed /\ RingIsWhole

Crashed == {t \in linked : ~is_active[t]}

(* A crashed task never gets the processor again, as long as no more than  *)
(* five have crashed: exception_handler looks past four (idt.c 79-84), and *)
(* schedule past ten.  The sixth crash in a row may resume the first.  (A  *)
(* signal may halt the machine in the handler itself, see Tasks.Crash.)    *)
CrashedStayOff ==
  Alive /\ Cardinality(Crashed) <= 5 => is_active[current_task]

(* No task starves: an active task of the ring runs again, unless it       *)
(* crashes or the machine stops.                                           *)
NoStarvation ==
  \A t \in Pids :
    t \in linked /\ is_active[t] ~> current_task = t \/ ~is_active[t] \/ ~Alive

(* A lethal signal stops more than its task: once it is pending nothing is *)
(* scheduled any more as soon as its task meets the timer, for             *)
(* check_signals halts before the end of interrupt (idt.c 45-52, signal.c  *)
(* 26-39), unless the task crashes first.                                  *)
LethalFreezes ==
  \A t \in Pids :
    t \in linked /\ pending_signals[t] \intersect Fatal # {} ~>
      ~Alive \/ ~is_active[t]

=============================================================================
