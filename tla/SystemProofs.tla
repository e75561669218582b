---------------------------- MODULE SystemProofs ----------------------------
(***************************************************************************)
(* The task ring, for every number of tasks and whatever an uninitialised  *)
(* Task record holds; and the shell, the programs and the interpreters in  *)
(* it: the keyboard lock keeps its readers apart, bin_running keeps the    *)
(* programs apart as long as nothing is spoiled.                           *)
(***************************************************************************)
EXTENDS SystemProps, FiniteSetTheorems, TLAPS

-----------------------------------------------------------------------------
(* Skipping inactive tasks does not leave a set that next does not leave.  *)

LEMMA SkipStays ==
  ASSUME NEW S, NEW active, NEW nxt, NEW t \in S, \A u \in S : nxt[u] \in S
  PROVE  /\ Skip(active, nxt, t) \in S
         /\ Skip2(active, nxt, t) \in S
         /\ Skip4(active, nxt, t) \in S
         /\ Skip10(active, nxt, t) \in S
<1>1. \A u \in S : Skip(active, nxt, u) \in S
  BY DEF Skip
<1>2. \A u \in S : Skip2(active, nxt, u) \in S
  BY <1>1 DEF Skip2
<1>3. \A u \in S : Skip4(active, nxt, u) \in S
  BY <1>2 DEF Skip4
<1>4. \A u \in S : Skip10(active, nxt, u) \in S
  BY <1>2, <1>3 DEF Skip10
<1>5. QED
  BY <1>1, <1>2, <1>3, <1>4

Stays(S, f) == \A t \in S : f[t] \in S
Whole(L, f) == \A S \in SUBSET L : S # {} /\ Stays(S, f) => S = L

(* Linking a new element behind an old one keeps the ring whole: a set the *)
(* new pointers do not leave is, without the new element, a set the old    *)
(* ones do not leave.                                                      *)
LEMMA InsertKeepsRing ==
  ASSUME NEW L, NEW f, NEW g, NEW c \in L, NEW n, n \notin L,
         Stays(L, f), Whole(L, f),
         g[c] = n, g[n] = f[c], \A t \in L \ {c} : g[t] = f[t]
  PROVE  Stays(L \union {n}, g) /\ Whole(L \union {n}, g)
<1>1. Stays(L \union {n}, g)
  BY DEF Stays
<1>2. ASSUME NEW S \in SUBSET (L \union {n}), S # {}, Stays(S, g)
      PROVE  S = L \union {n}
  <2> DEFINE R == S \ {n}
  <2>1. R \subseteq L
    OBVIOUS
  <2>2. Stays(R, f)
    <3>1. ASSUME NEW t \in R, t # c
          PROVE  f[t] \in R
      BY <1>2, <2>1, <3>1 DEF Stays
    <3>2. ASSUME c \in R
          PROVE  f[c] \in R
      <4>1. n \in S
        BY <1>2, <3>2 DEF Stays
      <4>2. QED
        BY <1>2, <4>1 DEF Stays
    <3>3. QED
      BY <3>1, <3>2 DEF Stays
  <2>3. R # {}
    <3>1. CASE n \in S
      BY <1>2, <3>1 DEF Stays
    <3>2. CASE n \notin S
      BY <1>2, <3>2
    <3>3. QED
      BY <3>1, <3>2
  <2>4. R = L
    BY <2>1, <2>2, <2>3 DEF Whole
  <2>5. n \in S
    BY <1>2, <2>4 DEF Stays
  <2>6. QED
    BY <2>4, <2>5
<1>3. QED
  BY <1>1, <1>2 DEF Whole

-----------------------------------------------------------------------------

LEMMA TasksInitInv == TasksInit => TasksInv
<1> SUFFICES ASSUME TasksInit PROVE TasksInv
  OBVIOUS
<1>1. /\ current_task = 0 /\ next_pid = 1 /\ linked = {0}
      /\ next = [t \in Pids |-> 0] /\ making = [t \in Pids |-> None]
  BY DEF TasksInit, main_task
<1>0. 0 \in Pids /\ None \notin Pids
  BY TasksAssumption DEF Pids, None
<1>2. TasksTypeOK
  <2>1. next_pid \in 1 .. MaxTasks
    BY <1>1, TasksAssumption
  <2>2. pending_signals \in [Pids -> SUBSET Signals] /\ is_active \in [Pids -> BOOLEAN]
    BY DEF TasksInit
  <2>3. making \in [Pids -> Pids \union {None}] /\ next \in [Pids -> Pids]
    BY <1>0, <1>1
  <2>4. QED
    BY <1>0, <1>1, <2>1, <2>2, <2>3 DEF TasksInit, TasksTypeOK
<1>3. RingIsClosed
  BY <1>0, <1>1 DEF RingIsClosed
<1>4. RingIsWhole
  BY <1>1 DEF RingIsWhole
<1>5. QED
  BY <1>2, <1>3, <1>4 DEF TasksInv

LEMMA CreatePreserves ==
  ASSUME TasksInv, NEW c \in Pids, CreateTask(c)
  PROVE  TasksInv'
<1>1. /\ TasksTypeOK /\ RingIsClosed /\ RingIsWhole
      /\ current_task = c /\ c \in linked
      /\ next_pid \in Pids /\ next_pid + 1 \in 1 .. MaxTasks
      /\ making' = [making EXCEPT ![c] = next_pid]
      /\ UNCHANGED <<current_task, linked, next, halted, in_service, fatal>>
  <2>1. TasksTypeOK /\ RingIsClosed /\ RingIsWhole
    BY DEF TasksInv
  <2>2. current_task = c /\ c \in linked
    BY <2>1 DEF CreateTask, Executes, RingIsClosed
  <2>3. next_pid \in Pids /\ next_pid + 1 \in 1 .. MaxTasks
    BY <2>1, TasksAssumption DEF CreateTask, HasRoom, TasksTypeOK, Pids
  <2>4. /\ making' = [making EXCEPT ![c] = next_pid]
        /\ UNCHANGED <<current_task, linked, next, halted, in_service, fatal>>
    BY DEF CreateTask
  <2>5. QED
    BY <2>1, <2>2, <2>3, <2>4
<1>2. /\ pending_signals' \in [Pids -> SUBSET Signals]
      /\ is_active' \in [Pids -> BOOLEAN]
  BY <1>1, TasksAssumption DEF CreateTask, TasksTypeOK
<1>3. TasksTypeOK'
  BY <1>1, <1>2 DEF CreateTask, TasksTypeOK
<1>4. RingIsClosed'
  <2>1. /\ next_pid' = next_pid + 1
        /\ \A t \in linked : t < next_pid
        /\ \A d \in Pids : making[d] # None => making[d] < next_pid
        /\ next_pid \in Nat /\ linked \subseteq Nat
        /\ next_pid # None
    BY <1>1, TasksAssumption DEF CreateTask, RingIsClosed, TasksTypeOK, Pids, None
  <2>2. \A d \in Pids \ {c} : making'[d] = making[d] /\ making[d] # next_pid
    BY <1>1, <2>1, TasksAssumption DEF TasksTypeOK, Pids, None
  <2>3. making'[c] = next_pid
    BY <1>1 DEF TasksTypeOK
  <2>4. ASSUME NEW d \in Pids, making'[d] # None
        PROVE  /\ d \in linked' /\ making'[d] \notin linked' /\ making'[d] < next_pid'
               /\ \A e \in Pids : making'[e] = making'[d] => e = d
    <3>1. CASE d = c
      BY <3>1, <1>1, <2>1, <2>2, <2>3
    <3>2. CASE d # c
      <4>1. making'[d] = making[d] /\ making[d] # None /\ making[d] # next_pid
        BY <3>2, <2>2, <2>4
      <4>2. /\ d \in linked /\ making[d] \notin linked /\ making[d] < next_pid
            /\ \A e \in Pids : making[e] = making[d] => e = d
        BY <1>1, <4>1 DEF RingIsClosed
      <4>3. making[d] < next_pid'
        BY <2>1, <4>1, <4>2, TasksAssumption DEF TasksTypeOK, Pids, None, TasksInv
      <4>4. QED
        BY <1>1, <2>2, <2>3, <4>1, <4>2, <4>3
    <3>3. QED
      BY <3>1, <3>2
  <2>5. \A t \in linked' : t < next_pid'
    BY <1>1, <2>1
  <2>6. QED
    BY <1>1, <2>4, <2>5 DEF RingIsClosed
<1>5. RingIsWhole'
  BY <1>1 DEF RingIsWhole
<1>6. QED
  BY <1>3, <1>4, <1>5 DEF TasksInv

LEMMA LinkPreserves ==
  ASSUME TasksInv, NEW c \in Pids, LinkTask(c)
  PROVE  TasksInv'
<1> DEFINE n == making[c]
<1>1. /\ TasksTypeOK /\ RingIsClosed /\ RingIsWhole
      /\ current_task = c /\ c \in linked /\ n # None
      /\ next' = [next EXCEPT ![n] = next[c], ![c] = n]
      /\ linked' = linked \union {n}
      /\ making' = [making EXCEPT ![c] = None]
      /\ UNCHANGED <<current_task, next_pid, is_active, pending_signals, halted,
                     in_service, fatal>>
  BY DEF TasksInv, LinkTask, Executes, RingIsClosed
<1>2. n \in Pids /\ n \notin linked /\ n < next_pid /\ linked \subseteq Pids /\ n # c
  BY <1>1 DEF RingIsClosed, TasksTypeOK
<1>3. /\ next'[c] = n /\ next'[n] = next[c]
      /\ \A t \in linked \ {c} : next'[t] = next[t]
  BY <1>1, <1>2 DEF TasksTypeOK
<1>4. TasksTypeOK'
  BY <1>1, <1>2 DEF TasksTypeOK
<1>5. /\ Stays(linked, next) /\ Whole(linked, next)
  BY <1>1 DEF RingIsClosed, RingIsWhole, Stays, Whole
<1> HIDE DEF n
<1>6. Stays(linked', next') /\ Whole(linked', next')
  <2>1. c \in linked /\ n \notin linked
    BY <1>1, <1>2
  <2>2. Stays(linked \union {n}, next') /\ Whole(linked \union {n}, next')
    BY <1>3, <1>5, <2>1, InsertKeepsRing
  <2>3. QED
    BY <1>1, <2>2
<1>7. RingIsClosed'
  <2>1. ASSUME NEW d \in Pids, making'[d] # None
        PROVE  /\ d \in linked' /\ making'[d] \notin linked' /\ making'[d] < next_pid'
               /\ \A e \in Pids : making'[e] = making'[d] => e = d
    <3>1. d # c /\ making'[d] = making[d]
      BY <1>1, <2>1 DEF TasksTypeOK
    <3>2. /\ d \in linked /\ making[d] \notin linked /\ making[d] < next_pid
          /\ \A e \in Pids : making[e] = making[d] => e = d
      BY <1>1, <2>1, <3>1 DEF RingIsClosed
    <3>3. making[d] # n
      BY <3>1, <3>2 DEF n
    <3>4. \A e \in Pids : making'[e] = making[e] \/ making'[e] = None
      BY <1>1 DEF TasksTypeOK
    <3>5. QED
      BY <1>1, <2>1, <3>1, <3>2, <3>3, <3>4
  <2>2. \A t \in linked' : t < next_pid'
    BY <1>1, <1>2 DEF RingIsClosed
  <2>3. QED
    BY <1>1, <1>6, <2>1, <2>2 DEF RingIsClosed, Stays
<1>8. QED
  BY <1>4, <1>6, <1>7 DEF TasksInv, RingIsWhole, Stays, Whole

(* How the exception handler ends when it replaces the task.               *)
LEMMA CrashReplaces ==
  ASSUME TasksTypeOK, NEW c \in Pids, Crash(c), c = ShellPid /\ HasRoom
  PROVE  /\ pending_signals' \in [Pids -> SUBSET Signals]
         /\ halted' \subseteq Pids /\ in_service' \in BOOLEAN
         /\ \/ current_task' = next_pid /\ UNCHANGED <<halted, in_service>>
            \/ current_task' = c /\ in_service' /\ halted' = halted \union {c}
<1>1. PICK bits \in Garbage, left \in SUBSET pending_signals[c] :
        /\ pending_signals' = [pending_signals EXCEPT ![next_pid] = bits, ![c] = left]
        /\ CrashEnds(c, left)
  BY DEF Crash
<1>2. /\ pending_signals \in [Pids -> SUBSET Signals] /\ bits \in SUBSET Signals
      /\ current_task = c
  BY TasksAssumption DEF TasksTypeOK, Crash, Executes
<1>3. left \in SUBSET Signals
  BY <1>1, <1>2
<1>4. pending_signals' \in [Pids -> SUBSET Signals]
  BY <1>1, <1>2, <1>3
<1>5. QED
  BY <1>1, <1>2, <1>4 DEF CrashEnds, TasksTypeOK

LEMMA CrashPreserves ==
  ASSUME TasksInv, NEW c \in Pids, Crash(c)
  PROVE  TasksInv'
<1>1. /\ TasksTypeOK /\ RingIsClosed /\ RingIsWhole
      /\ current_task = c /\ c \in linked
      /\ UNCHANGED <<making, fatal>>
  BY DEF TasksInv, Crash, Executes, RingIsClosed
<1>2. CASE c = ShellPid /\ HasRoom
  <2> DEFINE n == next_pid
  <2>1. /\ next' = [next EXCEPT ![n] = next[c], ![c] = n]
        /\ linked' = linked \union {n}
        /\ next_pid' = n + 1
        /\ is_active' = [is_active EXCEPT ![c] = FALSE, ![n] = TRUE]
    BY <1>2 DEF Crash
  <2>2. n \in Pids /\ n + 1 \in 1 .. MaxTasks /\ n \notin linked /\ n # c
    BY <1>1, <1>2, TasksAssumption DEF HasRoom, TasksTypeOK, RingIsClosed, Pids
  <2>3. /\ next'[c] = n /\ next'[n] = next[c]
        /\ \A t \in linked \ {c} : next'[t] = next[t]
    BY <1>1, <2>1, <2>2 DEF TasksTypeOK
  <2>4. /\ Stays(linked, next) /\ Whole(linked, next)
    BY <1>1 DEF RingIsClosed, RingIsWhole, Stays, Whole
  <2>5. Stays(linked', next') /\ Whole(linked', next')
    <3>1. Stays(linked \union {n}, next') /\ Whole(linked \union {n}, next')
      BY <1>1, <2>2, <2>3, <2>4, InsertKeepsRing
    <3>2. QED
      BY <2>1, <3>1
  <2>6. current_task' \in linked'
    <3>1. c \in linked'
      BY <1>1, <2>1
    <3>2. QED
      BY <1>1, <1>2, <2>1, <3>1, CrashReplaces
  <2>7. linked' \subseteq Pids /\ next' \in [Pids -> Pids]
    BY <1>1, <2>1, <2>2 DEF TasksTypeOK
  <2>8. TasksTypeOK'
    <3>1. /\ pending_signals' \in [Pids -> SUBSET Signals]
          /\ halted' \subseteq Pids /\ in_service' \in BOOLEAN
      BY <1>1, <1>2, CrashReplaces
    <3>2. is_active' \in [Pids -> BOOLEAN]
      BY <1>1, <2>1 DEF TasksTypeOK
    <3>3. current_task' \in Pids
      BY <2>6, <2>7
    <3>4. next_pid' \in 1 .. MaxTasks
      BY <2>1, <2>2
    <3>5. QED
      BY <1>1, <2>7, <3>1, <3>2, <3>3, <3>4 DEF TasksTypeOK
  <2>9. \A d \in Pids : making[d] # None => making[d] \notin linked'
    <3>1. \A d \in Pids : making[d] # None => making[d] \notin linked /\ making[d] < n
      BY <1>1 DEF RingIsClosed
    <3>2. n \in Nat
      BY <2>2, TasksAssumption DEF Pids
    <3>3. QED
      BY <2>1, <3>1, <3>2
  <2>10. \A t \in Pids \union linked : t < n => t < n + 1
    BY <1>1, <2>2, TasksAssumption DEF TasksTypeOK, Pids
  <2>11. \A t \in linked' : t < next_pid'
    <3>1. n < n + 1
      BY <2>2, TasksAssumption DEF Pids
    <3>2. QED
      BY <1>1, <2>1, <2>10, <3>1 DEF RingIsClosed
  <2>12. ASSUME NEW d \in Pids, making[d] # None
         PROVE  /\ d \in linked' /\ making[d] < next_pid'
                /\ \A e \in Pids : making[e] = making[d] => e = d
    <3>1. /\ d \in linked /\ making[d] < n
          /\ \A e \in Pids : making[e] = making[d] => e = d
      BY <1>1, <2>12 DEF RingIsClosed
    <3>2. making[d] \in Pids
      BY <1>1, <2>12 DEF TasksTypeOK
    <3>3. QED
      BY <2>1, <2>10, <3>1, <3>2
  <2>13. RingIsClosed'
    BY <1>1, <2>5, <2>6, <2>9, <2>11, <2>12 DEF RingIsClosed, Stays
  <2>14. QED
    BY <2>5, <2>8, <2>13 DEF TasksInv, RingIsWhole, Stays, Whole
<1>3. CASE ~ (c = ShellPid /\ HasRoom)
  <2>1. /\ UNCHANGED <<next, linked, next_pid, pending_signals, halted, in_service>>
        /\ is_active' = [is_active EXCEPT ![c] = FALSE]
        /\ current_task' = Skip4(is_active', next, next[c])
    BY <1>3 DEF Crash
  <2>2. \A t \in linked : next[t] \in linked
    BY <1>1 DEF RingIsClosed
  <2>3. current_task' \in linked
    BY <1>1, <2>1, <2>2, SkipStays
  <2>4. TasksTypeOK'
    BY <1>1, <2>1, <2>3 DEF TasksTypeOK
  <2>5. RingIsClosed' /\ RingIsWhole'
    BY <1>1, <2>1, <2>3 DEF RingIsClosed, RingIsWhole
  <2>6. QED
    BY <2>4, <2>5 DEF TasksInv
<1>4. QED
  BY <1>2, <1>3

LEMMA TimerPreserves ==
  ASSUME TasksInv, Timer
  PROVE  TasksInv'
<1>1. /\ TasksTypeOK /\ RingIsClosed /\ RingIsWhole
      /\ UNCHANGED <<next_pid, linked, next, is_active, making, fatal>>
  BY DEF TasksInv, Timer, TimerKills, TimerSwitches
<1>2. current_task' \in linked
  <2>1. CASE TimerKills
    BY <1>1, <2>1 DEF TimerKills, RingIsClosed
  <2>2. CASE TimerSwitches
    <3>1. \A t \in linked : next[t] \in linked
      BY <1>1 DEF RingIsClosed
    <3>2. next[current_task] \in linked
      BY <1>1 DEF RingIsClosed
    <3>3. QED
      BY <2>2, <3>1, <3>2, SkipStays DEF TimerSwitches
  <2>3. QED
    BY <2>1, <2>2 DEF Timer
<1>3. TasksTypeOK'
  <2>1. pending_signals' \in [Pids -> SUBSET Signals]
    <3>1. CASE TimerKills
      <4>1. PICK s \in LethalSignals :
              pending_signals' =
                [pending_signals EXCEPT ![current_task] = @ \ Delivered(s)]
        BY <3>1 DEF TimerKills
      <4>2. pending_signals[current_task] \ Delivered(s) \in SUBSET Signals
        BY <1>1 DEF TasksTypeOK
      <4>3. QED
        BY <1>1, <4>1, <4>2 DEF TasksTypeOK
    <3>2. CASE TimerSwitches
      BY <1>1, <3>2 DEF TasksTypeOK, TimerSwitches
    <3>3. QED
      BY <3>1, <3>2 DEF Timer
  <2>2. halted' \subseteq Pids /\ in_service' \in BOOLEAN
    BY <1>1 DEF TasksTypeOK, Timer, TimerKills, TimerSwitches
  <2>3. current_task' \in Pids
    BY <1>1, <1>2 DEF TasksTypeOK
  <2>4. QED
    BY <1>1, <2>1, <2>2, <2>3 DEF TasksTypeOK
<1>4. RingIsClosed' /\ RingIsWhole'
  BY <1>1, <1>2 DEF RingIsClosed, RingIsWhole
<1>5. QED
  BY <1>3, <1>4 DEF TasksInv

LEMMA TasksNextInv == TasksInv /\ [TasksNext]_taskVars => TasksInv'
<1> SUFFICES ASSUME TasksInv, [TasksNext]_taskVars PROVE TasksInv'
  OBVIOUS
<1>1. CASE UNCHANGED taskVars
  BY <1>1 DEF taskVars, TasksInv, TasksTypeOK, RingIsClosed, RingIsWhole
<1>2. ASSUME NEW c \in Pids, TaskStep(c) PROVE TasksInv'
  <2>1. CASE Exit(c)
    BY <2>1 DEF Exit, TasksInv, TasksTypeOK, RingIsClosed, RingIsWhole
  <2>2. QED
    BY <1>2, <2>1, CreatePreserves, LinkPreserves, CrashPreserves DEF TaskStep
<1>3. CASE SendSignal(SIGINT)
  BY <1>3 DEF SendSignal, TasksInv, TasksTypeOK, RingIsClosed, RingIsWhole
<1>4. CASE KernelFatal
  BY <1>4 DEF KernelFatal, TasksInv, TasksTypeOK, RingIsClosed, RingIsWhole
<1>5. QED
  BY <1>1, <1>2, <1>3, <1>4, TimerPreserves DEF TasksNext, Stopped

(* The ring is whole and closed, and every record typed, in every reachable*)
(* state: no interleaving of create_task, crashes and switches breaks it.  *)
THEOREM TasksInvariance == TasksSpec => []TasksInv
<1>1. QED
  BY TasksInitInv, TasksNextInv, PTL DEF TasksSpec

(* The types of the task records.                                          *)
THEOREM TasksTypeCorrect == TasksSpec => []TasksTypeOK
<1>1. TasksInv => TasksTypeOK
  BY DEF TasksInv
<1>2. QED
  BY <1>1, TasksInvariance, PTL

(* schedule comes past every task.                                         *)
THEOREM RingIsWholeHolds == TasksSpec => []RingIsWhole
<1>1. TasksInv => RingIsWhole
  BY DEF TasksInv
<1>2. QED
  BY <1>1, TasksInvariance, PTL

(* The running task is in the ring, and pids are never given twice.        *)
THEOREM RingIsClosedHolds == TasksSpec => []RingIsClosed
<1>1. TasksInv => RingIsClosed
  BY DEF TasksInv
<1>2. QED
  BY <1>1, TasksInvariance, PTL

-----------------------------------------------------------------------------
(* The processor goes round.                                               *)

(* Whom the timer gives the processor to after t.                          *)
Resumes(t) == Skip10(is_active, next, next[t])

(* Tasks that leave the processor only to each other are all the active    *)
(* tasks: no choice of schedule keeps one from its turn.                   *)
TurnsReachAll ==
  \A S \in SUBSET linked :
    S # {} /\ (\A t \in S : Resumes(t) \in S) => {t \in linked : is_active[t]} \subseteq S

(* The tasks of L from which one look ahead leads into X.                  *)
Before(L, active, nxt, X) == {u \in L : Skip(active, nxt, u) \in X}

(* The same for more than one look.                                        *)
LEMMA BeforeMany ==
  ASSUME NEW L, NEW active, NEW nxt, Stays(L, nxt), NEW X, NEW u \in L
  PROVE  LET B(Y) == Before(L, active, nxt, Y)
         IN  /\ Skip2(active, nxt, u) \in X => u \in B(B(X))
             /\ Skip4(active, nxt, u) \in X => u \in B(B(B(B(X))))
             /\ Skip10(active, nxt, u) \in X => u \in B(B(B(B(B(B(B(B(B(B(X))))))))))
<1> DEFINE B(Y) == Before(L, active, nxt, Y)
<1>1. \A v \in L : /\ Skip(active, nxt, v) \in L /\ Skip2(active, nxt, v) \in L
                   /\ Skip4(active, nxt, v) \in L
  BY SkipStays DEF Stays
<1>2. \A Y : \A v \in L : Skip2(active, nxt, v) \in Y => v \in B(B(Y))
  BY <1>1 DEF Before, Skip2
<1> HIDE DEF B
<1>3. \A Y : \A v \in L : Skip4(active, nxt, v) \in Y => v \in B(B(B(B(Y))))
  BY <1>1, <1>2 DEF Skip4
<1>4. Skip10(active, nxt, u) \in X => u \in B(B(B(B(B(B(B(B(B(B(X))))))))))
  <2> DEFINE v == Skip4(active, nxt, u)
             w == Skip4(active, nxt, v)
  <2>1. ASSUME Skip10(active, nxt, u) \in X
        PROVE  w \in B(B(X))
    BY <1>1, <1>2, <2>1 DEF Skip10
  <2>2. ASSUME w \in B(B(X))
        PROVE  v \in B(B(B(B(B(B(X))))))
    BY <1>1, <1>3, <2>2
  <2>3. ASSUME v \in B(B(B(B(B(B(X))))))
        PROVE  u \in B(B(B(B(B(B(B(B(B(B(X))))))))))
    BY <1>3, <2>3
  <2>4. QED
    BY <2>1, <2>2, <2>3
<1>5. QED
  BY <1>2, <1>3, <1>4 DEF B

(* With the tasks that are looked past, a set that schedule does not leave *)
(* is one that next does not leave; and those are inactive.                *)
LEMMA LookedPast ==
  ASSUME TasksInv, NEW S \in SUBSET linked, S # {}, \A t \in S : Resumes(t) \in S
  PROVE  {t \in linked : is_active[t]} \subseteq S
<1> DEFINE B(Y) == Before(linked, is_active, next, Y)
           D1 == B(S)   D2 == B(D1)  D3 == B(D2)  D4 == B(D3)  D5 == B(D4)
           D6 == B(D5)  D7 == B(D6)  D8 == B(D7)  D9 == B(D8)  D10 == B(D9)
           All == S \union D1 \union D2 \union D3 \union D4 \union D5
                    \union D6 \union D7 \union D8 \union D9 \union D10
           Good(X) == \A u \in X : next[u] \in All /\ (is_active[u] => u \in S)
<1>1. Stays(linked, next) /\ RingIsWhole
  BY DEF TasksInv, RingIsClosed, Stays
<1>2. \A u \in S : next[u] \in D10
  <2>1. ASSUME NEW u \in S
        PROVE  next[u] \in D10
    <3>1. next[u] \in linked /\ Skip10(is_active, next, next[u]) \in S
      BY <1>1 DEF Stays, Resumes
    <3>2. QED
      BY <1>1, <3>1, BeforeMany
  <2>2. QED
    BY <2>1
<1>3. \A X : B(X) \subseteq linked
  BY DEF Before
<1>4. ASSUME NEW X, X \subseteq All, Good(X)
      PROVE  Good(B(X))
  <2>1. ASSUME NEW u \in B(X)
        PROVE  next[u] \in All /\ (is_active[u] => u \in S)
    <3>1. CASE is_active[u]
      <4>1. u \in X
        BY <2>1, <3>1 DEF Before, Skip
      <4>2. QED
        BY <1>4, <4>1
    <3>2. CASE ~is_active[u]
      <4>1. next[u] \in X
        BY <2>1, <3>2 DEF Before, Skip
      <4>2. QED
        BY <1>4, <3>2, <4>1
    <3>3. QED
      BY <3>1, <3>2
  <2>2. QED
    BY <2>1
<1>5. Good(S)
  BY <1>2
<1>6. /\ S \subseteq All /\ D1 \subseteq All /\ D2 \subseteq All /\ D3 \subseteq All
      /\ D4 \subseteq All /\ D5 \subseteq All /\ D6 \subseteq All /\ D7 \subseteq All
      /\ D8 \subseteq All /\ D9 \subseteq All
  OBVIOUS
<1>7. All \subseteq linked
  BY <1>3
<1>8. Good(All)
  <2>1. Good(D1) /\ Good(D2)
    <3>1. Good(D1)
      BY <1>4, <1>5, <1>6
    <3>2. QED
      BY <1>4, <1>6, <3>1
  <2>2. Good(D3) /\ Good(D4)
    <3>1. Good(D3)
      BY <1>4, <1>6, <2>1
    <3>2. QED
      BY <1>4, <1>6, <3>1
  <2>3. Good(D5) /\ Good(D6)
    <3>1. Good(D5)
      BY <1>4, <1>6, <2>2
    <3>2. QED
      BY <1>4, <1>6, <3>1
  <2>4. Good(D7) /\ Good(D8)
    <3>1. Good(D7)
      BY <1>4, <1>6, <2>3
    <3>2. QED
      BY <1>4, <1>6, <3>1
  <2>5. Good(D9) /\ Good(D10)
    <3>1. Good(D9)
      BY <1>4, <1>6, <2>4
    <3>2. QED
      BY <1>4, <1>6, <3>1
  <2>6. QED
    BY <1>5, <2>1, <2>2, <2>3, <2>4, <2>5
<1> HIDE DEF All
<1>9. All = linked
  <2>1. All # {} /\ \A u \in All : next[u] \in All
    BY <1>6, <1>8
  <2>2. QED
    BY <1>1, <1>7, <2>1 DEF RingIsWhole
<1>10. QED
  BY <1>8, <1>9

(* From whatever task, with whatever tasks crashed and however many of     *)
(* them in a row, the turns of schedule (sched.c 10-17) come to every      *)
(* active task: the limit of its search, ten tasks, makes it stop at an    *)
(* inactive one, from which it goes on.                                    *)
THEOREM TurnsReachAllHolds == TasksSpec => []TurnsReachAll
<1>1. TasksInv => TurnsReachAll
  BY LookedPast DEF TurnsReachAll
<1>2. QED
  BY <1>1, TasksInvariance, PTL

-----------------------------------------------------------------------------
(* Crashed tasks are passed over.                                          *)

(* Looking past an inactive task goes on to the next one.                  *)
LEMMA SkipBack ==
  ASSUME NEW active, NEW nxt, NEW t, ~active[Skip(active, nxt, t)]
  PROVE  ~active[t] /\ Skip(active, nxt, t) = nxt[t]
BY DEF Skip

LEMMA Skip2Back ==
  ASSUME NEW active, NEW nxt, NEW t, ~active[Skip2(active, nxt, t)]
  PROVE  ~active[t] /\ ~active[nxt[t]] /\ Skip2(active, nxt, t) = nxt[nxt[t]]
<1> DEFINE u == Skip(active, nxt, t)
<1>1. ~active[u] /\ Skip(active, nxt, u) = nxt[u]
  BY SkipBack DEF Skip2
<1>2. ~active[t] /\ u = nxt[t]
  BY <1>1, SkipBack
<1>3. QED
  BY <1>1, <1>2 DEF Skip2

LEMMA Skip4Back ==
  ASSUME NEW active, NEW nxt, NEW t, ~active[Skip4(active, nxt, t)]
  PROVE  /\ ~active[t] /\ ~active[nxt[t]] /\ ~active[nxt[nxt[t]]]
         /\ ~active[nxt[nxt[nxt[t]]]]
         /\ Skip4(active, nxt, t) = nxt[nxt[nxt[nxt[t]]]]
<1> DEFINE u == Skip2(active, nxt, t)
<1>1. ~active[u] /\ ~active[nxt[u]] /\ Skip4(active, nxt, t) = nxt[nxt[u]]
  BY Skip2Back DEF Skip4
<1>2. ~active[t] /\ ~active[nxt[t]] /\ u = nxt[nxt[t]]
  BY <1>1, Skip2Back
<1>3. QED
  BY <1>1, <1>2

LEMMA Skip10Back ==
  ASSUME NEW active, NEW nxt, NEW t, ~active[Skip10(active, nxt, t)]
  PROVE  /\ ~active[t] /\ ~active[nxt[t]] /\ ~active[nxt[nxt[t]]]
         /\ ~active[nxt[nxt[nxt[t]]]] /\ ~active[nxt[nxt[nxt[nxt[t]]]]]
         /\ ~active[nxt[nxt[nxt[nxt[nxt[t]]]]]]
<1> DEFINE u == Skip4(active, nxt, t)
           v == Skip4(active, nxt, u)
<1>1. ~active[v]
  BY Skip2Back DEF Skip10
<1>2. ~active[u] /\ ~active[nxt[u]]
  BY <1>1, Skip4Back
<1>3. /\ ~active[t] /\ ~active[nxt[t]] /\ ~active[nxt[nxt[t]]]
      /\ ~active[nxt[nxt[nxt[t]]]] /\ u = nxt[nxt[nxt[nxt[t]]]]
  BY <1>2, Skip4Back
<1>4. QED
  BY <1>2, <1>3

(* Six tasks in a row of the ring are six, unless the ring is shorter and  *)
(* they are all there is.                                                  *)
LEMMA SixInRow ==
  ASSUME NEW L, NEW f, Stays(L, f), Whole(L, f), NEW m \in L,
         NEW a \in L, NEW b, NEW c, NEW d, NEW e, NEW g,
         b = f[a], c = f[b], d = f[c], e = f[d], g = f[e],
         m \notin {a, b, c, d, e, g}
  PROVE  /\ {a, b, c, d, e, g} \subseteq L
         /\ b \notin {a} /\ c \notin {a, b} /\ d \notin {a, b, c}
         /\ e \notin {a, b, c, d} /\ g \notin {a, b, c, d, e}
<1>1. {a, b, c, d, e, g} \subseteq L
  BY DEF Stays
<1>2. \A S \in SUBSET L : S # {} /\ m \notin S => \E t \in S : f[t] \notin S
  BY DEF Stays, Whole
<1>3. b \notin {a}
  <2>1. {a} \in SUBSET L
    BY <1>1
  <2>2. QED
    BY <2>1, <1>2
<1>4. c \notin {a, b}
  <2>1. {a, b} \in SUBSET L
    BY <1>1
  <2>2. QED
    BY <2>1, <1>2
<1>5. d \notin {a, b, c}
  <2>1. {a, b, c} \in SUBSET L
    BY <1>1
  <2>2. QED
    BY <2>1, <1>2
<1>6. e \notin {a, b, c, d}
  <2>1. {a, b, c, d} \in SUBSET L
    BY <1>1
  <2>2. QED
    BY <2>1, <1>2
<1>7. g \notin {a, b, c, d, e}
  <2>1. {a, b, c, d, e} \in SUBSET L
    BY <1>1
  <2>2. QED
    BY <2>1, <1>2
<1>8. QED
  BY <1>1, <1>3, <1>4, <1>5, <1>6, <1>7

LEMMA AddOne ==
  ASSUME NEW S, IsFiniteSet(S), NEW x, x \notin S
  PROVE  IsFiniteSet(S \union {x}) /\ Cardinality(S \union {x}) = Cardinality(S) + 1
BY FS_AddElement

LEMMA SixAreSix ==
  ASSUME NEW S, IsFiniteSet(S), NEW a, NEW b, NEW c, NEW d, NEW e, NEW g,
         {a, b, c, d, e, g} \subseteq S,
         b \notin {a}, c \notin {a, b}, d \notin {a, b, c},
         e \notin {a, b, c, d}, g \notin {a, b, c, d, e}
  PROVE  ~ (Cardinality(S) <= 5)
<1>1. IsFiniteSet({a}) /\ Cardinality({a}) = 1
  BY FS_Singleton
<1>2. IsFiniteSet({a, b}) /\ Cardinality({a, b}) = 2
  <2>1. {a, b} = {a} \union {b}
    OBVIOUS
  <2>2. QED
    BY <1>1, <2>1, AddOne
<1>3. IsFiniteSet({a, b, c}) /\ Cardinality({a, b, c}) = 3
  <2>1. {a, b, c} = {a, b} \union {c}
    OBVIOUS
  <2>2. QED
    BY <1>2, <2>1, AddOne
<1>4. IsFiniteSet({a, b, c, d}) /\ Cardinality({a, b, c, d}) = 4
  <2>1. {a, b, c, d} = {a, b, c} \union {d}
    OBVIOUS
  <2>2. QED
    BY <1>3, <2>1, AddOne
<1>5. IsFiniteSet({a, b, c, d, e}) /\ Cardinality({a, b, c, d, e}) = 5
  <2>1. {a, b, c, d, e} = {a, b, c, d} \union {e}
    OBVIOUS
  <2>2. QED
    BY <1>4, <2>1, AddOne
<1>6. IsFiniteSet({a, b, c, d, e, g}) /\ Cardinality({a, b, c, d, e, g}) = 6
  <2>1. {a, b, c, d, e, g} = {a, b, c, d, e} \union {g}
    OBVIOUS
  <2>2. QED
    BY <1>5, <2>1, AddOne
<1>7. Cardinality({a, b, c, d, e, g}) <= Cardinality(S)
  BY FS_Subset
<1>8. Cardinality(S) \in Nat
  BY FS_CardinalityType
<1>9. QED
  BY <1>6, <1>7, <1>8

-----------------------------------------------------------------------------

(* The task that runs is active, which holds on while no more than five    *)
(* have crashed: the kernel's first task never does, so the crashed are not*)
(* all there is.                                                           *)
StayInv == main_task \in linked /\ is_active[main_task] /\ CrashedStayOff

LEMMA PidsAreFinite == IsFiniteSet(Pids)
BY FS_Interval, TasksAssumption DEF Pids

LEMMA CrashedIsFinite == TasksTypeOK => IsFiniteSet(Crashed)
<1> SUFFICES ASSUME TasksTypeOK PROVE IsFiniteSet(Crashed)
  OBVIOUS
<1>1. Crashed \in SUBSET Pids
  BY DEF Crashed, TasksTypeOK
<1>2. QED
  BY <1>1, PidsAreFinite, FS_Subset

(* Six inactive tasks in a row are too many.                               *)
LEMMA NotSixInactive ==
  ASSUME NEW L, NEW f, Stays(L, f), Whole(L, f), NEW active,
         NEW m \in L, active[m], IsFiniteSet({t \in L : ~active[t]}),
         Cardinality({t \in L : ~active[t]}) <= 5, NEW a \in L,
         ~active[a], ~active[f[a]], ~active[f[f[a]]], ~active[f[f[f[a]]]],
         ~active[f[f[f[f[a]]]]], ~active[f[f[f[f[f[a]]]]]]
  PROVE  FALSE
<1> DEFINE b == f[a]
           c == f[b]
           d == f[c]
           e == f[d]
           g == f[e]
<1>1. \A t \in {a, b, c, d, e, g} : ~active[t]
  OBVIOUS
<1>2. b = f[a] /\ c = f[b] /\ d = f[c] /\ e = f[d] /\ g = f[e]
  OBVIOUS
<1> HIDE DEF b, c, d, e, g
<1>3. m \notin {a, b, c, d, e, g}
  BY <1>1
<1>4. /\ {a, b, c, d, e, g} \subseteq L
      /\ b \notin {a} /\ c \notin {a, b} /\ d \notin {a, b, c}
      /\ e \notin {a, b, c, d} /\ g \notin {a, b, c, d, e}
  BY <1>2, <1>3, SixInRow
<1>5. {a, b, c, d, e, g} \subseteq {t \in L : ~active[t]}
  BY <1>1, <1>4
<1>6. QED
  BY <1>4, <1>5, SixAreSix

LEMMA StayInitInv == TasksInit => StayInv
<1>1. main_task \in Pids
  BY TasksAssumption DEF main_task, Pids
<1>2. QED
  BY <1>1 DEF TasksInit, StayInv, CrashedStayOff

(* Nobody crashes and nobody else gets the processor.                      *)
LEMMA StayKeeps ==
  ASSUME StayInv, TasksInv, Alive' => Alive, UNCHANGED <<current_task, linked>>,
         \A t \in linked : is_active'[t] = is_active[t]
  PROVE  StayInv'
<1>1. current_task \in linked
  BY DEF TasksInv, RingIsClosed
<1>2. Crashed' = Crashed
  BY DEF Crashed
<1>3. QED
  BY <1>1, <1>2 DEF StayInv, CrashedStayOff

LEMMA StayCrash ==
  ASSUME StayInv, TasksInv, TasksInv', NEW c \in Pids, Crash(c)
  PROVE  StayInv'
<1>1. /\ c \in linked /\ c # main_task
      /\ next_pid \notin linked /\ is_active \in [Pids -> BOOLEAN]
      /\ linked \subseteq Pids
  BY DEF TasksInv, RingIsClosed, TasksTypeOK, Crash, Executes
<1>2. main_task \in linked /\ is_active[main_task] /\ main_task \in Pids
  BY <1>1 DEF StayInv
<1>3. CASE c = ShellPid /\ HasRoom
  <2>1. /\ next' = [next EXCEPT ![next_pid] = next[c], ![c] = next_pid]
        /\ linked' = linked \union {next_pid}
        /\ is_active' = [is_active EXCEPT ![c] = FALSE, ![next_pid] = TRUE]
    BY <1>3 DEF Crash
  <2>2. next_pid \in Pids /\ next \in [Pids -> Pids]
    <3>1. next_pid \in 1 .. MaxTasks /\ next_pid < MaxTasks /\ next \in [Pids -> Pids]
      BY <1>3 DEF TasksInv, TasksTypeOK, HasRoom
    <3>2. QED
      BY <3>1, TasksAssumption DEF Pids
  <2>3. is_active'[next_pid]
    BY <1>1, <2>1, <2>2
  <2>4. Alive' => current_task' = next_pid
    BY <1>3, CrashReplaces DEF TasksInv, Alive
  <2>5. main_task \in linked' /\ is_active'[main_task]
    BY <1>1, <1>2, <2>1
  <2>6. QED
    BY <2>3, <2>4, <2>5 DEF StayInv, CrashedStayOff
<1>4. CASE ~ (c = ShellPid /\ HasRoom)
  <2>1. /\ UNCHANGED <<next, linked>>
        /\ is_active' = [is_active EXCEPT ![c] = FALSE]
        /\ current_task' = Skip4(is_active', next, next[c])
    BY <1>4 DEF Crash
  <2>2. main_task \in linked' /\ is_active'[main_task]
    BY <1>1, <1>2, <2>1
  <2>3. ASSUME Cardinality(Crashed') <= 5, ~is_active'[current_task'] PROVE FALSE
    <3> DEFINE active == [is_active EXCEPT ![c] = FALSE]
               a == next[c]
    <3>1. ~active[Skip4(active, next, a)]
      BY <2>1, <2>3
    <3>2. Crashed' = {t \in linked : ~active[t]}
      BY <2>1 DEF Crashed
    <3>3. IsFiniteSet({t \in linked : ~active[t]})
      BY <1>1, PidsAreFinite, FS_Subset
    <3>4. c \in linked /\ main_task \in linked /\ ~active[c] /\ active[main_task]
      BY <1>1, <1>2
    <3>5. Stays(linked, next) /\ Whole(linked, next)
      BY DEF TasksInv, RingIsClosed, RingIsWhole, Stays, Whole
    <3> HIDE DEF active
    <3>6. /\ ~active[a] /\ ~active[next[a]] /\ ~active[next[next[a]]]
          /\ ~active[next[next[next[a]]]] /\ ~active[next[next[next[next[a]]]]]
      BY <3>1, Skip4Back
    <3>7. QED
      BY <2>3, <3>2, <3>3, <3>4, <3>5, <3>6, NotSixInactive
  <2>4. QED
    BY <2>2, <2>3 DEF StayInv, CrashedStayOff
<1>5. QED
  BY <1>3, <1>4

LEMMA StayTimer ==
  ASSUME StayInv, TasksInv, Timer
  PROVE  StayInv'
<1>1. CASE TimerKills
  BY <1>1, StayKeeps DEF TimerKills, Alive
<1>2. CASE TimerSwitches
  <2>1. UNCHANGED <<linked, next, is_active>> /\ Crashed' = Crashed
        /\ current_task' = Skip10(is_active, next, next[current_task])
    BY <1>2 DEF TimerSwitches, Crashed
  <2>2. next[current_task] \in linked
    BY DEF TasksInv, RingIsClosed
  <2>5. Alive
    BY <1>2 DEF TimerSwitches
  <2>3. ASSUME Cardinality(Crashed) <= 5, ~is_active[current_task'] PROVE FALSE
    <3> DEFINE a == next[current_task]
    <3>1. /\ ~is_active[a] /\ ~is_active[next[a]] /\ ~is_active[next[next[a]]]
          /\ ~is_active[next[next[next[a]]]] /\ ~is_active[next[next[next[next[a]]]]]
          /\ ~is_active[next[next[next[next[next[a]]]]]]
      BY <2>1, <2>3, Skip10Back
    <3>2. Stays(linked, next) /\ Whole(linked, next)
      BY DEF TasksInv, RingIsClosed, RingIsWhole, Stays, Whole
    <3>3. IsFiniteSet(Crashed)
      BY CrashedIsFinite DEF TasksInv
    <3>4. QED
      BY <2>2, <2>3, <2>5, <3>1, <3>2, <3>3, NotSixInactive DEF StayInv, Crashed
  <2>4. QED
    BY <2>1, <2>3 DEF StayInv, CrashedStayOff
<1>3. QED
  BY <1>1, <1>2 DEF Timer

LEMMA StayNextInv ==
  StayInv /\ TasksInv /\ TasksInv' /\ [TasksNext]_taskVars => StayInv'
<1> SUFFICES ASSUME StayInv, TasksInv, TasksInv', [TasksNext]_taskVars PROVE StayInv'
  OBVIOUS
<1>1. CASE UNCHANGED taskVars \/ SendSignal(SIGINT) \/ KernelFatal \/ Stopped
  BY <1>1, StayKeeps DEF taskVars, SendSignal, KernelFatal, Stopped, Alive
<1>2. ASSUME NEW c \in Pids, TaskStep(c) PROVE StayInv'
  <2>1. CASE CreateTask(c)
    <3>1. next_pid \notin linked /\ linked \subseteq Pids
      BY DEF TasksInv, RingIsClosed, TasksTypeOK
    <3>2. \A t \in linked : is_active'[t] = is_active[t]
      BY <2>1, <3>1 DEF CreateTask, TasksInv, TasksTypeOK
    <3>3. QED
      BY <2>1, <3>2, StayKeeps DEF CreateTask, Executes
  <2>2. CASE LinkTask(c)
    <3>1. /\ linked' = linked \union {making[c]} /\ making[c] # None
          /\ UNCHANGED <<current_task, is_active>>
      BY <2>1, <2>2 DEF LinkTask
    <3>2. IsFiniteSet(Crashed') /\ Crashed \in SUBSET Crashed'
      <4>1. Crashed' \in SUBSET Pids
        BY DEF TasksInv, TasksTypeOK, Crashed
      <4>2. Crashed \subseteq Crashed'
        BY <3>1 DEF Crashed
      <4>3. QED
        BY <4>1, <4>2, PidsAreFinite, FS_Subset
    <3>3. Cardinality(Crashed) <= Cardinality(Crashed')
      BY <3>2, FS_Subset
    <3>4. Cardinality(Crashed) \in Nat /\ Cardinality(Crashed') \in Nat
      BY <3>2, CrashedIsFinite, FS_CardinalityType DEF TasksInv
    <3>5. Alive
      BY <2>2 DEF LinkTask, Executes
    <3>6. QED
      BY <3>1, <3>3, <3>4, <3>5 DEF StayInv, CrashedStayOff
  <2>3. CASE Exit(c)
    BY <2>3, StayKeeps DEF Exit, Executes
  <2>4. QED
    BY <1>2, <2>1, <2>2, <2>3, StayCrash DEF TaskStep
<1>3. QED
  BY <1>1, <1>2, StayTimer DEF TasksNext

LEMMA StayInvariance == TasksSpec => []StayInv
<1>1. QED
  BY StayInitInv, TasksInitInv, StayNextInv, TasksNextInv, PTL DEF TasksSpec

(* A crashed task never gets the processor again while no more than five   *)
(* have crashed, whatever the ring and however long it is: main_task never *)
(* crashes, so six inactive tasks in a row are six different ones.         *)
THEOREM CrashedStayOffHolds == TasksSpec => []CrashedStayOff
<1>1. StayInv => CrashedStayOff
  BY DEF StayInv
<1>2. QED
  BY <1>1, StayInvariance, PTL

-----------------------------------------------------------------------------
(* The system.                                                             *)


(* A reader is a task that was made, and the kernel's first task stays what*)
(* it is.                                                                  *)
SystemInv ==
  /\ SystemTypeOK
  /\ OneReader
  /\ \A t \in Readers : t < next_pid
  /\ role[main_task] = "main"

(* What the steps need to know of the ring.                                *)
Known ==
  /\ current_task \in Pids
  /\ current_task < next_pid
  /\ next_pid \in Nat \ {0}
  /\ HasRoom => next_pid \in Pids

LEMMA RingIsKnown == TasksInv => Known
<1> SUFFICES ASSUME TasksInv PROVE Known
  OBVIOUS
<1>1. /\ current_task \in Pids /\ next_pid \in 1 .. MaxTasks
      /\ current_task \in linked /\ \A t \in linked : t < next_pid
  BY DEF TasksInv, TasksTypeOK, RingIsClosed
<1>2. HasRoom => next_pid \in Pids
  BY <1>1, TasksAssumption DEF HasRoom, Pids
<1>3. QED
  BY <1>1, <1>2, TasksAssumption DEF Known

LEMMA SystemInitInv == SystemInit => SystemInv
<1> SUFFICES ASSUME SystemInit PROVE SystemInv
  OBVIOUS
<1>1. main_task \in Pids
  BY TasksAssumption DEF main_task, Pids
<1>2. SystemTypeOK
  BY DEF SystemInit, SystemTypeOK, Roles, Places
<1>3. Readers = {}
  BY DEF SystemInit, Readers
<1>4. QED
  BY <1>1, <1>2, <1>3 DEF SystemInv, OneReader, SystemInit

-----------------------------------------------------------------------------
(* The steps that neither take nor release the keyboard lock.              *)

LEMMA MakePreserves ==
  ASSUME SystemInv, Known, NEW c \in Pids, NEW r \in Roles, Make(c, r),
         pc[c] # "reading", UNCHANGED keyboard_lock,
         bin_running' \in {0, 1}, image' \in Pids \union {None},
         cut' \in BOOLEAN, chained' \in BOOLEAN
  PROVE  SystemInv'
<1>1. /\ next_pid \in Pids /\ next_pid' = next_pid + 1 /\ next_pid \in Nat \ {0}
      /\ role' = [role EXCEPT ![next_pid] = r]
      /\ pc' = [pc EXCEPT ![next_pid] = Entry(r), ![c] = "link"]
  BY DEF Make, CreateTask, Known
<1>2. Entry(r) \in {"prompt", "idle", "run"}
  BY DEF Entry
<1>3. role \in [Pids -> Roles] /\ pc \in [Pids -> Places]
  BY DEF SystemInv, SystemTypeOK
<1>4. role' \in [Pids -> Roles]
  BY <1>1, <1>3
<1>5. pc' \in [Pids -> Places]
  BY <1>1, <1>2, <1>3 DEF Places
<1>6. SystemTypeOK'
  BY <1>4, <1>5 DEF SystemInv, SystemTypeOK
<1>7. next_pid \notin Readers
  BY <1>1 DEF SystemInv
<1>8. Readers' = Readers
  <2>1. \A t \in Pids : (pc'[t] = "reading") <=> (pc[t] = "reading")
    BY <1>1, <1>2, <1>3, <1>7 DEF Readers
  <2>2. QED
    BY <2>1 DEF Readers
<1>9. role'[main_task] = "main"
  BY <1>1, <1>3 DEF SystemInv, main_task
<1>10. \A t \in Readers' : t < next_pid'
  <2>1. \A t \in Readers : t \in Nat /\ t < next_pid
    BY TasksAssumption DEF SystemInv, Readers, Pids
  <2>2. QED
    BY <1>1, <1>8, <2>1
<1>11. QED
  BY <1>6, <1>8, <1>9, <1>10 DEF SystemInv, OneReader

(* Only the place of one task changes.                                     *)
LEMMA GotoPreserves ==
  ASSUME SystemInv, NEW c \in Pids, NEW place \in Places \ {"reading"},
         pc[c] # "reading", Goto(c, place), UNCHANGED <<role, keyboard_lock>>,
         next_pid' = next_pid,
         bin_running' \in {0, 1}, image' \in Pids \union {None},
         cut' \in BOOLEAN, chained' \in BOOLEAN
  PROVE  SystemInv'
<1>1. pc \in [Pids -> Places] /\ pc' = [pc EXCEPT ![c] = place]
  BY DEF SystemInv, SystemTypeOK, Goto
<1>2. pc' \in [Pids -> Places]
  BY <1>1
<1>3. Readers' = Readers
  <2>1. \A t \in Pids : (pc'[t] = "reading") <=> (pc[t] = "reading")
    BY <1>1
  <2>2. QED
    BY <2>1 DEF Readers
<1>4. QED
  BY <1>2, <1>3 DEF SystemInv, SystemTypeOK, OneReader

(* Nothing the shell or the programs look at changes.                      *)
LEMMA AloneStays ==
  ASSUME SystemInv, UNCHANGED <<role, pc, keyboard_lock, next_pid>>,
         bin_running' \in {0, 1}, image' \in Pids \union {None},
         cut' \in BOOLEAN, chained' \in BOOLEAN
  PROVE  SystemInv'
BY DEF SystemInv, SystemTypeOK, OneReader, Readers

-----------------------------------------------------------------------------
(* The steps that take or release the lock, or fault with it.              *)

LEMMA AcquirePreserves ==
  ASSUME SystemInv, Known, NEW c \in Pids, c = current_task, Acquire(c),
         UNCHANGED <<role, bin_running, image, cut, chained, next_pid>>
  PROVE  SystemInv'
<1>1. /\ pc \in [Pids -> Places] /\ pc' = [pc EXCEPT ![c] = "reading"]
      /\ keyboard_lock = 0 /\ keyboard_lock' = 1
  BY DEF SystemInv, SystemTypeOK, Acquire, Goto
<1>2. pc' \in [Pids -> Places]
  BY <1>1 DEF Places
<1>3. Readers = {}
  BY <1>1 DEF SystemInv, OneReader
<1>4. Readers' = {c}
  <2>1. \A t \in Pids : (pc'[t] = "reading") <=> (t = c)
    BY <1>1, <1>3 DEF Readers
  <2>2. QED
    BY <2>1 DEF Readers
<1>5. c < next_pid
  BY DEF Known
<1>6. QED
  BY <1>1, <1>2, <1>4, <1>5 DEF SystemInv, SystemTypeOK, OneReader

LEMMA ReleasePreserves ==
  ASSUME SystemInv, NEW c \in Pids, ReadLine(c)
  PROVE  SystemInv'
<1> DEFINE place == IF role[c] = "shell" THEN "command" ELSE "run"
<1>1. /\ pc \in [Pids -> Places] /\ pc[c] = "reading" /\ pc' = [pc EXCEPT ![c] = place]
      /\ keyboard_lock' = 0
      /\ UNCHANGED <<role, bin_running, image, cut, chained, next_pid>>
  BY DEF SystemInv, SystemTypeOK, ReadLine, Goto, taskVars
<1>2. place \in Places \ {"reading"}
  BY DEF Places
<1> HIDE DEF place
<1>3. pc' \in [Pids -> Places]
  BY <1>1, <1>2
<1>4. Readers = {c}
  BY <1>1 DEF SystemInv, OneReader, Readers
<1>5. Readers' = {}
  <2>1. \A t \in Pids : pc'[t] # "reading"
    BY <1>1, <1>2, <1>4 DEF Readers
  <2>2. QED
    BY <2>1 DEF Readers
<1>6. QED
  BY <1>1, <1>3, <1>5 DEF SystemInv, SystemTypeOK, OneReader

LEMMA FaultPreserves ==
  ASSUME SystemInv, Known, NEW c \in Pids, Faults(c)
  PROVE  SystemInv'
<1>1. /\ pc \in [Pids -> Places] /\ role \in [Pids -> Roles]
      /\ next_pid \in Nat \ {0}
      /\ UNCHANGED <<bin_running, keyboard_lock, image, cut, chained>>
  BY DEF SystemInv, SystemTypeOK, Faults, Known
<1>2. CASE c = ShellPid /\ HasRoom
  <2>1. /\ next_pid \in Pids /\ next_pid' = next_pid + 1
        /\ role' = [role EXCEPT ![next_pid] = "forth"]
        /\ pc' = [pc EXCEPT ![next_pid] = "run"]
    BY <1>2 DEF Known, Faults, Crash, Entry
  <2>2. role' \in [Pids -> Roles] /\ pc' \in [Pids -> Places]
    BY <1>1, <2>1 DEF Roles, Places
  <2>3. next_pid \notin Readers
    BY <1>1, <2>1 DEF SystemInv
  <2>4. Readers' = Readers
    <3>1. \A t \in Pids : (pc'[t] = "reading") <=> (pc[t] = "reading")
      BY <1>1, <2>1, <2>3 DEF Readers
    <3>2. QED
      BY <3>1 DEF Readers
  <2>5. role'[main_task] = "main"
    BY <1>1, <2>1 DEF SystemInv, main_task
  <2>6. \A t \in Readers' : t < next_pid'
    <3>1. \A t \in Readers : t \in Nat /\ t < next_pid
      BY TasksAssumption DEF SystemInv, Readers, Pids
    <3>2. QED
      BY <1>1, <2>1, <2>4, <3>1
  <2>7. QED
    BY <1>1, <2>2, <2>4, <2>5, <2>6 DEF SystemInv, SystemTypeOK, OneReader
<1>3. CASE ~ (c = ShellPid /\ HasRoom)
  <2>1. UNCHANGED <<role, pc, next_pid>>
    BY <1>3 DEF Faults, Crash
  <2>2. QED
    BY <1>1, <2>1, AloneStays DEF SystemInv, SystemTypeOK
<1>4. QED
  BY <1>2, <1>3

-----------------------------------------------------------------------------

LEMMA SystemNextInv == SystemInv /\ TasksInv /\ [SystemNext]_allVars => SystemInv'
<1> SUFFICES ASSUME SystemInv, TasksInv, [SystemNext]_allVars PROVE SystemInv'
  OBVIOUS
<1>0. Known /\ SystemTypeOK
  BY RingIsKnown DEF SystemInv
<1>1. CASE UNCHANGED allVars
  BY <1>0, <1>1, AloneStays DEF allVars, systemVars, taskVars, SystemTypeOK
<1>2. CASE Boot
  <2> DEFINE r == <<"clock", "forth", "shell">>[next_pid]
  <2>1. next_pid \in 1 .. 3
    BY <1>0, <1>2 DEF Boot, Known
  <2>2. r \in Roles
    BY <2>1 DEF Roles
  <2>3. main_task \in Pids /\ pc[main_task] # "reading" /\ Make(main_task, r)
    BY <1>2, TasksAssumption DEF Boot, At, main_task, Pids
  <2>4. UNCHANGED <<bin_running, keyboard_lock, image, cut, chained>>
    BY <1>2 DEF Boot
  <2> HIDE DEF r
  <2>5. QED
    BY <1>0, <2>2, <2>3, <2>4, MakePreserves DEF SystemTypeOK
<1>3. ASSUME NEW c \in Pids, Link(c) PROVE SystemInv'
  <2> DEFINE place == Home(role[c])
  <2>1. place \in Places \ {"reading"}
    BY DEF Places, Home
  <2>2. /\ Goto(c, place) /\ UNCHANGED <<role, bin_running, keyboard_lock, image, cut, chained>>
        /\ next_pid' = next_pid /\ pc[c] # "reading"
    BY <1>3 DEF Link, LinkTask
  <2> HIDE DEF place
  <2>3. QED
    BY <1>0, <2>1, <2>2, GotoPreserves DEF SystemTypeOK
<1>4. ASSUME NEW c \in Pids, ReadLine(c) PROVE SystemInv'
  BY <1>4, ReleasePreserves
<1>5. ASSUME NEW c \in Pids, Interrupt(c) PROVE SystemInv'
  BY <1>0, <1>5, AloneStays DEF Interrupt, SendSignal, systemVars, SystemTypeOK
<1>6. ASSUME NEW c \in Pids, ShellStep(c) PROVE SystemInv'
  <2>1. CASE ShellPrompt(c)
    BY <1>0, <2>1, AcquirePreserves DEF ShellPrompt, At, Executes, taskVars
  <2>2. CASE ShellCommand(c)
    <3>1. PICK place \in {"prompt", "make_forth", "launch"} : Goto(c, place)
      BY <2>2 DEF ShellCommand
    <3>2. place \in Places \ {"reading"}
      BY <3>1 DEF Places
    <3>3. QED
      BY <1>0, <2>2, <3>1, <3>2, GotoPreserves
         DEF ShellCommand, At, taskVars, SystemTypeOK
  <2>3. CASE ShellLaunch(c)
    <3>1. "exec" \in Places \ {"reading"}
      BY DEF Places
    <3>2. QED
      BY <1>0, <2>3, <3>1, GotoPreserves DEF ShellLaunch, At, taskVars, SystemTypeOK
  <2>4. CASE ShellExec(c)
    <3>1. "make_program" \in Places \ {"reading"} /\ "prompt" \in Places \ {"reading"}
      BY DEF Places
    <3>2. QED
      BY <1>0, <2>4, <3>1, GotoPreserves DEF ShellExec, Loads, At, taskVars, SystemTypeOK
  <2>6. QED
    BY <1>6, <2>1, <2>2, <2>3, <2>4 DEF ShellStep
<1>11. ASSUME NEW c \in Pids, Makes(c) PROVE SystemInv'
  <2>1. CASE pc[c] = "make_program" /\ Make(c, "program") /\ image' = next_pid
             /\ UNCHANGED <<bin_running, keyboard_lock, cut, chained>>
    <3>1. "program" \in Roles /\ next_pid \in Pids
      BY <1>0, <2>1 DEF Roles, Known, Make, CreateTask
    <3>2. QED
      BY <1>0, <2>1, <3>1, MakePreserves DEF SystemTypeOK
  <2>2. CASE pc[c] = "make_forth" /\ Make(c, "forth")
             /\ UNCHANGED <<bin_running, keyboard_lock, image, cut, chained>>
    <3>1. "forth" \in Roles
      BY DEF Roles
    <3>2. QED
      BY <1>0, <2>2, <3>1, MakePreserves DEF SystemTypeOK
  <2>3. CASE /\ pc[c] \in {"make_program", "make_forth"} /\ Goto(c, Home(role[c]))
             /\ UNCHANGED <<taskVars, role, bin_running, keyboard_lock, image, cut, chained>>
    <3>1. Home(role[c]) \in Places \ {"reading"}
      BY DEF Places, Home
    <3>2. QED
      BY <1>0, <2>3, <3>1, GotoPreserves DEF taskVars, SystemTypeOK
  <2>4. QED
    BY <1>11, <2>1, <2>2, <2>3 DEF Makes
<1>7. ASSUME NEW c \in Pids, UserStep(c) PROVE SystemInv'
  <2>1. CASE Ends(c)
    <3>1. UNCHANGED <<role, pc, keyboard_lock, next_pid, image, chained>> /\ bin_running' = 0
      BY <2>1 DEF Ends, Exit
    <3>2. cut' \in BOOLEAN
      BY <1>0, <2>1 DEF Ends, SystemTypeOK
    <3>3. QED
      BY <1>0, <3>1, <3>2, AloneStays DEF SystemTypeOK
  <2>2. CASE ProgramReads(c)
    <3>1. CASE keyboard_lock = 0
      BY <1>0, <2>2, <3>1, AcquirePreserves DEF ProgramReads, At, Executes, taskVars
    <3>2. CASE keyboard_lock # 0
      <4>1. "stuck" \in Places \ {"reading"}
        BY DEF Places
      <4>2. QED
        BY <1>0, <2>2, <3>2, <4>1, GotoPreserves
           DEF ProgramReads, At, taskVars, SystemTypeOK
    <3>3. QED
      BY <3>1, <3>2
  <2>3. CASE Faults(c)
    BY <1>0, <2>3, FaultPreserves
  <2>5. CASE ProgramExec(c)
    <3>1. "make_program" \in Places \ {"reading"}
      BY DEF Places
    <3>2. QED
      BY <1>0, <2>5, <3>1, GotoPreserves DEF ProgramExec, Loads, At, taskVars, SystemTypeOK
  <2>4. QED
    BY <1>7, <2>1, <2>2, <2>3, <2>5 DEF UserStep
<1>8. CASE SystemTimer
  BY <1>0, <1>8, AloneStays
     DEF SystemTimer, systemVars, Timer, TimerKills, TimerSwitches, SystemTypeOK
<1>9. CASE Dead
  BY <1>0, <1>9, AloneStays DEF Dead, allVars, systemVars, taskVars, SystemTypeOK
<1>10. QED
  BY <1>1, <1>2, <1>3, <1>4, <1>5, <1>6, <1>7, <1>8, <1>9, <1>11 DEF SystemNext

(* Every step of the system is a step of the ring or leaves it alone.      *)
LEMMA StepsOfTheRing == SystemInv /\ [SystemNext]_allVars => [TasksNext]_taskVars
<1> SUFFICES ASSUME SystemInv, [SystemNext]_allVars PROVE [TasksNext]_taskVars
  OBVIOUS
<1>1. CASE UNCHANGED allVars
  BY <1>1 DEF allVars
<1>2. CASE Boot
  <2>1. CreateTask(main_task) /\ main_task \in Pids
    BY <1>2, TasksAssumption DEF Boot, Make, main_task, Pids
  <2>2. QED
    BY <2>1 DEF TasksNext, TaskStep
<1>3. ASSUME NEW c \in Pids, Link(c) PROVE [TasksNext]_taskVars
  BY <1>3 DEF Link, TasksNext, TaskStep
<1>4. ASSUME NEW c \in Pids, ReadLine(c) PROVE [TasksNext]_taskVars
  BY <1>4 DEF ReadLine
<1>5. ASSUME NEW c \in Pids, Interrupt(c) PROVE [TasksNext]_taskVars
  BY <1>5 DEF Interrupt, TasksNext
<1>6. ASSUME NEW c \in Pids, ShellStep(c) PROVE [TasksNext]_taskVars
  <2>1. CASE ShellPrompt(c) \/ ShellCommand(c) \/ ShellLaunch(c) \/ ShellExec(c)
    BY <2>1 DEF ShellPrompt, ShellCommand, ShellLaunch, ShellExec, Loads
  <2>2. QED
    BY <1>6, <2>1 DEF ShellStep
<1>11. ASSUME NEW c \in Pids, Makes(c) PROVE [TasksNext]_taskVars
  BY <1>11 DEF Makes, Make, TasksNext, TaskStep
<1>7. ASSUME NEW c \in Pids, UserStep(c) PROVE [TasksNext]_taskVars
  <2>1. CASE ProgramReads(c)
    BY <2>1 DEF ProgramReads
  <2>5. CASE ProgramExec(c)
    BY <2>5 DEF ProgramExec, Loads
  <2>2. CASE Faults(c)
    BY <2>2 DEF Faults, TasksNext, TaskStep
  <2>3. CASE Ends(c)
    <3>1. Exit(c) /\ c # main_task
      BY <2>3 DEF Ends, SystemInv
    <3>2. QED
      BY <3>1 DEF TasksNext, TaskStep
  <2>4. QED
    BY <1>7, <2>1, <2>2, <2>3, <2>5 DEF UserStep
<1>8. CASE SystemTimer
  BY <1>8 DEF SystemTimer, TasksNext
<1>9. CASE Dead
  BY <1>9 DEF Dead, allVars
<1>10. QED
  BY <1>1, <1>2, <1>3, <1>4, <1>5, <1>6, <1>7, <1>8, <1>9, <1>11 DEF SystemNext

(* Both invariants together: each step of the system, by the first, is one *)
(* of the ring, which keeps the second.                                    *)
LEMMA SystemInvariance == SystemSpec => [](SystemInv /\ TasksInv)
<1>1. SystemInit => SystemInv /\ TasksInv
  BY SystemInitInv, TasksInitInv DEF SystemInit
<1>2. SystemInv /\ TasksInv /\ [SystemNext]_allVars => (SystemInv /\ TasksInv)'
  BY SystemNextInv, StepsOfTheRing, TasksNextInv
<1>3. QED
  BY <1>1, <1>2, PTL DEF SystemSpec

(* The types of the variables the tasks share.                             *)
THEOREM SystemTypeCorrect == SystemSpec => []SystemTypeOK
<1>1. SystemInv => SystemTypeOK
  BY DEF SystemInv
<1>2. QED
  BY <1>1, SystemInvariance, PTL

(* The keyboard is read by one task at a time, and its lock is taken just  *)
(* when one reads (keyboard.c input_wait_string, mutex.c).                 *)
THEOREM OneReaderHolds == SystemSpec => []OneReader
<1>1. SystemInv => OneReader
  BY DEF SystemInv
<1>2. QED
  BY <1>1, SystemInvariance, PTL

-----------------------------------------------------------------------------
(* The shell and the programs.  There is one shell, programs are made by it*)
(* or by programs, a task that is not yet linked has not begun, and only   *)
(* shells and programs read.                                               *)
RolesInv ==
  /\ \A t \in Pids : role[t] = "shell" => t = ShellPid
  /\ \A t \in Pids : role[t] = "shell" /\ t \notin linked => pc[t] = "prompt"
  /\ \A c \in Pids : making[c] # None =>
       /\ pc[c] = "link"
       /\ role[making[c]] = "program" => role[c] \in {"shell", "program"}
  /\ \A c \in Pids : role[c] = "program" =>
       pc[c] # "make_forth" /\ (pc[c] \in {"make_program", "link"} => chained)
  /\ \A c \in Pids : pc[c] \in {"make_program", "make_forth"} =>
       role[c] \in {"shell", "program"}
  /\ \A t \in Readers : role[t] \in {"shell", "program"}

Prompting(t) == pc[t] = "prompt"

(* The shell says that it starts a program before it does.                 *)
Marked(c) ==
  /\ pc[c] \in {"exec", "make_program"} => bin_running = 1
  /\ pc[c] = "link" /\ making[c] # None =>
       (role[making[c]] = "program" => bin_running = 1 /\ image = making[c])

(* Who reads keeps the others from where they could be in the way: no      *)
(* program runs while the shell reads or is killed in it, and while a      *)
(* program does the shell waits; it is the only one unless one was chained.*)
KeepsOthersOut(d) ==
  /\ role[d] = "shell" => Living("program") = {}
  /\ role[d] = "program" =>
       /\ ~chained => Living("program") \subseteq {d}
       /\ \A c \in Living("shell") : Prompting(c)

(* What holds as long as nothing is spoiled; the shell's bin_running and   *)
(* its place together make one program the only one it starts.             *)
Kept ==
  /\ ~chained => \A t \in Living("program") : image = t
  /\ Living("program") # {} =>
       bin_running = 1 /\ \A c \in Living("shell") : Prompting(c)
  /\ \A c \in Living("shell") : Marked(c)
  /\ \A d \in Readers : KeepsOthersOut(d)
  /\ ~chained => \A t \in Pids : pc[t] # "stuck"

Promised == Spared => Kept

AllInv == SystemInv /\ TasksInv /\ StayInv /\ RolesInv /\ Promised

-----------------------------------------------------------------------------
(* Roles.                                                                  *)

LEMMA RolesInit == SystemInit => RolesInv
<1> SUFFICES ASSUME SystemInit PROVE RolesInv
  OBVIOUS
<1>1. /\ role = [t \in Pids |-> "main"] /\ pc = [t \in Pids |-> "boot"]
      /\ making = [t \in Pids |-> None]
  BY DEF SystemInit, TasksInit
<1>2. QED
  BY <1>1 DEF RolesInv, Readers

(* Nobody is made; the tasks that change their place are linked, and read  *)
(* only if they are a shell or a program.                                  *)
LEMMA RolesStay ==
  ASSUME RolesInv, SystemTypeOK, NEW c \in linked, NEW place,
         UNCHANGED <<role, making, linked>>, chained => chained',
         making[c] = None, pc' = [pc EXCEPT ![c] = place],
         place \in {"reading", "make_program"} => role[c] \in {"shell", "program"},
         place = "make_forth" => role[c] = "shell",
         place = "make_program" /\ role[c] = "program" => chained',
         place # "link"
  PROVE  RolesInv'
<1>1. \A t \in Pids \ {c} : pc'[t] = pc[t]
  BY DEF SystemTypeOK
<1>2. \A t \in Pids : pc'[t] = "reading" => role[t] \in {"shell", "program"}
  BY <1>1 DEF RolesInv, Readers, SystemTypeOK
<1>3. QED
  BY <1>1, <1>2 DEF RolesInv, Readers

LEMMA RolesSame ==
  ASSUME RolesInv, UNCHANGED <<role, making, pc, chained>>, linked \subseteq linked'
  PROVE  RolesInv'
BY DEF RolesInv, Readers

LEMMA RolesMake ==
  ASSUME RolesInv, SystemInv, TasksInv, NEW c \in Pids, NEW r \in Roles, Make(c, r),
         r = "shell" => next_pid = ShellPid,
         r = "program" => pc[c] = "make_program", chained' = chained,
         role[c] = "program" => pc[c] = "make_program"
  PROVE  RolesInv'
<1>1. /\ next_pid \in Pids /\ c \in linked /\ next_pid \notin linked
      /\ \A d \in Pids : making[d] # None => making[d] # next_pid
  <2>1. Known
    BY RingIsKnown
  <2>2. QED
    BY <2>1 DEF Known, Make, CreateTask, Executes, TasksInv, RingIsClosed, TasksTypeOK
<1>2. /\ role' = [role EXCEPT ![next_pid] = r] /\ linked' = linked
      /\ pc' = [pc EXCEPT ![next_pid] = Entry(r), ![c] = "link"]
      /\ making' = [making EXCEPT ![c] = next_pid]
      /\ role \in [Pids -> Roles] /\ pc \in [Pids -> Places]
      /\ making \in [Pids -> Pids \union {None}]
  BY DEF Make, CreateTask, SystemInv, SystemTypeOK, TasksInv, TasksTypeOK
<1>3. next_pid # c
  BY <1>1
<1>4. /\ role'[next_pid] = r /\ pc'[next_pid] = Entry(r) /\ pc'[c] = "link"
      /\ making'[c] = next_pid
      /\ \A t \in Pids \ {next_pid} : role'[t] = role[t]
      /\ \A t \in Pids \ {next_pid, c} : pc'[t] = pc[t]
      /\ \A t \in Pids \ {c} : making'[t] = making[t]
  BY <1>1, <1>2, <1>3
<1>5. \A t \in Pids : role'[t] = "shell" => t = ShellPid
  BY <1>4 DEF RolesInv
<1>6. \A t \in Pids : role'[t] = "shell" /\ t \notin linked' => pc'[t] = "prompt"
  BY <1>1, <1>2, <1>4 DEF RolesInv, Entry
<1>7. ASSUME NEW d \in Pids, making'[d] # None
      PROVE  /\ pc'[d] = "link"
             /\ role'[making'[d]] = "program" => role'[d] \in {"shell", "program"}
  <2>1. CASE d = c
    BY <1>3, <1>4, <2>1 DEF RolesInv
  <2>2. CASE d # c
    <3>1. making'[d] = making[d] /\ making[d] # next_pid /\ making[d] \in Pids
      BY <1>1, <1>2, <1>4, <1>7, <2>2
    <3>2. d \in linked /\ d # next_pid
      BY <1>1, <1>7, <3>1 DEF TasksInv, RingIsClosed
    <3>3. QED
      BY <1>4, <1>7, <2>2, <3>1, <3>2 DEF RolesInv
  <2>3. QED
    BY <2>1, <2>2
<1>8. \A t \in Readers' : role'[t] \in {"shell", "program"}
  BY <1>4 DEF RolesInv, Readers, Entry
<1>10. ASSUME NEW d \in Pids, role'[d] = "program"
       PROVE  pc'[d] # "make_forth" /\ (pc'[d] \in {"make_program", "link"} => chained')
  BY <1>3, <1>4, <1>10 DEF RolesInv, Entry
<1>11. ASSUME NEW d \in Pids, pc'[d] \in {"make_program", "make_forth"}
       PROVE  role'[d] \in {"shell", "program"}
  BY <1>3, <1>4, <1>11 DEF RolesInv, Entry
<1>9. QED
  BY <1>5, <1>6, <1>7, <1>8, <1>10, <1>11 DEF RolesInv

LEMMA RolesLink ==
  ASSUME RolesInv, SystemInv, TasksInv, NEW c \in Pids, Link(c)
  PROVE  RolesInv'
<1> DEFINE place == Home(role[c])
<1>1. /\ c \in linked /\ making[c] # None /\ role' = role
      /\ linked' = linked \union {making[c]}
      /\ making' = [making EXCEPT ![c] = None]
      /\ pc' = [pc EXCEPT ![c] = place]
      /\ pc \in [Pids -> Places] /\ making \in [Pids -> Pids \union {None}]
  BY DEF Link, LinkTask, Executes, Goto, SystemInv, SystemTypeOK, TasksInv,
         RingIsClosed, TasksTypeOK
<1>6. chained' = chained
  BY DEF Link
<1>2. /\ place \in {"boot", "prompt", "run"}
      /\ role[c] = "shell" => place = "prompt"
  BY DEF Home
<1> HIDE DEF place
<1>3. /\ pc'[c] = place /\ making'[c] = None
      /\ \A t \in Pids \ {c} : pc'[t] = pc[t] /\ making'[t] = making[t]
  BY <1>1
<1>4. \A t \in Readers' : role'[t] \in {"shell", "program"}
  BY <1>1, <1>2, <1>3 DEF RolesInv, Readers
<1>5. QED
  BY <1>1, <1>2, <1>3, <1>4, <1>6 DEF RolesInv

LEMMA RolesFault ==
  ASSUME RolesInv, SystemInv, TasksInv, NEW c \in Pids, Faults(c)
  PROVE  RolesInv'
<1>1. UNCHANGED <<making, chained>>
  BY DEF Faults, Crash
<1>2. CASE c = ShellPid /\ HasRoom
  <2>1. /\ next_pid \in Pids /\ c \in linked /\ next_pid \notin linked
        /\ linked' = linked \union {next_pid}
        /\ role' = [role EXCEPT ![next_pid] = "forth"]
        /\ pc' = [pc EXCEPT ![next_pid] = Entry("forth")]
    <3>1. Known
      BY RingIsKnown
    <3>2. QED
      BY <1>2, <3>1 DEF Known, Faults, Crash, Executes, TasksInv, RingIsClosed
  <2>2. role \in [Pids -> Roles] /\ pc \in [Pids -> Places] /\ Entry("forth") = "run"
    BY DEF SystemInv, SystemTypeOK, Entry
  <2>3. /\ role'[next_pid] = "forth" /\ pc'[next_pid] = "run"
        /\ \A t \in Pids \ {next_pid} : role'[t] = role[t] /\ pc'[t] = pc[t]
    BY <2>1, <2>2
  <2>4. \A d \in Pids : making[d] # None =>
          making[d] \in Pids \ {next_pid} /\ d # next_pid
    BY <2>1 DEF TasksInv, RingIsClosed, TasksTypeOK
  <2>5. QED
    BY <1>1, <2>1, <2>3, <2>4 DEF RolesInv, Readers
<1>3. CASE ~ (c = ShellPid /\ HasRoom)
  BY <1>1, <1>3, RolesSame DEF Faults, Crash
<1>4. QED
  BY <1>2, <1>3

LEMMA RolesNextInv ==
  RolesInv /\ SystemInv /\ TasksInv /\ [SystemNext]_allVars => RolesInv'
<1> SUFFICES ASSUME RolesInv, SystemInv, TasksInv, [SystemNext]_allVars PROVE RolesInv'
  OBVIOUS
<1>0. SystemTypeOK /\ current_task \in linked /\ Known
  BY RingIsKnown DEF SystemInv, TasksInv, RingIsClosed
<1>1. CASE UNCHANGED allVars \/ Dead
  BY <1>1, RolesSame DEF allVars, systemVars, taskVars, Dead
<1>2. CASE Boot
  <2> DEFINE r == <<"clock", "forth", "shell">>[next_pid]
  <2>1. next_pid \in 1 .. 3
    BY <1>0, <1>2 DEF Boot, Known
  <2>2. r \in Roles /\ r # "program" /\ (r = "shell" => next_pid = ShellPid)
    BY <2>1 DEF Roles, ShellPid
  <2>3. main_task \in Pids /\ Make(main_task, r)
    BY <1>2, TasksAssumption DEF Boot, main_task, Pids
  <2> HIDE DEF r
  <2>4. role[main_task] # "program" /\ chained' = chained
    BY <1>2 DEF Boot, At
  <2>5. QED
    BY <2>2, <2>3, <2>4, RolesMake
<1>3. ASSUME NEW c \in Pids, Link(c) PROVE RolesInv'
  BY <1>3, RolesLink
<1>4. ASSUME NEW c \in Pids, ReadLine(c) PROVE RolesInv'
  <2> DEFINE place == IF role[c] = "shell" THEN "command" ELSE "run"
  <2>1. pc' = [pc EXCEPT ![c] = place] /\ UNCHANGED <<role, making, linked>>
        /\ c \in linked /\ pc[c] = "reading" /\ chained' = chained
    BY <1>0, <1>4 DEF ReadLine, Goto, taskVars, Executes
  <2>2. making[c] = None
    BY <2>1 DEF RolesInv
  <2>3. place \in {"command", "run"}
    OBVIOUS
  <2> HIDE DEF place
  <2>4. QED
    BY <1>0, <2>1, <2>2, <2>3, RolesStay
<1>5. ASSUME NEW c \in Pids, Interrupt(c) PROVE RolesInv'
  BY <1>5, RolesSame DEF Interrupt, SendSignal, systemVars
<1>6. ASSUME NEW c \in Pids, ShellStep(c) PROVE RolesInv'
  <2>0. ASSUME NEW place, At(c, "shell", pc[c]), pc[c] # "link", Goto(c, place),
               UNCHANGED taskVars, role' = role, chained' = chained, place # "link"
        PROVE  RolesInv'
    <3>1. c \in linked /\ making[c] = None /\ UNCHANGED <<making, linked>>
      BY <1>0, <2>0 DEF At, Executes, RolesInv, taskVars
    <3>2. pc' = [pc EXCEPT ![c] = place] /\ role[c] = "shell"
      BY <2>0 DEF Goto, At
    <3>3. QED
      BY <1>0, <2>0, <3>1, <3>2, RolesStay
  <2>1. CASE ShellPrompt(c)
    BY <2>0, <2>1 DEF ShellPrompt, Acquire, At
  <2>2. CASE ShellCommand(c)
    BY <2>0, <2>2 DEF ShellCommand, At
  <2>3. CASE ShellLaunch(c) \/ ShellExec(c)
    BY <2>0, <2>3 DEF ShellLaunch, ShellExec, Loads, At
  <2>4. QED
    BY <1>6, <2>1, <2>2, <2>3 DEF ShellStep
<1>10. ASSUME NEW c \in Pids, Makes(c) PROVE RolesInv'
  <2>0. chained' = chained /\ Executes(c) /\ (role[c] = "program" => pc[c] = "make_program")
    BY <1>10 DEF Makes, RolesInv
  <2>1. CASE pc[c] = "make_program" /\ Make(c, "program")
    <3>1. "program" \in Roles
      BY DEF Roles
    <3>2. QED
      BY <2>0, <2>1, <3>1, RolesMake
  <2>2. CASE pc[c] = "make_forth" /\ Make(c, "forth")
    <3>1. "forth" \in Roles
      BY DEF Roles
    <3>2. QED
      BY <2>0, <2>2, <3>1, RolesMake
  <2>3. CASE /\ pc[c] \in {"make_program", "make_forth"}
             /\ Goto(c, Home(role[c])) /\ UNCHANGED <<taskVars, role>>
    <3>1. c \in linked /\ making[c] = None /\ UNCHANGED <<making, linked>>
      BY <1>0, <2>0, <2>3 DEF Executes, RolesInv, taskVars
    <3>2. pc' = [pc EXCEPT ![c] = Home(role[c])] /\ Home(role[c]) \in {"boot", "prompt", "run"}
      BY <2>3 DEF Goto, Home
    <3>3. QED
      BY <1>0, <2>0, <2>3, <3>1, <3>2, RolesStay
  <2>4. QED
    BY <1>10, <2>1, <2>2, <2>3 DEF Makes
<1>7. ASSUME NEW c \in Pids, UserStep(c) PROVE RolesInv'
  <2>1. CASE Ends(c)
    BY <2>1, RolesSame DEF Ends, Exit
  <2>2. CASE ProgramReads(c)
    <3>1. PICK place \in {"reading", "stuck"} : Goto(c, place)
      BY <2>2 DEF ProgramReads, Acquire
    <3>2. c \in linked /\ making[c] = None /\ UNCHANGED <<making, linked, role, chained>>
      BY <1>0, <2>2 DEF ProgramReads, At, Executes, RolesInv, taskVars
    <3>3. pc' = [pc EXCEPT ![c] = place] /\ role[c] = "program"
      BY <2>2, <3>1 DEF Goto, ProgramReads, At
    <3>4. QED
      BY <1>0, <3>2, <3>3, RolesStay
  <2>3. CASE ProgramExec(c)
    <3>1. /\ c \in linked /\ making[c] = None /\ UNCHANGED <<making, linked, role>>
          /\ pc' = [pc EXCEPT ![c] = "make_program"] /\ role[c] = "program" /\ chained'
      BY <1>0, <2>3 DEF ProgramExec, Loads, At, Executes, RolesInv, taskVars, Goto
    <3>2. QED
      BY <1>0, <3>1, RolesStay
  <2>4. QED
    BY <1>7, <2>1, <2>2, <2>3, RolesFault DEF UserStep
<1>8. CASE SystemTimer
  BY <1>8, RolesSame DEF SystemTimer, systemVars, Timer, TimerKills, TimerSwitches
<1>9. QED
  BY <1>1, <1>2, <1>3, <1>4, <1>5, <1>6, <1>7, <1>8, <1>10 DEF SystemNext

-----------------------------------------------------------------------------
(* What was spoiled stays spoiled.                                         *)

LEMMA CrashedGrow ==
  TasksInv /\ [TasksNext]_taskVars => Crashed \subseteq Crashed'
<1> SUFFICES ASSUME TasksInv, [TasksNext]_taskVars PROVE Crashed \subseteq Crashed'
  OBVIOUS
<1>1. CASE UNCHANGED taskVars \/ SendSignal(SIGINT) \/ KernelFatal \/ Stopped \/ Timer
  BY <1>1 DEF taskVars, SendSignal, KernelFatal, Stopped, Timer, TimerKills,
              TimerSwitches, Crashed
<1>2. ASSUME NEW c \in Pids, TaskStep(c) PROVE Crashed \subseteq Crashed'
  <2>1. next_pid \notin linked /\ is_active \in [Pids -> BOOLEAN] /\ linked \subseteq Pids
    BY DEF TasksInv, RingIsClosed, TasksTypeOK
  <2>2. CASE CreateTask(c)
    BY <2>1, <2>2 DEF CreateTask, Crashed
  <2>3. CASE LinkTask(c) \/ Exit(c)
    BY <2>3 DEF LinkTask, Exit, Crashed
  <2>4. CASE Crash(c)
    <3>1. /\ linked \subseteq linked'
          /\ is_active' = [is_active EXCEPT ![c] = FALSE]
             \/ is_active' = [is_active EXCEPT ![c] = FALSE, ![next_pid] = TRUE]
      BY <2>4 DEF Crash
    <3>2. \A t \in linked : ~is_active[t] => ~is_active'[t]
      BY <2>1, <3>1
    <3>3. QED
      BY <3>1, <3>2 DEF Crashed
  <2>5. QED
    BY <1>2, <2>2, <2>3, <2>4 DEF TaskStep
<1>3. QED
  BY <1>1, <1>2 DEF TasksNext

LEMMA CutStays == [SystemNext]_allVars => (cut => cut')
BY DEF SystemNext, allVars, systemVars, Boot, Link, ReadLine, Interrupt, ShellStep,
       ShellPrompt, ShellCommand, ShellLaunch, ShellExec, Loads, Makes, UserStep, Ends,
       ProgramReads, ProgramExec, Faults, SystemTimer, Dead

LEMMA SparedBack ==
  TasksInv /\ TasksInv' /\ [TasksNext]_taskVars /\ [SystemNext]_allVars /\ Spared'
    => Spared
<1> SUFFICES ASSUME TasksInv, TasksInv', [TasksNext]_taskVars, [SystemNext]_allVars,
                    Spared'
             PROVE  Spared
  OBVIOUS
<1>1. ~cut
  BY CutStays DEF Spared
<1>2. Crashed \subseteq Crashed'
  BY CrashedGrow
<1>3. IsFiniteSet(Crashed')
  <2>1. Crashed' \in SUBSET Pids
    BY DEF Crashed, TasksInv, TasksTypeOK
  <2>2. QED
    BY <2>1, PidsAreFinite, FS_Subset
<1>4. Cardinality(Crashed) <= Cardinality(Crashed')
  BY <1>2, <1>3, FS_Subset
<1>5. Cardinality(Crashed) \in Nat /\ Cardinality(Crashed') \in Nat
  BY <1>3, CrashedIsFinite, FS_CardinalityType DEF TasksInv
<1>6. Cardinality(Crashed') <= 5
  BY DEF Spared
<1>7. QED
  BY <1>1, <1>4, <1>5, <1>6 DEF Spared

-----------------------------------------------------------------------------
(* As long as nothing is spoiled.                                          *)

Sound == SystemInv /\ TasksInv /\ StayInv /\ RolesInv /\ Spared /\ Kept

(* Who executes lives, and the one shell is the only living one.           *)
LEMMA ExecutesLives ==
  ASSUME Sound, NEW c \in Pids, Executes(c)
  PROVE  c \in Living(role[c])
<1>1. c \in linked /\ c \notin halted
  BY DEF Sound, TasksInv, RingIsClosed, Executes
<1>2. is_active[c]
  BY DEF Sound, StayInv, CrashedStayOff, Spared, Executes
<1>3. QED
  BY <1>1, <1>2 DEF Living

LEMMA LivingAre ==
  ASSUME Sound
  PROVE  /\ Living("shell") \subseteq {ShellPid}
         /\ \A r : Living(r) \subseteq Pids
         /\ \A r : \A t \in Living(r) : role[t] = r
         /\ \A r : next_pid \notin Living(r)
<1>1. linked \subseteq Pids /\ next_pid \notin linked
  BY DEF Sound, TasksInv, RingIsClosed, TasksTypeOK
<1>2. QED
  BY <1>1 DEF Sound, RolesInv, Living

(* A step that puts a shell at most back at its prompt and lets no program *)
(* and no reader come in.                                                  *)
LEMMA KeptSame ==
  ASSUME Kept, Living("program")' \subseteq Living("program"),
         UNCHANGED <<bin_running, image, chained>>,
         \A t \in Living("shell")' :
           \/ Prompting(t)'
           \/ /\ t \in Living("shell") /\ pc'[t] = pc[t] /\ making'[t] = making[t]
              /\ making[t] # None => role'[making[t]] = role[making[t]],
         \A d \in Readers' : d \in Readers /\ role'[d] = role[d],
         \A t \in Pids : pc'[t] = "stuck" => pc[t] = "stuck"
  PROVE  Kept'
<1>1. ~chained' => \A t \in Living("program")' : image' = t
  BY DEF Kept
<1>2. Living("program")' # {} =>
        bin_running' = 1 /\ \A c \in Living("shell")' : Prompting(c)'
  BY DEF Kept, Prompting
<1>3. \A c \in Living("shell")' : Marked(c)'
  BY DEF Kept, Marked, Prompting
<1>4. \A d \in Readers' : KeepsOthersOut(d)'
  <2>1. \A d \in Readers' : KeepsOthersOut(d)
    BY DEF Kept
  <2>2. QED
    BY <2>1 DEF KeepsOthersOut, Prompting
<1>6. ~chained' => \A t \in Pids : pc'[t] # "stuck"
  BY DEF Kept
<1>5. QED
  BY <1>1, <1>2, <1>3, <1>4, <1>6 DEF Kept

(* A step after which no program is there.                                 *)
LEMMA KeptAlone ==
  ASSUME Living("program")' = {}, \A c \in Living("shell")' : Marked(c)',
         \A d \in Readers' : role'[d] # "program",
         ~chained' => \A t \in Pids : pc'[t] # "stuck"
  PROVE  Kept'
BY DEF Kept, KeepsOthersOut

(* A step among programs of which one was started by another: the shells   *)
(* stay at their prompts.                                                  *)
LEMMA KeptAmong ==
  ASSUME Sound, Living("program") # {}, chained', bin_running' = bin_running,
         \A t \in Living("shell")' : t \in Living("shell") /\ pc'[t] = pc[t],
         \A d \in Readers' : (d \in Readers /\ role'[d] = role[d]) \/ role'[d] = "program"
  PROVE  Kept'
<1>1. bin_running = 1 /\ \A t \in Living("shell") : pc[t] = "prompt"
  BY DEF Sound, Kept, Prompting
<1>2. \A t \in Living("shell")' : pc'[t] = "prompt"
  BY <1>1
<1>3. \A d \in Readers' : role'[d] # "shell"
  BY DEF Sound, Kept, KeepsOthersOut
<1>4. QED
  BY <1>1, <1>2, <1>3 DEF Kept, KeepsOthersOut, Marked, Prompting

(* The shell is past its prompt: nothing is in its way.                    *)
LEMMA ShellIsAlone ==
  ASSUME Sound, NEW c \in Living("shell"), pc[c] # "prompt"
  PROVE  Living("program") = {} /\ \A d \in Readers : role[d] # "program"
BY DEF Sound, Kept, KeepsOthersOut, Prompting

(* The shell goes from place to place.                                     *)
LEMMA KeptShellGoes ==
  ASSUME Sound, NEW c \in Pids, role[c] = "shell", NEW place,
         pc' = [pc EXCEPT ![c] = place], place \notin {"stuck", "link"},
         UNCHANGED <<taskVars, role, chained>>,
         Living("program") = {}, \A d \in Readers : role[d] # "program",
         place \in {"exec", "make_program"} => bin_running' = 1
  PROVE  Kept'
<1>1. c = ShellPid /\ pc \in [Pids -> Places]
  BY DEF Sound, RolesInv, SystemInv, SystemTypeOK
<1>2. Living("program")' = {} /\ Living("shell")' \subseteq {c}
  BY <1>1, LivingAre DEF Living, taskVars
<1>3. ~chained' => \A t \in Pids : pc'[t] # "stuck"
  BY <1>1 DEF Sound, Kept
<1>4. \A d \in Readers' : role'[d] # "program"
  BY <1>1 DEF Readers
<1>5. Marked(c)'
  BY <1>1 DEF Marked
<1>6. QED
  BY <1>2, <1>3, <1>4, <1>5, KeptAlone

LEMMA KeptShellMakes ==
  ASSUME Sound, NEW c \in Pids, Executes(c), role[c] = "shell",
         pc[c] \in {"make_program", "make_forth"},
         NEW r \in {"program", "forth"}, Make(c, r), chained' = chained,
         r = "program" => bin_running' = 1 /\ image' = next_pid
  PROVE  Kept'
<1>1. /\ next_pid \in Pids /\ next_pid \notin linked /\ c # next_pid
      /\ linked' = linked /\ halted' = halted
      /\ is_active' = [is_active EXCEPT ![next_pid] = TRUE]
      /\ role' = [role EXCEPT ![next_pid] = r]
      /\ pc' = [pc EXCEPT ![next_pid] = Entry(r), ![c] = "link"]
      /\ making' = [making EXCEPT ![c] = next_pid]
  <2>1. Known
    BY RingIsKnown DEF Sound
  <2>2. QED
    BY <2>1 DEF Sound, Known, Make, CreateTask, Executes, TasksInv, RingIsClosed
<1>2. /\ role \in [Pids -> Roles] /\ pc \in [Pids -> Places] /\ linked \subseteq Pids
      /\ is_active \in [Pids -> BOOLEAN] /\ making \in [Pids -> Pids \union {None}]
  BY DEF Sound, SystemInv, SystemTypeOK, TasksInv, TasksTypeOK
<1>3. Entry(r) = "run"
  BY DEF Entry
<1>4. /\ role'[next_pid] = r /\ pc'[next_pid] = "run" /\ pc'[c] = "link"
      /\ making'[c] = next_pid
      /\ \A t \in Pids \ {next_pid} : role'[t] = role[t] /\ is_active'[t] = is_active[t]
      /\ \A t \in Pids \ {next_pid, c} : pc'[t] = pc[t]
  BY <1>1, <1>2, <1>3
<1>5. Living("program")' = Living("program") /\ Living("shell")' = Living("shell")
  BY <1>1, <1>2, <1>4 DEF Living
<1>6. c = ShellPid /\ c \in Living("shell")
  BY ExecutesLives DEF Sound, RolesInv
<1>7. Living("program") = {} /\ \A d \in Readers : role[d] # "program"
  BY <1>6, ShellIsAlone
<1>8. \A d \in Readers' : role'[d] # "program"
  BY <1>4, <1>7 DEF Readers
<1>9. ~chained' => \A t \in Pids : pc'[t] # "stuck"
  BY <1>4 DEF Sound, Kept
<1>10. Marked(c)'
  BY <1>4 DEF Marked
<1>11. Living("shell")' \subseteq {c}
  BY <1>5, <1>6, LivingAre
<1>12. QED
  BY <1>5, <1>7, <1>8, <1>9, <1>10, <1>11, KeptAlone

LEMMA KeptShellStep ==
  ASSUME Sound, NEW c \in Pids, ShellStep(c)
  PROVE  Kept'
<1>0. ASSUME role[c] = "shell", Executes(c)
      PROVE  /\ c \in Living("shell")
             /\ pc[c] # "prompt" =>
                  Living("program") = {} /\ \A d \in Readers : role[d] # "program"
  BY <1>0, ExecutesLives, ShellIsAlone
<1>1. CASE ShellPrompt(c)
  <2>1. role[c] = "shell" /\ bin_running = 0 /\ keyboard_lock = 0
        /\ pc' = [pc EXCEPT ![c] = "reading"] /\ UNCHANGED <<taskVars, role, chained>>
    BY <1>1 DEF ShellPrompt, At, Acquire, Goto
  <2>2. Living("program") = {} /\ Readers = {}
    BY <2>1 DEF Sound, Kept, SystemInv, OneReader
  <2>3. QED
    BY <2>1, <2>2, KeptShellGoes
<1>2. CASE ShellCommand(c)
  <2>1. PICK place \in {"prompt", "make_forth", "launch"} : Goto(c, place)
    BY <1>2 DEF ShellCommand
  <2>2. /\ role[c] = "shell" /\ Executes(c) /\ pc[c] = "command"
        /\ pc' = [pc EXCEPT ![c] = place] /\ UNCHANGED <<taskVars, role, chained>>
    BY <1>2, <2>1 DEF ShellCommand, At, Goto
  <2>3. QED
    BY <1>0, <2>2, KeptShellGoes
<1>3. CASE ShellLaunch(c)
  <2>1. /\ role[c] = "shell" /\ Executes(c) /\ pc[c] = "launch" /\ bin_running' = 1
        /\ pc' = [pc EXCEPT ![c] = "exec"] /\ UNCHANGED <<taskVars, role, chained>>
    BY <1>3 DEF ShellLaunch, At, Goto
  <2>2. QED
    BY <1>0, <2>1, KeptShellGoes
<1>4. CASE ShellExec(c)
  <2>1. /\ role[c] = "shell" /\ Executes(c) /\ pc[c] = "exec"
        /\ \E place \in {"make_program", "prompt"} : pc' = [pc EXCEPT ![c] = place]
        /\ UNCHANGED <<taskVars, role, bin_running, chained>>
    BY <1>4 DEF ShellExec, Loads, At, Goto
  <2>2. bin_running' = 1
    BY <1>0, <2>1 DEF Sound, Kept, Marked
  <2>3. PICK place \in {"make_program", "prompt"} : pc' = [pc EXCEPT ![c] = place]
    BY <2>1
  <2>4. QED
    BY <1>0, <2>1, <2>2, <2>3, KeptShellGoes
<1>5. QED
  BY <1>1, <1>2, <1>3, <1>4 DEF ShellStep

(* A program makes another one: both were let in by SYS_EXEC.              *)
LEMMA KeptProgramMakes ==
  ASSUME Sound, NEW c \in Pids, Executes(c), role[c] = "program",
         pc[c] = "make_program", Make(c, "program"), UNCHANGED <<bin_running, chained>>
  PROVE  Kept'
<1>1. /\ next_pid \in Pids /\ next_pid \notin linked /\ c # next_pid
      /\ linked' = linked /\ halted' = halted
      /\ is_active' = [is_active EXCEPT ![next_pid] = TRUE]
      /\ role' = [role EXCEPT ![next_pid] = "program"]
      /\ pc' = [pc EXCEPT ![next_pid] = "run", ![c] = "link"]
  <2>1. Known
    BY RingIsKnown DEF Sound
  <2>2. QED
    BY <2>1 DEF Sound, Known, Make, CreateTask, Executes, TasksInv, RingIsClosed, Entry
<1>2. /\ role \in [Pids -> Roles] /\ pc \in [Pids -> Places] /\ linked \subseteq Pids
      /\ is_active \in [Pids -> BOOLEAN]
  BY DEF Sound, SystemInv, SystemTypeOK, TasksInv, TasksTypeOK
<1>3. Living("program") # {} /\ chained'
  BY ExecutesLives DEF Sound, RolesInv
<1>4. ASSUME NEW t \in Living("shell")'
      PROVE  t \in Living("shell") /\ pc'[t] = pc[t]
  <2>1. t \in linked /\ t \in Pids /\ t # next_pid /\ t # c
    BY <1>1, <1>2, <1>4 DEF Living
  <2>2. QED
    BY <1>1, <1>2, <1>4, <2>1 DEF Living
<1>5. \A d \in Readers' : d \in Readers /\ role'[d] = role[d]
  BY <1>1, <1>2 DEF Readers
<1>6. QED
  BY <1>3, <1>4, <1>5, KeptAmong

LEMMA KeptMakes ==
  ASSUME Sound, NEW c \in Pids, Makes(c)
  PROVE  Kept'
<1>1. /\ Executes(c) /\ role[c] \in {"shell", "program"}
      /\ chained' = chained /\ bin_running' = bin_running
      /\ role[c] = "program" => pc[c] = "make_program"
  BY DEF Makes, Sound, RolesInv
<1>2. CASE pc[c] = "make_program" /\ Make(c, "program") /\ image' = next_pid
  <2>1. CASE role[c] = "shell"
    <3>1. c \in Living("shell")
      BY <1>1, <2>1, ExecutesLives
    <3>2. bin_running' = 1
      BY <1>1, <1>2, <3>1 DEF Sound, Kept, Marked
    <3>3. QED
      BY <1>1, <1>2, <2>1, <3>2, KeptShellMakes
  <2>2. QED
    BY <1>1, <1>2, <2>1, KeptProgramMakes
<1>3. CASE pc[c] = "make_forth" /\ Make(c, "forth")
  BY <1>1, <1>3, KeptShellMakes
<1>4. CASE /\ pc[c] \in {"make_program", "make_forth"} /\ Goto(c, Home(role[c]))
           /\ UNCHANGED <<taskVars, role, bin_running, image, chained>>
  <2>1. /\ pc' = [pc EXCEPT ![c] = Home(role[c])] /\ pc \in [Pids -> Places]
        /\ UNCHANGED <<linked, halted, is_active, making>>
        /\ Home(role[c]) \notin {"stuck", "reading"}
        /\ role[c] = "shell" => Home(role[c]) = "prompt"
    BY <1>4 DEF Goto, Sound, SystemInv, SystemTypeOK, taskVars, Home
  <2>2. \A r : Living(r)' = Living(r)
    BY <1>4, <2>1 DEF Living
  <2>3. \A t \in Living("shell")' : Prompting(t)' \/ pc'[t] = pc[t]
    <3>1. \A t \in Living("shell") : t \in Pids /\ role[t] = "shell"
      BY LivingAre
    <3>2. QED
      BY <2>1, <2>2, <3>1 DEF Prompting
  <2>4. \A d \in Readers' : d \in Readers
    BY <2>1 DEF Readers
  <2>5. \A t \in Pids : pc'[t] = "stuck" => pc[t] = "stuck"
    BY <2>1
  <2>6. QED
    BY <1>4, <2>1, <2>2, <2>3, <2>4, <2>5, KeptSame DEF Sound
<1>5. QED
  BY <1>2, <1>3, <1>4 DEF Makes

(* A new task of the ring: a program was announced by the shell that made  *)
(* it, and a new shell starts at its prompt.                               *)
LEMMA KeptLink ==
  ASSUME Sound, NEW c \in Pids, Link(c)
  PROVE  Kept'
<1> DEFINE n == making[c]
           place == Home(role[c])
<1>1. /\ Executes(c) /\ n # None /\ n \in Pids /\ pc[c] = "link" /\ n \notin linked
      /\ linked' = linked \union {n} /\ n # c
      /\ making' = [making EXCEPT ![c] = None]
      /\ pc' = [pc EXCEPT ![c] = place] /\ pc \in [Pids -> Places]
      /\ UNCHANGED <<role, bin_running, image, chained, halted, is_active>>
  BY DEF Link, LinkTask, Executes, Goto, Sound, SystemInv, SystemTypeOK, TasksInv,
         RingIsClosed, TasksTypeOK
<1>2. /\ place \notin {"reading", "stuck"}
      /\ role[c] = "shell" => place = "prompt"
      /\ role[n] = "program" => role[c] = "shell" \/ (role[c] = "program" /\ chained)
      /\ role[n] = "shell" => pc[n] = "prompt"
  BY <1>1 DEF Sound, RolesInv, Home
<1>3. making \in [Pids -> Pids \union {None}]
  BY DEF Sound, TasksInv, TasksTypeOK
<1> HIDE DEF n, place
<1>4. pc'[c] = place /\ \A t \in Pids \ {c} : pc'[t] = pc[t] /\ making'[t] = making[t]
  BY <1>1, <1>3
<1>5. /\ \A d \in Readers' : d \in Readers
      /\ \A t \in Pids : pc'[t] = "stuck" => pc[t] = "stuck"
      /\ ~chained => \A t \in Pids : pc'[t] # "stuck"
  BY <1>2, <1>4 DEF Readers, Sound, Kept
<1>6. \A r : Living(r)' \subseteq Living(r) \union {n}
  BY <1>1 DEF Living
<1>7. \A r : role[n] # r => Living(r)' \subseteq Living(r)
  BY <1>1 DEF Living
<1>8. ASSUME NEW t \in Living("shell")'
      PROVE  \/ Prompting(t)'
             \/ t \in Living("shell") /\ pc'[t] = pc[t] /\ making'[t] = making[t]
  <2>1. t \in Living("shell") \/ t = n
    BY <1>6, <1>8
  <2>2. role[t] = "shell"
    BY <1>1, <1>8 DEF Living
  <2>3. CASE t = n
    BY <1>1, <1>2, <1>4, <2>2, <2>3 DEF Prompting
  <2>4. CASE t \in Living("shell") /\ t = c
    BY <1>2, <1>4, <2>2, <2>4 DEF Prompting
  <2>5. CASE t \in Living("shell") /\ t # c
    BY <1>4, <2>5, LivingAre
  <2>6. QED
    BY <2>1, <2>3, <2>4, <2>5
<1>12. CASE role[n] = "program" /\ role[c] = "program"
  <2>1. Living("program") # {}
    BY <1>1, <1>12, ExecutesLives
  <2>2. Living("shell")' \subseteq Living("shell")
    BY <1>7, <1>12
  <2>3. \A t \in Living("shell") : t \in Pids \ {c}
    BY <1>12, LivingAre
  <2>4. QED
    BY <1>1, <1>2, <1>4, <1>5, <1>12, <2>1, <2>2, <2>3, KeptAmong
<1>9. CASE role[n] = "program" /\ role[c] = "shell"
  <2>1. role[c] = "shell" /\ c = ShellPid
    BY <1>2, <1>9 DEF Sound, RolesInv
  <2>2. c \in Living("shell") /\ pc[c] # "prompt"
    BY <1>1, <2>1, ExecutesLives
  <2>3. Living("program") = {} /\ \A d \in Readers : role[d] # "program"
    BY <2>2, ShellIsAlone
  <2>4. bin_running = 1 /\ image = n
    BY <1>1, <1>9, <2>2 DEF Sound, Kept, Marked, n
  <2>5. Living("shell")' \subseteq {c}
    BY <1>7, <1>9, <2>1, LivingAre
  <2>6. \A t \in Living("shell")' : Prompting(t)'
    BY <1>2, <1>4, <2>1, <2>5 DEF Prompting
  <2>7. \A t \in Living("program")' : t = n
    BY <1>6, <2>3
  <2>8. \A d \in Readers' : role'[d] # "program" /\ role'[d] # "shell"
    <3>1. \A d \in Readers : role[d] = "shell" => d = c
      BY <2>1 DEF Sound, RolesInv, Readers
    <3>2. c \notin Readers'
      BY <1>2, <1>4 DEF Readers
    <3>3. QED
      BY <1>1, <1>5, <2>3, <3>1, <3>2
  <2>9. QED
    BY <1>1, <1>5, <2>4, <2>6, <2>7, <2>8 DEF Kept, KeepsOthersOut, Marked, Prompting
<1>10. CASE role[n] # "program"
  BY <1>1, <1>5, <1>7, <1>8, <1>10, KeptSame DEF Sound
<1>11. QED
  BY <1>2, <1>9, <1>10, <1>12

(* A line comes in: a shell that read it is alone, a program that read it  *)
(* goes on.                                                                *)
LEMMA KeptReadLine ==
  ASSUME Sound, NEW c \in Pids, ReadLine(c)
  PROVE  Kept'
<1> DEFINE place == IF role[c] = "shell" THEN "command" ELSE "run"
<1>1. /\ Executes(c) /\ pc[c] = "reading" /\ pc' = [pc EXCEPT ![c] = place]
      /\ pc \in [Pids -> Places]
      /\ UNCHANGED <<role, bin_running, image, chained, taskVars>>
  BY DEF ReadLine, Goto, Sound, SystemInv, SystemTypeOK
<1>2. role[c] # "shell" => place = "run"
  OBVIOUS
<1>3. place \in {"command", "run"}
  OBVIOUS
<1> HIDE DEF place
<1>4. CASE role[c] = "shell"
  <2>1. Living("program") = {} /\ \A d \in Readers : role[d] # "program"
    BY <1>1, <1>4, ShellIsAlone, ExecutesLives
  <2>2. QED
    BY <1>1, <1>3, <1>4, <2>1, KeptShellGoes
<1>5. CASE role[c] # "shell"
  <2>1. \A r : Living(r)' = Living(r)
    BY <1>1 DEF Living, taskVars
  <2>2. \A t \in Living("shell")' : t \in Pids /\ role[t] = "shell"
    BY <2>1, LivingAre
  <2>3. \A t \in Living("shell")' : pc'[t] = pc[t]
    BY <1>1, <1>5, <2>2
  <2>4. \A t \in Pids : pc'[t] = pc[t] \/ pc'[t] \in {"command", "run"}
    BY <1>1, <1>3
  <2>5. /\ \A d \in Readers' : d \in Readers
        /\ \A t \in Pids : pc'[t] = "stuck" => pc[t] = "stuck"
    BY <2>4 DEF Readers
  <2>6. QED
    BY <1>1, <2>1, <2>3, <2>5, KeptSame DEF Sound, taskVars
<1>6. QED
  BY <1>4, <1>5

(* bin_running is cleared by the one program, beside a shell that waits, or*)
(* by an interpreter when no program is there, for nothing is spoiled.     *)
LEMMA KeptEnds ==
  ASSUME Sound, NEW c \in Pids, Ends(c), Spared'
  PROVE  Kept'
<1>1. /\ Executes(c) /\ halted' = halted \union {c} /\ role[c] \in {"program", "forth"}
      /\ UNCHANGED <<linked, is_active, making, role, pc, image, chained>>
      /\ ~ProgramBeside(c)
  BY DEF Ends, Exit, Spared
<1>2. /\ \A r : Living(r)' \subseteq Living(r)
      /\ c \notin Living("program")'
  BY <1>1 DEF Living
<1>3. Living("program")' = {}
  BY <1>1, <1>2 DEF ProgramBeside
<1>4. \A t \in Living("shell")' : Marked(t)'
  BY <1>1, <1>2 DEF ProgramBeside, Marked
<1>5. \A d \in Readers' : KeepsOthersOut(d)'
  <2>1. \A d \in Readers : KeepsOthersOut(d) /\ Readers' = Readers
    BY <1>1 DEF Sound, Kept, Readers
  <2>2. QED
    BY <1>1, <1>2, <1>3, <2>1 DEF KeepsOthersOut, Prompting, Readers
<1>6. QED
  BY <1>1, <1>3, <1>4, <1>5 DEF Sound, Kept

(* The only program finds the lock free, unless it holds it itself.        *)
LEMMA KeptProgramReads ==
  ASSUME Sound, NEW c \in Pids, ProgramReads(c)
  PROVE  Kept'
<1>1. /\ role[c] = "program" /\ Executes(c) /\ pc[c] = "run"
      /\ UNCHANGED <<taskVars, role, bin_running, image, chained>>
      /\ pc \in [Pids -> Places]
  BY DEF ProgramReads, At, Sound, SystemInv, SystemTypeOK
<1>2. c \in Living("program")
  BY <1>1, ExecutesLives
<1>14. CASE chained
  <2>1. PICK place \in {"reading", "stuck"} : pc' = [pc EXCEPT ![c] = place]
    BY DEF ProgramReads, Acquire, Goto
  <2>2. Living("shell")' = Living("shell") /\ \A t \in Living("shell") : t \in Pids \ {c}
    BY <1>1, LivingAre DEF Living, taskVars
  <2>3. \A d \in Readers' : d \in Readers \/ d = c
    BY <1>1, <2>1 DEF Readers
  <2>4. QED
    BY <1>1, <1>2, <1>14, <2>1, <2>2, <2>3, KeptAmong
<1>3. /\ \A t \in Living("shell") : Prompting(t)
      /\ ~chained => \A t \in Living("program") : t = c
  BY <1>2 DEF Sound, Kept
<1>4. ASSUME ~chained PROVE Readers = {}
  <2>1. ASSUME NEW d \in Readers PROVE FALSE
    <3>1. KeepsOthersOut(d) /\ role[d] \in {"shell", "program"} /\ pc[d] = "reading"
      BY <2>1 DEF Sound, Kept, RolesInv, Readers
    <3>2. CASE role[d] = "shell"
      BY <1>2, <3>1, <3>2 DEF KeepsOthersOut
    <3>3. CASE role[d] = "program"
      BY <1>1, <1>2, <1>4, <3>1, <3>3 DEF KeepsOthersOut
    <3>4. QED
      BY <3>1, <3>2, <3>3
  <2>2. QED
    BY <2>1
<1>15. CASE ~chained
  <2>1. Readers = {}
    BY <1>4, <1>15
  <2>2. keyboard_lock = 0 /\ pc' = [pc EXCEPT ![c] = "reading"]
    BY <2>1 DEF Sound, SystemInv, OneReader, SystemTypeOK, ProgramReads, Acquire, Goto
  <2>3. \A r : Living(r)' = Living(r)
    BY <1>1 DEF Living, taskVars
  <2>4. \A t \in Living("shell") : pc'[t] = pc[t]
    <3>1. \A t \in Living("shell") : t \in Pids /\ t # c
      BY <1>1, LivingAre
    <3>2. QED
      BY <1>1, <2>2, <3>1
  <2>5. \A d \in Readers' : d = c
    BY <1>1, <2>1, <2>2 DEF Readers
  <2>6. \A t \in Pids : pc'[t] # "stuck"
    BY <1>1, <1>15, <2>2 DEF Sound, Kept
  <2>7. \A t \in Living("shell")' : Prompting(t)'
    BY <1>3, <2>3, <2>4 DEF Prompting
  <2>8. bin_running' = 1 /\ \A t \in Living("program")' : image' = t
    BY <1>1, <1>2, <1>15, <2>3 DEF Sound, Kept
  <2>9. \A d \in Readers' : KeepsOthersOut(d)'
    BY <1>1, <1>3, <1>15, <2>3, <2>5, <2>7 DEF KeepsOthersOut
  <2>10. QED
    BY <2>6, <2>7, <2>8, <2>9 DEF Kept, Marked, Prompting
<1>16. QED
  BY <1>14, <1>15

(* A program loads another one over itself.                                *)
LEMMA KeptProgramExec ==
  ASSUME Sound, NEW c \in Pids, ProgramExec(c)
  PROVE  Kept'
<1>1. /\ role[c] = "program" /\ Executes(c) /\ chained'
      /\ UNCHANGED <<taskVars, role, bin_running>>
      /\ pc \in [Pids -> Places] /\ pc' = [pc EXCEPT ![c] = "make_program"]
  BY DEF ProgramExec, Loads, Goto, At, Sound, SystemInv, SystemTypeOK
<1>2. Living("program") # {}
  BY <1>1, ExecutesLives
<1>3. Living("shell")' = Living("shell") /\ \A t \in Living("shell") : t \in Pids \ {c}
  BY <1>1, LivingAre DEF Living, taskVars
<1>4. \A d \in Readers' : d \in Readers
  BY <1>1 DEF Readers
<1>5. QED
  BY <1>1, <1>2, <1>3, <1>4, KeptAmong

LEMMA KeptFault ==
  ASSUME Sound, NEW c \in Pids, Faults(c)
  PROVE  Kept'
<1>1. /\ UNCHANGED <<bin_running, image, chained, making>> /\ halted \subseteq halted'
      /\ role \in [Pids -> Roles] /\ pc \in [Pids -> Places]
      /\ is_active \in [Pids -> BOOLEAN] /\ linked \subseteq Pids
  BY DEF Faults, Crash, CrashEnds, Sound, SystemInv, SystemTypeOK, TasksInv, TasksTypeOK
<1>2. CASE c = ShellPid /\ HasRoom
  <2>1. /\ next_pid \in Pids /\ next_pid \notin linked
        /\ linked' = linked \union {next_pid}
        /\ is_active' = [is_active EXCEPT ![c] = FALSE, ![next_pid] = TRUE]
        /\ role' = [role EXCEPT ![next_pid] = "forth"]
        /\ pc' = [pc EXCEPT ![next_pid] = Entry("forth")]
    <3>1. Known
      BY RingIsKnown DEF Sound
    <3>2. QED
      BY <1>2, <3>1 DEF Known, Faults, Crash, Sound, TasksInv, RingIsClosed
  <2>2. Entry("forth") = "run"
    BY DEF Entry
  <2>3. /\ role'[next_pid] = "forth" /\ pc'[next_pid] = "run"
        /\ \A t \in Pids \ {next_pid} : role'[t] = role[t] /\ pc'[t] = pc[t]
        /\ \A t \in Pids \ {next_pid} : is_active'[t] => is_active[t]
    BY <1>1, <2>1, <2>2
  <2>4. \A r \in {"shell", "program"} : Living(r)' \subseteq Living(r)
    BY <1>1, <2>1, <2>3 DEF Living
  <2>5. \A t \in Living("shell") :
          /\ pc'[t] = pc[t]
          /\ making[t] # None => role'[making[t]] = role[making[t]]
    <3>1. \A t \in Living("shell") : t \in Pids \ {next_pid}
      BY LivingAre
    <3>2. \A t \in Pids : making[t] # None => making[t] \in Pids \ {next_pid}
      BY <2>1 DEF Sound, TasksInv, RingIsClosed, TasksTypeOK
    <3>3. QED
      BY <2>3, <3>1, <3>2
  <2>6. \A d \in Readers' : d \in Readers /\ role'[d] = role[d]
    BY <2>3 DEF Readers
  <2>7. \A t \in Pids : pc'[t] = "stuck" => pc[t] = "stuck"
    BY <2>3
  <2>8. QED
    BY <1>1, <2>4, <2>5, <2>6, <2>7, KeptSame DEF Sound
<1>3. CASE ~ (c = ShellPid /\ HasRoom)
  <2>1. /\ UNCHANGED <<role, pc, linked>>
        /\ is_active' = [is_active EXCEPT ![c] = FALSE]
    BY <1>3 DEF Faults, Crash
  <2>2. \A r : Living(r)' \subseteq Living(r)
    BY <1>1, <2>1 DEF Living
  <2>3. Readers' = Readers /\ pc' = pc
    BY <2>1 DEF Readers
  <2>4. QED
    BY <1>1, <2>1, <2>2, <2>3, KeptSame DEF Sound
<1>4. QED
  BY <1>2, <1>3

(* kernel_main makes no program.                                           *)
LEMMA KeptBoot ==
  ASSUME Sound, Boot
  PROVE  Kept'
<1> DEFINE r == <<"clock", "forth", "shell">>[next_pid]
           c == main_task
<1>0. /\ Known /\ c \in Pids /\ role \in [Pids -> Roles] /\ pc \in [Pids -> Places]
      /\ is_active \in [Pids -> BOOLEAN] /\ linked \subseteq Pids
      /\ making \in [Pids -> Pids \union {None}] /\ role[c] = "main" /\ pc[c] = "boot"
      /\ next_pid \notin linked
  <2>1. c \in Pids
    BY TasksAssumption DEF main_task, Pids
  <2>2. Known
    BY RingIsKnown DEF Sound
  <2>3. role[c] = "main" /\ pc[c] = "boot"
    BY DEF Boot, At
  <2>4. QED
    BY <2>1, <2>2, <2>3
       DEF Sound, SystemInv, SystemTypeOK, TasksInv, TasksTypeOK, RingIsClosed
<1>1. /\ next_pid \in Pids /\ linked' = linked /\ halted' = halted
      /\ is_active' = [is_active EXCEPT ![next_pid] = TRUE]
      /\ role' = [role EXCEPT ![next_pid] = r]
      /\ pc' = [pc EXCEPT ![next_pid] = Entry(r), ![c] = "link"]
      /\ making' = [making EXCEPT ![c] = next_pid]
      /\ UNCHANGED <<bin_running, image, chained>>
  BY <1>0 DEF Boot, Make, CreateTask, Known
<1> HIDE DEF r
<1>2. Entry(r) \in {"prompt", "idle", "run"}
  BY DEF Entry
<1>3. /\ \A t \in Pids \ {next_pid} : role'[t] = role[t] /\ is_active'[t] = is_active[t]
      /\ \A t \in Pids \ {next_pid, c} : pc'[t] = pc[t]
      /\ \A t \in Pids \ {c} : making'[t] = making[t]
      /\ pc'[c] # "reading" /\ pc'[c] # "stuck"
      /\ pc'[next_pid] # "reading" /\ pc'[next_pid] # "stuck"
  BY <1>0, <1>1, <1>2
<1>4. \A q : Living(q)' = Living(q)
  BY <1>0, <1>1, <1>3 DEF Living
<1>5. \A t \in Living("shell") :
        /\ pc'[t] = pc[t] /\ making'[t] = making[t]
        /\ making[t] # None => role'[making[t]] = role[making[t]]
  <2>1. \A t \in Living("shell") : t \in Pids \ {next_pid, c}
    BY <1>0, LivingAre
  <2>2. \A t \in Pids : making[t] # None => making[t] \in Pids \ {next_pid}
    BY <1>1 DEF Sound, TasksInv, RingIsClosed, TasksTypeOK
  <2>3. QED
    BY <1>3, <2>1, <2>2
<1>6. \A d \in Readers' : d \in Readers /\ role'[d] = role[d]
  BY <1>3 DEF Readers
<1>7. \A t \in Pids : pc'[t] = "stuck" => pc[t] = "stuck"
  BY <1>3
<1>8. QED
  BY <1>1, <1>4, <1>5, <1>6, <1>7, KeptSame DEF Sound

LEMMA KeptNext ==
  ASSUME Sound, [SystemNext]_allVars, Spared'
  PROVE  Kept'
<1>0. ASSUME UNCHANGED systemVars, UNCHANGED <<linked, is_active, making>>,
             halted \subseteq halted'
      PROVE  Kept'
  <2>1. \A r : Living(r)' \subseteq Living(r)
    BY <1>0 DEF Living, systemVars
  <2>2. Readers' = Readers /\ pc' = pc
    BY <1>0 DEF Readers, systemVars
  <2>3. QED
    BY <1>0, <2>1, <2>2, KeptSame DEF Sound, systemVars
<1>1. CASE UNCHANGED allVars \/ Dead
  BY <1>0, <1>1 DEF allVars, taskVars, Dead
<1>2. CASE SystemTimer
  BY <1>0, <1>2 DEF SystemTimer, Timer, TimerKills, TimerSwitches
<1>3. ASSUME NEW c \in Pids, Interrupt(c) PROVE Kept'
  BY <1>0, <1>3 DEF Interrupt, SendSignal
<1>4. ASSUME NEW c \in Pids, UserStep(c) PROVE Kept'
  BY <1>4, KeptEnds, KeptProgramReads, KeptProgramExec, KeptFault DEF UserStep
<1>5. QED
  BY <1>1, <1>2, <1>3, <1>4, KeptBoot, KeptLink, KeptReadLine, KeptMakes, KeptShellStep
     DEF SystemNext

LEMMA AllInit == SystemInit => AllInv
<1> SUFFICES ASSUME SystemInit PROVE AllInv
  OBVIOUS
<1>1. SystemInv /\ TasksInv /\ StayInv /\ RolesInv
  BY SystemInitInv, TasksInitInv, StayInitInv, RolesInit DEF SystemInit
<1>2. role = [t \in Pids |-> "main"] /\ pc = [t \in Pids |-> "boot"] /\ linked \subseteq Pids
  BY <1>1 DEF SystemInit, TasksInv, TasksTypeOK
<1>3. Living("program") = {} /\ Living("shell") = {} /\ Readers = {}
  BY <1>2 DEF Living, Readers
<1>4. Kept
  BY <1>2, <1>3 DEF Kept
<1>5. QED
  BY <1>1, <1>4 DEF AllInv, Promised

LEMMA AllNext == AllInv /\ [SystemNext]_allVars => AllInv'
<1> SUFFICES ASSUME AllInv, [SystemNext]_allVars PROVE AllInv'
  OBVIOUS
<1>1. SystemInv /\ TasksInv /\ StayInv /\ RolesInv
  BY DEF AllInv
<1>2. [TasksNext]_taskVars
  BY <1>1, StepsOfTheRing
<1>3. SystemInv' /\ TasksInv' /\ RolesInv'
  BY <1>1, <1>2, SystemNextInv, TasksNextInv, RolesNextInv
<1>4. StayInv'
  BY <1>1, <1>2, <1>3, StayNextInv
<1>5. ASSUME Spared' PROVE Kept'
  <2>1. Spared
    BY <1>1, <1>2, <1>3, <1>5, SparedBack
  <2>2. Sound
    BY <1>1, <2>1 DEF AllInv, Promised, Sound
  <2>3. QED
    BY <1>5, <2>2, KeptNext
<1>6. QED
  BY <1>3, <1>4, <1>5 DEF AllInv, Promised

LEMMA AllInvariance == SystemSpec => []AllInv
<1>1. QED
  BY AllInit, AllNext, PTL DEF SystemSpec

(* While programs run the shell keeps out of their way, as long as no task *)
(* ended beside a program and no crashed task can come back (kernel.c      *)
(* 70-73, 121-125), whatever the programs start.                           *)
THEOREM ShellWaitsHolds == SystemSpec => []ShellWaits
<1>1. AllInv => ShellWaits
  BY DEF AllInv, Promised, Kept, Prompting, ShellWaits
<1>2. QED
  BY <1>1, AllInvariance, PTL

(* A program that runs is not overwritten by the shell's next one          *)
(* (syscalls.c 104-112), unless a program called SYS_EXEC: it is the task  *)
(* the shell loaded last.                                                  *)
THEOREM ImageIntactHolds == SystemSpec => []ImageIntact
<1>1. AllInv => ImageIntact
  BY DEF AllInv, Promised, Kept, ImageIntact
<1>2. QED
  BY <1>1, AllInvariance, PTL

(* In text mode the machine hangs in acquire_lock with interrupts off only *)
(* when something was spoiled or a program started another one             *)
(* (syscalls.c 170-177, mutex.c 4-6).                                      *)
THEOREM HangsOnlyWhenSpoiledHolds == SystemSpec => []HangsOnlyWhenSpoiled
<1>1. AllInv => HangsOnlyWhenSpoiled
  BY DEF AllInv, TasksInv, TasksTypeOK, Promised, Kept, HangsOnlyWhenSpoiled, Wedged
<1>2. QED
  BY <1>1, AllInvariance, PTL

=============================================================================
