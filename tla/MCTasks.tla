------------------------------- MODULE MCTasks -------------------------------
EXTENDS TasksProps

(* A fresh Task may also come with a harmless and with a lethal bit set.   *)
SomeGarbage == {{}, {1}, {1, 2}}

=============================================================================
