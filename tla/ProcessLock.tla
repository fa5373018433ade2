------------------------------ MODULE ProcessLock ------------------------------
(***************************************************************************)
(* What a lock between processes promises, whatever it is made of: the     *)
(* tasks inside are all of one process.  A task enters an empty lock, or   *)
(* joins the tasks of its own process; it leaves on its own, or all tasks  *)
(* of a process are dropped at once when the process is gone.              *)
(***************************************************************************)
CONSTANTS Tasks, Procs, ProcOf

VARIABLE inside

Init == inside = {}

Enter(t) ==
  /\ t \notin inside
  /\ \A u \in inside : ProcOf[u] = ProcOf[t]
  /\ inside' = inside \cup {t}

Leave(t) ==
  /\ t \in inside
  /\ inside' = inside \ {t}

Drop(p) == inside' = {t \in inside : ProcOf[t] # p}

Next ==
  \/ \E t \in Tasks : Enter(t) \/ Leave(t)
  \/ \E p \in Procs : Drop(p)

Spec == Init /\ [][Next]_inside

Exclusive == \A t, u \in inside : ProcOf[t] = ProcOf[u]
=============================================================================
