---------------------------- MODULE TaskService ----------------------------
(***************************************************************************)
(* What a thread pool promises to the thread that adds tasks, with none of *)
(* its queue, semaphore or condition variable: a task is run once, by one  *)
(* of ThreadCount threads, in the order of the additions; at most          *)
(* MaxProcess tasks wait; and add() turns a task away only when that many  *)
(* wait or a thread has just taken one.  It is the task queue that the     *)
(* event loops take as one step; ThreadPool is shown to implement it.      *)
(***************************************************************************)
EXTENDS Naturals, FiniteSets

CONSTANTS
  ThreadCount,  \* thread_count
  MaxProcess,   \* max_process_count
  Total         \* bound: how many tasks there are, numbered as they are added

VARIABLES
  phase,  \* "none", "asked", "waiting", "running", "done" or "refused"
  moved   \* a thread has taken a task since the last call of add

vars == <<phase, moved>>

Tasks == 1..Total
In(p) == {t \in Tasks : phase[t] = p}
To(t, p) == phase' = [phase EXCEPT ![t] = p]

Init == phase = [t \in Tasks |-> "none"] /\ moved = FALSE

\* A call of add, for the next task.
Ask(t) ==
  /\ phase[t] = "none" /\ In("asked") = {}
  /\ \A s \in 1..t - 1 : phase[s] # "none"
  /\ To(t, "asked") /\ moved' = FALSE

Accept(t) ==
  /\ phase[t] = "asked" /\ Cardinality(In("waiting")) < MaxProcess
  /\ To(t, "waiting") /\ moved' = moved

Refuse(t) ==
  /\ phase[t] = "asked" /\ (Cardinality(In("waiting")) >= MaxProcess \/ moved)
  /\ To(t, "refused") /\ moved' = moved

\* First in, first out.
Start(t) ==
  /\ phase[t] = "waiting" /\ \A s \in In("waiting") : t <= s
  /\ Cardinality(In("running")) < ThreadCount
  /\ To(t, "running") /\ moved' = TRUE

Finish(t) == phase[t] = "running" /\ To(t, "done") /\ moved' = moved

Next == \E t \in Tasks : Ask(t) \/ Accept(t) \/ Refuse(t) \/ Start(t) \/ Finish(t)

Spec == Init /\ [][Next]_vars
=============================================================================
