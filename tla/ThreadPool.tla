----------------------------- MODULE ThreadPool -----------------------------
(***************************************************************************)
(* threadpool<T>: the thread that adds tasks, the workers that run them,   *)
(* the queue process_pool and the semaphore that tells the workers how     *)
(* many tasks there are.  The steps are the critical sections of the two   *)
(* mutexes, that of the queue and that of the semaphore; size() is read    *)
(* without either, in two steps between which the workers go on.           *)
(***************************************************************************)
EXTENDS Naturals, Sequences, FiniteSets, Functions

CONSTANTS
  Workers,     \* the threads of the pool
  MaxProcess,  \* max_process_count
  Total,       \* bound: how many tasks are offered to the pool
  Block,       \* how many elements a block of the queue's std::deque holds
  NoTask       \* nullptr

ASSUME PoolParameters ==
  /\ IsFiniteSet(Workers) /\ MaxProcess \in Nat \ {0}
  /\ Total \in Nat /\ Block \in Nat \ {0} /\ NoTask \notin Nat

VARIABLES
  queue,    \* process_pool: the tasks, numbered in the order they are offered
  sem,      \* counting_semaphore::count
  at,       \* where each worker is
  con,      \* the task each worker has taken
  adder,    \* where the adding thread is: "idle", "size", "push" or "release"
  offered,  \* how many tasks have been offered
  refused,  \* the tasks that add() has turned away
  done,     \* the tasks that have been run
  taken,    \* how many elements have left the queue
  first     \* how many had left it when add() was called last

vars == <<queue, sem, at, con, adder, offered, refused, done, taken, first>>

Init ==
  /\ queue = <<>> /\ sem = 0
  /\ at = [w \in Workers |-> "acquire"] /\ con = [w \in Workers |-> NoTask]
  /\ adder = "idle" /\ offered = 0 /\ refused = {} /\ done = {}
  /\ taken = 0 /\ first = 0

At(where) == {w \in Workers : at[w] \in where}
Goto(w, where) == at' = [at EXCEPT ![w] = where]

-----------------------------------------------------------------------------
(* threadpool::add *)

Offer ==
  /\ adder = "idle" /\ offered < Total
  /\ offered' = offered + 1 /\ adder' = "size" /\ first' = taken
  /\ UNCHANGED <<queue, sem, at, con, refused, done, taken>>

\* process_pool.size(): without a lock, the iterators of the deque may be
\* read while pop_front moves them to the next block; the difference of two
\* pointers into different blocks can be anything.
Torn == \E n \in first + 1..taken : n % Block = 0
SizeReads == IF Torn THEN 0..MaxProcess ELSE {Len(queue)}

\* Mutants: one task too many is let in, or "return false" is missing.
MutantJudgeLate(n) ==
  IF n > MaxProcess
  THEN adder' = "idle" /\ refused' = refused \cup {offered}
  ELSE adder' = "push" /\ refused' = refused
MutantJudge(n) ==
  /\ adder' = "push"
  /\ refused' = IF n >= MaxProcess THEN refused \cup {offered} ELSE refused

\* add() returns false when the queue is full.
Judge(n) ==
  IF n >= MaxProcess
  THEN adder' = "idle" /\ refused' = refused \cup {offered}
  ELSE adder' = "push" /\ refused' = refused

SizeTest ==
  /\ adder = "size"
  /\ \E n \in SizeReads : Judge(n)
  /\ UNCHANGED <<queue, sem, at, con, offered, done, taken, first>>

Push ==
  /\ adder = "push"
  /\ queue' = Append(queue, offered) /\ adder' = "release"
  /\ UNCHANGED <<sem, at, con, offered, refused, done, taken, first>>

\* Mutants: notify_one is called only when the count was zero, or never.
MutantNeverWoken(waiting) == at' = at
MutantWoken(waiting) ==
  IF waiting = {} \/ sem > 0 THEN at' = at ELSE \E w \in waiting : Goto(w, "woken")

\* notify_one wakes one of the threads in cv.wait, if there is one.
Woken(waiting) ==
  IF waiting = {} THEN at' = at ELSE \E w \in waiting : Goto(w, "woken")

Release ==
  /\ adder = "release"
  /\ sem' = sem + 1 /\ adder' = "idle"
  /\ Woken(At({"waiting"}))
  /\ UNCHANGED <<queue, con, offered, refused, done, taken, first>>

-----------------------------------------------------------------------------
(* threadpool::run *)

\* Mutant: cv.wait without its predicate returns once it is woken.
MutantMayPass(w) == sem > 0 \/ at[w] = "woken"

\* The predicate of cv.wait.
MayPass(w) == sem > 0

\* sem.acquire(): cv.wait tests its predicate at the start and after each
\* wake-up, and sleeps again when it does not hold.
Acquire(w) ==
  /\ at[w] \in {"acquire", "woken"}
  /\ IF MayPass(w) THEN sem' = sem - 1 /\ Goto(w, "test")
                   ELSE sem' = sem /\ Goto(w, "waiting")
  /\ UNCHANGED <<queue, con, adder, offered, refused, done, taken, first>>

\* A condition variable may wake a thread for no reason.
WakeUp(w) ==
  /\ at[w] = "waiting" /\ Goto(w, "woken")
  /\ UNCHANGED <<queue, sem, con, adder, offered, refused, done, taken, first>>

\* if(process_pool.empty()) continue;
TestEmpty(w) ==
  /\ at[w] = "test"
  /\ Goto(w, IF queue = <<>> THEN "acquire" ELSE "pop")
  /\ UNCHANGED <<queue, sem, con, adder, offered, refused, done, taken, first>>

\* Mutant: pop() forgets pop_front.
MutantAfterPop == queue

\* pop_front
AfterPop == Tail(queue)

\* process_pool.pop(con); if(!con) continue;
Pop(w) ==
  /\ at[w] = "pop"
  /\ IF queue = <<>>
     THEN Goto(w, "acquire") /\ UNCHANGED <<queue, con, taken>>
     ELSE /\ con' = [con EXCEPT ![w] = Head(queue)]
          /\ queue' = AfterPop /\ taken' = taken + 1
          /\ Goto(w, "run")
  /\ UNCHANGED <<sem, adder, offered, refused, done, first>>

\* con->process(), which returns.
Run(w) ==
  /\ at[w] = "run"
  /\ done' = done \cup {con[w]}
  /\ con' = [con EXCEPT ![w] = NoTask]
  /\ Goto(w, "acquire")
  /\ UNCHANGED <<queue, sem, adder, offered, refused, taken, first>>

-----------------------------------------------------------------------------
Add == Offer \/ SizeTest \/ Push \/ Release
Work(w) == Acquire(w) \/ TestEmpty(w) \/ Pop(w) \/ Run(w)

Next == Add \/ \E w \in Workers : Work(w) \/ WakeUp(w)

Spec == Init /\ [][Next]_vars

\* The adding thread and every worker go on; nobody owes a task.
FairSpec == /\ Spec /\ WF_vars(SizeTest \/ Push \/ Release)
            /\ \A w \in Workers : WF_vars(Work(w))

-----------------------------------------------------------------------------
(* What the pool promises *)

TypeOK ==
  /\ queue \in Seq(1..Total) /\ sem \in Nat
  /\ at \in [Workers -> {"acquire", "waiting", "woken", "test", "pop", "run"}]
  /\ con \in [Workers -> (1..Total) \cup {NoTask}]
  /\ adder \in {"idle", "size", "push", "release"} /\ offered \in 0..Total
  /\ refused \subseteq 1..Total /\ done \subseteq 1..Total
  /\ taken \in Nat /\ first \in 0..taken

\* Semaphore and queue agree: every task in the queue is announced by the
\* count, or is about to be taken by a worker that has passed the semaphore,
\* or is about to be announced (add, run).  So a worker that has passed the
\* semaphore never finds the queue empty, and no task is left unannounced.
Balance ==
  Len(queue) = sem + Cardinality(At({"test", "pop"}))
                   + (IF adder = "release" THEN 1 ELSE 0)

\* No worker sleeps in the semaphore while there is a task for it: for every
\* task announced there is already a worker that has been woken for it
\* (counting_semaphore: notify_one once per release, whatever its waiters do).
NoIdleSleeper == At({"waiting"}) # {} => sem <= Cardinality(At({"woken"}))

\* The queue never grows beyond max_process_count, although size() is read
\* without the lock and may be torn: the read is torn only by a worker that
\* has just made room, and only one thread adds (add, size).
BoundKept == Len(queue) <= MaxProcess

\* A task in the queue is run in the end, whatever the wake-ups.
EveryTaskRun == \A t \in 1..Total : t \in Range(queue) ~> t \in done
-----------------------------------------------------------------------------
(* The service the pool implements *)

InHand == IF adder \in {"size", "push"} THEN {offered} ELSE {}
Held == {con[w] : w \in Workers} \ {NoTask}

\* The places where a task is: with the adding thread, in the queue, with a
\* worker, run, or turned away.  A pool that lost a task or kept it twice would
\* have it in no place or in two.
Places(t) ==
  (IF t \in InHand THEN {"asked"} ELSE {}) \cup (IF t \in Range(queue) THEN {"waiting"} ELSE {})
  \cup (IF t \in Held THEN {"running"} ELSE {}) \cup (IF t \in done THEN {"done"} ELSE {})
  \cup (IF t \in refused THEN {"refused"} ELSE {}) \cup (IF t > offered THEN {"none"} ELSE {})
Phase(t) == IF \E p \in Places(t) : Places(t) = {p} THEN CHOOSE p \in Places(t) : TRUE ELSE "lost"

Service == INSTANCE TaskService WITH phase <- [t \in 1..Total |-> Phase(t)],
                                     moved <- (taken # first),
                                     ThreadCount <- Cardinality(Workers)

\* Every step of the adding thread, the workers and the semaphore is a step of
\* the service or leaves it alone: a task is run once, in turn, by one worker,
\* whatever is torn, and refused only with a reason (add, run).
Implements == Service!Spec
=============================================================================
