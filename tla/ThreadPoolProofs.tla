--------------------------- MODULE ThreadPoolProofs ---------------------------
(***************************************************************************)
(* Proofs about ThreadPool, for every number of workers and tasks and      *)
(* every max_process_count: the agreement of the semaphore with the queue, *)
(* the bound of the queue under the unlocked size(), that no worker sleeps *)
(* while a task is announced to it, and that the pool implements the       *)
(* abstract task queue (TaskService).                                      *)
(***************************************************************************)
EXTENDS ThreadPool, TLAPS, FiniteSetTheorems, SequenceTheorems, FunctionTheorems

-----------------------------------------------------------------------------
(* The inductive invariant *)

\* The adding thread has a task in hand, and a worker that runs has one.
HandsFull ==
  /\ adder \in {"size", "push"} => offered \in 1..Total
  /\ \A w \in Workers : at[w] = "run" => con[w] \in 1..Total

\* There is room for the task that passed the test of the size; and while the
\* size is read the workers have made room for what they have taken.
RoomToPush ==
  /\ adder = "push" => Len(queue) < MaxProcess
  /\ adder = "size" => Len(queue) + (taken - first) <= MaxProcess

IInv == TypeOK /\ HandsFull /\ RoomToPush /\ BoundKept /\ Balance /\ NoIdleSleeper

-----------------------------------------------------------------------------
(* How many workers are where *)

LEMMA AtCount ==
  ASSUME NEW where
  PROVE  /\ IsFiniteSet(At(where)) /\ Cardinality(At(where)) \in Nat
         /\ At(where) # {} => Cardinality(At(where)) > 0
<1>1. At(where) \in SUBSET Workers /\ IsFiniteSet(Workers)
  BY PoolParameters DEF At
<1>2. IsFiniteSet(At(where))
  BY <1>1, FS_Subset
<1> QED BY <1>2, FS_CardinalityType, FS_EmptySet

\* The workers that f places in a set of places.
Placed(f, where) == {v \in Workers : f[v] \in where}

\* 1 if a worker at this place counts, else 0.
Counts(place, where) == IF place \in where THEN 1 ELSE 0

\* When one worker moves, the number of workers in a set of places changes by
\* whether it leaves the set and whether it enters it.
LEMMA OneMoves ==
  ASSUME NEW f, NEW g, NEW w \in Workers, NEW where,
         \A v \in Workers \ {w} : g[v] = f[v]
  PROVE  /\ Cardinality(Placed(f, where)) \in Nat
         /\ Cardinality(Placed(g, where)) \in Nat
         /\ Cardinality(Placed(g, where)) = Cardinality(Placed(f, where))
              + Counts(g[w], where) - Counts(f[w], where)
<1>1. Placed(f, where) \in SUBSET Workers /\ Placed(g, where) \in SUBSET Workers
  BY DEF Placed
<1>2. IsFiniteSet(Placed(f, where)) /\ IsFiniteSet(Placed(g, where))
  BY <1>1, PoolParameters, FS_Subset
<1>3. /\ Cardinality(Placed(f, where)) \in Nat
      /\ Cardinality(Placed(g, where)) \in Nat
  BY <1>2, FS_CardinalityType
<1>4. CASE f[w] \in where <=> g[w] \in where
  <2>1. Placed(g, where) = Placed(f, where)
    BY <1>4 DEF Placed
  <2> QED BY <2>1, <1>3, <1>4 DEF Counts
<1>5. CASE f[w] \in where /\ g[w] \notin where
  <2>1. Placed(g, where) = Placed(f, where) \ {w} /\ w \in Placed(f, where)
    BY <1>5 DEF Placed
  <2>2. Cardinality(Placed(g, where)) = Cardinality(Placed(f, where)) - 1
    BY <2>1, <1>2, FS_RemoveElement
  <2> QED BY <2>2, <1>3, <1>5 DEF Counts
<1>6. CASE f[w] \notin where /\ g[w] \in where
  <2>1. Placed(g, where) = Placed(f, where) \cup {w} /\ w \notin Placed(f, where)
    BY <1>6 DEF Placed
  <2>2. Cardinality(Placed(g, where)) = Cardinality(Placed(f, where)) + 1
    BY <2>1, <1>2, FS_AddElement
  <2> QED BY <2>2, <1>3, <1>6 DEF Counts
<1> QED BY <1>4, <1>5, <1>6

\* The workers past the semaphore, on their way to it, and asleep in it.
Past == At({"test", "pop"})
Awake == At({"woken"})
Asleep == At({"waiting"})

LEMMA PlacesCounted ==
  /\ Cardinality(Past) \in Nat /\ Cardinality(Awake) \in Nat
  /\ Cardinality(Past') \in Nat /\ Cardinality(Awake') \in Nat
<1>1. /\ Past \in SUBSET Workers /\ Awake \in SUBSET Workers
      /\ Past' \in SUBSET Workers /\ Awake' \in SUBSET Workers
  BY DEF Past, Awake, At
<1>2. /\ IsFiniteSet(Past) /\ IsFiniteSet(Awake)
      /\ IsFiniteSet(Past') /\ IsFiniteSet(Awake')
  BY <1>1, PoolParameters, FS_Subset
<1> QED BY <1>2, FS_CardinalityType

\* What a move of a worker does to the three numbers.
LEMMA Moves ==
  ASSUME TypeOK, NEW w \in Workers,
         NEW to \in {"acquire", "waiting", "woken", "test", "pop", "run"},
         Goto(w, to)
  PROVE  /\ at' \in [Workers -> {"acquire", "waiting", "woken", "test", "pop", "run"}]
         /\ at'[w] = to /\ \A v \in Workers \ {w} : at'[v] = at[v]
         /\ Cardinality(Past') = Cardinality(Past)
              + Counts(to, {"test", "pop"}) - Counts(at[w], {"test", "pop"})
         /\ Cardinality(Awake') = Cardinality(Awake)
              + Counts(to, {"woken"}) - Counts(at[w], {"woken"})
         /\ to # "waiting" => Asleep' \subseteq Asleep
<1>1. /\ at' \in [Workers -> {"acquire", "waiting", "woken", "test", "pop", "run"}]
      /\ at'[w] = to /\ \A v \in Workers \ {w} : at'[v] = at[v]
  BY DEF Goto, TypeOK
<1>2. \A where : Cardinality(Placed(at', where)) = Cardinality(Placed(at, where))
                   + Counts(at'[w], where) - Counts(at[w], where)
  <2> TAKE where
  <2> DEFINE Moved(f, g) ==
        Cardinality(Placed(g, where)) = Cardinality(Placed(f, where))
          + Counts(g[w], where) - Counts(f[w], where)
  <2>1. \A f, g : (\A v \in Workers \ {w} : g[v] = f[v]) => Moved(f, g)
    BY OneMoves
  <2>2. Moved(at, at')
    <3> HIDE DEF Moved
    <3> QED BY <1>1, <2>1
  <2> QED BY <2>2
<1>3. /\ Past = Placed(at, {"test", "pop"}) /\ Past' = Placed(at', {"test", "pop"})
      /\ Awake = Placed(at, {"woken"}) /\ Awake' = Placed(at', {"woken"})
  BY DEF Past, Awake, At, Placed
<1>4. to # "waiting" => Asleep' \subseteq Asleep
  BY <1>1 DEF Asleep, At
<1> QED BY <1>1, <1>2, <1>3, <1>4

\* Balance and NoIdleSleeper in these terms.
LEMMA Numbers ==
  /\ Balance <=> Len(queue) = sem + Cardinality(Past)
                                + (IF adder = "release" THEN 1 ELSE 0)
  /\ NoIdleSleeper <=> (Asleep # {} => sem <= Cardinality(Awake))
  /\ Balance' <=> Len(queue') = sem' + Cardinality(Past')
                                + (IF adder' = "release" THEN 1 ELSE 0)
  /\ NoIdleSleeper' <=> (Asleep' # {} => sem' <= Cardinality(Awake'))
BY DEF Balance, NoIdleSleeper, Past, Awake, Asleep

LEMMA InitInv == Init => IInv
<1> SUFFICES ASSUME Init PROVE IInv
  OBVIOUS
<1>1. Past = {} /\ Asleep = {}
  BY DEF Past, Asleep, At, Init
<1>2. Len(queue) = 0 /\ queue \in Seq(1..Total)
  BY DEF Init
<1>3. TypeOK
  <2>1. offered \in 0..Total /\ taken \in Nat /\ sem \in Nat
    BY PoolParameters DEF Init
  <2>2. /\ at \in [Workers -> {"acquire", "waiting", "woken", "test", "pop", "run"}]
        /\ con \in [Workers -> (1..Total) \cup {NoTask}]
    BY DEF Init
  <2> QED BY <2>1, <2>2, <1>2 DEF Init, TypeOK
<1>5. HandsFull /\ RoomToPush /\ BoundKept
  BY <1>2, PoolParameters DEF Init, HandsFull, RoomToPush, BoundKept
<1>4. Balance /\ NoIdleSleeper
  BY <1>1, <1>2, FS_EmptySet, Numbers DEF Init
<1> QED BY <1>3, <1>4, <1>5 DEF IInv

-----------------------------------------------------------------------------
(* threadpool::add *)

LEMMA OfferInv == IInv /\ Offer => IInv'
<1> SUFFICES ASSUME IInv, Offer PROVE IInv'
  OBVIOUS
<1>1. at' = at /\ Past' = Past /\ Awake' = Awake /\ Asleep' = Asleep
  BY DEF Offer, Past, Awake, Asleep, At
<1>2. offered' \in 0..Total /\ offered' \in 1..Total
  BY PoolParameters DEF IInv, TypeOK, Offer
<1>4. TypeOK'
  BY <1>1, <1>2 DEF IInv, Offer, TypeOK
<1>5. HandsFull' /\ RoomToPush' /\ BoundKept'
  <2>1. Len(queue) \in Nat /\ taken \in Nat
    BY LenProperties DEF IInv, TypeOK
  <2> QED BY <1>1, <1>2, <2>1, PoolParameters DEF IInv, Offer, HandsFull, RoomToPush, BoundKept
<1>3. Balance' /\ NoIdleSleeper'
  BY <1>1, Numbers DEF IInv, Offer
<1> QED BY <1>3, <1>4, <1>5 DEF IInv

LEMMA SizeTestInv == IInv /\ SizeTest => IInv'
<1> SUFFICES ASSUME IInv, SizeTest PROVE IInv'
  OBVIOUS
<1>1. at' = at /\ Past' = Past /\ Awake' = Awake /\ Asleep' = Asleep
  BY DEF SizeTest, Past, Awake, Asleep, At
<1>2. PICK n \in SizeReads : Judge(n)
  BY DEF SizeTest
<1>3. Len(queue) \in Nat /\ offered \in 1..Total
  BY LenProperties DEF IInv, TypeOK, HandsFull, SizeTest
<1>4. TypeOK' /\ HandsFull' /\ BoundKept'
  BY <1>1, <1>2, <1>3 DEF IInv, SizeTest, Judge, TypeOK, HandsFull, BoundKept
<1>5. RoomToPush'
  <2>1. adder' = "push" => n < MaxProcess
    BY <1>2, <1>3, PoolParameters DEF Judge, SizeReads, SizeTest
  <2>2. Torn => taken > first
    BY DEF Torn, IInv, TypeOK
  <2>3. Torn => Len(queue) < MaxProcess
    BY <1>3, <2>2, PoolParameters DEF IInv, TypeOK, SizeTest, RoomToPush
  <2> QED BY <1>2, <1>3, <2>1, <2>3 DEF SizeTest, SizeReads, Judge, RoomToPush
<1>6. Balance' /\ NoIdleSleeper'
  BY <1>1, <1>2, Numbers DEF IInv, SizeTest, Judge
<1> QED BY <1>4, <1>5, <1>6 DEF IInv

LEMMA PushInv == IInv /\ Push => IInv'
<1> SUFFICES ASSUME IInv, Push PROVE IInv'
  OBVIOUS
<1>1. at' = at /\ Past' = Past /\ Awake' = Awake /\ Asleep' = Asleep
  BY DEF Push, Past, Awake, Asleep, At
<1>2. queue \in Seq(1..Total) /\ offered \in 1..Total
  BY DEF IInv, TypeOK, HandsFull, Push
<1>3. /\ queue' \in Seq(1..Total) /\ Len(queue') = Len(queue) + 1
      /\ Len(queue) \in Nat
  BY <1>2, AppendProperties, LenProperties DEF Push
<1>4. TypeOK' /\ HandsFull' /\ RoomToPush' /\ BoundKept'
  BY <1>1, <1>3, PoolParameters
     DEF IInv, Push, TypeOK, HandsFull, RoomToPush, BoundKept
<1>5. Balance' /\ NoIdleSleeper'
  BY <1>1, <1>3, PlacesCounted, Numbers DEF IInv, Push, TypeOK
<1> QED BY <1>4, <1>5 DEF IInv

LEMMA ReleaseInv == IInv /\ Release => IInv'
<1> SUFFICES ASSUME IInv, Release PROVE IInv'
  OBVIOUS
<1>1. /\ sem \in Nat /\ sem' = sem + 1 /\ queue' = queue
      /\ adder = "release" /\ adder' = "idle" /\ con' = con
      /\ UNCHANGED <<offered, refused, done, taken, first>>
  BY DEF IInv, TypeOK, Release
<1>2. CASE Asleep = {} /\ at' = at
  <2>1. Past' = Past /\ Awake' = Awake /\ Asleep' = Asleep
    BY <1>2 DEF Past, Awake, Asleep, At
  <2>2. TypeOK' /\ HandsFull' /\ RoomToPush' /\ BoundKept'
    BY <1>1, <1>2 DEF IInv, TypeOK, HandsFull, RoomToPush, BoundKept
  <2>3. Balance' /\ NoIdleSleeper'
    BY <1>1, <1>2, <2>1, PlacesCounted, Numbers DEF IInv
  <2> QED BY <2>2, <2>3 DEF IInv
<1>3. ASSUME NEW w \in Asleep, Goto(w, "woken")
      PROVE  IInv'
  <2>1. w \in Workers /\ at[w] = "waiting" /\ TypeOK
    BY <1>3 DEF Asleep, At, IInv
  <2>2. /\ Cardinality(Past') = Cardinality(Past)
        /\ Cardinality(Awake') = Cardinality(Awake) + 1
    BY <1>3, <2>1, Moves, PlacesCounted DEF Counts
  <2>3. TypeOK' /\ HandsFull' /\ RoomToPush' /\ BoundKept'
    BY <1>1, <1>3, <2>1, Moves
       DEF IInv, TypeOK, HandsFull, RoomToPush, BoundKept
  <2>4. Balance'
    BY <1>1, <2>2, PlacesCounted, Numbers DEF IInv
  <2>5. NoIdleSleeper'
    BY <1>1, <1>3, <2>2, PlacesCounted, Numbers DEF IInv
  <2> QED BY <2>3, <2>4, <2>5 DEF IInv
<1> QED BY <1>2, <1>3 DEF Release, Woken, Asleep

-----------------------------------------------------------------------------
(* threadpool::run *)

LEMMA AcquireInv ==
  ASSUME IInv, NEW w \in Workers, Acquire(w)
  PROVE  IInv'
<1>1. /\ sem \in Nat /\ TypeOK /\ at[w] \in {"acquire", "woken"}
      /\ UNCHANGED <<queue, con, adder, offered, refused, done, taken, first>>
  BY DEF IInv, TypeOK, Acquire
<1>2. CASE sem > 0 /\ sem' = sem - 1 /\ Goto(w, "test")
  <2>1. /\ Cardinality(Past') = Cardinality(Past) + 1
        /\ at[w] = "woken" =>
             Cardinality(Awake') = Cardinality(Awake) - 1
        /\ at[w] # "woken" => Cardinality(Awake') = Cardinality(Awake)
        /\ Asleep' \subseteq Asleep
    BY <1>1, <1>2, Moves, PlacesCounted DEF Counts
  <2>2. TypeOK' /\ HandsFull' /\ RoomToPush' /\ BoundKept'
    BY <1>1, <1>2, Moves DEF IInv, TypeOK, HandsFull, RoomToPush, BoundKept
  <2>3. Balance' /\ NoIdleSleeper'
    BY <1>1, <1>2, <2>1, PlacesCounted, Numbers DEF IInv
  <2> QED BY <2>2, <2>3 DEF IInv
<1>3. CASE sem = 0 /\ sem' = sem /\ Goto(w, "waiting")
  <2>1. Cardinality(Past') = Cardinality(Past)
    BY <1>1, <1>3, Moves, PlacesCounted DEF Counts
  <2>2. TypeOK' /\ HandsFull' /\ RoomToPush' /\ BoundKept'
    BY <1>1, <1>3, Moves DEF IInv, TypeOK, HandsFull, RoomToPush, BoundKept
  <2>4. Balance' /\ NoIdleSleeper'
    BY <1>1, <1>3, <2>1, PlacesCounted, Numbers DEF IInv
  <2> QED BY <2>2, <2>4 DEF IInv
<1> QED BY <1>1, <1>2, <1>3 DEF Acquire, MayPass

LEMMA WakeUpInv ==
  ASSUME IInv, NEW w \in Workers, WakeUp(w)
  PROVE  IInv'
<1>1. /\ TypeOK /\ at[w] = "waiting" /\ Goto(w, "woken") /\ sem \in Nat
      /\ UNCHANGED <<queue, sem, con, adder, offered, refused, done, taken, first>>
  BY DEF IInv, TypeOK, WakeUp
<1>2. /\ Cardinality(Past') = Cardinality(Past)
      /\ Cardinality(Awake') = Cardinality(Awake) + 1
      /\ w \in Asleep
  BY <1>1, Moves, PlacesCounted DEF Counts, Asleep, At
<1>3. TypeOK' /\ HandsFull' /\ RoomToPush' /\ BoundKept'
  BY <1>1, Moves DEF IInv, TypeOK, HandsFull, RoomToPush, BoundKept
<1>4. Balance'
  BY <1>1, <1>2, Numbers DEF IInv
<1>5. NoIdleSleeper'
  BY <1>1, <1>2, PlacesCounted, Numbers DEF IInv
<1> QED BY <1>3, <1>4, <1>5 DEF IInv

\* A worker that has passed the semaphore finds a task in the queue: the two
\* tests that send it back, empty() and !con, never hold.
LEMMA TaskForIt ==
  ASSUME IInv, NEW w \in Workers, at[w] \in {"test", "pop"}
  PROVE  queue # <<>>
<1>1. Cardinality(Past) \in Nat /\ Cardinality(Past) > 0
  BY AtCount DEF Past, At
<1>2. sem \in Nat /\ Len(queue) # 0
  BY <1>1, Numbers DEF IInv, TypeOK
<1> QED BY <1>2

LEMMA TestEmptyInv ==
  ASSUME IInv, NEW w \in Workers, TestEmpty(w)
  PROVE  IInv'
<1>1. /\ TypeOK /\ at[w] = "test" /\ Goto(w, "pop")
      /\ UNCHANGED <<queue, sem, con, adder, offered, refused, done, taken, first>>
  BY TaskForIt DEF IInv, TestEmpty
<1>2. /\ Cardinality(Past') = Cardinality(Past)
      /\ Cardinality(Awake') = Cardinality(Awake)
      /\ Asleep' \subseteq Asleep
  BY <1>1, Moves, PlacesCounted DEF Counts
<1>3. TypeOK' /\ HandsFull' /\ RoomToPush' /\ BoundKept'
  BY <1>1, Moves DEF IInv, TypeOK, HandsFull, RoomToPush, BoundKept
<1>4. Balance' /\ NoIdleSleeper'
  BY <1>1, <1>2, Numbers DEF IInv
<1> QED BY <1>3, <1>4 DEF IInv

LEMMA PopInv ==
  ASSUME IInv, NEW w \in Workers, Pop(w)
  PROVE  IInv'
<1>1. /\ TypeOK /\ at[w] = "pop" /\ Goto(w, "run") /\ queue # <<>>
      /\ con' = [con EXCEPT ![w] = Head(queue)]
      /\ queue' = Tail(queue) /\ taken' = taken + 1
      /\ UNCHANGED <<sem, adder, offered, refused, done, first>>
  BY TaskForIt DEF IInv, Pop, AfterPop
<1>2. /\ Cardinality(Past') = Cardinality(Past) - 1
      /\ Cardinality(Awake') = Cardinality(Awake)
      /\ Asleep' \subseteq Asleep
  BY <1>1, Moves, PlacesCounted DEF Counts
<1>3. queue \in Seq(1..Total)
  BY <1>1 DEF TypeOK
<1>4. /\ Head(queue) \in 1..Total /\ queue' \in Seq(1..Total)
      /\ Len(queue) \in Nat /\ Len(queue') = Len(queue) - 1
  BY <1>1, <1>3, HeadTailProperties, LenProperties, EmptySeq
<1>5. TypeOK'
  <2>1. taken' \in Nat /\ first' \in 0..taken'
    BY <1>1 DEF TypeOK
  <2>2. con' \in [Workers -> (1..Total) \cup {NoTask}]
    BY <1>1, <1>4 DEF TypeOK
  <2> QED BY <1>1, <1>4, <2>1, <2>2, Moves DEF TypeOK
<1>6. HandsFull'
  BY <1>1, <1>4, Moves DEF IInv, HandsFull, TypeOK
<1>7. RoomToPush' /\ BoundKept'
  BY <1>1, <1>4, PoolParameters DEF IInv, RoomToPush, BoundKept, TypeOK
<1>8. Balance' /\ NoIdleSleeper'
  BY <1>1, <1>2, <1>4, PlacesCounted, Numbers DEF IInv, TypeOK
<1> QED BY <1>5, <1>6, <1>7, <1>8 DEF IInv

LEMMA RunInv ==
  ASSUME IInv, NEW w \in Workers, Run(w)
  PROVE  IInv'
<1>1. /\ TypeOK /\ at[w] = "run" /\ Goto(w, "acquire")
      /\ done' = done \cup {con[w]} /\ con' = [con EXCEPT ![w] = NoTask]
      /\ con[w] \in 1..Total
      /\ UNCHANGED <<queue, sem, adder, offered, refused, taken, first>>
  BY DEF IInv, HandsFull, Run
<1>2. /\ Cardinality(Past') = Cardinality(Past)
      /\ Cardinality(Awake') = Cardinality(Awake)
      /\ Asleep' \subseteq Asleep
  BY <1>1, Moves, PlacesCounted DEF Counts
<1>3. TypeOK' /\ HandsFull' /\ RoomToPush' /\ BoundKept'
  BY <1>1, Moves DEF IInv, TypeOK, HandsFull, RoomToPush, BoundKept
<1>4. Balance' /\ NoIdleSleeper'
  BY <1>1, <1>2, Numbers DEF IInv
<1> QED BY <1>3, <1>4 DEF IInv

LEMMA StutterInv == IInv /\ UNCHANGED vars => IInv'
<1> SUFFICES ASSUME IInv, UNCHANGED vars PROVE IInv'
  OBVIOUS
<1>1. Past' = Past /\ Awake' = Awake /\ Asleep' = Asleep
  BY DEF vars, Past, Awake, Asleep, At
<1> QED BY <1>1, Numbers
       DEF vars, IInv, TypeOK, HandsFull, RoomToPush, BoundKept

-----------------------------------------------------------------------------
(* The theorems *)

\* Whatever the interleaving of the adding thread, the workers and spurious
\* wake-ups, the pool satisfies the inductive invariant.
THEOREM Invariance == Spec => []IInv
<1>1. Init => IInv
  BY InitInv
<1>2. IInv /\ [Next]_vars => IInv'
  BY OfferInv, SizeTestInv, PushInv, ReleaseInv, AcquireInv, WakeUpInv,
     TestEmptyInv, PopInv, RunInv, StutterInv DEF Next, Add, Work
<1> QED BY <1>1, <1>2, PTL DEF Spec

\* The variables of the pool keep their types; the semaphore's count, a
\* size_t in the code, never goes below zero.
THEOREM TypeCorrect == Spec => []TypeOK
<1>1. IInv => TypeOK
  BY DEF IInv
<1> QED BY <1>1, Invariance, PTL

\* The semaphore announces exactly the tasks in the queue, those about to be
\* announced or taken aside: no task is left unannounced and no worker that
\* passes the semaphore finds the queue empty (add, run).
THEOREM SemaphoreAgrees == Spec => []Balance
<1>1. IInv => Balance
  BY DEF IInv
<1> QED BY <1>1, Invariance, PTL

\* No worker sleeps in the semaphore while a task is announced that no woken
\* worker is on its way to take (counting_semaphore).
THEOREM NobodySleepsOnWork == Spec => []NoIdleSleeper
<1>1. IInv => NoIdleSleeper
  BY DEF IInv
<1> QED BY <1>1, Invariance, PTL

\* The queue never exceeds max_process_count, although its size is read
\* without its lock (add, size).
THEOREM QueueBounded == Spec => []BoundKept
<1>1. IInv => BoundKept
  BY DEF IInv
<1> QED BY <1>1, Invariance, PTL

-----------------------------------------------------------------------------
(* The pool implements the task queue it promises: every behaviour of         *)
(* ThreadPool is, through ThreadPool!Service, one of TaskService.  Each step  *)
(* moves one task from one place to the next, or none: no task is ever in two *)
(* places, or in none.                                                        *)

Tasks == 1..Total
Phases == {"none", "asked", "waiting", "running", "done", "refused"}

\* Every task is in one place.
Single == \A t \in Tasks : \E p \in Phases : Places(t) = {p}

\* The queue is in the order of the additions.
Sorted == \A i, j \in DOMAIN queue : i < j => queue[i] < queue[j]

\* A task is with one worker, and only while that worker runs it.
OneEach ==
  /\ \A w \in Workers : con[w] # NoTask => at[w] = "run"
  /\ \A v, w \in Workers : con[v] = con[w] /\ con[v] # NoTask => v = w

RInv == Single /\ Sorted /\ OneEach

-----------------------------------------------------------------------------
(* Places and phases *)

LEMMA PlacesAre ==
  ASSUME NEW t \in Tasks
  PROVE  /\ Places(t) \subseteq Phases
         /\ "asked" \in Places(t) <=> t \in InHand
         /\ "waiting" \in Places(t) <=> t \in Range(queue)
         /\ "running" \in Places(t) <=> t \in Held
         /\ "done" \in Places(t) <=> t \in done
         /\ "refused" \in Places(t) <=> t \in refused
         /\ "none" \in Places(t) <=> t > offered
BY DEF Places, Phases

LEMMA PlacesWillBe ==
  ASSUME NEW t \in Tasks
  PROVE  /\ Places(t)' \subseteq Phases
         /\ "asked" \in Places(t)' <=> t \in InHand'
         /\ "waiting" \in Places(t)' <=> t \in Range(queue')
         /\ "running" \in Places(t)' <=> t \in Held'
         /\ "done" \in Places(t)' <=> t \in done'
         /\ "refused" \in Places(t)' <=> t \in refused'
         /\ "none" \in Places(t)' <=> t > offered'
BY DEF Places, Phases

LEMMA PhaseIs ==
  ASSUME NEW t \in Tasks, NEW p, Places(t) = {p}
  PROVE  Phase(t) = p
BY DEF Phase

LEMMA PhaseWillBe ==
  ASSUME NEW t \in Tasks, NEW p, Places(t)' = {p}
  PROVE  Phase(t)' = p
BY DEF Phase

\* A task has the phase of its only place.
LEMMA InPhase ==
  ASSUME Single, NEW t \in Tasks, NEW p \in Phases
  PROVE  Phase(t) = p <=> p \in Places(t)
<1>1. PICK q \in Phases : Places(t) = {q}
  BY DEF Single
<1> QED BY <1>1, PhaseIs

\* When the places of one task change, and it is in one place then, only its
\* phase changes.
LEMMA OneMovesOn ==
  ASSUME Single, NEW t \in Tasks, NEW q \in Phases, Places(t)' = {q},
         \A s \in Tasks \ {t} : Places(s)' = Places(s)
  PROVE  /\ Single'
         /\ \A s \in Tasks : Phase(s)' = IF s = t THEN q ELSE Phase(s)
<1>1. \A s \in Tasks : \E p \in Phases : Places(s)' = {p}
  BY DEF Single
<1>2. Single'
  BY <1>1 DEF Single
<1>3. ASSUME NEW s \in Tasks PROVE Phase(s)' = IF s = t THEN q ELSE Phase(s)
  <2>1. CASE s = t
    BY <2>1, PhaseWillBe
  <2>2. CASE s # t
    BY <1>3, <2>2 DEF Phase
  <2> QED BY <2>1, <2>2
<1> QED BY <1>2, <1>3

\* When no place changes, nothing does that the service could see.
LEMMA NoneMoves ==
  ASSUME Single, UNCHANGED <<InHand, queue, Held, done, refused, offered>>
  PROVE  Single' /\ \A s \in Tasks : Phase(s)' = Phase(s)
<1>1. \A s \in Tasks : Places(s)' = Places(s)
  BY DEF Places
<1>2. Single'
  BY <1>1 DEF Single
<1>3. \A s \in Tasks : Phase(s)' = Phase(s)
  BY <1>1 DEF Phase
<1> QED BY <1>2, <1>3

-----------------------------------------------------------------------------
(* The queue, and what the service counts *)

LEMMA SameCardinality ==
  ASSUME NEW S
  PROVE  Service!Cardinality(S) = Cardinality(S)
BY Zenon DEF Cardinality, Service!Cardinality, IsFiniteSet, Service!IsFiniteSet

LEMMA QueueFacts ==
  ASSUME IInv, Sorted
  PROVE  /\ queue \in Seq(Tasks) /\ Len(queue) \in Nat /\ DOMAIN queue = 1..Len(queue)
         /\ Range(queue) \subseteq Tasks
         /\ \A i \in DOMAIN queue : queue[i] \in Tasks
         /\ \A i, j \in DOMAIN queue : queue[i] = queue[j] => i = j
<1>1. queue \in Seq(Tasks)
  BY DEF IInv, TypeOK, Tasks
<1>2. /\ Len(queue) \in Nat /\ DOMAIN queue = 1..Len(queue)
      /\ \A i \in DOMAIN queue : queue[i] \in Tasks
  BY <1>1, LenProperties, ElementOfSeq
<1>3. ASSUME NEW i \in DOMAIN queue, NEW j \in DOMAIN queue, queue[i] = queue[j]
      PROVE  i = j
  <2>1. queue[i] \in Nat /\ ~(queue[i] < queue[j]) /\ ~(queue[j] < queue[i])
    BY <1>2, <1>3, PoolParameters DEF Tasks
  <2> QED BY <1>2, <2>1 DEF Sorted
<1> QED BY <1>1, <1>2, <1>3 DEF Range

\* The queue holds no task twice, so that its length is their number.
LEMMA QueueCount ==
  ASSUME IInv, Sorted
  PROVE  Cardinality(Range(queue)) = Len(queue)
<1> DEFINE N == 1..Len(queue)
           Q == Range(queue)
           F == [i \in N |-> queue[i]]
<1>1. Len(queue) \in Nat /\ IsFiniteSet(N) /\ Cardinality(N) = Len(queue)
  <2>1. Len(queue) \in Nat /\ Len(queue) \in Int /\ 1 \in Int
    BY QueueFacts
  <2>2. IsFiniteSet(N) /\ Cardinality(N) = IF 1 > Len(queue) THEN 0 ELSE Len(queue) - 1 + 1
    BY <2>1, FS_Interval
  <2> QED BY <2>1, <2>2
<1>2. Q = {queue[i] : i \in N}
  BY QueueFacts DEF Range
<1>3. F \in Bijection(N, Q)
  <2>1. F \in [N -> Q] /\ \A t \in Q : \E i \in N : F[i] = t
    BY <1>2
  <2>2. \A i, j \in N : F[i] = F[j] => i = j
    BY QueueFacts
  <2> HIDE DEF F, N, Q
  <2> QED BY <2>1, <2>2, Fun_IsBij
<1>4. ExistsBijection(N, Q)
  BY <1>3 DEF ExistsBijection
<1> HIDE DEF N, Q
<1>5. Cardinality(Q) = Cardinality(N)
  BY <1>1, <1>4, FS_Bijection
<1> QED BY <1>1, <1>5 DEF Q

\* The tasks in a phase are those that the pool has in that place.
LEMMA ServiceIn ==
  ASSUME Single
  PROVE  /\ Service!In("asked") = {t \in Tasks : t \in InHand}
         /\ Service!In("waiting") = {t \in Tasks : t \in Range(queue)}
         /\ Service!In("running") = {t \in Tasks : t \in Held}
<1>1. \A t \in Tasks : /\ Phase(t) = "asked" <=> t \in InHand
                       /\ Phase(t) = "waiting" <=> t \in Range(queue)
                       /\ Phase(t) = "running" <=> t \in Held
  BY InPhase, PlacesAre DEF Phases
<1> QED BY <1>1 DEF Service!In, Service!Tasks, Tasks

\* Fewer tasks are with workers than there are workers when one has none.
LEMMA WorkerFree ==
  ASSUME IInv, OneEach, NEW w \in Workers, at[w] # "run"
  PROVE  Cardinality(Held) < Cardinality(Workers)
<1> DEFINE R == {v \in Workers : con[v] # NoTask}
           I == {con[v] : v \in R}
<1>1. Held = I
  BY DEF Held
<1>2. R \subseteq Workers /\ R # Workers /\ IsFiniteSet(Workers)
  BY PoolParameters DEF OneEach
<1>3. IsFiniteSet(R) /\ Cardinality(R) \in Nat /\ Cardinality(Workers) \in Nat
      /\ Cardinality(R) < Cardinality(Workers)
  <2> HIDE DEF R
  <2>1. IsFiniteSet(R) /\ Cardinality(R) <= Cardinality(Workers)
    BY <1>2, FS_Subset
  <2>2. Cardinality(R) # Cardinality(Workers)
    BY <1>2, FS_Subset
  <2> QED BY <1>2, <2>1, <2>2, FS_CardinalityType
<1>4. IsFiniteSet(I) /\ Cardinality(I) <= Cardinality(R)
  <2> DEFINE F == [v \in R |-> con[v]]
  <2>1. F \in Surjection(R, I)
    <3>1. F \in [R -> I] /\ \A t \in I : \E v \in R : F[v] = t
      OBVIOUS
    <3> HIDE DEF F, R, I
    <3> QED BY <3>1, Fun_IsSurj
  <2> HIDE DEF F, R, I
  <2> QED BY <1>3, <2>1, FS_Surjection DEF ExistsSurjection
<1> HIDE DEF R, I
<1>5. Cardinality(I) \in Nat
  BY <1>4, FS_CardinalityType
<1> QED BY <1>1, <1>3, <1>4, <1>5

-----------------------------------------------------------------------------
(* The steps *)

\* The steps of the semaphore, and those in which a thread looks at the queue.
Quiet ==
  /\ UNCHANGED <<InHand, queue, con, done, refused, offered, taken, first>>
  /\ \A w \in Workers : at[w] = "run" => at'[w] = "run"

LEMMA QuietStep ==
  ASSUME RInv, Quiet
  PROVE  RInv' /\ UNCHANGED Service!vars
<1>1. Held' = Held
  BY DEF Held, Quiet
<1>2. Single' /\ \A t \in Tasks : Phase(t)' = Phase(t)
  BY <1>1, NoneMoves DEF RInv, Quiet
<1>3. Sorted' /\ OneEach'
  BY DEF RInv, Quiet, Sorted, OneEach
<1> QED BY <1>2, <1>3 DEF RInv, Quiet, Service!vars, Tasks

LEMMA QuietSteps ==
  ASSUME IInv, RInv, [Next]_vars
  PROVE  \/ Quiet \/ Offer \/ Push
         \/ SizeTest /\ refused' # refused
         \/ \E w \in Workers : Pop(w) \/ Run(w)
<1>1. CASE UNCHANGED vars
  BY <1>1 DEF vars, Quiet, InHand
<1>2. CASE SizeTest /\ refused' = refused
  <2>1. PICK n \in SizeReads : Judge(n)
    BY <1>2 DEF SizeTest
  <2>2. offered \notin refused
    BY <1>2, PlacesAre DEF SizeTest, InHand, IInv, HandsFull, RInv, Single, Tasks
  <2>3. adder' = "push"
    BY <1>2, <2>1, <2>2 DEF Judge
  <2> QED BY <1>2, <2>3 DEF SizeTest, Quiet, InHand
<1>3. CASE Release
  <2>1. \A w \in Workers : at[w] = "run" => at'[w] = "run"
    BY <1>3 DEF Release, Woken, Goto, At, IInv, TypeOK
  <2> QED BY <1>3, <2>1 DEF Release, Quiet, InHand
<1>4. ASSUME NEW w \in Workers, Acquire(w) \/ WakeUp(w) \/ TestEmpty(w)
      PROVE  Quiet
  <2>1. \A v \in Workers : at[v] = "run" => at'[v] = "run"
    BY <1>4 DEF Acquire, WakeUp, TestEmpty, Goto, IInv, TypeOK
  <2> QED BY <1>4, <2>1 DEF Acquire, WakeUp, TestEmpty, Quiet, InHand
<1> QED BY <1>1, <1>2, <1>3, <1>4 DEF Next, Add, Work

LEMMA PlaceKept ==
  ASSUME NEW t \in Tasks,
         t \in InHand' <=> t \in InHand, t \in Range(queue') <=> t \in Range(queue),
         t \in Held' <=> t \in Held, t \in done' <=> t \in done,
         t \in refused' <=> t \in refused, t > offered' <=> t > offered
  PROVE  Places(t)' = Places(t)
BY DEF Places

\* A task that leaves one place for another, and is in no third, is in one place.
LEMMA PlaceTaken ==
  ASSUME Single, NEW t \in Tasks, NEW p \in Phases, NEW q \in Phases \ {p}, p \in Places(t),
         Places(t)' \subseteq (Places(t) \cup {q}) \ {p}, q \in Places(t)'
  PROVE  Places(t)' = {q}
BY DEF Single

\* add() is called: the next task is with the adding thread.
LEMMA OfferSimulates ==
  ASSUME IInv, RInv, Offer
  PROVE  RInv' /\ Service!Next
<1>0. PICK t \in Tasks : t = offered + 1
  BY PoolParameters DEF Offer, IInv, TypeOK, Tasks
<1>1. /\ t = offered + 1 /\ offered \in Nat /\ InHand = {} /\ InHand' = {t} /\ offered' = t
      /\ UNCHANGED <<queue, con, at, done, refused, taken>> /\ first' = taken
  BY <1>0, PoolParameters DEF Offer, InHand, IInv, TypeOK, Tasks
<1>2. Held' = Held
  BY <1>1 DEF Held
<1>3. Single
  BY DEF RInv
<1>4. "none" \in Places(t) /\ Places(t) = {"none"} /\ \A s \in 1..offered : "none" \notin Places(s)
  <2>1. "none" \in Places(t) /\ \A s \in 1..offered : s \in Tasks /\ "none" \notin Places(s)
    BY <1>1, PlacesAre, PoolParameters DEF Tasks
  <2> QED BY <1>1, <1>3, <2>1 DEF Single
<1>5. \A s \in Tasks \ {t} : Places(s)' = Places(s)
  <2>1. \A s \in Tasks \ {t} : s > offered' <=> s > offered
    BY <1>1, PoolParameters DEF Tasks
  <2> QED BY <1>1, <1>2, <2>1, PlaceKept
<1>6. Places(t)' = {"asked"}
  <2>1. ~(t > offered') /\ t \in InHand'
    BY <1>1
  <2> QED BY <1>1, <1>2, <1>4, <2>1, PlacesAre, PlacesWillBe DEF Phases
<1>7. Single' /\ \A s \in Tasks : Phase(s)' = IF s = t THEN "asked" ELSE Phase(s)
  BY <1>1, <1>3, <1>5, <1>6, OneMovesOn DEF Phases
<1>8. Phase(t) = "none" /\ Service!In("asked") = {} /\ \A s \in 1..t - 1 : s \in Tasks /\ Phase(s) # "none"
  <2>1. 1..t - 1 = 1..offered /\ 1..offered \subseteq Tasks
    BY <1>1, PoolParameters DEF Tasks
  <2>2. Phase(t) = "none"
    BY <1>1, <1>4, PhaseIs
  <2>3. Service!In("asked") = {}
    BY <1>1, <1>3, ServiceIn
  <2> QED BY <1>3, <1>4, <2>1, <2>2, <2>3, InPhase DEF Phases
<1>9. Service!Ask(t)
  BY <1>1, <1>7, <1>8 DEF Service!Ask, Service!To, Tasks
<1>10. Sorted' /\ OneEach'
  BY <1>1 DEF RInv, Sorted, OneEach
<1> QED BY <1>1, <1>7, <1>9, <1>10 DEF RInv, Service!Next, Service!Tasks, Tasks

\* add() turns a task away: the queue is full, or a worker has just taken a
\* task and the size was torn.
LEMMA RefuseSimulates ==
  ASSUME IInv, RInv, SizeTest, refused' # refused
  PROVE  RInv' /\ Service!Next
<1>0. PICK t \in Tasks : t = offered
  BY DEF SizeTest, IInv, HandsFull, Tasks
<1>1. PICK n \in SizeReads : Judge(n)
  BY DEF SizeTest
<1>2. /\ InHand = {t} /\ InHand' = {} /\ refused' = refused \cup {t}
      /\ UNCHANGED <<queue, con, at, done, offered, taken, first>> /\ n >= MaxProcess
  BY <1>0, <1>1 DEF SizeTest, Judge, InHand
<1>3. Held' = Held /\ Single
  BY <1>2 DEF Held, RInv
<1>4. \A s \in Tasks \ {t} : Places(s)' = Places(s)
  BY <1>2, <1>3, PlaceKept
<1>5. Places(t)' = {"refused"}
  <2>1. "asked" \in Places(t) /\ "refused" \in Places(t)' /\ "asked" \notin Places(t)'
    BY <1>2, PlacesAre, PlacesWillBe
  <2>2. Places(t)' \subseteq Places(t) \cup {"refused"}
    BY <1>2, <1>3, PlacesAre, PlacesWillBe DEF Phases
  <2> QED BY <1>2, <1>3, <2>1, <2>2, PlaceTaken DEF Phases
<1>6. Single' /\ \A s \in Tasks : Phase(s)' = IF s = t THEN "refused" ELSE Phase(s)
  BY <1>2, <1>3, <1>4, <1>5, OneMovesOn DEF Phases
<1>7. Phase(t) = "asked"
  BY <1>2, <1>3, InPhase, PlacesAre DEF Phases
<1>8. Service!Cardinality(Service!In("waiting")) >= MaxProcess \/ taken # first
  <2>1. CASE Torn
    <3>1. taken # first
      BY <2>1 DEF Torn, IInv, TypeOK
    <3> QED BY <3>1
  <2>2. CASE ~Torn
    <3>1. Len(queue) >= MaxProcess
      BY <1>1, <1>2, <2>2 DEF SizeReads
    <3>2. Service!In("waiting") = Range(queue)
      BY <1>3, ServiceIn, QueueFacts DEF RInv
    <3> QED BY <3>1, <3>2, QueueCount, SameCardinality DEF RInv
  <2> QED BY <2>1, <2>2
<1>9. Service!Refuse(t)
  BY <1>2, <1>6, <1>7, <1>8 DEF Service!Refuse, Service!To, Tasks
<1>10. Sorted' /\ OneEach'
  BY <1>2 DEF RInv, Sorted, OneEach
<1> QED BY <1>2, <1>6, <1>9, <1>10 DEF RInv, Service!Next, Service!Tasks, Tasks

\* The task is put on the queue, where there is room for it.
LEMMA PushSimulates ==
  ASSUME IInv, RInv, Push
  PROVE  RInv' /\ Service!Next
<1>0. PICK t \in Tasks : t = offered
  BY DEF Push, IInv, HandsFull, Tasks
<1>1. /\ InHand = {t} /\ InHand' = {} /\ queue' = Append(queue, t)
      /\ UNCHANGED <<con, at, refused, done, offered, taken, first>> /\ Len(queue) < MaxProcess
  BY <1>0 DEF Push, InHand, IInv, RoomToPush
<1>2. Held' = Held /\ Single /\ Sorted
  BY <1>1 DEF Held, RInv
<1>3. /\ queue \in Seq(Tasks) /\ Len(queue) \in Nat /\ DOMAIN queue = 1..Len(queue)
      /\ \A i \in DOMAIN queue : queue[i] \in Tasks
  BY <1>2, QueueFacts
<1>4. /\ DOMAIN queue' = 1..Len(queue) + 1 /\ queue'[Len(queue) + 1] = t
      /\ \A i \in DOMAIN queue : queue'[i] = queue[i]
  BY <1>1, <1>3, AppendProperties, LenProperties
<1>5. Range(queue') = Range(queue) \cup {t}
  BY <1>3, <1>4 DEF Range
<1>6. "asked" \in Places(t) /\ Places(t) = {"asked"}
  BY <1>1, <1>2, PlacesAre DEF Single
<1>7. \A s \in Tasks \ {t} : Places(s)' = Places(s)
  BY <1>1, <1>2, <1>5, PlaceKept
<1>8. Places(t)' = {"waiting"}
  <2>1. "waiting" \in Places(t)' /\ "asked" \notin Places(t)'
    BY <1>1, <1>5, PlacesWillBe
  <2>2. Places(t)' \subseteq Places(t) \cup {"waiting"}
    BY <1>1, <1>2, PlacesAre, PlacesWillBe DEF Phases
  <2> QED BY <1>2, <1>6, <2>1, <2>2, PlaceTaken DEF Phases
<1>9. Single' /\ \A s \in Tasks : Phase(s)' = IF s = t THEN "waiting" ELSE Phase(s)
  BY <1>2, <1>7, <1>8, OneMovesOn DEF Phases
<1>10. Phase(t) = "asked"
  BY <1>6, PhaseIs
<1>11. Service!Cardinality(Service!In("waiting")) < MaxProcess
  <2>1. Service!In("waiting") = Range(queue)
    BY <1>2, ServiceIn, QueueFacts DEF RInv
  <2> QED BY <1>1, <1>2, <2>1, QueueCount, SameCardinality
<1>12. Service!Accept(t)
  BY <1>1, <1>9, <1>10, <1>11 DEF Service!Accept, Service!To, Tasks
<1>13. Sorted'
  <2>1. \A i \in DOMAIN queue : queue[i] < t
    <3> TAKE i \in DOMAIN queue
    <3>1. "waiting" \in Places(queue[i]) /\ queue[i] \in Tasks
      BY <1>3, PlacesAre DEF Range
    <3>2. "none" \notin Places(queue[i]) /\ queue[i] # t
      BY <1>2, <1>6, <3>1 DEF Single
    <3> QED BY <1>0, <3>1, <3>2, PlacesAre, PoolParameters DEF Tasks
  <2> QED BY <1>2, <1>3, <1>4, <2>1 DEF Sorted
<1>14. OneEach'
  BY <1>1 DEF RInv, OneEach
<1> QED BY <1>9, <1>12, <1>13, <1>14 DEF RInv, Service!Next, Service!Tasks, Tasks

\* A worker takes the task that has waited longest.
LEMMA PopSimulates ==
  ASSUME IInv, RInv, NEW w \in Workers, Pop(w)
  PROVE  RInv' /\ Service!Next
<1>1. /\ at[w] = "pop" /\ queue # <<>> /\ queue' = Tail(queue) /\ taken' = taken + 1
      /\ con' = [con EXCEPT ![w] = Head(queue)] /\ Goto(w, "run")
      /\ UNCHANGED <<InHand, refused, done, offered, first>>
  BY TaskForIt DEF Pop, AfterPop, InHand
<1>2. Single /\ Sorted /\ OneEach
  BY DEF RInv
<1>3. /\ queue \in Seq(Tasks) /\ Len(queue) \in Nat /\ DOMAIN queue = 1..Len(queue)
      /\ \A i \in DOMAIN queue : queue[i] \in Tasks
      /\ \A i, j \in DOMAIN queue : queue[i] = queue[j] => i = j
  BY <1>2, QueueFacts
<1>0. PICK t \in Tasks : t = Head(queue)
  BY <1>1, <1>3, HeadTailProperties
<1>4. /\ Len(queue) > 0 /\ t = queue[1] /\ DOMAIN queue' = 1..Len(queue) - 1
      /\ \A i \in DOMAIN queue' : queue'[i] = queue[i + 1]
  BY <1>0, <1>1, <1>3, HeadTailProperties, LenProperties, EmptySeq
<1>5. Range(queue') = Range(queue) \ {t} /\ t \in Range(queue)
  <2>1. \A i \in DOMAIN queue' : queue'[i] \in Range(queue) \ {t}
    BY <1>3, <1>4 DEF Range
  <2>2. \A i \in DOMAIN queue : queue[i] # t => i - 1 \in DOMAIN queue' /\ queue'[i - 1] = queue[i]
    BY <1>3, <1>4
  <2> QED BY <1>3, <1>4, <2>1, <2>2 DEF Range
<1>6. /\ con[w] = NoTask /\ con \in [Workers -> Tasks \cup {NoTask}] /\ NoTask \notin Tasks
      /\ at' = [at EXCEPT ![w] = "run"] /\ w \in DOMAIN at
  BY <1>1, <1>2, PoolParameters DEF OneEach, IInv, TypeOK, Tasks, Goto
<1>7. Held' = Held \cup {t}
  BY <1>0, <1>1, <1>6 DEF Held
<1>8. "waiting" \in Places(t) /\ Places(t) = {"waiting"}
  BY <1>2, <1>5, PlacesAre DEF Single
<1>9. \A s \in Tasks \ {t} : Places(s)' = Places(s)
  BY <1>1, <1>5, <1>7, PlaceKept
<1>10. Places(t)' = {"running"}
  <2>1. "running" \in Places(t)' /\ "waiting" \notin Places(t)'
    BY <1>5, <1>7, PlacesWillBe
  <2>2. Places(t)' \subseteq Places(t) \cup {"running"}
    BY <1>1, <1>5, <1>7, PlacesAre, PlacesWillBe DEF Phases
  <2> QED BY <1>2, <1>8, <2>1, <2>2, PlaceTaken DEF Phases
<1>11. Single' /\ \A s \in Tasks : Phase(s)' = IF s = t THEN "running" ELSE Phase(s)
  BY <1>2, <1>9, <1>10, OneMovesOn DEF Phases
<1>12. Phase(t) = "waiting"
  BY <1>8, PhaseIs
<1>13. \A s \in Service!In("waiting") : t <= s
  <2>1. \A i \in DOMAIN queue : t <= queue[i]
    BY <1>2, <1>3, <1>4, PoolParameters DEF Sorted, Tasks
  <2> QED BY <1>2, <2>1, ServiceIn DEF Range
<1>14. Service!Cardinality(Service!In("running")) < Cardinality(Workers)
  <2>1. Service!In("running") = Held
    BY <1>2, <1>6, ServiceIn DEF Held
  <2> QED BY <1>1, <1>2, <2>1, WorkerFree, SameCardinality
<1>15. taken' # first'
  BY <1>1 DEF IInv, TypeOK
<1>16. Service!Start(t)
  BY <1>11, <1>12, <1>13, <1>14, <1>15, SameCardinality
     DEF Service!Start, Service!To, Tasks
<1>17. Sorted'
  BY <1>2, <1>3, <1>4 DEF Sorted
<1>18. OneEach'
  <2>1. \A v \in Workers \ {w} : con'[v] = con[v] /\ con[v] # t /\ at'[v] = at[v]
    <3>1. t \notin Held
      BY <1>8, PlacesAre
    <3> QED BY <1>1, <1>6, <3>1 DEF Held, IInv, TypeOK
  <2>2. con'[w] = t /\ at'[w] = "run"
    BY <1>0, <1>1, <1>6 DEF IInv, TypeOK
  <2> QED BY <1>2, <2>1, <2>2 DEF OneEach
<1> QED BY <1>11, <1>16, <1>17, <1>18 DEF RInv, Service!Next, Service!Tasks, Tasks

\* A worker has run its task, which no other has.
LEMMA RunSimulates ==
  ASSUME IInv, RInv, NEW w \in Workers, Run(w)
  PROVE  RInv' /\ Service!Next
<1>0. PICK t \in Tasks : t = con[w]
  BY DEF Run, IInv, HandsFull, Tasks
<1>1. /\ at[w] = "run" /\ done' = done \cup {t} /\ con' = [con EXCEPT ![w] = NoTask]
      /\ UNCHANGED <<InHand, queue, refused, offered, taken, first>> /\ Goto(w, "acquire")
  BY <1>0 DEF Run, InHand
<1>2. Single /\ Sorted /\ OneEach
  BY DEF RInv
<1>3. /\ con \in [Workers -> Tasks \cup {NoTask}] /\ NoTask \notin Tasks
      /\ \A v \in Workers : con[v] = t => v = w
  BY <1>0, <1>2, PoolParameters DEF OneEach, IInv, TypeOK, Tasks
<1>4. Held' = Held \ {t} /\ t \in Held
  BY <1>0, <1>1, <1>3 DEF Held
<1>5. "running" \in Places(t) /\ Places(t) = {"running"}
  BY <1>2, <1>4, PlacesAre DEF Single
<1>6. \A s \in Tasks \ {t} : Places(s)' = Places(s)
  BY <1>1, <1>4, PlaceKept
<1>7. Places(t)' = {"done"}
  <2>1. "done" \in Places(t)' /\ "running" \notin Places(t)'
    BY <1>1, <1>4, PlacesWillBe
  <2>2. Places(t)' \subseteq Places(t) \cup {"done"}
    BY <1>1, <1>4, PlacesAre, PlacesWillBe DEF Phases
  <2> QED BY <1>2, <1>5, <2>1, <2>2, PlaceTaken DEF Phases
<1>8. Single' /\ \A s \in Tasks : Phase(s)' = IF s = t THEN "done" ELSE Phase(s)
  BY <1>2, <1>6, <1>7, OneMovesOn DEF Phases
<1>9. Phase(t) = "running"
  BY <1>5, PhaseIs
<1>10. Service!Finish(t)
  BY <1>1, <1>8, <1>9 DEF Service!Finish, Service!To, Tasks
<1>11. Sorted'
  BY <1>1, <1>2 DEF Sorted
<1>12. OneEach'
  BY <1>1, <1>2, <1>3 DEF OneEach, Goto, IInv, TypeOK
<1> QED BY <1>8, <1>10, <1>11, <1>12 DEF RInv, Service!Next, Service!Tasks, Tasks

-----------------------------------------------------------------------------
(* The theorem *)

LEMMA ServiceInit == Init => RInv /\ Service!Init
<1> SUFFICES ASSUME Init PROVE RInv /\ Service!Init
  OBVIOUS
<1>1. InHand = {} /\ Held = {} /\ queue = <<>> /\ done = {} /\ refused = {} /\ offered = 0
  BY DEF Init, InHand, Held
<1>2. \A t \in Tasks : Places(t) = {"none"}
  <2>1. Range(queue) = {}
    BY <1>1 DEF Range
  <2> QED BY <1>1, <2>1, PoolParameters DEF Places, Tasks
<1>3. \A t \in Tasks : Phase(t) = "none"
  BY <1>2, PhaseIs
<1>4. RInv
  BY <1>1, <1>2 DEF RInv, Single, Phases, Sorted, OneEach, Init
<1> QED BY <1>3, <1>4 DEF Service!Init, Service!Tasks, Tasks, Init

\* The pool implements the task queue it promises: whatever the interleaving of
\* the adding thread and the workers, with spurious wake-ups and torn reads of
\* the size, a task is run at most once, by one worker, in the order of the
\* additions, and is turned away only when the queue is full or a worker has
\* taken a task during the call (add, run).
THEOREM Refinement == Spec => Implements
<1>1. Init => IInv /\ RInv /\ Service!Init
  BY InitInv, ServiceInit
<1>2. ASSUME IInv, RInv, [Next]_vars
      PROVE  RInv' /\ [Service!Next]_(Service!vars)
  BY <1>2, QuietSteps, QuietStep, OfferSimulates, RefuseSimulates, PushSimulates,
     PopSimulates, RunSimulates
<1> QED BY <1>1, <1>2, Invariance, PTL DEF Spec, Implements, Service!Spec
=============================================================================
