----------------------------- MODULE ConvSingle -----------------------------
(***************************************************************************)
(* conv_single<T>: one thread that accepts connections and distributes     *)
(* epoll events, the worker threads of threadpool<T> that run the handlers *)
(* when "multi_thread" is configured, the object pool connpool<T> and the  *)
(* queue of descriptors to close.  The kernel side (descriptor table,      *)
(* listen queue, epoll interest) and the clients are the environment.      *)
(*                                                                         *)
(* A worker's steps are those in which it reads or writes memory or kernel *)
(* state it shares with the loop: process() reads status, next() reads     *)
(* socket_fd and then calls epoll_ctl, notify_close() tests status, sets   *)
(* it, and pushes socket_fd on the close queue.                            *)
(***************************************************************************)
EXTENDS Handlers, Naturals, FiniteSets, Functions

CONSTANTS
  Clients,      \* the TCP connections that peers open, each at most once
  Objs,         \* the addresses at which objects of class T can live
  Workers,      \* the threads of the pool
  Fds,          \* the descriptors the process can give to connections
  NoFd,         \* -1
  Null,         \* nullptr; also "no client"
  MaxConnect,   \* max_connect_count
  MaxEvents,    \* max_events_count
  MaxProcess,   \* max_process_count of the thread pool
  PoolSize,     \* object_pool_size
  MultiThread,  \* thread_pool # nullptr
  ObjectPool,   \* conn_pool # nullptr
  OneShot, ET,  \* one_shot, ET
  InPaths,      \* the paths through T::process_in
  OutPaths,     \* the paths through T::process_out
  AcceptMayFail, \* accept() may fail while a descriptor is free: files that
                \* handlers hold, system limits, errors of the new connection
  HangUps       \* the events a connection can report once its peer is gone

ASSUME Parameters ==
  /\ IsFiniteSet(Fds) /\ NoFd \notin Fds
  /\ Null \notin Clients \cup Objs
  /\ MaxConnect \in Nat /\ MaxProcess \in Nat \ {0}
  /\ MaxEvents \in Nat \ {0} /\ PoolSize \in Nat
  /\ MultiThread \in BOOLEAN /\ ObjectPool \in BOOLEAN
  /\ OneShot \in BOOLEAN /\ ET \in BOOLEAN /\ AcceptMayFail \in BOOLEAN
  /\ InPaths \subseteq Program /\ OutPaths \subseteq Program
  /\ HangUps \subseteq {"rdhup", "err", "other"}

\* A connection registered with EPOLLET but not EPOLLONESHOT is not modelled.
ASSUME EdgeOnlyWithOneShot == ET => OneShot

VARIABLES
  arrived,    \* clients that have connected
  backlog,    \* the listen queue: connected, not accepted yet
  hup,        \* clients that have closed or reset their side
  fdOwner,    \* kernel: the client at the other end of a descriptor, or Null
  interest,   \* epoll: what a descriptor is armed for, "off" when disarmed
  edge,       \* epoll: an arrival not reported yet by the edge-triggered
              \* listening socket
  run,        \* conv_single::run
  pc,         \* where the event loop is
  batch,      \* events[event_index..ret-1], each with the client it is about
  connects,   \* descriptor -> conn object (entry NoFd: connects[-1])
  sock,       \* conn::socket_fd
  status,     \* conn::status
  pool,       \* connpool::q
  count,      \* current_connect_count
  closeQueue, \* close_queue, each request with the client that caused it
  tasks,      \* threadpool::process_pool, each task with its event's client
  job         \* what each worker is doing

kernelVars == <<arrived, backlog, hup, fdOwner, interest, edge>>
loopVars   == <<run, pc, batch>>
connVars   == <<connects, sock, status, pool, count>>
vars == <<kernelVars, loopVars, connVars, closeQueue, tasks, job>>

Statuses == {"OK", "BAD", "IN", "OUT", "RDHUP", "ERROR", "CLOSE"}
NoJob == [obj |-> Null, cl |-> Null, at |-> "idle", todo |-> <<>>, reg |-> NoFd]

Entries == {fd \in DOMAIN connects : connects[fd] # Null}
Live == Range(connects) \ {Null}
Owned == Range(fdOwner) \ {Null}

Init ==
  /\ arrived = {} /\ backlog = {} /\ hup = {} /\ edge = FALSE
  /\ fdOwner = [f \in Fds |-> Null]
  /\ interest = [f \in Fds |-> "off"]
  /\ run = TRUE /\ pc = "drain" /\ batch = {}
  /\ connects = [f \in Fds \cup {NoFd} |-> Null]
  /\ sock = [o \in Objs |-> NoFd]
  /\ status = [o \in Objs |-> "OK"]
  /\ IF ObjectPool THEN pool \in Injection(1..PoolSize, Objs) ELSE pool = <<>>
  /\ count = 0
  /\ closeQueue = <<>> /\ tasks = <<>>
  /\ job = [w \in Workers |-> NoJob]

-----------------------------------------------------------------------------
(* conn: the programs process() can run in a given status *)

\* Mutants: the failure is not notified, or notified twice.
MutantUnnotified(p) == p
MutantTwiceNotified(p) == IF p.ret THEN p ELSE Path(p.ops \o <<"notify", "notify">>, FALSE)

\* process_in_base and process_out_base call notify_close() after a failure.
Based(p) == IF p.ret THEN p ELSE Path(Append(p.ops, "notify"), FALSE)

\* Mutant: the hang-up is only acknowledged.
MutantHungUp == Path(<<>>, TRUE)

\* process_rdhup and process_error, as conn defines them.
HungUp == Path(<<"notify">>, TRUE)

Programs(st) ==
  CASE st \in {"CLOSE", "BAD"}   -> {Fails}
    [] st = "IN"                 -> {Based(p) : p \in InPaths}
    [] st = "OUT"                -> {Based(p) : p \in OutPaths}
    [] st \in {"RDHUP", "ERROR"} -> {HungUp}
    [] st = "OK"                 -> {Path(<<"reset">>, TRUE)}

-----------------------------------------------------------------------------
(* The clients *)

\* Mutant: the listening socket always is edge-triggered.
MutantListenET == TRUE

\* _register_listen_fd_ gives the listening socket the loop's ET flag.
ListenET == ET

Arrive(c) ==
  /\ c \notin arrived /\ pc # "closed"
  /\ arrived' = arrived \cup {c}
  /\ backlog' = backlog \cup {c}
  /\ edge' = ListenET
  /\ UNCHANGED <<hup, fdOwner, interest, loopVars, connVars, closeQueue, tasks, job>>

HangUp(c) ==
  /\ c \in (backlog \cup Owned) \ hup
  /\ hup' = hup \cup {c}
  /\ UNCHANGED <<arrived, backlog, fdOwner, interest, edge, loopVars, connVars,
                 closeQueue, tasks, job>>

\* Another thread or a signal handler clears the static flag.  (The handler for
\* SIGINT then flushes the log and exits: nothing more happens, at any point.)
StopRequest ==
  /\ run /\ pc # "closed"
  /\ run' = FALSE
  /\ UNCHANGED <<kernelVars, pc, batch, connVars, closeQueue, tasks, job>>

-----------------------------------------------------------------------------
(* The object pool and the table of connections *)

\* connpool::acquire, or new T: the object that a new connection can get ...
Acquirable == IF ObjectPool /\ pool # <<>> THEN {Head(pool)}
              ELSE Objs \ (Live \cup Range(pool))

\* Mutant: the object stays in the pool.
MutantPoolAfterAcquire == pool

\* ... and the pool it leaves behind.
PoolAfterAcquire == IF ObjectPool /\ pool # <<>> THEN Tail(pool) ELSE pool

\* connpool::release; without a pool the object is deleted.
Released(p, o) == IF ObjectPool THEN Append(p, o) ELSE p

\* CONNECTS_REMOVE_FD: conn::close() gives the descriptor back to the kernel,
\* the object goes back to the pool and the entry is erased.
ConnectsRemoveFd(fd) ==
  LET o == connects[fd] IN
  /\ fdOwner' = [fdOwner EXCEPT ![sock[o]] = Null]
  /\ interest' = [interest EXCEPT ![sock[o]] = "off"]
  /\ status' = [status EXCEPT ![o] = IF sock[o] = NoFd THEN @ ELSE "OK"]
  /\ sock' = [sock EXCEPT ![o] = NoFd]
  /\ count' = count - 1
  /\ pool' = Released(pool, o)
  /\ connects' = [connects EXCEPT ![fd] = Null]
  /\ UNCHANGED <<arrived, backlog, hup, edge>>

-----------------------------------------------------------------------------
(* The event loop, conv_single::wait *)

\* The test of while(run), at the end of each round.
NextRound == IF run THEN "drain" ELSE "stopping"

\* Mutant: requests also are served between two events of a batch.
MutantDraining == pc \in {"drain", "dispatch"}

\* The close queue is emptied at the start of a round, before epoll_wait.
Draining == pc = "drain"

\* while(!close_queue->empty()): close what was asked to be closed.
DrainOne ==
  /\ Draining /\ closeQueue # <<>>
  /\ closeQueue' = Tail(closeQueue)
  /\ LET fd == Head(closeQueue).fd IN
       IF fd = NoFd \/ connects[fd] = Null
       THEN UNCHANGED <<kernelVars, connVars>>
       ELSE ConnectsRemoveFd(fd)
  /\ UNCHANGED <<loopVars, tasks, job>>

DrainDone ==
  /\ pc = "drain" /\ closeQueue = <<>>
  /\ pc' = "wait"
  /\ UNCHANGED <<kernelVars, run, batch, connVars, closeQueue, tasks, job>>

\* What epoll_wait may say of a descriptor: the peer is gone, there is room
\* to write, or there may be data to read.
Reports(fd) ==
  IF interest[fd] = "off" THEN {}
  ELSE IF fdOwner[fd] \in hup THEN HangUps ELSE {interest[fd]}

ListenReady == backlog # {} /\ (ListenET => edge)

Accept == [fd |-> NoFd, ev |-> "accept", cl |-> Null]

ReadyEvents ==
  (UNION {{[fd |-> f, ev |-> e, cl |-> fdOwner[f]] : e \in Reports(f)} : f \in Fds})
    \cup (IF ListenReady THEN {Accept} ELSE {})

\* The descriptors that epoll_wait reports for certain: whether there is data
\* to read is the client's choice, everything else is known.
Urgent == {f \in Fds : interest[f] = "out" \/ (interest[f] = "in" /\ fdOwner[f] \in hup)}
            \cup (IF ListenReady THEN {NoFd} ELSE {})

Batches ==
  {B \in SUBSET ReadyEvents :
     LET reported == {e.fd : e \in B} IN
     /\ \A e1, e2 \in B : e1.fd = e2.fd => e1 = e2
     /\ Cardinality(B) <= MaxEvents
     /\ Urgent \subseteq reported \/ Cardinality(B) = MaxEvents}

\* Mutant: epoll_mod and epoll_add drop EPOLLONESHOT.
MutantInterestAfter(reported) == interest

\* EPOLLONESHOT disarms what is reported.
InterestAfter(reported) ==
  [f \in Fds |-> IF OneShot /\ f \in reported THEN "off" ELSE interest[f]]

\* epoll_wait; an empty batch is a time out or EINTR.
EpollWait ==
  /\ pc = "wait"
  /\ \E B \in Batches :
       LET reported == {e.fd : e \in B} IN
       /\ batch' = B
       /\ pc' = IF B = {} THEN NextRound ELSE "dispatch"
       /\ interest' = InterestAfter(reported)
       /\ edge' = (edge /\ NoFd \notin reported)
  /\ UNCHANGED <<arrived, backlog, hup, fdOwner, run, connVars, closeQueue, tasks, job>>

\* epoll_wait fails with another error: break.
EpollFails ==
  /\ pc = "wait"
  /\ pc' = "stopping"
  /\ UNCHANGED <<kernelVars, run, batch, connVars, closeQueue, tasks, job>>

\* One turn of for(event_index ...); the order of a batch is the kernel's.
TakeEvent(e) ==
  /\ pc = "dispatch" /\ e \in batch
  /\ batch' = batch \ {e}
  /\ pc' = IF batch = {e} THEN NextRound ELSE "dispatch"
  /\ run' = run

\* accept() returns a free descriptor, or -1 when it fails, as it must when
\* the process has none left.
FreeFds == {f \in Fds : fdOwner[f] = Null}
AcceptResults == IF AcceptMayFail \/ FreeFds = {} THEN FreeFds \cup {NoFd} ELSE FreeFds

\* accept() takes a connection off the listen queue unless it fails.
BacklogAfter(fd, c) == IF fd = NoFd THEN backlog ELSE backlog \ {c}

\* Mutant: one place is never used.
MutantTableFull == count + 1 >= MaxConnect

\* current_connect_count >= max_connect_count
TableFull == count >= MaxConnect

\* connects[client_fd] == nullptr
EntryFree(fd) == connects[fd] = Null

AcceptOver(e, c) ==
  /\ e.ev = "accept" /\ TakeEvent(e) /\ c \in backlog
  /\ TableFull
  /\ \E fd \in AcceptResults : backlog' = BacklogAfter(fd, c)
  /\ UNCHANGED <<arrived, hup, fdOwner, interest, edge, connVars, closeQueue, tasks, job>>

\* The entry of the new descriptor is taken: give object and descriptor back.
AcceptOccupied(e, c) ==
  /\ e.ev = "accept" /\ TakeEvent(e) /\ c \in backlog
  /\ ~TableFull
  /\ \E fd \in AcceptResults, t \in Acquirable :
       /\ ~EntryFree(fd)
       /\ backlog' = BacklogAfter(fd, c)
       /\ pool' = Released(PoolAfterAcquire, t)
  /\ UNCHANGED <<arrived, hup, fdOwner, interest, edge, connects, sock, status, count,
                 closeQueue, tasks, job>>

\* conn::init and epoll_add, which fails unnoticed when client_fd is -1.
ConnInit(t, fd, c) ==
  /\ sock' = [sock EXCEPT ![t] = fd]
  /\ status' = [status EXCEPT ![t] = "OK"]
  /\ fdOwner' = [fdOwner EXCEPT ![fd] = c]
  /\ interest' = [interest EXCEPT ![fd] = "in"]

Install(fd, t, c) ==
  /\ EntryFree(fd)
  /\ backlog' = BacklogAfter(fd, c)
  /\ pool' = PoolAfterAcquire
  /\ connects' = [connects EXCEPT ![fd] = t]
  /\ ConnInit(t, fd, c)

\* Mutant: the new connection is not counted.
MutantAcceptInstall(e, c) ==
  /\ e.ev = "accept" /\ TakeEvent(e) /\ c \in backlog
  /\ ~TableFull
  /\ \E fd \in AcceptResults, t \in Acquirable : Install(fd, t, c)
  /\ UNCHANGED <<arrived, hup, edge, count, closeQueue, tasks, job>>

AcceptInstall(e, c) ==
  /\ e.ev = "accept" /\ TakeEvent(e) /\ c \in backlog
  /\ ~TableFull
  /\ \E fd \in AcceptResults, t \in Acquirable : Install(fd, t, c)
  /\ count' = count + 1
  /\ UNCHANGED <<arrived, hup, edge, closeQueue, tasks, job>>

\* The status the loop gives to the connection of an event.
EventStatus(ev) == CASE ev = "rdhup" -> "RDHUP" [] ev = "err" -> "ERROR"
                     [] ev = "out" -> "OUT"     [] ev = "in" -> "IN"

HandlerEvents == {"rdhup", "err", "out", "in"}

\* thread_pool->add(connects[cur_fd])
DispatchToPool(e) ==
  /\ MultiThread /\ e.ev \in HandlerEvents /\ TakeEvent(e)
  /\ connects[e.fd] # Null
  /\ Len(tasks) < MaxProcess
  /\ status' = [status EXCEPT ![connects[e.fd]] = EventStatus(e.ev)]
  /\ tasks' = Append(tasks, [obj |-> connects[e.fd], cl |-> e.cl])
  /\ UNCHANGED <<kernelVars, connects, sock, pool, count, closeQueue, job>>

\* threadpool::add returns false: the queue is full, or size(), which takes no
\* lock, is torn by a worker that takes a task meanwhile (see ThreadPool).
Overloaded == Len(tasks) >= MaxProcess \/ tasks # <<>>

DispatchOverload(e) ==
  /\ MultiThread /\ e.ev \in HandlerEvents /\ TakeEvent(e)
  /\ connects[e.fd] # Null
  /\ Overloaded
  /\ ConnectsRemoveFd(e.fd)
  /\ UNCHANGED <<closeQueue, tasks, job>>

\* What a whole run of a program in the loop's own thread leaves behind.
Notifies(p) == \E i \in DOMAIN p.ops : p.ops[i] = "notify"
Arms(p) == {i \in DOMAIN p.ops : p.ops[i] \in {"in", "out"}}
Leaves(p, old, new) ==
  IF Arms(p) = {} THEN new = old
  ELSE \E i \in Arms(p) : new = p.ops[i] /\ \A j \in Arms(p) : j <= i
QueueAfter(p, fd, c) ==
  IF Notifies(p) THEN Append(closeQueue, [fd |-> fd, cl |-> c]) ELSE closeQueue

\* process() in the loop, followed by CONNECTS_REMOVE_FD: always after
\* EPOLLRDHUP and EPOLLERR, otherwise when process() returned false.
InlineRemoves(e, p) == e.ev \in {"rdhup", "err"} \/ ~p.ret

DispatchInline(e) ==
  /\ ~MultiThread /\ e.ev \in HandlerEvents /\ TakeEvent(e)
  /\ connects[e.fd] # Null
  /\ \E p \in Programs(EventStatus(e.ev)) :
       /\ closeQueue' = QueueAfter(p, sock[connects[e.fd]], e.cl)
       /\ IF InlineRemoves(e, p)
          THEN ConnectsRemoveFd(e.fd)
          ELSE /\ \E new \in {"off", "in", "out"} :
                    /\ Leaves(p, interest[e.fd], new)
                    /\ interest' = [interest EXCEPT ![e.fd] = new]
               /\ status' = [status EXCEPT ![connects[e.fd]] =
                               IF Notifies(p) THEN "CLOSE" ELSE EventStatus(e.ev)]
               /\ UNCHANGED <<arrived, backlog, hup, fdOwner, edge, connects, sock, pool, count>>
  /\ UNCHANGED <<tasks, job>>

\* None of the four events the loop knows.
DispatchOther(e) ==
  /\ e.ev = "other" /\ TakeEvent(e)
  /\ connects[e.fd] # Null
  /\ ConnectsRemoveFd(e.fd)
  /\ UNCHANGED <<closeQueue, tasks, job>>

\* conv_single::close: the table is cleared, the pool and the queues deleted.
\* Nothing is closed but the listening and the epoll descriptor.
Close ==
  /\ pc = "stopping"
  /\ pc' = "closed"
  /\ batch' = {}
  /\ connects' = [f \in Fds \cup {NoFd} |-> Null]
  /\ pool' = <<>> /\ closeQueue' = <<>>
  /\ interest' = [f \in Fds |-> "off"] /\ backlog' = {}
  /\ UNCHANGED <<arrived, hup, fdOwner, edge, run, sock, status, count, tasks, job>>

Dispatch(e) ==
  \/ \E c \in backlog : AcceptOver(e, c) \/ AcceptOccupied(e, c) \/ AcceptInstall(e, c)
  \/ DispatchToPool(e) \/ DispatchOverload(e) \/ DispatchInline(e) \/ DispatchOther(e)

Loop == DrainOne \/ DrainDone \/ EpollWait \/ EpollFails \/ Close
          \/ \E e \in batch : Dispatch(e)

-----------------------------------------------------------------------------
(* The workers, threadpool::run *)

Busy(w, at) == pc # "closed" /\ job[w].at = at

Goto(w, at) == job' = [job EXCEPT ![w].at = at]

\* A worker goes on with the operations after the one it has finished.
Advance(w) ==
  LET rest == Tail(job[w].todo) IN
  job' = [job EXCEPT ![w] = IF rest = <<>> THEN NoJob
                            ELSE [@ EXCEPT !.todo = rest, !.at = "op", !.reg = NoFd]]

\* sem.acquire() and process_pool.pop(con)
WorkerTake(w) ==
  /\ Busy(w, "idle") /\ tasks # <<>>
  /\ tasks' = Tail(tasks)
  /\ job' = [job EXCEPT ![w] = [NoJob EXCEPT !.obj = Head(tasks).obj,
                                             !.cl = Head(tasks).cl, !.at = "switch"]]
  /\ UNCHANGED <<kernelVars, loopVars, connVars, closeQueue>>

\* con->process(): the switch on status picks what the worker runs.
WorkerSwitch(w) ==
  /\ Busy(w, "switch")
  /\ \E p \in Programs(status[job[w].obj]) :
       job' = [job EXCEPT ![w] = IF p.ops = <<>> THEN NoJob
                                 ELSE [@ EXCEPT !.todo = p.ops, !.at = "op"]]
  /\ UNCHANGED <<kernelVars, loopVars, connVars, closeQueue, tasks>>

\* default: status = OK
WorkerReset(w) ==
  /\ Busy(w, "op") /\ Head(job[w].todo) = "reset"
  /\ status' = [status EXCEPT ![job[w].obj] = "OK"]
  /\ Advance(w)
  /\ UNCHANGED <<kernelVars, loopVars, connects, sock, pool, count, closeQueue, tasks>>

\* next(): socket_fd and epoll_fd are read for the call of epoll_mod ...
WorkerNextLoad(w) ==
  /\ Busy(w, "op") /\ Head(job[w].todo) \in {"in", "out"}
  /\ job' = [job EXCEPT ![w].at = "ctl", ![w].reg = sock[job[w].obj]]
  /\ UNCHANGED <<kernelVars, loopVars, connVars, closeQueue, tasks>>

\* ... and epoll_ctl arms that descriptor, if it still is registered.
WorkerNextCtl(w) ==
  /\ Busy(w, "ctl")
  /\ LET fd == job[w].reg IN
       interest' = [f \in Fds |-> IF f = fd /\ fdOwner[f] # Null
                                  THEN Head(job[w].todo) ELSE interest[f]]
  /\ Advance(w)
  /\ UNCHANGED <<arrived, backlog, hup, fdOwner, edge, loopVars, connVars, closeQueue, tasks>>

\* notify_close(): if(status != CLOSE) ...
WorkerNotifyTest(w) ==
  /\ Busy(w, "op") /\ Head(job[w].todo) = "notify"
  /\ IF status[job[w].obj] = "CLOSE" THEN Advance(w) ELSE Goto(w, "mark")
  /\ UNCHANGED <<kernelVars, loopVars, connVars, closeQueue, tasks>>

\* ... status = CLOSE ...
WorkerNotifyMark(w) ==
  /\ Busy(w, "mark")
  /\ status' = [status EXCEPT ![job[w].obj] = "CLOSE"]
  /\ Goto(w, "push")
  /\ UNCHANGED <<kernelVars, loopVars, connects, sock, pool, count, closeQueue, tasks>>

\* ... close_queue->push(socket_fd), which reads socket_fd under the lock.
WorkerNotifyPush(w) ==
  /\ Busy(w, "push")
  /\ closeQueue' = Append(closeQueue, [fd |-> sock[job[w].obj], cl |-> job[w].cl])
  /\ Advance(w)
  /\ UNCHANGED <<kernelVars, loopVars, connVars, tasks>>

Worker(w) == \/ WorkerTake(w) \/ WorkerSwitch(w) \/ WorkerReset(w)
             \/ WorkerNextLoad(w) \/ WorkerNextCtl(w)
             \/ WorkerNotifyTest(w) \/ WorkerNotifyMark(w) \/ WorkerNotifyPush(w)

-----------------------------------------------------------------------------
Environment == StopRequest \/ \E c \in Clients : Arrive(c) \/ HangUp(c)

\* The program has left wait(); nothing more happens in it.
Stopped == pc = "closed" /\ UNCHANGED vars

Next == Loop \/ (\E w \in Workers : Worker(w)) \/ Environment \/ Stopped

Spec == Init /\ [][Next]_vars

\* The scheduler runs the loop and every worker; the clients owe nothing.
Fairness == WF_vars(Loop) /\ \A w \in Workers : WF_vars(Worker(w))

FairSpec == Spec /\ Fairness

-----------------------------------------------------------------------------
(* Invariants *)

Request == [fd : Fds \cup {NoFd}, cl : Clients]
Task == [obj : Objs, cl : Clients]
Event == [fd : Fds \cup {NoFd}, ev : HandlerEvents \cup {"accept", "other"},
          cl : Clients \cup {Null}]
Job == [obj : Objs \cup {Null}, cl : Clients \cup {Null},
        at : {"idle", "switch", "op", "ctl", "mark", "push"},
        todo : Seq(Op), reg : Fds \cup {NoFd}]

KernelTypeOK ==
  /\ arrived \subseteq Clients /\ backlog \subseteq arrived /\ hup \subseteq Clients
  /\ fdOwner \in [Fds -> Clients \cup {Null}]
  /\ interest \in [Fds -> {"off", "in", "out"}]
  /\ edge \in BOOLEAN

LoopTypeOK ==
  /\ run \in BOOLEAN
  /\ pc \in {"drain", "wait", "dispatch", "stopping", "closed"}
  /\ batch \subseteq Event

ConnTypeOK ==
  /\ connects \in [Fds \cup {NoFd} -> Objs \cup {Null}]
  /\ sock \in [Objs -> Fds \cup {NoFd}]
  /\ status \in [Objs -> Statuses]
  /\ pool \in Seq(Objs) /\ count \in Nat

WorkTypeOK ==
  /\ closeQueue \in Seq(Request) /\ tasks \in Seq(Task)
  /\ job \in [Workers -> Job]

\* Every variable has its type; current_connect_count never is negative.
TypeOK == KernelTypeOK /\ LoopTypeOK /\ ConnTypeOK /\ WorkTypeOK

\* While the loop runs, its table is the kernel's: a descriptor has an entry
\* exactly when it is open, the entry's object knows that descriptor, no
\* object serves two descriptors, and an object in the pool serves none and
\* is there once (CONNECTS_REMOVE_FD and the accept branch of wait).
TableSound ==
  pc # "closed" =>
    /\ \A fd \in Fds : connects[fd] # Null <=> fdOwner[fd] # Null
    /\ \A fd \in DOMAIN connects : connects[fd] # Null => sock[connects[fd]] = fd
    /\ \A o \in Objs \ Live : sock[o] = NoFd
    /\ Live \cap Range(pool) = {}
    /\ IsInjective(pool)

\* current_connect_count is the number of entries in the table and never
\* exceeds max_connect_count, whatever the accepts, removals and failed
\* accepts (whose entry is connects[-1]) have been.
CountExact ==
  pc # "closed" => count = Cardinality(Entries) /\ count <= MaxConnect

\* An event still to be dispatched is about the connection that its
\* descriptor has now: no earlier event of the batch closed the descriptor
\* and gave it to a newly accepted client (the loop of wait).
EventsFresh ==
  \A e \in batch : e.fd \in Fds => fdOwner[e.fd] = e.cl /\ connects[e.fd] # Null

\* The tasks and jobs of one connection: what the workers still owe it.
Pending(c) == {i \in DOMAIN tasks : tasks[i].cl = c}
Serving(c) == {w \in Workers : job[w].at # "idle" /\ job[w].cl = c}

\* At most one worker serves a connection, on its own object and while the
\* connection is in the table: what a handler relies on when it uses its
\* buffers without a lock, and what keeps a worker off a recycled or deleted
\* object.  EPOLLONESHOT gives it to handlers that end with one next().
ExclusiveService ==
  pc # "closed" =>
    /\ \A c \in Clients : Cardinality(Pending(c)) + Cardinality(Serving(c)) <= 1
    /\ \A i \in DOMAIN tasks : LET s == sock[tasks[i].obj] IN
         s \in Fds /\ connects[s] = tasks[i].obj /\ fdOwner[s] = tasks[i].cl
    /\ \A w \in Workers : job[w].at # "idle" =>
         LET s == sock[job[w].obj] IN
         s \in Fds /\ connects[s] = job[w].obj /\ fdOwner[s] = job[w].cl

\* No connection is forgotten: an open one is armed in epoll, or an event of
\* it waits to be dispatched, or a worker owes it something, or its close is
\* requested.  Otherwise nothing would ever serve or close it again.
NeverForgotten ==
  pc # "closed" =>
    \A fd \in Fds : fdOwner[fd] # Null =>
      \/ interest[fd] # "off"
      \/ \E e \in batch : e.fd = fd
      \/ \E i \in DOMAIN tasks : tasks[i].obj = connects[fd]
      \/ \E w \in Workers : job[w].at # "idle" /\ job[w].obj = connects[fd]
      \/ \E i \in DOMAIN closeQueue : closeQueue[i].fd = fd

-----------------------------------------------------------------------------
(* What a step may never do *)

\* The loop takes a descriptor off the close queue and closes a connection
\* only if that connection's own handler asked for it, not an earlier holder
\* of the same descriptor number.
DrainClosesRequester ==
  [][DrainOne => LET q == Head(closeQueue) IN
       q.fd \in Fds /\ fdOwner[q.fd] # Null => fdOwner[q.fd] = q.cl]_vars

-----------------------------------------------------------------------------
(* The service the loop implements *)

\* Where a client stands, read off the kernel's listen queue and descriptors.
Phase(c) == IF c \notin arrived THEN "away"
            ELSE IF c \in backlog THEN "waiting"
            ELSE IF c \in Owned THEN "served" ELSE "gone"

\* A failed accept takes a place for good, the entry connects[-1], when
\* descriptors can run out before max_connect_count is reached.
LostPlaces == IF AcceptMayFail \/ Cardinality(Fds) < MaxConnect THEN 1 ELSE 0

Service == INSTANCE ConnService WITH phase <- [c \in Clients |-> Phase(c)],
                                     left <- hup, up <- (pc # "closed"),
                                     Spare <- LostPlaces

\* Every step of the loop, the workers and the clients is a step of the
\* service or leaves it alone: at most max_connect_count clients are served,
\* a client is turned away only when the table is full, and is never served
\* again once its connection has ended (wait, CONNECTS_REMOVE_FD, close).
Implements == Service!Spec

\* Every client in the listen queue is accepted, if only to be turned away.
Attended == Service!Attended

\* A connection whose peer has gone is closed and its place freed.
Reclaimed == Service!Reclaimed

=============================================================================
