------------------------------ MODULE ConvMulti -----------------------------
(***************************************************************************)
(* conv_multi<T>: an acceptor thread that accepts connections and gives    *)
(* each descriptor to one of several reactors, the reactor threads with    *)
(* their own epoll instance, table, close queue and worker threads, and    *)
(* the object pool that the reactors share.  A reactor creates the object  *)
(* of a connection when its first event arrives.                           *)
(*                                                                         *)
(* The kernel gives a closed descriptor to whoever accepts next, so one    *)
(* number wanders between the reactors while their threads, the acceptor   *)
(* and the workers run unsynchronised.  EPOLLONESHOT, the default and the  *)
(* recommended setting, is assumed.                                        *)
(***************************************************************************)
EXTENDS Handlers, Integers, FiniteSets, Functions

CONSTANTS
  Clients,       \* the TCP connections that peers open, each at most once
  Objs,          \* the addresses at which objects of class T can live
  Fds,           \* the descriptors the process can give to connections
  NoFd,          \* -1
  Null,          \* nullptr; also "no client", "no reactor"
  ReactorCount,  \* reactor_count
  Workers,       \* the threads of one reactor's pool
  MaxProcess,    \* max_process_count of a thread pool
  Modes,         \* the settings of <<multi_thread, object_pool>> considered
  PoolSize,      \* object_pool_size
  InPaths,       \* the paths through T::process_in
  OutPaths,      \* the paths through T::process_out
  HangUps        \* the events a connection can report once its peer is gone

ASSUME MultiParameters ==
  /\ IsFiniteSet(Fds) /\ NoFd \notin Fds
  /\ Null \notin Clients \cup Objs \cup Nat
  /\ ReactorCount \in Nat \ {0} /\ MaxProcess \in Nat \ {0} /\ PoolSize \in Nat
  /\ Modes \subseteq BOOLEAN \X BOOLEAN
  /\ InPaths \subseteq Program /\ OutPaths \subseteq Program
  /\ HangUps \subseteq {"rdhup", "err", "other"}

Reactors == 0..(ReactorCount - 1)
Threads == Reactors \X Workers

VARIABLES
  arrived, backlog, hup, \* clients: connected, in the listen queue, gone
  fdOwner,    \* kernel: the client at the other end of a descriptor, or Null
  home,       \* kernel: the reactor whose epoll instance has the descriptor
  interest,   \* epoll: what a descriptor is armed for, "off" when disarmed
  acc,        \* the acceptor: the descriptor it places and its search
  pooled,     \* thread_pool # nullptr, the same in every reactor
  recycling,  \* conn_pool # nullptr
  pc,         \* where each reactor is
  batch,      \* events[event_index..ret-1] of each reactor
  cur,        \* the event each reactor is at
  gone,       \* the object each reactor is closing, CONNECTS_REMOVE_FD's tmp
  connects,   \* per reactor: descriptor -> object
  keys,       \* per reactor: the keys of that map, null entries included
  sock, status, \* conn::socket_fd, conn::status
  boss,       \* conn::epoll_fd and conn::close_queue: a reactor's
  pool,       \* connpool::q
  count,      \* current_connect_count
  closeQueue, \* per reactor, each request with the client that caused it
  tasks,      \* per reactor, the process_pool of its thread pool
  job         \* what each worker is doing

kernelVars == <<arrived, backlog, hup, fdOwner, home, interest>>
modeVars   == <<pooled, recycling>>
loopVars   == <<pc, batch, cur, gone>>
connVars   == <<connects, keys, sock, status, boss, pool, count>>
workVars   == <<closeQueue, tasks, job>>
vars == <<kernelVars, acc, modeVars, loopVars, connVars, workVars>>

NoEvent == [fd |-> NoFd, ev |-> "none", cl |-> Null]
NoJob == [obj |-> Null, cl |-> Null, at |-> "idle", todo |-> <<>>,
          reg |-> [epoll |-> Null, fd |-> NoFd]]
Searching == [at |-> "wait", fd |-> NoFd, next |-> 0, least |-> 0, pick |-> 0]

LiveIn(r) == Range(connects[r]) \ {Null}
Live == UNION {LiveIn(r) : r \in Reactors}
Closing == Range(gone) \ {Null}
Entries == {rf \in Reactors \X Fds : connects[rf[1]][rf[2]] # Null}

Init ==
  /\ arrived = {} /\ backlog = {} /\ hup = {}
  /\ fdOwner = [f \in Fds |-> Null] /\ home = [f \in Fds |-> Null]
  /\ interest = [f \in Fds |-> "off"]
  /\ acc = Searching
  /\ \E mode \in Modes : pooled = mode[1] /\ recycling = mode[2]
  /\ pc = [r \in Reactors |-> "drain"]
  /\ batch = [r \in Reactors |-> {}]
  /\ cur = [r \in Reactors |-> NoEvent]
  /\ gone = [r \in Reactors |-> Null]
  /\ connects = [r \in Reactors |-> [f \in Fds |-> Null]]
  /\ keys = [r \in Reactors |-> {}]
  /\ sock = [o \in Objs |-> NoFd] /\ status = [o \in Objs |-> "OK"]
  /\ boss = [o \in Objs |-> Null]
  /\ IF recycling THEN pool \in Injection(1..PoolSize, Objs) ELSE pool = <<>>
  /\ count = 0
  /\ closeQueue = [r \in Reactors |-> <<>>]
  /\ tasks = [r \in Reactors |-> <<>>]
  /\ job = [t \in Threads |-> NoJob]

-----------------------------------------------------------------------------
(* conn: the programs process() can run in a given status *)

\* Mutant: a failure is not notified.
MutantFailing(p) == p

\* Mutant: it is notified twice.
MutantTwiceNotified(p) == IF p.ret THEN p ELSE Path(p.ops \o <<"notify", "notify">>, FALSE)

\* process_in_base and process_out_base call notify_close() after a failure.
Failing(p) == IF p.ret THEN p ELSE Path(Append(p.ops, "notify"), FALSE)

\* Mutant: the hang-up is only acknowledged.
MutantHungUp == Path(<<>>, TRUE)

\* process_rdhup and process_error.
HungUp == Path(<<"notify">>, TRUE)

Programs(st) ==
  CASE st \in {"CLOSE", "BAD"}   -> {Fails}
    [] st = "IN"                 -> {Failing(p) : p \in InPaths}
    [] st = "OUT"                -> {Failing(p) : p \in OutPaths}
    [] st \in {"RDHUP", "ERROR"} -> {HungUp}
    [] st = "OK"                 -> {Path(<<>>, TRUE)}

-----------------------------------------------------------------------------
(* The clients *)

Arrive(c) ==
  /\ c \notin arrived
  /\ arrived' = arrived \cup {c} /\ backlog' = backlog \cup {c}
  /\ UNCHANGED <<hup, fdOwner, home, interest, acc, modeVars, loopVars, connVars, workVars>>

HangUp(c) ==
  /\ c \in (backlog \cup Range(fdOwner)) \ (hup \cup {Null})
  /\ hup' = hup \cup {c}
  /\ UNCHANGED <<arrived, backlog, fdOwner, home, interest, acc, modeVars, loopVars,
                 connVars, workVars>>

-----------------------------------------------------------------------------
(* The acceptor, acceptor::work and acceptor::_accept_ *)

FreeFds == {f \in Fds : fdOwner[f] = Null}

\* accept(); when it fails nothing changes, and the level-triggered listening
\* socket is reported again.
AcceptorAccept ==
  /\ acc.at = "wait"
  /\ \E c \in backlog, fd \in FreeFds :
       /\ backlog' = backlog \ {c}
       /\ fdOwner' = [fdOwner EXCEPT ![fd] = c]
       /\ acc' = [Searching EXCEPT !.at = "look", !.fd = fd,
                                   !.least = Cardinality(Fds) + 1]
  /\ UNCHANGED <<arrived, hup, home, interest, modeVars, loopVars, connVars, workVars>>

Size(r) == Cardinality(keys[r])

\* One turn of for(i ...): if(least > reactors[i].connects.size()), read while
\* that reactor may insert ...
AcceptorLook ==
  /\ acc.at = "look" /\ acc.next \in Reactors
  /\ acc' = IF acc.least > Size(acc.next) THEN [acc EXCEPT !.at = "least"]
                                          ELSE [acc EXCEPT !.next = @ + 1]
  /\ UNCHANGED <<kernelVars, modeVars, loopVars, connVars, workVars>>

\* ... and then the size is read again.
AcceptorLeast ==
  /\ acc.at = "least"
  /\ acc' = [acc EXCEPT !.at = "look", !.next = @ + 1, !.least = Size(acc.next), !.pick = acc.next]
  /\ UNCHANGED <<kernelVars, modeVars, loopVars, connVars, workVars>>

\* Mutant: the loop ends after an accept, "break" instead of "continue".
MutantPlaced == [Searching EXCEPT !.at = "stopped"]

\* The acceptor goes back to epoll_wait.
Placed == Searching

\* reactor::add_conn: epoll_add.
AcceptorAdd ==
  /\ acc.at = "look" /\ acc.next \notin Reactors
  /\ home' = [home EXCEPT ![acc.fd] = acc.pick]
  /\ interest' = [interest EXCEPT ![acc.fd] = "in"]
  /\ acc' = Placed
  /\ UNCHANGED <<arrived, backlog, hup, fdOwner, modeVars, loopVars, connVars, workVars>>

Acceptor == AcceptorAccept \/ AcceptorLook \/ AcceptorLeast \/ AcceptorAdd

-----------------------------------------------------------------------------
(* A reactor, reactor::work *)

At(r, place) == pc[r] = place /\ gone[r] = Null

\* Mutant: the object is put back before it forgets its socket.
MutantUnlink(r, fd) ==
  LET o == connects[r][fd] IN
  /\ fdOwner' = [fdOwner EXCEPT ![sock[o]] = Null]
  /\ home' = [home EXCEPT ![sock[o]] = Null]
  /\ interest' = [interest EXCEPT ![sock[o]] = "off"]
  /\ count' = count - 1
  /\ connects' = [connects EXCEPT ![r][fd] = Null]
  /\ gone' = [gone EXCEPT ![r] = o]
  /\ pool' = (IF recycling THEN Append(pool, o) ELSE pool)
  /\ UNCHANGED <<arrived, backlog, hup, sock, status, boss>>

\* CONNECTS_REMOVE_FD_REACTOR: the count, the entry, and the close of the
\* descriptor in conn::close, from where the kernel may hand it out again ...
Unlink(r, fd) ==
  LET o == connects[r][fd] IN
  /\ fdOwner' = [fdOwner EXCEPT ![sock[o]] = Null]
  /\ home' = [home EXCEPT ![sock[o]] = Null]
  /\ interest' = [interest EXCEPT ![sock[o]] = "off"]
  /\ count' = count - 1
  /\ connects' = [connects EXCEPT ![r][fd] = Null]
  /\ gone' = [gone EXCEPT ![r] = o]
  /\ UNCHANGED <<arrived, backlog, hup, sock, status, boss, pool>>

\* ... then conn::close forgets the descriptor and the status (close_queue
\* stays set), and the object is released to the pool or deleted.
Forget(r) ==
  /\ gone[r] # Null
  /\ sock' = [sock EXCEPT ![gone[r]] = NoFd]
  /\ status' = [status EXCEPT ![gone[r]] = "OK"]
  /\ pool' = IF recycling THEN Append(pool, gone[r]) ELSE pool
  /\ gone' = [gone EXCEPT ![r] = Null]
  /\ UNCHANGED <<kernelVars, acc, modeVars, pc, batch, cur, connects, keys, boss, count,
                 workVars>>

\* while(!close_queue->empty()): the lookup connects[cur_fd] inserts a key.
DrainOne(r) ==
  /\ At(r, "drain") /\ closeQueue[r] # <<>>
  /\ closeQueue' = [closeQueue EXCEPT ![r] = Tail(@)]
  /\ LET fd == Head(closeQueue[r]).fd IN
       /\ keys' = [keys EXCEPT ![r] = @ \cup ({fd} \ {NoFd})]
       /\ IF fd = NoFd \/ connects[r][fd] = Null
          THEN UNCHANGED <<kernelVars, gone, connects, sock, status, boss, pool, count>>
          ELSE Unlink(r, fd)
  /\ UNCHANGED <<acc, modeVars, pc, batch, cur, tasks, job>>

DrainDone(r) ==
  /\ At(r, "drain") /\ closeQueue[r] = <<>>
  /\ pc' = [pc EXCEPT ![r] = "wait"]
  /\ UNCHANGED <<kernelVars, acc, modeVars, batch, cur, gone, connVars, workVars>>

Registered(r) == {f \in Fds : home[f] = r}

Reports(fd) ==
  IF interest[fd] = "off" THEN {}
  ELSE IF fdOwner[fd] \in hup THEN HangUps ELSE {interest[fd]}

\* What epoll_wait reports for certain: whether there is data to read is the
\* client's choice, everything else is known.
Urgent(r) == {f \in Registered(r) : \/ interest[f] = "out"
                                    \/ interest[f] = "in" /\ fdOwner[f] \in hup}

\* At most max_events_count events, 4096 by default: all there are.
Batches(r) ==
  {B \in SUBSET UNION {{[fd |-> f, ev |-> e, cl |-> fdOwner[f]] : e \in Reports(f)}
                       : f \in Registered(r)} :
     /\ \A e1, e2 \in B : e1.fd = e2.fd => e1 = e2
     /\ Urgent(r) \subseteq {e.fd : e \in B}}

\* Mutant: epoll_add and epoll_mod drop EPOLLONESHOT.
MutantDisarmed(reported) == interest

\* EPOLLONESHOT disarms what is reported.
Disarmed(reported) == [f \in Fds |-> IF f \in reported THEN "off" ELSE interest[f]]

\* epoll_wait; an empty batch is a time out or EINTR: continue.
EpollWait(r) ==
  /\ At(r, "wait")
  /\ \E B \in Batches(r) :
       /\ batch' = [batch EXCEPT ![r] = B]
       /\ pc' = [pc EXCEPT ![r] = IF B = {} THEN "drain" ELSE "serve"]
       /\ interest' = Disarmed({e.fd : e \in B})
  /\ UNCHANGED <<arrived, backlog, hup, fdOwner, home, acc, modeVars, cur, gone,
                 connVars, workVars>>

\* connpool::acquire, or new T at some free address.
Fresh == Objs \ (Live \cup Closing \cup Range(pool))
Acquirable == IF recycling /\ pool # <<>> THEN {Head(pool)}
              ELSE {o \in Fresh : o = CHOOSE x \in Fresh : TRUE}

\* One turn of for(event_index ...), for a descriptor that has an object.
PickKnown(r) ==
  /\ At(r, "serve") /\ cur[r] = NoEvent
  /\ \E e \in batch[r] :
       /\ connects[r][e.fd] # Null
       /\ cur' = [cur EXCEPT ![r] = e]
       /\ batch' = [batch EXCEPT ![r] = @ \ {e}]
  /\ UNCHANGED <<kernelVars, acc, modeVars, pc, gone, connVars, workVars>>

\* The first event of a connection: conn::init with add = false.
PickNew(r) ==
  /\ At(r, "serve") /\ cur[r] = NoEvent
  /\ \E e \in batch[r], o \in Acquirable :
       /\ connects[r][e.fd] = Null
       /\ cur' = [cur EXCEPT ![r] = e]
       /\ batch' = [batch EXCEPT ![r] = @ \ {e}]
       /\ connects' = [connects EXCEPT ![r][e.fd] = o]
       /\ keys' = [keys EXCEPT ![r] = @ \cup {e.fd}]
       /\ sock' = [sock EXCEPT ![o] = e.fd]
       /\ status' = [status EXCEPT ![o] = "OK"]
       /\ boss' = [boss EXCEPT ![o] = r]
  /\ pool' = IF recycling /\ pool # <<>> THEN Tail(pool) ELSE pool
  /\ count' = count + 1
  /\ UNCHANGED <<kernelVars, acc, modeVars, pc, gone, workVars>>

RoundDone(r) ==
  /\ At(r, "serve") /\ cur[r] = NoEvent /\ batch[r] = {}
  /\ pc' = [pc EXCEPT ![r] = "drain"]
  /\ UNCHANGED <<kernelVars, acc, modeVars, batch, cur, gone, connVars, workVars>>

HandlerEvents == {"rdhup", "err", "out", "in"}
EventStatus(ev) == CASE ev = "rdhup" -> "RDHUP" [] ev = "err" -> "ERROR"
                     [] ev = "out" -> "OUT"     [] ev = "in" -> "IN"

\* The event a reactor is at, and the object it is for.
Serving(r, evs) == At(r, "serve") /\ cur[r].ev \in evs
Subject(r) == connects[r][cur[r].fd]
Served(r) == cur' = [cur EXCEPT ![r] = NoEvent] /\ UNCHANGED <<pc, batch>>

\* thread_pool->add(connects[cur_fd])
DispatchToPool(r) ==
  /\ pooled /\ Serving(r, HandlerEvents) /\ Served(r)
  /\ Len(tasks[r]) < MaxProcess
  /\ status' = [status EXCEPT ![Subject(r)] = EventStatus(cur[r].ev)]
  /\ tasks' = [tasks EXCEPT ![r] = Append(@, [obj |-> Subject(r), cl |-> cur[r].cl])]
  /\ UNCHANGED <<kernelVars, acc, modeVars, gone, connects, keys, sock, boss, pool, count,
                 closeQueue, job>>

\* threadpool::add returns false: the queue is full, or its size, read without
\* a lock, is torn by a worker (see ThreadPool).
DispatchOverload(r) ==
  /\ pooled /\ Serving(r, HandlerEvents) /\ Served(r)
  /\ Len(tasks[r]) >= MaxProcess \/ tasks[r] # <<>>
  /\ Unlink(r, cur[r].fd)
  /\ UNCHANGED <<acc, modeVars, keys, workVars>>

\* process() in the reactor's own thread: what a whole program leaves behind.
Notifies(p) == \E i \in DOMAIN p.ops : p.ops[i] = "notify"
Arms(p) == {i \in DOMAIN p.ops : p.ops[i] \in {"in", "out"}}
Leaves(p, old, new) ==
  IF Arms(p) = {} THEN new = old
  ELSE \E i \in Arms(p) : new = p.ops[i] /\ \A j \in Arms(p) : j <= i

\* The removal that follows: always after EPOLLRDHUP and EPOLLERR, otherwise
\* when process() returned false.
InlineRemoves(ev, p) == ev \in {"rdhup", "err"} \/ ~p.ret

DispatchInline(r) ==
  /\ ~pooled /\ Serving(r, HandlerEvents) /\ Served(r)
  /\ \E p \in Programs(EventStatus(cur[r].ev)) :
       LET o == Subject(r) IN
       /\ closeQueue' = [closeQueue EXCEPT ![r] =
            IF Notifies(p) THEN Append(@, [fd |-> sock[o], cl |-> cur[r].cl]) ELSE @]
       /\ IF InlineRemoves(cur[r].ev, p)
          THEN Unlink(r, cur[r].fd)
          ELSE /\ \E new \in {"off", "in", "out"} :
                    /\ Leaves(p, interest[sock[o]], new)
                    /\ interest' = [interest EXCEPT ![sock[o]] = new]
               /\ status' = [status EXCEPT ![o] =
                               IF Notifies(p) THEN "CLOSE" ELSE EventStatus(cur[r].ev)]
               /\ UNCHANGED <<arrived, backlog, hup, fdOwner, home, gone, connects, sock,
                              boss, pool, count>>
  /\ UNCHANGED <<acc, modeVars, keys, tasks, job>>

\* None of the four events the reactor knows.
DispatchOther(r) ==
  /\ Serving(r, {"other"}) /\ Served(r)
  /\ Unlink(r, cur[r].fd)
  /\ UNCHANGED <<acc, modeVars, keys, workVars>>

Reactor(r) == \/ Forget(r) \/ DrainOne(r) \/ DrainDone(r) \/ EpollWait(r)
              \/ PickKnown(r) \/ PickNew(r) \/ RoundDone(r)
              \/ DispatchToPool(r) \/ DispatchOverload(r)
              \/ DispatchInline(r) \/ DispatchOther(r)

-----------------------------------------------------------------------------
(* The workers of a reactor, threadpool::run and conn::process *)

Busy(t, at) == job[t].at = at

Advance(t) ==
  LET rest == Tail(job[t].todo) IN
  job' = [job EXCEPT ![t] = IF rest = <<>> THEN NoJob
                            ELSE [NoJob EXCEPT !.obj = job[t].obj, !.cl = job[t].cl,
                                               !.at = "op", !.todo = rest]]

WorkerTake(t) ==
  /\ Busy(t, "idle") /\ tasks[t[1]] # <<>>
  /\ tasks' = [tasks EXCEPT ![t[1]] = Tail(@)]
  /\ job' = [job EXCEPT ![t] = [NoJob EXCEPT !.obj = Head(tasks[t[1]]).obj,
                                             !.cl = Head(tasks[t[1]]).cl, !.at = "switch"]]
  /\ UNCHANGED <<kernelVars, acc, modeVars, loopVars, connVars, closeQueue>>

\* con->process(): the switch on status picks what the worker runs.  (By default
\* it sets status to OK: a worker meets OK only in a task that is stale, which
\* handlers that make one call each never leave behind.)
WorkerSwitch(t) ==
  /\ Busy(t, "switch")
  /\ \E p \in Programs(status[job[t].obj]) :
       job' = [job EXCEPT ![t] = IF p.ops = <<>> THEN NoJob
                                 ELSE [@ EXCEPT !.todo = p.ops, !.at = "op"]]
  /\ UNCHANGED <<kernelVars, acc, modeVars, loopVars, connVars, closeQueue, tasks>>

\* next(): epoll_fd and socket_fd are read for the call of epoll_mod ...
WorkerNextLoad(t) ==
  /\ Busy(t, "op") /\ Head(job[t].todo) \in {"in", "out"}
  /\ job' = [job EXCEPT ![t].at = "ctl",
                        ![t].reg = [epoll |-> boss[job[t].obj], fd |-> sock[job[t].obj]]]
  /\ UNCHANGED <<kernelVars, acc, modeVars, loopVars, connVars, closeQueue, tasks>>

\* ... and epoll_ctl arms the descriptor if that instance has it.
WorkerNextCtl(t) ==
  /\ Busy(t, "ctl")
  /\ LET reg == job[t].reg IN
       interest' = [f \in Fds |-> IF f = reg.fd /\ home[f] = reg.epoll /\ home[f] # Null
                                  THEN Head(job[t].todo) ELSE interest[f]]
  /\ Advance(t)
  /\ UNCHANGED <<arrived, backlog, hup, fdOwner, home, acc, modeVars, loopVars, connVars,
                 closeQueue, tasks>>

\* notify_close(): if(status != CLOSE) ...
WorkerNotifyTest(t) ==
  /\ Busy(t, "op") /\ Head(job[t].todo) = "notify"
  /\ IF status[job[t].obj] = "CLOSE" THEN Advance(t)
     ELSE job' = [job EXCEPT ![t].at = "mark"]
  /\ UNCHANGED <<kernelVars, acc, modeVars, loopVars, connVars, closeQueue, tasks>>

\* ... status = CLOSE ...
WorkerNotifyMark(t) ==
  /\ Busy(t, "mark")
  /\ status' = [status EXCEPT ![job[t].obj] = "CLOSE"]
  /\ job' = [job EXCEPT ![t].at = "push"]
  /\ UNCHANGED <<kernelVars, acc, modeVars, loopVars, connects, keys, sock, boss, pool, count,
                 closeQueue, tasks>>

\* ... close_queue->push(socket_fd), on the queue of the object's reactor.
WorkerNotifyPush(t) ==
  /\ Busy(t, "push")
  /\ LET o == job[t].obj IN
       closeQueue' = [q \in Reactors |->
         IF q = boss[o] THEN Append(closeQueue[q], [fd |-> sock[o], cl |-> job[t].cl])
                        ELSE closeQueue[q]]
  /\ Advance(t)
  /\ UNCHANGED <<kernelVars, acc, modeVars, loopVars, connVars, tasks>>

Worker(t) == \/ WorkerTake(t) \/ WorkerSwitch(t) \/ WorkerNextLoad(t) \/ WorkerNextCtl(t)
             \/ WorkerNotifyTest(t) \/ WorkerNotifyMark(t) \/ WorkerNotifyPush(t)

-----------------------------------------------------------------------------
Next == \/ Acceptor
        \/ \E r \in Reactors : Reactor(r)
        \/ \E t \in Threads : Worker(t)
        \/ \E c \in Clients : Arrive(c) \/ HangUp(c)

Spec == Init /\ [][Next]_vars

\* The scheduler runs the acceptor, every reactor and every worker.
Fairness == /\ WF_vars(Acceptor)
            /\ \A r \in Reactors : WF_vars(Reactor(r))
            /\ \A t \in Threads : WF_vars(Worker(t))

FairSpec == Spec /\ Fairness

-----------------------------------------------------------------------------
(* Invariants *)

\* A descriptor is in the table of at most one reactor, and only while it is
\* open and belongs to that reactor; its object knows descriptor and reactor.
\* An object is in one place: in one table, being closed by one reactor, once
\* in the shared pool, or free (add_conn, CONNECTS_REMOVE_FD_REACTOR and the
\* creation of objects at the first event).  The shared count is the number of
\* entries with an object.
TableSound ==
  /\ \A r \in Reactors, f \in Fds : connects[r][f] # Null =>
       /\ fdOwner[f] # Null /\ home[f] = r
       /\ sock[connects[r][f]] = f /\ boss[connects[r][f]] = r
  /\ \A r \in Reactors : gone[r] # Null => gone[r] \notin Live
  /\ \A r1, r2 \in Reactors : gone[r1] = gone[r2] /\ gone[r1] # Null => r1 = r2
  /\ (Live \cup Closing) \cap Range(pool) = {} /\ IsInjective(pool)
  /\ count = Cardinality(Entries)

Owing(c) == {ri \in Reactors \X (1..MaxProcess) :
               ri[2] \in DOMAIN tasks[ri[1]] /\ tasks[ri[1]][ri[2]].cl = c}
AtWork(c) == {t \in Threads : job[t].at # "idle" /\ job[t].cl = c}

\* At most one of all the workers of all the reactors serves a connection, and
\* a worker works on the object that its own reactor has for that connection.
ExclusiveService ==
  /\ \A c \in Clients : Cardinality(Owing(c)) + Cardinality(AtWork(c)) <= 1
  /\ \A t \in Threads : job[t].at # "idle" =>
       LET s == sock[job[t].obj] IN
       s \in Fds /\ connects[t[1]][s] = job[t].obj /\ fdOwner[s] = job[t].cl

\* No connection is forgotten: an open descriptor is on its way to a reactor,
\* or its reactor has it armed, has an event or a task of it, a worker at it,
\* or a request to close it in its own queue.
NeverForgotten ==
  \A f \in Fds : fdOwner[f] # Null =>
    \/ acc.fd = f
    \/ \E r \in Reactors :
         /\ home[f] = r
         /\ \/ interest[f] # "off"
            \/ \E e \in batch[r] \cup {cur[r]} : e.fd = f
            \/ \E i \in DOMAIN tasks[r] : tasks[r][i].obj = connects[r][f]
            \/ \E t \in Threads : job[t].at # "idle" /\ job[t].obj = connects[r][f]
            \/ \E i \in DOMAIN closeQueue[r] : closeQueue[r][i].fd = f

-----------------------------------------------------------------------------
(* What a step may never do, and what must happen *)

\* A reactor closes what it takes off its queue only if that connection's own
\* handler asked for it.  A request outlives its connection when process() ran
\* in the reactor's thread and the loop removed the connection at once; the
\* number may then be another client's, in the same or another reactor.
DrainClosesRequester ==
  [][\A r \in Reactors : DrainOne(r) /\ gone'[r] # Null =>
       LET q == Head(closeQueue[r]) IN fdOwner[q.fd] = q.cl]_vars

\* A client in the listen queue is accepted as long as descriptors are free.
Attended == \A c \in Clients : (c \in backlog) ~> (c \notin backlog \/ FreeFds = {})

\* A connection whose peer has gone is closed, with an object or before it got
\* one.
Reclaimed ==
  \A c \in Clients :
    (c \in Range(fdOwner) /\ c \in hup)
      ~> (c \notin Range(fdOwner))
=============================================================================
