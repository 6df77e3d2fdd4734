-------------------------- MODULE ConvSingleProofs --------------------------
(***************************************************************************)
(* Proofs about ConvSingle, for every number of clients, objects, workers  *)
(* and descriptors, every handler and every configuration: the types, the  *)
(* agreement of the connection table with the kernel, the exactness of     *)
(* current_connect_count, the freshness of dispatched events, and that the *)
(* loop implements the abstract service (ConnService).                     *)
(***************************************************************************)
EXTENDS ConvSingle, DataLemmas, TLAPS, FiniteSetTheorems, SequenceTheorems, FunctionTheorems

-----------------------------------------------------------------------------
(* The inductive invariant *)

\* Only an open descriptor is armed in epoll.
ArmedAreOpen == \A fd \in Fds : fdOwner[fd] = Null => interest[fd] = "off"

\* There are events only while they are dispatched, at most one of each
\* descriptor, and the listening socket's is the only one not of a connection.
BatchShaped ==
  /\ pc # "dispatch" => batch = {}
  /\ \A e \in batch : e.ev = "accept" <=> e.fd = NoFd
  /\ \A e1, e2 \in batch : e1.fd = e2.fd => e1 = e2

\* A busy worker has an object and a client, and an operation to perform
\* whenever it is past the switch.
JobShaped(j) ==
  /\ j.at # "idle" => j.obj \in Objs /\ j.cl \in Clients
  /\ j.at \in {"op", "ctl", "mark", "push"} => j.todo # <<>>
  /\ j.at = "ctl" => Head(j.todo) \in {"in", "out"}

JobsShaped == \A w \in Workers : JobShaped(job[w])

IInv == /\ TypeOK /\ ArmedAreOpen /\ BatchShaped /\ JobsShaped
        /\ TableSound /\ CountExact /\ EventsFresh

-----------------------------------------------------------------------------
(* Handlers *)

\* Whatever the status of a connection, process() runs a program.
LEMMA ProgramsType ==
  ASSUME NEW st \in Statuses
  PROVE  Programs(st) \subseteq Program
<1>1. /\ Fails \in Program /\ HungUp \in Program
      /\ Path(<<"reset">>, TRUE) \in Program
  BY DEF Fails, HungUp, Path, Program, Op, Call
<1>2. \A p \in Program : Based(p) \in Program
  <2> TAKE p \in Program
  <2>1. p.ops \in Seq(Op) /\ "notify" \in Op
    BY DEF Program, Op, Call
  <2>2. Append(p.ops, "notify") \in Seq(Op)
    BY <2>1, AppendProperties
  <2> QED BY <2>2 DEF Based, Path, Program
<1>3. InPaths \subseteq Program /\ OutPaths \subseteq Program
  BY Parameters
<1> QED BY <1>1, <1>2, <1>3 DEF Programs, Statuses

-----------------------------------------------------------------------------
(* The table of connections *)

\* The entries are finitely many; an object is live when an entry holds it.
LEMMA TableFacts ==
  ASSUME TypeOK
  PROVE  /\ IsFiniteSet(Entries) /\ Cardinality(Entries) \in Nat
         /\ Entries = {fd \in Fds \cup {NoFd} : connects[fd] # Null}
         /\ Live = {o \in Objs : \E fd \in Fds \cup {NoFd} : connects[fd] = o}
<1>1. connects \in [Fds \cup {NoFd} -> Objs \cup {Null}]
  BY DEF TypeOK, ConnTypeOK
<1>2. Entries = {fd \in Fds \cup {NoFd} : connects[fd] # Null}
  BY <1>1 DEF Entries
<1>3. IsFiniteSet(Fds \cup {NoFd})
  BY Parameters, FS_AddElement DEF Parameters
<1>4. IsFiniteSet(Entries)
  BY <1>2, <1>3, FS_Subset
<1>5. Live = {o \in Objs : \E fd \in Fds \cup {NoFd} : connects[fd] = o}
  BY <1>1, Parameters DEF Live, Range, Parameters
<1> QED BY <1>2, <1>4, <1>5, FS_CardinalityType

\* connpool::release keeps the pool a sequence without repetitions.
LEMMA ReleasedFacts ==
  ASSUME NEW p \in Seq(Objs), NEW o \in Objs, IsInjective(p), o \notin Range(p)
  PROVE  /\ Released(p, o) \in Seq(Objs)
         /\ IsInjective(Released(p, o))
         /\ Range(Released(p, o)) \subseteq Range(p) \cup {o}
BY AppendProperties, RangeAppend, InjectiveAppend DEF Released

\* CONNECTS_REMOVE_FD keeps table, pool and count in agreement.
LEMMA RemoveStep ==
  ASSUME IInv, NEW fd \in Fds, connects[fd] # Null, pc # "closed", pc' # "closed",
         ConnectsRemoveFd(fd)
  PROVE  /\ KernelTypeOK' /\ ConnTypeOK' /\ ArmedAreOpen' /\ TableSound' /\ CountExact'
         /\ \A f \in Fds \ {fd} : fdOwner'[f] = fdOwner[f] /\ connects'[f] = connects[f]
<1> DEFINE o == connects[fd]
<1> USE DEF IInv
<1>1. /\ o \in Objs /\ sock[o] = fd /\ fd # NoFd
      /\ fdOwner' = [fdOwner EXCEPT ![fd] = Null]
      /\ interest' = [interest EXCEPT ![fd] = "off"]
      /\ status' = [status EXCEPT ![o] = "OK"]
      /\ sock' = [sock EXCEPT ![o] = NoFd]
      /\ connects' = [connects EXCEPT ![fd] = Null]
      /\ count' = count - 1 /\ pool' = Released(pool, o)
      /\ UNCHANGED <<arrived, backlog, hup, edge>>
  BY Parameters DEF TypeOK, ConnTypeOK, TableSound, ConnectsRemoveFd, Parameters
<1>2. o \in Live /\ o \notin Range(pool) /\ pool \in Seq(Objs) /\ IsInjective(pool)
  BY <1>1, TableFacts DEF TypeOK, ConnTypeOK, TableSound
<1>3. /\ pool' \in Seq(Objs) /\ IsInjective(pool')
      /\ Range(pool') \subseteq Range(pool) \cup {o}
  BY <1>1, <1>2, ReleasedFacts
<1>4. KernelTypeOK' /\ ArmedAreOpen'
  BY <1>1 DEF TypeOK, KernelTypeOK, ArmedAreOpen
<1>5. connects' \in [Fds \cup {NoFd} -> Objs \cup {Null}]
  BY <1>1 DEF TypeOK, ConnTypeOK
<1>6. /\ Entries' = Entries \ {fd} /\ fd \in Entries
  BY <1>1, <1>5, TableFacts DEF Entries
<1>7. count' = Cardinality(Entries') /\ count' \in Nat /\ count' <= MaxConnect
  <2>1. Cardinality(Entries \ {fd}) = Cardinality(Entries) - 1
    BY <1>6, TableFacts, FS_RemoveElement
  <2>2. Cardinality(Entries \ {fd}) \in Nat
    BY TableFacts, FS_RemoveElement, FS_CardinalityType
  <2> QED BY <2>1, <2>2, <1>1, <1>6, Parameters DEF CountExact, TypeOK, ConnTypeOK, Parameters
<1>8. ConnTypeOK'
  BY <1>1, <1>3, <1>5, <1>7 DEF TypeOK, ConnTypeOK, Statuses
<1>9. Live' = Live \ {o}
  <2>1. \A f \in Fds \cup {NoFd} : connects[f] = o => f = fd
    BY <1>1 DEF TableSound, TypeOK, ConnTypeOK
  <2>2. Live' = {x \in Objs : \E f \in Fds \cup {NoFd} : connects'[f] = x}
    BY <1>5, Parameters DEF Live, Range, Parameters
  <2>3. Live = {x \in Objs : \E f \in Fds \cup {NoFd} : connects[f] = x}
    BY TableFacts
  <2>4. ASSUME NEW x \in Live \ {o} PROVE x \in Live'
    <3>1. PICK f \in Fds \cup {NoFd} : connects[f] = x
      BY <2>3
    <3>2. connects'[f] = x
      BY <3>1, <1>1 DEF TypeOK, ConnTypeOK
    <3> QED BY <3>2, <2>2, <2>3
  <2>5. ASSUME NEW x \in Live' PROVE x \in Live \ {o}
    <3>1. PICK f \in Fds \cup {NoFd} : connects'[f] = x
      BY <2>2, <2>5
    <3>2. f # fd /\ connects[f] = x /\ x \in Objs
      BY <3>1, <1>1, <2>2, Parameters DEF TypeOK, ConnTypeOK, Parameters
    <3> QED BY <3>2, <2>1, <2>3
  <2> QED BY <2>4, <2>5
<1>10. TableSound'
  <2>1. \A f \in Fds : connects'[f] # Null <=> fdOwner'[f] # Null
    BY <1>1 DEF TableSound, TypeOK, ConnTypeOK, KernelTypeOK
  <2>2. \A f \in DOMAIN connects' : connects'[f] # Null => sock'[connects'[f]] = f
    BY <1>1, <1>5 DEF TableSound, TypeOK, ConnTypeOK
  <2>3. \A x \in Objs \ Live' : sock'[x] = NoFd
    BY <1>1, <1>9 DEF TableSound, TypeOK, ConnTypeOK
  <2>4. Live' \cap Range(pool') = {}
    BY <1>3, <1>9 DEF TableSound
  <2> QED BY <2>1, <2>2, <2>3, <2>4, <1>3 DEF TableSound
<1> QED BY <1>1, <1>4, <1>7, <1>8, <1>10 DEF CountExact, TypeOK, ConnTypeOK, KernelTypeOK

\* An object taken from the pool, or a new one, serves no connection.
LEMMA AcquiredFacts ==
  ASSUME IInv, pc # "closed", NEW t \in Acquirable
  PROVE  /\ t \in Objs /\ t \notin Live /\ t \notin Range(PoolAfterAcquire)
         /\ PoolAfterAcquire \in Seq(Objs) /\ IsInjective(PoolAfterAcquire)
         /\ Range(PoolAfterAcquire) \subseteq Range(pool)
<1>1. pool \in Seq(Objs) /\ IsInjective(pool) /\ Live \cap Range(pool) = {}
  BY DEF IInv, TypeOK, ConnTypeOK, TableSound
<1>2. CASE ObjectPool /\ pool # <<>>
  <2>1. t = Head(pool) /\ PoolAfterAcquire = Tail(pool)
    BY <1>2 DEF Acquirable, PoolAfterAcquire
  <2>2. Head(pool) \in Objs /\ Tail(pool) \in Seq(Objs)
    BY <1>1, <1>2, HeadTailProperties
  <2>3. Range(pool) = Range(Tail(pool)) \cup {Head(pool)}
    BY <1>1, <1>2, RangeTail
  <2>4. IsInjective(Tail(pool)) /\ Head(pool) \notin Range(Tail(pool))
    BY <1>1, <1>2, InjectiveTail
  <2> QED BY <2>1, <2>2, <2>3, <2>4, <1>1
<1>3. CASE ~(ObjectPool /\ pool # <<>>)
  BY <1>1, <1>3 DEF Acquirable, PoolAfterAcquire
<1> QED BY <1>2, <1>3

\* A new entry keeps table, pool and count in agreement, the entry of a
\* failed accept included.
LEMMA InstallStep ==
  ASSUME IInv, pc # "closed", pc' # "closed", NEW c \in backlog,
         NEW fd \in AcceptResults, NEW t \in Acquirable, ~TableFull,
         Install(fd, t, c), count' = count + 1, UNCHANGED <<arrived, hup, edge>>
  PROVE  /\ KernelTypeOK' /\ ConnTypeOK' /\ ArmedAreOpen' /\ TableSound' /\ CountExact'
         /\ connects[fd] = Null
         /\ \A f \in Fds \ {fd} : fdOwner'[f] = fdOwner[f] /\ connects'[f] = connects[f]
<1> USE DEF IInv
<1>1. /\ connects[fd] = Null
      /\ backlog' = BacklogAfter(fd, c) /\ pool' = PoolAfterAcquire
      /\ connects' = [connects EXCEPT ![fd] = t]
      /\ sock' = [sock EXCEPT ![t] = fd]
      /\ status' = [status EXCEPT ![t] = "OK"]
      /\ fdOwner' = [fdOwner EXCEPT ![fd] = c]
      /\ interest' = [interest EXCEPT ![fd] = "in"]
  BY DEF Install, ConnInit, EntryFree
<1>2. /\ fd \in Fds \cup {NoFd}
      /\ fd \in Fds => fdOwner[fd] = Null
      /\ NoFd \notin Fds /\ Null \notin Clients /\ Null \notin Objs /\ c \in Clients
  BY Parameters DEF AcceptResults, FreeFds, Parameters, TypeOK, KernelTypeOK
<1>3. /\ t \in Objs /\ t \notin Live /\ t \notin Range(pool')
      /\ pool' \in Seq(Objs) /\ IsInjective(pool')
      /\ Range(pool') \subseteq Range(pool)
  BY <1>1, AcquiredFacts
<1>4. backlog' \subseteq arrived'
  BY <1>1 DEF BacklogAfter, TypeOK, KernelTypeOK
<1>5. KernelTypeOK' /\ ArmedAreOpen'
  BY <1>1, <1>2, <1>4 DEF TypeOK, KernelTypeOK, ArmedAreOpen
<1>6. connects' \in [Fds \cup {NoFd} -> Objs \cup {Null}]
  BY <1>1, <1>3 DEF TypeOK, ConnTypeOK
<1>7. Entries' = Entries \cup {fd} /\ fd \notin Entries
  BY <1>1, <1>2, <1>3, <1>6, TableFacts DEF Entries, TypeOK, ConnTypeOK
<1>8. count' = Cardinality(Entries') /\ count' \in Nat /\ count' <= MaxConnect
  <2>1. Cardinality(Entries \cup {fd}) = Cardinality(Entries) + 1
    BY <1>7, TableFacts, FS_AddElement
  <2> QED BY <2>1, <1>7, TableFacts, Parameters
          DEF CountExact, TypeOK, ConnTypeOK, Parameters, TableFull
<1>9. ConnTypeOK'
  BY <1>1, <1>2, <1>3, <1>6, <1>8 DEF TypeOK, ConnTypeOK, Statuses
<1>10. Live' = Live \cup {t}
  <2>1. Live' = {x \in Objs : \E f \in Fds \cup {NoFd} : connects'[f] = x}
    BY <1>6, <1>2 DEF Live, Range
  <2>2. Live = {x \in Objs : \E f \in Fds \cup {NoFd} : connects[f] = x}
    BY TableFacts
  <2>3. \A f \in Fds \cup {NoFd} : connects'[f] = IF f = fd THEN t ELSE connects[f]
    BY <1>1 DEF TypeOK, ConnTypeOK
  <2> QED BY <2>1, <2>2, <2>3, <1>1, <1>2, <1>3
<1>11. TableSound'
  <2>1. \A f \in Fds : connects'[f] # Null <=> fdOwner'[f] # Null
    BY <1>1, <1>2, <1>3 DEF TableSound, TypeOK, ConnTypeOK, KernelTypeOK
  <2>2. \A f \in DOMAIN connects' : connects'[f] # Null => sock'[connects'[f]] = f
    <3> SUFFICES ASSUME NEW f \in Fds \cup {NoFd}, connects'[f] # Null
                 PROVE  sock'[connects'[f]] = f
      BY <1>6
    <3>1. CASE f = fd
      BY <3>1, <1>1, <1>2, <1>3 DEF TypeOK, ConnTypeOK
    <3>2. CASE f # fd
      <4>1. connects'[f] = connects[f] /\ connects[f] \in Live /\ connects[f] # t
        BY <3>2, <1>1, <1>2, <1>3, TableFacts DEF TypeOK, ConnTypeOK
      <4> QED BY <4>1, <1>1 DEF TableSound, TypeOK, ConnTypeOK
    <3> QED BY <3>1, <3>2
  <2>3. \A x \in Objs \ Live' : sock'[x] = NoFd
    BY <1>1, <1>10 DEF TableSound, TypeOK, ConnTypeOK
  <2>4. Live' \cap Range(pool') = {}
    BY <1>3, <1>10 DEF TableSound
  <2> QED BY <2>1, <2>2, <2>3, <2>4, <1>3 DEF TableSound
<1> QED BY <1>1, <1>5, <1>8, <1>9, <1>11 DEF CountExact, TypeOK, ConnTypeOK, KernelTypeOK

-----------------------------------------------------------------------------
(* The invariant holds initially and is kept by the environment *)

LEMMA InitInv == Init => IInv
<1> SUFFICES ASSUME Init PROVE IInv
  OBVIOUS
<1> USE DEF Init
<1>1. pool \in Seq(Objs) /\ IsInjective(pool)
  <2>1. CASE ObjectPool
    <3>1. pool \in [1..PoolSize -> Objs] /\ IsInjective(pool)
      BY <2>1 DEF Injection
    <3> QED BY <3>1, Parameters DEF Parameters
  <2>2. CASE ~ObjectPool
    <3>1. pool = <<>>
      BY <2>2
    <3> QED BY <3>1, EmptySeq DEF IsInjective
  <2> QED BY <2>1, <2>2
<1>2. Entries = {} /\ Live = {}
  BY DEF Entries, Live, Range
<1>3. TypeOK
  <2>1. KernelTypeOK /\ LoopTypeOK
    BY DEF KernelTypeOK, LoopTypeOK
  <2>2. ConnTypeOK
    BY <1>1 DEF ConnTypeOK, Statuses
  <2>3. WorkTypeOK
    BY DEF WorkTypeOK, NoJob, Job
  <2> QED BY <2>1, <2>2, <2>3 DEF TypeOK
<1>4. CountExact
  BY <1>2, FS_EmptySet, Parameters DEF CountExact, Parameters
<1>5. ArmedAreOpen /\ BatchShaped /\ JobsShaped /\ EventsFresh
  BY DEF ArmedAreOpen, BatchShaped, JobsShaped, JobShaped, EventsFresh, NoJob
<1>6. TableSound
  BY <1>1, <1>2 DEF TableSound
<1> QED BY <1>3, <1>4, <1>5, <1>6 DEF IInv

LEMMA EnvironmentInv ==
  ASSUME IInv, Environment
  PROVE  IInv'
<1> USE DEF IInv
<1>1. /\ UNCHANGED <<fdOwner, interest, batch, connVars, closeQueue, tasks, job>>
      /\ pc' = pc
  BY DEF Environment, Arrive, HangUp, StopRequest, kernelVars, loopVars, connVars
<1>2. KernelTypeOK'
  <2>1. CASE StopRequest
    BY <2>1 DEF StopRequest, kernelVars, TypeOK, KernelTypeOK
  <2>2. ASSUME NEW c \in Clients, Arrive(c) PROVE KernelTypeOK'
    BY <2>2, Parameters DEF Arrive, TypeOK, KernelTypeOK, ListenET, Parameters
  <2>3. ASSUME NEW c \in Clients, HangUp(c) PROVE KernelTypeOK'
    BY <2>3 DEF HangUp, TypeOK, KernelTypeOK
  <2> QED BY <2>1, <2>2, <2>3 DEF Environment
<1>3. LoopTypeOK'
  BY <1>1 DEF Environment, Arrive, HangUp, StopRequest, loopVars, TypeOK, LoopTypeOK
<1>4. ConnTypeOK' /\ WorkTypeOK' /\ ArmedAreOpen' /\ BatchShaped' /\ JobsShaped'
  BY <1>1 DEF TypeOK, ConnTypeOK, WorkTypeOK, ArmedAreOpen, BatchShaped, JobsShaped, connVars
<1>5. TableSound' /\ CountExact' /\ EventsFresh'
  BY <1>1 DEF TableSound, CountExact, EventsFresh, Live, Entries, connVars
<1> QED BY <1>2, <1>3, <1>4, <1>5 DEF TypeOK

-----------------------------------------------------------------------------
(* The event loop keeps the invariant *)

\* A request on the close queue is typed, and so is the rest of the queue.
LEMMA DrainInv ==
  ASSUME IInv, DrainOne \/ DrainDone
  PROVE  IInv'
<1> USE DEF IInv
<1>1. CASE DrainDone
  <2>1. /\ pc = "drain" /\ pc' = "wait" /\ UNCHANGED <<batch, run, tasks, job>>
        /\ UNCHANGED <<kernelVars, connVars, closeQueue>>
    BY <1>1 DEF DrainDone
  <2>2. TypeOK'
    BY <2>1 DEF TypeOK, KernelTypeOK, LoopTypeOK, ConnTypeOK, WorkTypeOK, kernelVars, connVars
  <2>3. ArmedAreOpen' /\ BatchShaped' /\ JobsShaped'
    BY <2>1 DEF ArmedAreOpen, BatchShaped, JobsShaped, kernelVars
  <2>4. TableSound' /\ CountExact' /\ EventsFresh'
    BY <2>1 DEF TableSound, CountExact, EventsFresh, Live, Entries, kernelVars, connVars
  <2> QED BY <2>2, <2>3, <2>4
<1>2. CASE DrainOne
  <2> DEFINE fd == Head(closeQueue).fd
  <2>1. /\ pc = "drain" /\ closeQueue # <<>> /\ closeQueue' = Tail(closeQueue)
        /\ UNCHANGED <<pc, run, batch, tasks, job>> /\ batch = {}
        /\ IF fd = NoFd \/ connects[fd] = Null
           THEN UNCHANGED <<kernelVars, connVars>> ELSE ConnectsRemoveFd(fd)
    BY <1>2 DEF DrainOne, Draining, loopVars, BatchShaped
  <2>2. closeQueue' \in Seq(Request) /\ Head(closeQueue) \in Request
    BY <2>1, HeadTailProperties DEF TypeOK, WorkTypeOK
  <2>3. LoopTypeOK' /\ WorkTypeOK'
    BY <2>1, <2>2 DEF TypeOK, LoopTypeOK, WorkTypeOK
  <2>4. BatchShaped' /\ JobsShaped' /\ EventsFresh'
    BY <2>1 DEF BatchShaped, JobsShaped, EventsFresh
  <2>5. KernelTypeOK' /\ ConnTypeOK' /\ ArmedAreOpen' /\ TableSound' /\ CountExact'
    <3>1. CASE fd = NoFd \/ connects[fd] = Null
      <4>1. UNCHANGED <<kernelVars, connVars, pc>>
        BY <2>1, <3>1
      <4>2. KernelTypeOK' /\ ConnTypeOK' /\ ArmedAreOpen'
        BY <4>1 DEF TypeOK, KernelTypeOK, ConnTypeOK, ArmedAreOpen, kernelVars, connVars
      <4>3. TableSound' /\ CountExact'
        BY <4>1 DEF TableSound, CountExact, Live, Entries, kernelVars, connVars
      <4> QED BY <4>2, <4>3
    <3>2. CASE fd # NoFd /\ connects[fd] # Null
      <4>1. fd \in Fds
        BY <2>2, <3>2 DEF Request
      <4>2. ConnectsRemoveFd(fd) /\ pc # "closed" /\ pc' # "closed"
        BY <2>1, <3>2
      <4> HIDE DEF fd
      <4> QED BY <4>1, <4>2, <3>2, RemoveStep
    <3> QED BY <3>1, <3>2
  <2> QED BY <2>3, <2>4, <2>5 DEF TypeOK
<1> QED BY <1>1, <1>2

\* What epoll_wait reports is about the connection of the descriptor.
LEMMA BatchFacts ==
  ASSUME IInv, pc # "closed", NEW B \in Batches
  PROVE  /\ B \subseteq Event
         /\ \A e \in B : e.ev = "accept" <=> e.fd = NoFd
         /\ \A e1, e2 \in B : e1.fd = e2.fd => e1 = e2
         /\ \A e \in B : e.fd \in Fds => fdOwner[e.fd] = e.cl /\ connects[e.fd] # Null
<1> USE DEF IInv
<1>1. B \subseteq ReadyEvents /\ \A e1, e2 \in B : e1.fd = e2.fd => e1 = e2
  BY DEF Batches
<1>2. \A f \in Fds : Reports(f) \subseteq HandlerEvents \cup {"other"}
  BY Parameters DEF Reports, HandlerEvents, Parameters, TypeOK, KernelTypeOK
<1>3. \A f \in Fds : Reports(f) # {} => fdOwner[f] \in Clients /\ connects[f] # Null
  <2> SUFFICES ASSUME NEW f \in Fds, Reports(f) # {}
               PROVE  fdOwner[f] \in Clients /\ connects[f] # Null
    OBVIOUS
  <2>1. interest[f] # "off"
    BY DEF Reports
  <2> QED BY <2>1 DEF TypeOK, KernelTypeOK, ArmedAreOpen, TableSound
<1>4. ASSUME NEW e \in B
      PROVE  /\ e \in Event /\ (e.ev = "accept" <=> e.fd = NoFd)
             /\ e.fd \in Fds => fdOwner[e.fd] = e.cl /\ connects[e.fd] # Null
  <2>1. CASE e = Accept
    BY <2>1, Parameters DEF Accept, Event, Parameters
  <2>2. CASE e # Accept
    <3> DEFINE Of(f) == {[fd |-> f, ev |-> v, cl |-> fdOwner[f]] : v \in Reports(f)}
    <3>a. e \in UNION {Of(f) : f \in Fds}
      BY <1>1, <2>2 DEF ReadyEvents
    <3>1. PICK f \in Fds : e \in Of(f)
      BY <3>a
    <3>2. PICK v \in Reports(f) : e = [fd |-> f, ev |-> v, cl |-> fdOwner[f]]
      BY <3>1
    <3>3. fdOwner[f] \in Clients /\ connects[f] # Null /\ v \in HandlerEvents \cup {"other"}
      BY <1>2, <1>3, <3>2
    <3> QED BY <3>2, <3>3, Parameters DEF Event, Parameters, HandlerEvents
  <2> QED BY <2>1, <2>2
<1> QED BY <1>1, <1>4

LEMMA EpollInv ==
  ASSUME IInv, EpollWait \/ EpollFails
  PROVE  IInv'
<1> USE DEF IInv
<1>1. CASE EpollFails
  <2>1. /\ pc = "wait" /\ pc' = "stopping"
        /\ UNCHANGED <<kernelVars, run, batch, connVars, closeQueue, tasks, job>>
    BY <1>1 DEF EpollFails
  <2>2. TypeOK'
    BY <2>1 DEF TypeOK, KernelTypeOK, LoopTypeOK, ConnTypeOK, WorkTypeOK, kernelVars, connVars
  <2>3. ArmedAreOpen' /\ BatchShaped' /\ JobsShaped'
    BY <2>1 DEF ArmedAreOpen, BatchShaped, JobsShaped, kernelVars
  <2>4. TableSound' /\ CountExact' /\ EventsFresh'
    BY <2>1 DEF TableSound, CountExact, EventsFresh, Live, Entries, kernelVars, connVars
  <2> QED BY <2>2, <2>3, <2>4
<1>2. CASE EpollWait
  <2>1. PICK B \in Batches :
          /\ pc = "wait" /\ batch' = B /\ pc' = IF B = {} THEN NextRound ELSE "dispatch"
          /\ interest' = InterestAfter({e.fd : e \in B})
          /\ edge' = (edge /\ NoFd \notin {e.fd : e \in B})
          /\ UNCHANGED <<arrived, backlog, hup, fdOwner, run, connVars, closeQueue, tasks, job>>
    BY <1>2 DEF EpollWait
  <2>2. LoopTypeOK' /\ BatchShaped' /\ EventsFresh'
    BY <2>1, BatchFacts DEF TypeOK, LoopTypeOK, NextRound, BatchShaped, EventsFresh, connVars
  <2>3. KernelTypeOK' /\ ArmedAreOpen'
    <3>1. interest' \in [Fds -> {"off", "in", "out"}]
      BY <2>1 DEF InterestAfter, TypeOK, KernelTypeOK
    <3>2. \A f \in Fds : interest'[f] = interest[f] \/ interest'[f] = "off"
      BY <2>1 DEF InterestAfter
    <3> QED BY <2>1, <3>1, <3>2 DEF TypeOK, KernelTypeOK, ArmedAreOpen
  <2>4. ConnTypeOK' /\ WorkTypeOK' /\ JobsShaped'
    BY <2>1 DEF TypeOK, ConnTypeOK, WorkTypeOK, JobsShaped, connVars
  <2>5. TableSound' /\ CountExact'
    BY <2>1 DEF TableSound, CountExact, Live, Entries, connVars
  <2> QED BY <2>2, <2>3, <2>4, <2>5 DEF TypeOK
<1> QED BY <1>1, <1>2

\* conv_single::close leaves nothing that the invariant says of the table.
LEMMA CloseInv ==
  ASSUME IInv, Close
  PROVE  IInv'
<1> USE DEF IInv, Close
<1>1. KernelTypeOK' /\ LoopTypeOK'
  BY DEF TypeOK, KernelTypeOK, LoopTypeOK
<1>2. ConnTypeOK' /\ WorkTypeOK'
  BY EmptySeq DEF TypeOK, ConnTypeOK, WorkTypeOK
<1>3. ArmedAreOpen' /\ BatchShaped' /\ JobsShaped'
  BY DEF ArmedAreOpen, BatchShaped, JobsShaped
<1>4. TableSound' /\ CountExact' /\ EventsFresh'
  BY DEF TableSound, CountExact, EventsFresh
<1> QED BY <1>1, <1>2, <1>3, <1>4 DEF TypeOK

\* Taking an event from the batch: what is left is about other descriptors.
LEMMA TakeFacts ==
  ASSUME IInv, NEW e \in batch, TakeEvent(e)
  PROVE  /\ pc = "dispatch" /\ pc' # "closed" /\ batch' = batch \ {e} /\ run' = run
         /\ LoopTypeOK' /\ BatchShaped'
         /\ \A x \in batch' : x.fd # e.fd
         /\ e.ev # "accept" => e.fd \in Fds /\ e.cl \in Clients
<1> USE DEF IInv
<1>1. /\ pc = "dispatch" /\ batch' = batch \ {e} /\ run' = run
      /\ pc' = IF batch = {e} THEN NextRound ELSE "dispatch"
  BY DEF TakeEvent
<1>2. LoopTypeOK'
  BY <1>1 DEF TypeOK, LoopTypeOK, NextRound
<1>3. BatchShaped' /\ \A x \in batch' : x.fd # e.fd
  BY <1>1 DEF BatchShaped, NextRound
<1>4. ASSUME e.ev # "accept" PROVE e.fd \in Fds /\ e.cl \in Clients
  <2>1. e.fd \in Fds
    BY <1>4 DEF TypeOK, LoopTypeOK, BatchShaped, Event
  <2>2. fdOwner[e.fd] = e.cl /\ connects[e.fd] # Null
    BY <2>1 DEF EventsFresh
  <2> QED BY <1>1, <2>1, <2>2 DEF TableSound, TypeOK, KernelTypeOK
<1> QED BY <1>1, <1>2, <1>3, <1>4 DEF NextRound

\* CONNECTS_REMOVE_FD while the event of that descriptor is dispatched.
LEMMA RemoveDispatchInv ==
  ASSUME IInv, NEW e \in batch, e.ev # "accept", TakeEvent(e), connects[e.fd] # Null,
         ConnectsRemoveFd(e.fd), WorkTypeOK', JobsShaped'
  PROVE  IInv'
<1>1. /\ pc # "closed" /\ pc' # "closed" /\ e.fd \in Fds
      /\ LoopTypeOK' /\ BatchShaped' /\ batch' = batch \ {e}
      /\ \A x \in batch' : x.fd # e.fd
  BY TakeFacts
<1>2. /\ KernelTypeOK' /\ ConnTypeOK' /\ ArmedAreOpen' /\ TableSound' /\ CountExact'
      /\ \A f \in Fds \ {e.fd} : fdOwner'[f] = fdOwner[f] /\ connects'[f] = connects[f]
  BY <1>1, RemoveStep
<1>3. EventsFresh'
  BY <1>1, <1>2 DEF EventsFresh, IInv
<1> QED BY <1>1, <1>2, <1>3 DEF IInv, TypeOK

LEMMA AcceptInv ==
  ASSUME IInv, NEW e \in batch, NEW c \in backlog,
         AcceptOver(e, c) \/ AcceptOccupied(e, c) \/ AcceptInstall(e, c)
  PROVE  IInv'
<1>1. /\ TakeEvent(e) /\ UNCHANGED <<arrived, hup, edge, closeQueue, tasks, job>>
  BY DEF AcceptOver, AcceptOccupied, AcceptInstall
<1>2. /\ pc # "closed" /\ pc' # "closed" /\ LoopTypeOK' /\ BatchShaped'
      /\ batch' = batch \ {e}
  BY <1>1, TakeFacts
<1>3. WorkTypeOK' /\ JobsShaped'
  BY <1>1 DEF IInv, TypeOK, WorkTypeOK, JobsShaped
<1>4. CASE AcceptOver(e, c) \/ AcceptOccupied(e, c)
  <2>1. /\ UNCHANGED <<fdOwner, interest, connects, sock, status, count>>
        /\ \E fd \in AcceptResults : backlog' = BacklogAfter(fd, c)
    BY <1>4 DEF AcceptOver, AcceptOccupied, connVars
  <2>2. /\ pool' \in Seq(Objs) /\ IsInjective(pool') /\ Live' \cap Range(pool') = {}
        /\ Live' = Live
    <3>1. Live' = Live
      BY <2>1 DEF Live
    <3>2. CASE AcceptOver(e, c)
      BY <3>1, <3>2, <1>2 DEF AcceptOver, connVars, IInv, TypeOK, ConnTypeOK, TableSound
    <3>3. CASE AcceptOccupied(e, c)
      <4>1. PICK t \in Acquirable : pool' = Released(PoolAfterAcquire, t)
        BY <3>3 DEF AcceptOccupied
      <4>2. /\ t \in Objs /\ t \notin Live /\ t \notin Range(PoolAfterAcquire)
            /\ PoolAfterAcquire \in Seq(Objs) /\ IsInjective(PoolAfterAcquire)
            /\ Range(PoolAfterAcquire) \subseteq Range(pool)
        BY <1>2, AcquiredFacts
      <4>3. /\ pool' \in Seq(Objs) /\ IsInjective(pool')
            /\ Range(pool') \subseteq Range(PoolAfterAcquire) \cup {t}
        BY <4>1, <4>2, ReleasedFacts
      <4>4. Live \cap Range(pool) = {}
        BY <1>2 DEF IInv, TableSound
      <4> QED BY <3>1, <4>2, <4>3, <4>4
    <3> QED BY <1>4, <3>2, <3>3, <3>1
  <2>3. KernelTypeOK' /\ ArmedAreOpen'
    BY <1>1, <2>1 DEF IInv, TypeOK, KernelTypeOK, BacklogAfter, ArmedAreOpen
  <2>4. ConnTypeOK'
    BY <2>1, <2>2 DEF IInv, TypeOK, ConnTypeOK
  <2>5. TableSound'
    BY <2>1, <2>2, <1>2 DEF IInv, TableSound
  <2>6. CountExact' /\ EventsFresh'
    BY <2>1, <1>2 DEF IInv, CountExact, Entries, EventsFresh
  <2> QED BY <1>2, <1>3, <2>3, <2>4, <2>5, <2>6 DEF IInv, TypeOK
<1>5. CASE AcceptInstall(e, c)
  <2>1. PICK fd \in AcceptResults, t \in Acquirable :
          /\ Install(fd, t, c) /\ ~TableFull /\ count' = count + 1
    BY <1>5 DEF AcceptInstall
  <2>2. /\ KernelTypeOK' /\ ConnTypeOK' /\ ArmedAreOpen' /\ TableSound' /\ CountExact'
        /\ connects[fd] = Null
        /\ \A f \in Fds \ {fd} : fdOwner'[f] = fdOwner[f] /\ connects'[f] = connects[f]
    BY <1>1, <1>2, <2>1, InstallStep
  <2>3. EventsFresh'
    BY <1>2, <2>2 DEF IInv, EventsFresh
  <2> QED BY <1>2, <1>3, <2>2, <2>3 DEF IInv, TypeOK
<1> QED BY <1>4, <1>5

LEMMA ToPoolInv ==
  ASSUME IInv, NEW e \in batch, DispatchToPool(e)
  PROVE  IInv'
<1>1. /\ TakeEvent(e) /\ e.ev \in HandlerEvents /\ connects[e.fd] # Null
      /\ status' = [status EXCEPT ![connects[e.fd]] = EventStatus(e.ev)]
      /\ tasks' = Append(tasks, [obj |-> connects[e.fd], cl |-> e.cl])
      /\ UNCHANGED <<kernelVars, connects, sock, pool, count, closeQueue, job>>
  BY DEF DispatchToPool
<1>2. /\ pc # "closed" /\ pc' # "closed" /\ LoopTypeOK' /\ BatchShaped'
      /\ batch' = batch \ {e} /\ e.fd \in Fds /\ e.cl \in Clients
  BY <1>1, TakeFacts DEF HandlerEvents
<1>3. connects[e.fd] \in Objs /\ EventStatus(e.ev) \in Statuses
  BY <1>1, <1>2 DEF IInv, TypeOK, ConnTypeOK, EventStatus, HandlerEvents, Statuses
<1>4. WorkTypeOK' /\ JobsShaped'
  <2>1. [obj |-> connects[e.fd], cl |-> e.cl] \in Task
    BY <1>2, <1>3 DEF Task
  <2>2. tasks' \in Seq(Task)
    BY <1>1, <2>1, AppendProperties DEF IInv, TypeOK, WorkTypeOK
  <2> QED BY <1>1, <2>2 DEF IInv, TypeOK, WorkTypeOK, JobsShaped
<1>5. ConnTypeOK'
  BY <1>1, <1>3 DEF IInv, TypeOK, ConnTypeOK
<1>6. KernelTypeOK' /\ ArmedAreOpen'
  BY <1>1 DEF IInv, TypeOK, KernelTypeOK, ArmedAreOpen, kernelVars
<1>7. TableSound' /\ CountExact' /\ EventsFresh'
  BY <1>1, <1>2 DEF IInv, TableSound, CountExact, EventsFresh, Live, Entries, kernelVars
<1> QED BY <1>2, <1>4, <1>5, <1>6, <1>7 DEF IInv, TypeOK

LEMMA OverloadInv ==
  ASSUME IInv, NEW e \in batch, DispatchOverload(e) \/ DispatchOther(e)
  PROVE  IInv'
<1>1. /\ TakeEvent(e) /\ e.ev # "accept" /\ connects[e.fd] # Null
      /\ ConnectsRemoveFd(e.fd) /\ UNCHANGED <<closeQueue, tasks, job>>
  BY DEF DispatchOverload, DispatchOther, HandlerEvents
<1>2. WorkTypeOK' /\ JobsShaped'
  BY <1>1 DEF IInv, TypeOK, WorkTypeOK, JobsShaped
<1> QED BY <1>1, <1>2, RemoveDispatchInv

LEMMA InlineInv ==
  ASSUME IInv, NEW e \in batch, DispatchInline(e)
  PROVE  IInv'
<1>1. PICK p \in Programs(EventStatus(e.ev)) :
        /\ closeQueue' = QueueAfter(p, sock[connects[e.fd]], e.cl)
        /\ IF InlineRemoves(e, p)
           THEN ConnectsRemoveFd(e.fd)
           ELSE /\ \E new \in {"off", "in", "out"} :
                     /\ Leaves(p, interest[e.fd], new)
                     /\ interest' = [interest EXCEPT ![e.fd] = new]
                /\ status' = [status EXCEPT ![connects[e.fd]] =
                                IF Notifies(p) THEN "CLOSE" ELSE EventStatus(e.ev)]
                /\ UNCHANGED <<arrived, backlog, hup, fdOwner, edge, connects, sock, pool, count>>
  BY DEF DispatchInline
<1>2. /\ TakeEvent(e) /\ e.ev \in HandlerEvents /\ e.ev # "accept" /\ connects[e.fd] # Null
      /\ UNCHANGED <<tasks, job>>
  BY DEF DispatchInline, HandlerEvents
<1>3. /\ pc # "closed" /\ pc' # "closed" /\ LoopTypeOK' /\ BatchShaped'
      /\ batch' = batch \ {e} /\ e.fd \in Fds /\ e.cl \in Clients
  BY <1>2, TakeFacts
<1>4. /\ connects[e.fd] \in Objs /\ EventStatus(e.ev) \in Statuses
      /\ fdOwner[e.fd] # Null
  BY <1>2, <1>3 DEF IInv, TypeOK, ConnTypeOK, TableSound, EventStatus, HandlerEvents, Statuses
<1>5. WorkTypeOK' /\ JobsShaped'
  <2>1. [fd |-> sock[connects[e.fd]], cl |-> e.cl] \in Request
    BY <1>3, <1>4 DEF Request, IInv, TypeOK, ConnTypeOK
  <2>2. closeQueue' \in Seq(Request)
    BY <1>1, <2>1, AppendProperties DEF QueueAfter, IInv, TypeOK, WorkTypeOK
  <2> QED BY <1>2, <2>2 DEF IInv, TypeOK, WorkTypeOK, JobsShaped
<1>6. CASE InlineRemoves(e, p)
  BY <1>1, <1>2, <1>5, <1>6, RemoveDispatchInv
<1>7. CASE ~InlineRemoves(e, p)
  <2>1. PICK new \in {"off", "in", "out"} : interest' = [interest EXCEPT ![e.fd] = new]
    BY <1>1, <1>7
  <2>2. /\ status' = [status EXCEPT ![connects[e.fd]] =
                        IF Notifies(p) THEN "CLOSE" ELSE EventStatus(e.ev)]
        /\ UNCHANGED <<arrived, backlog, hup, fdOwner, edge, connects, sock, pool, count>>
    BY <1>1, <1>7
  <2>3. KernelTypeOK' /\ ArmedAreOpen'
    BY <2>1, <2>2, <1>3, <1>4 DEF IInv, TypeOK, KernelTypeOK, ArmedAreOpen
  <2>4. ConnTypeOK'
    BY <2>2, <1>4 DEF IInv, TypeOK, ConnTypeOK, Statuses
  <2>5. TableSound' /\ CountExact' /\ EventsFresh'
    BY <2>2, <1>3 DEF IInv, TableSound, CountExact, EventsFresh, Live, Entries
  <2> QED BY <1>3, <1>5, <2>3, <2>4, <2>5 DEF IInv, TypeOK
<1> QED BY <1>6, <1>7

LEMMA LoopInv ==
  ASSUME IInv, Loop
  PROVE  IInv'
<1>1. CASE DrainOne \/ DrainDone
  BY <1>1, DrainInv
<1>2. CASE EpollWait \/ EpollFails
  BY <1>2, EpollInv
<1>3. CASE Close
  BY <1>3, CloseInv
<1>4. ASSUME NEW e \in batch, Dispatch(e) PROVE IInv'
  BY <1>4, AcceptInv, ToPoolInv, OverloadInv, InlineInv DEF Dispatch
<1> QED BY <1>1, <1>2, <1>3, <1>4 DEF Loop

-----------------------------------------------------------------------------
(* The workers keep the invariant *)

\* A worker's new job is typed and shaped; the others keep theirs.
LEMMA JobStep ==
  ASSUME IInv, NEW w \in Workers, NEW j \in Job, JobShaped(j),
         job' = [job EXCEPT ![w] = j]
  PROVE  job' \in [Workers -> Job] /\ JobsShaped'
BY DEF IInv, TypeOK, WorkTypeOK, JobsShaped

LEMMA IdleJob == NoJob \in Job /\ JobShaped(NoJob)
<1>1. <<>> \in Seq(Op)
  BY EmptySeq
<1> QED BY <1>1 DEF NoJob, Job, JobShaped

LEMMA AdvanceStep ==
  ASSUME IInv, NEW w \in Workers, job[w].at \in {"op", "ctl", "mark", "push"}, Advance(w)
  PROVE  job' \in [Workers -> Job] /\ JobsShaped'
<1> DEFINE rest == Tail(job[w].todo)
           next == [job[w] EXCEPT !.todo = rest, !.at = "op", !.reg = NoFd]
<1>1. /\ job[w] \in Job /\ JobShaped(job[w]) /\ job[w].todo # <<>>
      /\ job[w].todo \in Seq(Op) /\ rest \in Seq(Op)
  <2>1. job[w] \in Job /\ job[w].todo # <<>> /\ JobShaped(job[w])
    BY DEF IInv, TypeOK, WorkTypeOK, JobsShaped, JobShaped
  <2>2. job[w].todo \in Seq(Op)
    BY <2>1 DEF Job
  <2> QED BY <2>1, <2>2, HeadTailProperties
<1>2. job' = [job EXCEPT ![w] = IF rest = <<>> THEN NoJob ELSE next]
  BY DEF Advance, IInv, TypeOK, WorkTypeOK
<1>3. rest # <<>> => next \in Job /\ JobShaped(next)
  BY <1>1 DEF Job, JobShaped
<1> HIDE DEF rest, next
<1> QED BY <1>2, <1>3, IdleJob, JobStep

\* What every step of a worker leaves alone, and what remains to show of it.
LEMMA WorkerFrame ==
  ASSUME IInv, UNCHANGED <<arrived, backlog, hup, fdOwner, edge>>,
         UNCHANGED <<loopVars, connects, sock, pool, count>>,
         interest' \in [Fds -> {"off", "in", "out"}], ArmedAreOpen',
         status' \in [Objs -> Statuses], WorkTypeOK', JobsShaped'
  PROVE  IInv'
<1>1. KernelTypeOK' /\ LoopTypeOK' /\ ConnTypeOK'
  BY DEF IInv, TypeOK, KernelTypeOK, LoopTypeOK, ConnTypeOK, loopVars
<1>2. BatchShaped' /\ TableSound' /\ CountExact' /\ EventsFresh'
  BY DEF IInv, BatchShaped, TableSound, CountExact, EventsFresh, Live, Entries, loopVars
<1> QED BY <1>1, <1>2 DEF IInv, TypeOK

LEMMA WorkerInv ==
  ASSUME IInv, NEW w \in Workers, Worker(w)
  PROVE  IInv'
<1>1. /\ job[w] \in Job /\ JobShaped(job[w]) /\ closeQueue \in Seq(Request)
      /\ tasks \in Seq(Task) /\ status \in [Objs -> Statuses] /\ ArmedAreOpen
      /\ interest \in [Fds -> {"off", "in", "out"}] /\ sock \in [Objs -> Fds \cup {NoFd}]
  BY DEF IInv, TypeOK, KernelTypeOK, WorkTypeOK, ConnTypeOK, JobsShaped
<1>2. CASE WorkerTake(w)
  <2>1. /\ tasks # <<>> /\ tasks' = Tail(tasks)
        /\ job' = [job EXCEPT ![w] = [NoJob EXCEPT !.obj = Head(tasks).obj,
                                        !.cl = Head(tasks).cl, !.at = "switch"]]
        /\ UNCHANGED <<kernelVars, loopVars, connVars, closeQueue>>
    BY <1>2 DEF WorkerTake
  <2>2. Head(tasks) \in Task /\ tasks' \in Seq(Task)
    BY <1>1, <2>1, HeadTailProperties
  <2> DEFINE j == [NoJob EXCEPT !.obj = Head(tasks).obj, !.cl = Head(tasks).cl,
                                !.at = "switch"]
  <2>3. j \in Job /\ JobShaped(j)
    BY <2>2, IdleJob DEF NoJob, Job, JobShaped, Task
  <2>4. job' = [job EXCEPT ![w] = j]
    BY <2>1
  <2> HIDE DEF j
  <2>5. job' \in [Workers -> Job] /\ JobsShaped'
    BY <2>3, <2>4, JobStep
  <2>6. WorkTypeOK' /\ ArmedAreOpen'
    BY <1>1, <2>1, <2>2, <2>5 DEF WorkTypeOK, ArmedAreOpen, kernelVars
  <2> QED BY <1>1, <2>1, <2>5, <2>6, WorkerFrame DEF kernelVars, connVars
<1>3. CASE WorkerSwitch(w)
  <2>1. PICK p \in Programs(status[job[w].obj]) :
          job' = [job EXCEPT ![w] = IF p.ops = <<>> THEN NoJob
                                    ELSE [@ EXCEPT !.todo = p.ops, !.at = "op"]]
    BY <1>3 DEF WorkerSwitch
  <2>2. /\ job[w].at = "switch"
        /\ UNCHANGED <<kernelVars, loopVars, connVars, closeQueue, tasks>>
    BY <1>3 DEF WorkerSwitch, Busy
  <2>3. p.ops \in Seq(Op)
    <3>1. status[job[w].obj] \in Statuses
      BY <1>1, <2>2 DEF JobShaped
    <3>2. p \in Program
      BY <3>1, <2>1, ProgramsType
    <3> QED BY <3>2 DEF Program
  <2> DEFINE j == IF p.ops = <<>> THEN NoJob
                  ELSE [job[w] EXCEPT !.todo = p.ops, !.at = "op"]
  <2>4. j \in Job /\ JobShaped(j)
    BY <1>1, <2>2, <2>3, IdleJob DEF Job, JobShaped
  <2>5. job' = [job EXCEPT ![w] = j]
    BY <2>1
  <2> HIDE DEF j
  <2>6. job' \in [Workers -> Job] /\ JobsShaped'
    BY <2>4, <2>5, JobStep
  <2>7. WorkTypeOK' /\ ArmedAreOpen'
    BY <1>1, <2>2, <2>6 DEF WorkTypeOK, ArmedAreOpen, kernelVars
  <2> QED BY <1>1, <2>2, <2>6, <2>7, WorkerFrame DEF kernelVars, connVars
<1>4. CASE WorkerReset(w)
  <2>1. /\ job[w].at = "op" /\ Advance(w)
        /\ status' = [status EXCEPT ![job[w].obj] = "OK"]
        /\ UNCHANGED <<kernelVars, loopVars, connects, sock, pool, count, closeQueue, tasks>>
    BY <1>4 DEF WorkerReset, Busy
  <2>2. status' \in [Objs -> Statuses]
    BY <1>1, <2>1 DEF Statuses
  <2>3. job' \in [Workers -> Job] /\ JobsShaped'
    BY <2>1, AdvanceStep
  <2>4. WorkTypeOK' /\ ArmedAreOpen'
    BY <1>1, <2>1, <2>3 DEF WorkTypeOK, ArmedAreOpen, kernelVars
  <2> QED BY <1>1, <2>1, <2>2, <2>3, <2>4, WorkerFrame DEF kernelVars
<1>5. CASE WorkerNextLoad(w)
  <2> DEFINE j == [job[w] EXCEPT !.at = "ctl", !.reg = sock[job[w].obj]]
  <2>1. /\ job[w].at = "op" /\ Head(job[w].todo) \in {"in", "out"}
        /\ job' = [job EXCEPT ![w] = j]
        /\ UNCHANGED <<kernelVars, loopVars, connVars, closeQueue, tasks>>
    BY <1>5 DEF WorkerNextLoad, Busy, IInv, TypeOK, WorkTypeOK
  <2>2. j \in Job /\ JobShaped(j)
    BY <1>1, <2>1 DEF Job, JobShaped
  <2> HIDE DEF j
  <2>3. job' \in [Workers -> Job] /\ JobsShaped'
    BY <2>1, <2>2, JobStep
  <2>4. WorkTypeOK' /\ ArmedAreOpen'
    BY <1>1, <2>1, <2>3 DEF WorkTypeOK, ArmedAreOpen, kernelVars
  <2> QED BY <1>1, <2>1, <2>3, <2>4, WorkerFrame DEF kernelVars, connVars
<1>6. CASE WorkerNextCtl(w)
  <2>1. /\ job[w].at = "ctl" /\ Advance(w)
        /\ interest' = [f \in Fds |-> IF f = job[w].reg /\ fdOwner[f] # Null
                                      THEN Head(job[w].todo) ELSE interest[f]]
        /\ UNCHANGED <<arrived, backlog, hup, fdOwner, edge, loopVars, connVars,
                       closeQueue, tasks>>
    BY <1>6 DEF WorkerNextCtl, Busy
  <2>2. interest' \in [Fds -> {"off", "in", "out"}] /\ ArmedAreOpen'
    BY <1>1, <2>1 DEF JobShaped, ArmedAreOpen
  <2>3. job' \in [Workers -> Job] /\ JobsShaped'
    BY <2>1, AdvanceStep
  <2>4. WorkTypeOK'
    BY <1>1, <2>1, <2>3 DEF WorkTypeOK
  <2> QED BY <1>1, <2>1, <2>2, <2>3, <2>4, WorkerFrame DEF connVars
<1>7. CASE WorkerNotifyTest(w)
  <2>1. /\ job[w].at = "op" /\ (Advance(w) \/ Goto(w, "mark"))
        /\ UNCHANGED <<kernelVars, loopVars, connVars, closeQueue, tasks>>
    BY <1>7 DEF WorkerNotifyTest, Busy
  <2>2. job' \in [Workers -> Job] /\ JobsShaped'
    <3>1. CASE Advance(w)
      BY <2>1, <3>1, AdvanceStep
    <3>2. CASE Goto(w, "mark")
      <4> DEFINE j == [job[w] EXCEPT !.at = "mark"]
      <4>1. j \in Job /\ JobShaped(j) /\ job' = [job EXCEPT ![w] = j]
        BY <1>1, <2>1, <3>2 DEF Job, JobShaped, Goto, IInv, TypeOK, WorkTypeOK
      <4> HIDE DEF j
      <4> QED BY <4>1, JobStep
    <3> QED BY <2>1, <3>1, <3>2
  <2>3. WorkTypeOK' /\ ArmedAreOpen'
    BY <1>1, <2>1, <2>2 DEF WorkTypeOK, ArmedAreOpen, kernelVars
  <2> QED BY <1>1, <2>1, <2>2, <2>3, WorkerFrame DEF kernelVars, connVars
<1>8. CASE WorkerNotifyMark(w)
  <2> DEFINE j == [job[w] EXCEPT !.at = "push"]
  <2>1. /\ job[w].at = "mark" /\ job' = [job EXCEPT ![w] = j]
        /\ status' = [status EXCEPT ![job[w].obj] = "CLOSE"]
        /\ UNCHANGED <<kernelVars, loopVars, connects, sock, pool, count, closeQueue, tasks>>
    BY <1>8 DEF WorkerNotifyMark, Busy, Goto, IInv, TypeOK, WorkTypeOK
  <2>2. j \in Job /\ JobShaped(j)
    BY <1>1, <2>1 DEF Job, JobShaped
  <2> HIDE DEF j
  <2>3. job' \in [Workers -> Job] /\ JobsShaped' /\ status' \in [Objs -> Statuses]
    BY <1>1, <2>1, <2>2, JobStep DEF Statuses
  <2>4. WorkTypeOK' /\ ArmedAreOpen'
    BY <1>1, <2>1, <2>3 DEF WorkTypeOK, ArmedAreOpen, kernelVars
  <2> QED BY <1>1, <2>1, <2>3, <2>4, WorkerFrame DEF kernelVars
<1>9. CASE WorkerNotifyPush(w)
  <2>1. /\ job[w].at = "push" /\ Advance(w)
        /\ closeQueue' = Append(closeQueue, [fd |-> sock[job[w].obj], cl |-> job[w].cl])
        /\ UNCHANGED <<kernelVars, loopVars, connVars, tasks>>
    BY <1>9 DEF WorkerNotifyPush, Busy
  <2>2. [fd |-> sock[job[w].obj], cl |-> job[w].cl] \in Request
    BY <1>1, <2>1 DEF Request, JobShaped
  <2>3. closeQueue' \in Seq(Request)
    BY <1>1, <2>1, <2>2, AppendProperties
  <2>4. job' \in [Workers -> Job] /\ JobsShaped'
    BY <2>1, AdvanceStep
  <2>5. WorkTypeOK' /\ ArmedAreOpen'
    BY <1>1, <2>1, <2>3, <2>4 DEF WorkTypeOK, ArmedAreOpen, kernelVars
  <2> QED BY <1>1, <2>1, <2>4, <2>5, WorkerFrame DEF kernelVars, connVars
<1> QED BY <1>2, <1>3, <1>4, <1>5, <1>6, <1>7, <1>8, <1>9 DEF Worker

-----------------------------------------------------------------------------
(* The theorems *)

LEMMA StutterInv ==
  ASSUME IInv, UNCHANGED vars
  PROVE  IInv'
<1>1. WorkTypeOK' /\ JobsShaped' /\ ArmedAreOpen'
  BY DEF IInv, TypeOK, WorkTypeOK, JobsShaped, ArmedAreOpen, vars, kernelVars
<1>2. UNCHANGED <<kernelVars, loopVars, connVars>>
  BY DEF vars
<1> QED BY <1>1, <1>2, WorkerFrame
        DEF kernelVars, connVars, IInv, TypeOK, KernelTypeOK, ConnTypeOK

\* Every state that the program reaches satisfies the inductive invariant,
\* whatever the handlers, the clients and the interleaving with the workers.
THEOREM Invariance == Spec => []IInv
<1>1. Init => IInv
  BY InitInv
<1>2. IInv /\ [Next]_vars => IInv'
  BY LoopInv, WorkerInv, EnvironmentInv, StutterInv DEF Next, Stopped
<1> QED BY <1>1, <1>2, PTL DEF Spec

\* Every variable of the loop and its workers keeps its type.
THEOREM TypeCorrect == Spec => []TypeOK
<1>1. IInv => TypeOK
  BY DEF IInv
<1> QED BY <1>1, Invariance, PTL

\* The connection table, the kernel's descriptors, the objects and the object
\* pool agree whenever the loop runs (wait, CONNECTS_REMOVE_FD).
THEOREM TableAgreement == Spec => []TableSound
<1>1. IInv => TableSound
  BY DEF IInv
<1> QED BY <1>1, Invariance, PTL

\* current_connect_count counts the entries of the table, failed accepts
\* included, and max_connect_count bounds it.
THEOREM CountIsExact == Spec => []CountExact
<1>1. IInv => CountExact
  BY DEF IInv
<1> QED BY <1>1, Invariance, PTL

\* No event of a batch is dispatched to a connection accepted after it was
\* reported, although descriptor numbers are reused within the batch.
THEOREM FreshEvents == Spec => []EventsFresh
<1>1. IInv => EventsFresh
  BY DEF IInv
<1> QED BY <1>1, Invariance, PTL

-----------------------------------------------------------------------------
(* The event loop implements the service it promises: every behaviour of      *)
(* ConvSingle is, through the mapping of ConvSingle!Service, a behaviour of   *)
(* ConnService.  A step of the program is first classified by what the        *)
(* service can see of it, and each class is then simulated.                   *)

\* A client has one descriptor at most, and has it only once it has arrived
\* and left the listen queue; the entry connects[-1] exists only if there is
\* a place to lose.
ServedSound ==
  /\ Owned \subseteq arrived \ backlog
  /\ \A f, g \in Fds : fdOwner[f] = fdOwner[g] /\ fdOwner[f] # Null => f = g
  /\ connects[NoFd] # Null => LostPlaces = 1

-----------------------------------------------------------------------------
(* What the service can see of a step *)

\* Nothing; at most, a failed accept takes a place for good.
Quiet ==
  /\ UNCHANGED <<arrived, backlog, hup, fdOwner>>
  /\ pc' = "closed" <=> pc = "closed"
  /\ connects'[NoFd] # Null => connects[NoFd] # Null \/ LostPlaces = 1

Removes(fd) ==
  /\ fdOwner[fd] # Null /\ fdOwner' = [fdOwner EXCEPT ![fd] = Null]
  /\ pc # "closed" /\ pc' # "closed"
  /\ UNCHANGED <<arrived, backlog, hup>> /\ connects'[NoFd] = connects[NoFd]

Admits(fd, c) ==
  /\ fdOwner[fd] = Null /\ fdOwner' = [fdOwner EXCEPT ![fd] = c]
  /\ backlog' = backlog \ {c} /\ count < MaxConnect
  /\ pc # "closed" /\ pc' # "closed"
  /\ UNCHANGED <<arrived, hup>> /\ connects'[NoFd] = connects[NoFd]

Refuses(c) ==
  /\ backlog' = backlog \ {c} /\ count >= MaxConnect
  /\ pc # "closed" /\ pc' # "closed"
  /\ UNCHANGED <<arrived, hup, fdOwner, connects>>

Visible == \/ \E fd \in Fds : Removes(fd)
           \/ \E fd \in Fds, c \in backlog : Admits(fd, c)
           \/ \E c \in backlog : Refuses(c)
           \/ \E c \in Clients : Arrive(c) \/ HangUp(c)
           \/ Close

LEMMA ConnectsRemoved ==
  ASSUME IInv, NEW fd \in Fds, connects[fd] # Null, pc # "closed", pc' # "closed",
         ConnectsRemoveFd(fd)
  PROVE  Removes(fd)
<1>1. sock[connects[fd]] = fd /\ fdOwner[fd] # Null /\ fd # NoFd
  BY Parameters DEF IInv, TypeOK, ConnTypeOK, TableSound, Parameters
<1> QED BY <1>1 DEF Removes, ConnectsRemoveFd, IInv, TypeOK, ConnTypeOK

\* A failed accept finds every descriptor in use, so the table has room for
\* one entry more than there are descriptors.
LEMMA LostPlace ==
  ASSUME IInv, pc # "closed", NoFd \in AcceptResults, connects[NoFd] = Null, ~TableFull
  PROVE  LostPlaces = 1
<1>1. CASE AcceptMayFail
  BY <1>1 DEF LostPlaces
<1>2. CASE ~AcceptMayFail
  <2>1. \A f \in Fds : fdOwner[f] # Null
    BY <1>2, Parameters DEF AcceptResults, FreeFds, Parameters
  <2>2. Entries = Fds
    BY <2>1, TableFacts DEF IInv, TableSound
  <2>3. Cardinality(Fds) < MaxConnect
    BY <2>2, Parameters, TableFacts DEF IInv, CountExact, TableFull, Parameters, TypeOK, ConnTypeOK
  <2> QED BY <2>3 DEF LostPlaces
<1> QED BY <1>1, <1>2

LEMMA AcceptKinds ==
  ASSUME IInv, NEW e \in batch, NEW c \in backlog,
         AcceptOver(e, c) \/ AcceptOccupied(e, c) \/ AcceptInstall(e, c)
  PROVE  Quiet \/ Visible
<1>1. pc # "closed" /\ pc' # "closed" /\ UNCHANGED <<arrived, hup>>
  BY TakeFacts DEF AcceptOver, AcceptOccupied, AcceptInstall
<1>2. count \in Nat /\ MaxConnect \in Nat /\ NoFd \notin Fds
  BY Parameters DEF IInv, TypeOK, ConnTypeOK, Parameters
<1>3. CASE AcceptOver(e, c)
  <2>1. PICK fd \in AcceptResults : backlog' = BacklogAfter(fd, c)
    BY <1>3 DEF AcceptOver
  <2>2. /\ UNCHANGED <<fdOwner, connects>> /\ count >= MaxConnect
    BY <1>3 DEF AcceptOver, TableFull, connVars
  <2> QED BY <1>1, <2>1, <2>2 DEF BacklogAfter, Quiet, Visible, Refuses
<1>4. CASE AcceptOccupied(e, c)
  <2>1. PICK fd \in AcceptResults : ~EntryFree(fd) /\ backlog' = BacklogAfter(fd, c)
    BY <1>4 DEF AcceptOccupied
  <2>2. fd = NoFd
    BY <1>1, <2>1 DEF AcceptResults, FreeFds, EntryFree, IInv, TableSound
  <2> QED BY <1>1, <1>4, <2>1, <2>2 DEF AcceptOccupied, BacklogAfter, Quiet
<1>5. CASE AcceptInstall(e, c)
  <2>1. PICK fd \in AcceptResults, t \in Acquirable : Install(fd, t, c)
    BY <1>5 DEF AcceptInstall
  <2>2. /\ connects[fd] = Null /\ backlog' = BacklogAfter(fd, c)
        /\ fdOwner' = [fdOwner EXCEPT ![fd] = c]
        /\ connects' = [connects EXCEPT ![fd] = t]
    BY <2>1 DEF Install, ConnInit, EntryFree
  <2>3. ~TableFull
    BY <1>5 DEF AcceptInstall
  <2>4. count < MaxConnect
    BY <1>2, <2>3 DEF TableFull
  <2>5. CASE fd = NoFd
    <3>1. LostPlaces = 1
      BY <1>1, <2>2, <2>3, <2>5, LostPlace
    <3>2. fdOwner' = fdOwner
      BY <1>2, <2>2, <2>5 DEF IInv, TypeOK, KernelTypeOK
    <3> QED BY <1>1, <2>2, <2>5, <3>1, <3>2 DEF Quiet, BacklogAfter
  <2>6. CASE fd # NoFd
    <3>1. fd \in Fds /\ fdOwner[fd] = Null
      BY <2>6 DEF AcceptResults, FreeFds
    <3>2. connects'[NoFd] = connects[NoFd]
      BY <2>2, <2>6 DEF IInv, TypeOK, ConnTypeOK
    <3> QED BY <1>1, <2>2, <2>4, <2>6, <3>1, <3>2 DEF Visible, Admits, BacklogAfter
  <2> QED BY <2>5, <2>6
<1> QED BY <1>3, <1>4, <1>5

\* Every step is invisible or one of the service's.
LEMMA StepKinds ==
  ASSUME IInv, [Next]_vars
  PROVE  Quiet \/ Visible
<1>1. ASSUME UNCHANGED <<arrived, backlog, hup, fdOwner, connects>>,
             pc' = "closed" <=> pc = "closed"
      PROVE  Quiet
  BY <1>1 DEF Quiet
<1>2. CASE UNCHANGED vars
  BY <1>1, <1>2 DEF vars, kernelVars, connVars, loopVars
<1>3. CASE DrainOne
  <2> DEFINE fd == Head(closeQueue).fd
  <2>1. /\ pc # "closed" /\ pc' = pc /\ closeQueue # <<>>
        /\ IF fd = NoFd \/ connects[fd] = Null
           THEN UNCHANGED <<kernelVars, connVars>> ELSE ConnectsRemoveFd(fd)
    BY <1>3 DEF DrainOne, Draining, loopVars
  <2>2. fd \in Fds \cup {NoFd}
    <3>1. closeQueue \in Seq(Request)
      BY DEF IInv, TypeOK, WorkTypeOK
    <3>2. Head(closeQueue) \in Request
      BY <2>1, <3>1, HeadTailProperties
    <3> QED BY <3>2 DEF Request
  <2> HIDE DEF fd
  <2>3. CASE fd = NoFd \/ connects[fd] = Null
    BY <1>1, <2>1, <2>3 DEF kernelVars, connVars
  <2>4. CASE fd # NoFd /\ connects[fd] # Null
    BY <2>1, <2>2, <2>4, ConnectsRemoved DEF Visible
  <2> QED BY <2>3, <2>4
<1>4. CASE DrainDone \/ EpollWait \/ EpollFails
  <2>1. UNCHANGED <<arrived, backlog, hup, fdOwner, connects>>
    BY <1>4 DEF DrainDone, EpollWait, EpollFails, kernelVars, connVars
  <2>2. pc # "closed" /\ pc' # "closed"
    BY <1>4 DEF DrainDone, EpollWait, EpollFails, NextRound
  <2> QED BY <1>1, <2>1, <2>2
<1>5. ASSUME NEW e \in batch, Dispatch(e) PROVE Quiet \/ Visible
  <2>1. ASSUME NEW c \in backlog,
               AcceptOver(e, c) \/ AcceptOccupied(e, c) \/ AcceptInstall(e, c)
        PROVE  Quiet \/ Visible
    BY <2>1, AcceptKinds
  <2>2. CASE DispatchToPool(e)
    <3>1. UNCHANGED <<arrived, backlog, hup, fdOwner, connects>> /\ TakeEvent(e)
      BY <2>2 DEF DispatchToPool, kernelVars
    <3> QED BY <1>1, <3>1, TakeFacts
  <2>3. ASSUME TakeEvent(e), e.ev # "accept", connects[e.fd] # Null, ConnectsRemoveFd(e.fd)
        PROVE  Visible
    BY <2>3, TakeFacts, ConnectsRemoved DEF Visible
  <2>4. CASE DispatchOverload(e) \/ DispatchOther(e)
    BY <2>3, <2>4 DEF DispatchOverload, DispatchOther, HandlerEvents
  <2>5. CASE DispatchInline(e)
    <3>1. /\ TakeEvent(e) /\ e.ev # "accept" /\ connects[e.fd] # Null
          /\ \/ ConnectsRemoveFd(e.fd)
             \/ UNCHANGED <<arrived, backlog, hup, fdOwner, connects>>
      BY <2>5 DEF DispatchInline, HandlerEvents
    <3> QED BY <1>1, <2>3, <3>1, TakeFacts
  <2> QED BY <1>5, <2>1, <2>2, <2>4, <2>5 DEF Dispatch
<1>6. ASSUME NEW w \in Workers, Worker(w) PROVE Quiet
  <2>1. ASSUME WorkerTake(w) \/ WorkerSwitch(w) \/ WorkerReset(w) \/ WorkerNextLoad(w)
        PROVE  UNCHANGED <<arrived, backlog, hup, fdOwner, connects, pc>>
    BY <2>1 DEF WorkerTake, WorkerSwitch, WorkerReset, WorkerNextLoad,
                kernelVars, loopVars, connVars
  <2>2. ASSUME \/ WorkerNextCtl(w) \/ WorkerNotifyTest(w)
               \/ WorkerNotifyMark(w) \/ WorkerNotifyPush(w)
        PROVE  UNCHANGED <<arrived, backlog, hup, fdOwner, connects, pc>>
    BY <2>2 DEF WorkerNextCtl, WorkerNotifyTest, WorkerNotifyMark, WorkerNotifyPush,
                kernelVars, loopVars, connVars
  <2> QED BY <1>1, <1>6, <2>1, <2>2 DEF Worker
<1>7. CASE StopRequest
  BY <1>1, <1>7 DEF StopRequest, kernelVars, connVars
<1> QED BY <1>2, <1>3, <1>4, <1>5, <1>6, <1>7
        DEF Next, Loop, Environment, Stopped, Visible

-----------------------------------------------------------------------------
(* The simulation *)

\* The abstract service counts its clients with its own instance of FiniteSets.
LEMMA SameCardinality ==
  ASSUME NEW S
  PROVE  Service!Cardinality(S) = Cardinality(S)
BY Zenon DEF Cardinality, Service!Cardinality, IsFiniteSet, Service!IsFiniteSet

\* The clients the service serves are those that have a descriptor.
LEMMA ServedAre ==
  ASSUME IInv, ServedSound
  PROVE  Service!In("served") = Owned
<1>1. arrived \subseteq Clients /\ Owned \subseteq arrived \ backlog
  BY DEF IInv, TypeOK, KernelTypeOK, ServedSound
<1>2. \A c \in Clients : Phase(c) = "served" <=> c \in arrived /\ c \notin backlog /\ c \in Owned
  BY DEF Phase
<1> QED BY <1>1, <1>2 DEF Service!In

\* The count is the number of clients served, plus the place a failed accept
\* has taken.
LEMMA Places ==
  ASSUME IInv, ServedSound, pc # "closed"
  PROVE  /\ IsFiniteSet(Owned) /\ Cardinality(Owned) \in Nat
         /\ Cardinality(Owned) <= count /\ count <= Cardinality(Owned) + LostPlaces
<1> DEFINE Open == {fd \in Fds : fdOwner[fd] # Null}
           F == [fd \in Open |-> fdOwner[fd]]
<1>1. IsFiniteSet(Open) /\ NoFd \notin Open
  BY Parameters, FS_Subset DEF Parameters
<1>2. Owned = {fdOwner[fd] : fd \in Open}
  BY DEF Owned, Range, IInv, TypeOK, KernelTypeOK
<1>3. F \in Bijection(Open, Owned)
  <2>1. F \in [Open -> Owned] /\ \A c \in Owned : \E fd \in Open : F[fd] = c
    BY <1>2
  <2>2. \A f, g \in Open : F[f] = F[g] => f = g
    BY DEF ServedSound
  <2> HIDE DEF F, Open
  <2> QED BY <2>1, <2>2, Fun_IsBij
<1>4. IsFiniteSet(Owned) /\ Cardinality(Owned) = Cardinality(Open)
  <2>1. ExistsBijection(Open, Owned)
    BY <1>3 DEF ExistsBijection
  <2> HIDE DEF Open
  <2> QED BY <1>1, <2>1, FS_Bijection
<1>5. Entries = IF connects[NoFd] = Null THEN Open ELSE Open \cup {NoFd}
  BY TableFacts DEF IInv, TableSound
<1>6. Cardinality(Open \cup {NoFd}) = Cardinality(Open) + 1 /\ Cardinality(Open) \in Nat
  <2> HIDE DEF Open
  <2> QED BY <1>1, FS_AddElement, FS_CardinalityType
<1>7. count = Cardinality(Entries) /\ LostPlaces \in {0, 1}
  BY DEF IInv, CountExact, LostPlaces
<1> HIDE DEF Open
<1> QED BY <1>4, <1>5, <1>6, <1>7 DEF ServedSound

LEMMA ServiceInit == Init => Service!Init /\ ServedSound
<1> SUFFICES ASSUME Init PROVE Service!Init /\ ServedSound
  OBVIOUS
<1>1. /\ arrived = {} /\ hup = {} /\ pc = "drain" /\ fdOwner = [f \in Fds |-> Null]
      /\ connects = [f \in Fds \cup {NoFd} |-> Null]
  BY DEF Init
<1>2. Owned = {}
  BY <1>1 DEF Owned, Range
<1>3. \A c \in Clients : Phase(c) = "away"
  BY <1>1 DEF Phase
<1> QED BY <1>1, <1>2, <1>3 DEF Service!Init, ServedSound

LEMMA QuietStep ==
  ASSUME IInv, ServedSound, Quiet
  PROVE  ServedSound' /\ UNCHANGED Service!vars
<1>1. UNCHANGED <<arrived, backlog, hup, fdOwner>> /\ Owned' = Owned
  BY DEF Quiet, Owned
<1>2. \A c \in Clients : Phase(c)' = Phase(c)
  BY <1>1 DEF Phase
<1>3. ServedSound'
  BY <1>1 DEF ServedSound, Quiet, LostPlaces
<1> QED BY <1>1, <1>2, <1>3 DEF Service!vars, Quiet

\* Closing a connection ends it for its client, who has no other.
LEMMA RemoveSimulates ==
  ASSUME IInv, ServedSound, NEW fd \in Fds, Removes(fd)
  PROVE  ServedSound' /\ Service!Next
<1> DEFINE c == fdOwner[fd]
<1>1. /\ c \in Clients /\ c \in Owned /\ c \in arrived /\ c \notin backlog
      /\ fdOwner \in [Fds -> Clients \cup {Null}]
  BY DEF IInv, TypeOK, KernelTypeOK, Removes, ServedSound, Owned, Range
<1>2. Owned' = Owned \ {c}
  BY <1>1 DEF Removes, ServedSound, Owned, Range
<1>3. UNCHANGED <<arrived, backlog, hup>> /\ pc # "closed" /\ pc' # "closed"
  BY DEF Removes
<1>4. \A d \in Clients : Phase(d)' = IF d = c THEN "gone" ELSE Phase(d)
  BY <1>1, <1>2, <1>3 DEF Phase
<1>5. Phase(c) = "served"
  BY <1>1 DEF Phase
<1>6. ServedSound'
  BY <1>1, <1>2, <1>3 DEF ServedSound, Removes, LostPlaces
<1> HIDE DEF c
<1>7. Service!End(c)
  BY <1>1, <1>3, <1>4, <1>5 DEF Service!End
<1> QED BY <1>1, <1>6, <1>7 DEF Service!Next

\* A new connection is admitted while places are left.
LEMMA AdmitSimulates ==
  ASSUME IInv, ServedSound, NEW fd \in Fds, NEW c \in backlog, Admits(fd, c)
  PROVE  ServedSound' /\ Service!Next
<1>1. /\ c \in Clients /\ c \in arrived /\ c \notin Owned /\ c # Null
      /\ fdOwner \in [Fds -> Clients \cup {Null}]
  BY Parameters DEF IInv, TypeOK, KernelTypeOK, ServedSound, Parameters
<1>2. Owned' = Owned \cup {c}
  BY <1>1 DEF Admits, Owned, Range
<1>3. /\ UNCHANGED <<arrived, hup>> /\ backlog' = backlog \ {c}
      /\ pc # "closed" /\ pc' # "closed" /\ count < MaxConnect
  BY DEF Admits
<1>4. \A d \in Clients : Phase(d)' = IF d = c THEN "served" ELSE Phase(d)
  BY <1>1, <1>2, <1>3 DEF Phase
<1>5. Phase(c) = "waiting"
  BY <1>1 DEF Phase
<1>6. Cardinality(Service!In("served")) < MaxConnect
  BY <1>3, ServedAre, Places, Parameters DEF Parameters, IInv, TypeOK, ConnTypeOK
<1>7. ServedSound'
  <2>1. \A f \in Fds : fdOwner[f] # c
    BY <1>1 DEF Owned, Range
  <2> QED BY <1>1, <1>2, <1>3, <2>1 DEF ServedSound, Admits, LostPlaces
<1>8. Service!Admit(c)
  BY <1>1, <1>3, <1>4, <1>5, <1>6, SameCardinality DEF Service!Admit
<1> QED BY <1>1, <1>7, <1>8 DEF Service!Next

\* A client is turned away only when all places but a lost one are taken.
LEMMA RefuseSimulates ==
  ASSUME IInv, ServedSound, NEW c \in backlog, Refuses(c)
  PROVE  ServedSound' /\ Service!Next
<1>1. c \in Clients /\ c \in arrived /\ c \notin Owned /\ Owned' = Owned
  BY DEF IInv, TypeOK, KernelTypeOK, ServedSound, Refuses, Owned
<1>2. /\ UNCHANGED <<arrived, hup, fdOwner, connects>> /\ backlog' = backlog \ {c}
      /\ pc # "closed" /\ pc' # "closed" /\ count >= MaxConnect
  BY DEF Refuses
<1>3. \A d \in Clients : Phase(d)' = IF d = c THEN "gone" ELSE Phase(d)
  BY <1>1, <1>2 DEF Phase
<1>4. Phase(c) = "waiting"
  BY <1>1 DEF Phase
<1>5. Cardinality(Service!In("served")) + LostPlaces >= MaxConnect
  <2>1. LostPlaces \in {0, 1}
    BY DEF LostPlaces
  <2> QED BY <1>2, <2>1, ServedAre, Places, Parameters
          DEF Parameters, IInv, TypeOK, ConnTypeOK
<1>6. ServedSound'
  BY <1>1, <1>2 DEF ServedSound, LostPlaces
<1>7. Service!Refuse(c)
  BY <1>1, <1>2, <1>3, <1>4, <1>5, SameCardinality DEF Service!Refuse
<1> QED BY <1>1, <1>6, <1>7 DEF Service!Next

LEMMA ClientSimulates ==
  ASSUME IInv, ServedSound, NEW c \in Clients, Arrive(c) \/ HangUp(c)
  PROVE  ServedSound' /\ Service!Next
<1>1. /\ UNCHANGED <<fdOwner, connects, pc>> /\ Owned' = Owned
  BY DEF Arrive, HangUp, loopVars, connVars, Owned
<1>2. Owned \subseteq arrived \ backlog /\ backlog \subseteq arrived
  BY DEF IInv, TypeOK, KernelTypeOK, ServedSound
<1>3. CASE Arrive(c)
  <2>1. /\ c \notin arrived /\ pc # "closed" /\ hup' = hup
        /\ arrived' = arrived \cup {c} /\ backlog' = backlog \cup {c}
    BY <1>3 DEF Arrive
  <2>2. /\ \A d \in Clients : Phase(d)' = IF d = c THEN "waiting" ELSE Phase(d)
        /\ Phase(c) = "away"
    BY <1>1, <2>1 DEF Phase
  <2>3. Service!Arrive(c)
    BY <1>1, <2>1, <2>2 DEF Service!Arrive
  <2>4. ServedSound'
    BY <1>1, <1>2, <2>1 DEF ServedSound, LostPlaces
  <2> QED BY <2>3, <2>4 DEF Service!Next
<1>4. CASE HangUp(c)
  <2>1. /\ c \in (backlog \cup Owned) \ hup /\ hup' = hup \cup {c}
        /\ UNCHANGED <<arrived, backlog>>
    BY <1>4 DEF HangUp
  <2>2. /\ \A d \in Clients : Phase(d)' = Phase(d)
        /\ Phase(c) \in {"waiting", "served"}
    BY <1>1, <1>2, <2>1 DEF Phase
  <2>3. Service!Leave(c)
    BY <1>1, <2>1, <2>2 DEF Service!Leave
  <2>4. ServedSound'
    BY <1>1, <1>2, <2>1 DEF ServedSound, LostPlaces
  <2> QED BY <2>3, <2>4 DEF Service!Next
<1> QED BY <1>3, <1>4

\* conv_single::close drops the listen queue and keeps every descriptor.
LEMMA CloseSimulates ==
  ASSUME IInv, ServedSound, Close
  PROVE  ServedSound' /\ Service!Next
<1>1. /\ UNCHANGED <<arrived, hup, fdOwner>> /\ backlog' = {} /\ Owned' = Owned
      /\ pc # "closed" /\ pc' = "closed" /\ connects'[NoFd] = Null
  BY DEF Close, Owned
<1>2. \A c \in Clients : Phase(c)' = IF Phase(c) = "waiting" THEN "gone" ELSE Phase(c)
  BY <1>1 DEF Phase, ServedSound
<1>3. ServedSound'
  BY <1>1 DEF ServedSound
<1>4. Service!Stop
  BY <1>1, <1>2 DEF Service!Stop
<1> QED BY <1>3, <1>4 DEF Service!Next

-----------------------------------------------------------------------------
(* The theorem *)

LEMMA StepSimulates ==
  ASSUME IInv, ServedSound, [Next]_vars
  PROVE  ServedSound' /\ [Service!Next]_(Service!vars)
<1>1. CASE Quiet
  BY <1>1, QuietStep
<1>2. CASE Visible
  BY <1>2, RemoveSimulates, AdmitSimulates, RefuseSimulates, ClientSimulates,
     CloseSimulates DEF Visible
<1> QED BY <1>1, <1>2, StepKinds

\* The loop, its workers and its handlers implement the service: at most
\* max_connect_count clients are served, none is turned away while a place is
\* left (but for the one that failed accepts take), none is served twice, and
\* only the loop's removal of its entry ends a connection (wait,
\* CONNECTS_REMOVE_FD, close).
THEOREM Refinement == Spec => Implements
<1>1. Init => IInv /\ ServedSound /\ Service!Init
  BY InitInv, ServiceInit
<1>2. IInv /\ ServedSound /\ [Next]_vars => ServedSound' /\ [Service!Next]_(Service!vars)
  BY StepSimulates
<1> QED BY <1>1, <1>2, Invariance, PTL DEF Spec, Implements, Service!Spec

-----------------------------------------------------------------------------
(***************************************************************************)
(* What the framework gives to a handler that does as the README asks:     *)
(* with workers and one-shot delivery, and handlers each of whose paths    *)
(* ends in one call of next() or one of notify_close(), every connection   *)
(* is in one place at any time.  It is armed in epoll, or has an event in  *)
(* the batch, or a task, or a worker, or a close request: not in two, so   *)
(* that one worker at a time serves it and nobody else's request closes    *)
(* it, and not in none, so that it is never forgotten.                     *)
(***************************************************************************)

\* Every path, as process_in_base and process_out_base complete it, is one
\* call; there are workers, and an event disarms its descriptor.
Disciplined ==
  /\ MultiThread /\ OneShot
  /\ \A p \in InPaths \cup OutPaths : \E x \in Call : Based(p).ops = <<x>>

-----------------------------------------------------------------------------
(* The inductive invariant *)

\* Client c is served through the object o, and through no other.
Holds(c, o) == sock[o] \in Fds /\ fdOwner[sock[o]] = c /\ connects[sock[o]] = o

Dispatched == {"RDHUP", "ERROR", "OUT", "IN"}

\* Tasks, jobs and requests are about the connection they were made for.
TaskSound(t) == Holds(t.cl, t.obj) /\ status[t.obj] \in Dispatched
JobSound(j) ==
  j.at # "idle" =>
    /\ Holds(j.cl, j.obj)
    /\ j.at \in {"switch", "op", "mark"} => status[j.obj] \in Dispatched
    /\ j.at # "switch" => \E x \in Call : j.todo = <<x>>
    /\ j.at = "ctl" => j.reg = sock[j.obj]
RequestSound(r) == r.fd \in Fds /\ fdOwner[r.fd] = r.cl

AllSound ==
  /\ \A t \in Range(tasks) : TaskSound(t)
  /\ \A w \in Workers : JobSound(job[w])
  /\ \A r \in Range(closeQueue) : RequestSound(r)

\* There are no two of a kind for one client.
Distinct(s) == \A i, j \in DOMAIN s : s[i].cl = s[j].cl => i = j

NoTwo ==
  /\ Distinct(tasks) /\ Distinct(closeQueue)
  /\ \A v, w \in Workers :
       job[v].at # "idle" /\ job[w].at # "idle" /\ job[v].cl = job[w].cl => v = w

\* The places where the connection of a client is.
IsArmed(c)   == \E f \in Fds : fdOwner[f] = c /\ interest[f] # "off"
IsReady(c)   == \E e \in batch : e.ev # "accept" /\ e.cl = c
IsQueued(c)  == \E t \in Range(tasks) : t.cl = c
IsServed(c)  == \E w \in Workers : job[w].at # "idle" /\ job[w].cl = c
IsClosing(c) == \E r \in Range(closeQueue) : r.cl = c

Where(c) ==
  (IF IsArmed(c) THEN {"armed"} ELSE {}) \cup (IF IsReady(c) THEN {"ready"} ELSE {})
  \cup (IF IsQueued(c) THEN {"queued"} ELSE {}) \cup (IF IsServed(c) THEN {"served"} ELSE {})
  \cup (IF IsClosing(c) THEN {"closing"} ELSE {})

InOnePlace == \A c \in Owned : \E p \in Where(c) : Where(c) = {p}

DInv == pc # "closed" => AllSound /\ NoTwo /\ InOnePlace

SInv == IInv /\ ServedSound /\ DInv

-----------------------------------------------------------------------------
(* Places *)

LEMMA WhereIs ==
  ASSUME NEW c
  PROVE  /\ Where(c) \subseteq {"armed", "ready", "queued", "served", "closing"}
         /\ "armed" \in Where(c) <=> IsArmed(c)
         /\ "ready" \in Where(c) <=> IsReady(c)
         /\ "queued" \in Where(c) <=> IsQueued(c)
         /\ "served" \in Where(c) <=> IsServed(c)
         /\ "closing" \in Where(c) <=> IsClosing(c)
BY DEF Where

LEMMA WhereWillBe ==
  ASSUME NEW c
  PROVE  /\ Where(c)' \subseteq {"armed", "ready", "queued", "served", "closing"}
         /\ "armed" \in Where(c)' <=> IsArmed(c)'
         /\ "ready" \in Where(c)' <=> IsReady(c)'
         /\ "queued" \in Where(c)' <=> IsQueued(c)'
         /\ "served" \in Where(c)' <=> IsServed(c)'
         /\ "closing" \in Where(c)' <=> IsClosing(c)'
BY DEF Where

LEMMA WhereKept ==
  ASSUME NEW c, IsArmed(c)' <=> IsArmed(c), IsReady(c)' <=> IsReady(c),
         IsQueued(c)' <=> IsQueued(c), IsServed(c)' <=> IsServed(c),
         IsClosing(c)' <=> IsClosing(c)
  PROVE  Where(c)' = Where(c)
BY DEF Where

\* The sets that the invariant ranges over, typed.
LEMMA Types ==
  ASSUME IInv
  PROVE  /\ closeQueue \in Seq(Request) /\ Range(closeQueue) \subseteq Request
         /\ tasks \in Seq(Task) /\ Range(tasks) \subseteq Task
         /\ \A w \in Workers : job[w] \in Job /\ JobShaped(job[w])
         /\ Owned = {c \in Clients : \E f \in Fds : fdOwner[f] = c}
<1>1. closeQueue \in Seq(Request) /\ tasks \in Seq(Task) /\ job \in [Workers -> Job]
  BY DEF IInv, TypeOK, WorkTypeOK
<1>2. \A S : \A s \in Seq(S) : Range(s) \subseteq S
  BY LenProperties, ElementOfSeq DEF Range
<1>3. Owned = {c \in Clients : \E f \in Fds : fdOwner[f] = c}
  BY Parameters DEF IInv, TypeOK, KernelTypeOK, Owned, Range, Parameters
<1> QED BY <1>1, <1>2, <1>3 DEF IInv, JobsShaped

\* Whoever is in a place is served.
LEMMA Served ==
  ASSUME IInv, AllSound, pc # "closed", NEW c \in Clients,
         IsArmed(c) \/ IsReady(c) \/ IsQueued(c) \/ IsServed(c) \/ IsClosing(c)
  PROVE  c \in Owned
<1>1. CASE IsReady(c)
  <2>1. PICK e \in batch : e.ev # "accept" /\ e.cl = c
    BY <1>1 DEF IsReady
  <2>2. e.fd \in Fds
    BY <2>1 DEF IInv, TypeOK, LoopTypeOK, BatchShaped, Event
  <2> QED BY <2>1, <2>2, Types DEF IInv, EventsFresh
<1> QED BY <1>1, Types DEF IsArmed, IsQueued, IsServed, IsClosing, AllSound, TaskSound,
                           JobSound, RequestSound, Holds

\* Whoever is in a place is in no other.
LEMMA Alone ==
  ASSUME SInv, pc # "closed", NEW c \in Clients
  PROVE  /\ IsArmed(c) => Where(c) = {"armed"}
         /\ IsReady(c) => Where(c) = {"ready"}
         /\ IsQueued(c) => Where(c) = {"queued"}
         /\ IsServed(c) => Where(c) = {"served"}
         /\ IsClosing(c) => Where(c) = {"closing"}
<1>1. Where(c) # {} => c \in Owned
  BY Served, WhereIs DEF SInv, DInv
<1>2. \A p : p \in Where(c) => Where(c) = {p}
  BY <1>1 DEF SInv, DInv, InOnePlace
<1> QED BY <1>2, WhereIs

-----------------------------------------------------------------------------
(* Sequences in which there are no two of a client *)

LEMMA DistinctAppend ==
  ASSUME NEW S, NEW s \in Seq(S), NEW e \in S, Distinct(s),
         \A t \in Range(s) : t.cl # e.cl
  PROVE  Distinct(Append(s, e))
<1>1. /\ DOMAIN s = 1..Len(s) /\ Len(s) \in Nat
      /\ DOMAIN Append(s, e) = 1..(Len(s) + 1)
      /\ \A i \in 1..Len(s) : Append(s, e)[i] = s[i]
      /\ Append(s, e)[Len(s) + 1] = e
  BY LenProperties, AppendProperties
<1>2. \A i \in 1..Len(s) : s[i].cl # e.cl
  BY <1>1 DEF Range
<1> QED BY <1>1, <1>2 DEF Distinct

LEMMA DistinctTail ==
  ASSUME NEW S, NEW s \in Seq(S), s # <<>>, Distinct(s)
  PROVE  Distinct(Tail(s)) /\ \A t \in Range(Tail(s)) : t.cl # Head(s).cl
<1>1. /\ DOMAIN s = 1..Len(s) /\ Len(s) \in Nat \ {0}
      /\ DOMAIN Tail(s) = 1..(Len(s) - 1)
      /\ \A i \in 1..(Len(s) - 1) : Tail(s)[i] = s[i + 1]
      /\ Head(s) = s[1]
  BY LenProperties, HeadTailProperties, EmptySeq
<1> QED BY <1>1 DEF Distinct, Range

-----------------------------------------------------------------------------
(* Steps that concern one client leave the others alone *)

Spares(c) ==
  \A d \in Clients \ {c} :
    /\ \A o \in Objs : Holds(d, o) =>
         Holds(d, o)' /\ sock'[o] = sock[o] /\ status'[o] = status[o]
    /\ \A f \in Fds : fdOwner'[f] = d <=> fdOwner[f] = d

\* A step that moves c, or serves or ends it, and spares the others.
LEMMA OneConcerned ==
  ASSUME SInv, IInv', pc # "closed", NEW c \in Clients, Spares(c), NoTwo',
         \A t \in Range(tasks') : TaskSound(t)' \/ (t \in Range(tasks) /\ t.cl # c),
         \A w \in Workers : \/ JobSound(job[w])'
                            \/ job'[w] = job[w] /\ (job[w].at = "idle" \/ job[w].cl # c),
         \A r \in Range(closeQueue') : RequestSound(r)' \/ (r \in Range(closeQueue) /\ r.cl # c),
         c \in Owned' => \E p : Where(c)' = {p},
         \A d \in Clients \ {c} : Where(d)' = Where(d)
  PROVE  DInv'
<1>1. AllSound
  BY DEF SInv, DInv
<1>2. \A t \in Range(tasks') : TaskSound(t)'
  <2> SUFFICES ASSUME NEW t \in Range(tasks), t.cl # c PROVE TaskSound(t)'
    OBVIOUS
  <2>1. t.obj \in Objs /\ t.cl \in Clients \ {c} /\ TaskSound(t)
    BY <1>1, Types DEF SInv, Task, AllSound
  <2> QED BY <2>1 DEF TaskSound, Spares
<1>3. \A w \in Workers : JobSound(job[w])'
  <2> SUFFICES ASSUME NEW w \in Workers, job'[w] = job[w], job[w].at # "idle", job[w].cl # c
               PROVE  JobSound(job[w])'
    BY DEF JobSound
  <2>1. job[w].obj \in Objs /\ job[w].cl \in Clients \ {c} /\ JobSound(job[w])
    BY <1>1, Types DEF SInv, JobShaped, AllSound
  <2>2. PICK d \in Clients \ {c}, o \in Objs : d = job[w].cl /\ o = job[w].obj
    BY <2>1
  <2>3. Holds(d, o)' /\ sock'[o] = sock[o] /\ status'[o] = status[o]
    BY <2>1, <2>2 DEF JobSound, Spares
  <2>4. Holds(job[w].cl, job[w].obj)'
    BY <2>2, <2>3
  <2> QED BY <2>1, <2>2, <2>3, <2>4 DEF JobSound
<1>4. \A r \in Range(closeQueue') : RequestSound(r)'
  <2> SUFFICES ASSUME NEW r \in Range(closeQueue), r.cl # c PROVE RequestSound(r)'
    OBVIOUS
  <2>1. r.cl \in Clients \ {c} /\ RequestSound(r)
    BY <1>1, Types DEF SInv, Request, AllSound
  <2> QED BY <2>1 DEF RequestSound, Spares
<1>5. InOnePlace'
  <2>1. \A d \in Owned' \ {c} : d \in Owned /\ Where(d)' = Where(d) /\ d \in Clients
    <3>1. Owned' = {d \in Clients : \E f \in Fds : fdOwner'[f] = d}
      BY Parameters DEF IInv, TypeOK, KernelTypeOK, Owned, Range, Parameters
    <3> QED BY <3>1, Types DEF SInv, Spares
  <2>2. \A d \in Owned : \E p : Where(d) = {p}
    BY DEF SInv, DInv, InOnePlace
  <2>3. ASSUME NEW d \in Owned' PROVE \E p : Where(d)' = {p}
    BY <2>1, <2>2
  <2> QED BY <2>3 DEF InOnePlace
<1> QED BY <1>2, <1>3, <1>4, <1>5 DEF DInv, AllSound

\* Nothing changes that the invariant speaks about.
LEMMA NobodyConcerned ==
  ASSUME SInv, pc # "closed",
         UNCHANGED <<fdOwner, interest, connects, sock, status, closeQueue, tasks, job>>,
         \A e : e.ev # "accept" => (e \in batch' <=> e \in batch)
  PROVE  DInv'
<1>1. AllSound' /\ NoTwo'
  BY DEF SInv, DInv, AllSound, NoTwo, TaskSound, JobSound, RequestSound, Holds
<1>2. Owned' = Owned
  BY DEF Owned
<1>3. ASSUME NEW c PROVE Where(c)' = Where(c)
  <2>1. IsReady(c)' <=> IsReady(c)
    BY DEF IsReady
  <2> QED BY <2>1, WhereKept DEF IsArmed, IsQueued, IsServed, IsClosing
<1>4. InOnePlace'
  BY <1>2, <1>3 DEF SInv, DInv, InOnePlace
<1> QED BY <1>1, <1>4 DEF DInv

\* CONNECTS_REMOVE_FD ends the connection of one client.
LEMMA RemovalSpares ==
  ASSUME SInv, pc # "closed", NEW fd \in Fds, connects[fd] # Null, ConnectsRemoveFd(fd),
         NEW c, c = fdOwner[fd]
  PROVE  /\ c \in Clients /\ Spares(c) /\ c \notin Owned'
         /\ \A d \in Clients \ {c} : IsArmed(d)' <=> IsArmed(d)
<1>1. /\ sock[connects[fd]] = fd /\ fdOwner[fd] # Null /\ connects[fd] \in Objs /\ fd # NoFd
      /\ Null \notin Clients
  BY Parameters DEF SInv, IInv, TypeOK, ConnTypeOK, TableSound, Parameters
<1>2. /\ fdOwner \in [Fds -> Clients \cup {Null}] /\ interest \in [Fds -> {"off", "in", "out"}]
      /\ connects \in [Fds \cup {NoFd} -> Objs \cup {Null}] /\ sock \in [Objs -> Fds \cup {NoFd}]
      /\ status \in [Objs -> Statuses]
  BY DEF SInv, IInv, TypeOK, KernelTypeOK, ConnTypeOK
<1>3. /\ fdOwner' = [fdOwner EXCEPT ![fd] = Null] /\ interest' = [interest EXCEPT ![fd] = "off"]
      /\ status' = [status EXCEPT ![connects[fd]] = "OK"]
      /\ sock' = [sock EXCEPT ![connects[fd]] = NoFd]
      /\ connects' = [connects EXCEPT ![fd] = Null]
  BY <1>1 DEF ConnectsRemoveFd
<1>4. Spares(c)
  <2> SUFFICES ASSUME NEW d \in Clients \ {c}
               PROVE  /\ \A o \in Objs : Holds(d, o) =>
                           Holds(d, o)' /\ sock'[o] = sock[o] /\ status'[o] = status[o]
                      /\ \A f \in Fds : fdOwner'[f] = d <=> fdOwner[f] = d
    BY DEF Spares
  <2>1. \A f \in Fds : fdOwner'[f] = d <=> fdOwner[f] = d
    BY <1>1, <1>2, <1>3
  <2>2. ASSUME NEW o \in Objs, Holds(d, o)
        PROVE  Holds(d, o)' /\ sock'[o] = sock[o] /\ status'[o] = status[o]
    <3>1. o # connects[fd] /\ sock[o] # fd
      BY <1>1, <2>2 DEF Holds
    <3> QED BY <1>2, <1>3, <2>2, <3>1 DEF Holds
  <2> QED BY <2>1, <2>2
<1>5. \A f \in Fds : fdOwner'[f] # c
  BY <1>1, <1>2, <1>3 DEF SInv, ServedSound
<1>6. c \notin Owned'
  BY <1>2, <1>3, <1>5 DEF Owned, Range
<1>7. \A d \in Clients \ {c} : IsArmed(d)' <=> IsArmed(d)
  BY <1>1, <1>2, <1>3 DEF IsArmed
<1> QED BY <1>1, <1>2, <1>4, <1>6, <1>7

\* A connection that is accepted shares nothing with the others.
LEMMA InstallSpares ==
  ASSUME SInv, pc # "closed", NEW c \in backlog, NEW fd \in AcceptResults,
         NEW t \in Acquirable, Install(fd, t, c)
  PROVE  /\ c \in Clients \ Owned /\ Spares(c)
         /\ fd \in Fds => IsArmed(c)'
         /\ fd \notin Fds => c \notin Owned' /\ UNCHANGED <<fdOwner, interest>>
         /\ \A d \in Clients \ {c} : IsArmed(d)' <=> IsArmed(d)
<1>1. /\ connects[fd] = Null /\ connects' = [connects EXCEPT ![fd] = t]
      /\ sock' = [sock EXCEPT ![t] = fd] /\ status' = [status EXCEPT ![t] = "OK"]
      /\ fdOwner' = [fdOwner EXCEPT ![fd] = c] /\ interest' = [interest EXCEPT ![fd] = "in"]
  BY DEF Install, ConnInit, EntryFree
<1>2. /\ fdOwner \in [Fds -> Clients \cup {Null}] /\ interest \in [Fds -> {"off", "in", "out"}]
      /\ connects \in [Fds \cup {NoFd} -> Objs \cup {Null}] /\ sock \in [Objs -> Fds \cup {NoFd}]
      /\ status \in [Objs -> Statuses]
  BY DEF SInv, IInv, TypeOK, KernelTypeOK, ConnTypeOK
<1>3. /\ fd \in Fds \cup {NoFd} /\ (fd \in Fds => fdOwner[fd] = Null)
      /\ NoFd \notin Fds /\ Null \notin Clients /\ Null \notin Objs
  BY Parameters DEF AcceptResults, FreeFds, Parameters
<1>4. t \in Objs /\ t \notin Live
  BY AcquiredFacts DEF SInv
<1>5. sock[t] = NoFd
  BY <1>4 DEF SInv, IInv, TableSound
<1>6. c \in Clients \ Owned
  BY DEF SInv, IInv, TypeOK, KernelTypeOK, ServedSound
<1>7. Spares(c)
  <2> SUFFICES ASSUME NEW d \in Clients \ {c}
               PROVE  /\ \A o \in Objs : Holds(d, o) =>
                           Holds(d, o)' /\ sock'[o] = sock[o] /\ status'[o] = status[o]
                      /\ \A f \in Fds : fdOwner'[f] = d <=> fdOwner[f] = d
    BY DEF Spares
  <2>1. \A f \in Fds : fdOwner'[f] = d <=> fdOwner[f] = d
    BY <1>1, <1>2, <1>3
  <2>2. ASSUME NEW o \in Objs, Holds(d, o)
        PROVE  Holds(d, o)' /\ sock'[o] = sock[o] /\ status'[o] = status[o]
    <3>1. o # t /\ sock[o] # fd /\ sock[o] \in Fds
      BY <1>1, <1>3, <1>5, <2>2 DEF Holds
    <3> QED BY <1>1, <1>2, <2>2, <3>1 DEF Holds
  <2> QED BY <2>1, <2>2
<1>8. fd \in Fds => IsArmed(c)'
  BY <1>1, <1>2 DEF IsArmed
<1>9. fd \notin Fds => c \notin Owned' /\ UNCHANGED <<fdOwner, interest>>
  BY <1>1, <1>2, <1>6 DEF Owned
<1>10. \A d \in Clients \ {c} : IsArmed(d)' <=> IsArmed(d)
  BY <1>1, <1>2, <1>3 DEF IsArmed
<1> QED BY <1>6, <1>7, <1>8, <1>9, <1>10

\* A write to the status of an object concerns the client it serves.
LEMMA StatusSpares ==
  ASSUME SInv, pc # "closed", NEW c \in Clients, NEW o \in Objs, Holds(c, o),
         status' = [status EXCEPT ![o] = status'[o]], UNCHANGED <<fdOwner, connects, sock>>
  PROVE  Spares(c)
<1>1. status \in [Objs -> Statuses]
  BY DEF SInv, IInv, TypeOK, ConnTypeOK
<1>2. ASSUME NEW d \in Clients \ {c}, NEW x \in Objs, Holds(d, x)
      PROVE  Holds(d, x)' /\ sock'[x] = sock[x] /\ status'[x] = status[x]
  <2>1. x # o
    BY <1>2 DEF Holds
  <2>2. status'[x] = status[x]
    BY <1>1, <2>1
  <2> QED BY <1>2, <2>2 DEF Holds
<1> QED BY <1>2 DEF Spares

-----------------------------------------------------------------------------
(* The event loop *)

\* What the loop knows of the connection of an event.
LEMMA EventFacts ==
  ASSUME SInv, NEW e \in batch, e.ev # "accept", TakeEvent(e)
  PROVE  /\ pc # "closed" /\ e.fd \in Fds /\ e.cl \in Clients /\ fdOwner[e.fd] = e.cl
         /\ connects[e.fd] \in Objs /\ Holds(e.cl, connects[e.fd]) /\ Where(e.cl) = {"ready"}
         /\ \A x \in batch' : x.ev # "accept" => x.cl # e.cl
         /\ \A d \in Clients \ {e.cl} : IsReady(d)' <=> IsReady(d)
<1>1. /\ pc # "closed" /\ batch' = batch \ {e} /\ e.fd \in Fds /\ e.cl \in Clients
      /\ \A x \in batch' : x.fd # e.fd
  BY TakeFacts DEF SInv
<1>2. /\ fdOwner[e.fd] = e.cl /\ connects[e.fd] \in Objs /\ sock[connects[e.fd]] = e.fd
  BY <1>1 DEF SInv, IInv, EventsFresh, TableSound, TypeOK, ConnTypeOK
<1>3. IsReady(e.cl)
  BY DEF IsReady
<1>4. \A x \in batch : x.ev # "accept" => x.fd \in Fds /\ fdOwner[x.fd] = x.cl
  BY DEF SInv, IInv, TypeOK, LoopTypeOK, BatchShaped, Event, EventsFresh
<1>5. \A x \in batch' : x.ev # "accept" => x.cl # e.cl
  BY <1>1, <1>2, <1>4, Parameters DEF SInv, ServedSound, Parameters
<1>6. \A d \in Clients \ {e.cl} : IsReady(d)' <=> IsReady(d)
  BY <1>1 DEF IsReady
<1> QED BY <1>1, <1>2, <1>3, <1>5, <1>6, Alone DEF Holds

\* What is in the hands of the workers is not c's when c is elsewhere.
LEMMA Elsewhere ==
  ASSUME NEW c
  PROVE  /\ "queued" \notin Where(c) => \A t \in Range(tasks) : t.cl # c
         /\ "served" \notin Where(c) =>
              \A w \in Workers : job[w].at = "idle" \/ job[w].cl # c
         /\ "closing" \notin Where(c) => \A r \in Range(closeQueue) : r.cl # c
BY WhereIs DEF IsQueued, IsServed, IsClosing

LEMMA RemoveDispatch ==
  ASSUME SInv, IInv', NEW e \in batch, DispatchOverload(e) \/ DispatchOther(e)
  PROVE  DInv'
<1>1. /\ TakeEvent(e) /\ e.ev # "accept" /\ connects[e.fd] # Null
      /\ ConnectsRemoveFd(e.fd) /\ UNCHANGED <<closeQueue, tasks, job>>
  BY DEF DispatchOverload, DispatchOther, HandlerEvents
<1>0. PICK c \in Clients : c = e.cl
  BY <1>1, EventFacts
<1>2. /\ pc # "closed" /\ e.fd \in Fds /\ fdOwner[e.fd] = c /\ Where(c) = {"ready"}
      /\ \A d \in Clients \ {c} : IsReady(d)' <=> IsReady(d)
  BY <1>0, <1>1, EventFacts
<1>3. /\ Spares(c) /\ c \notin Owned'
      /\ \A d \in Clients \ {c} : IsArmed(d)' <=> IsArmed(d)
  BY <1>1, <1>2, RemovalSpares
<1>4. \A d \in Clients \ {c} : Where(d)' = Where(d)
  BY <1>1, <1>2, <1>3, WhereKept DEF IsQueued, IsServed, IsClosing
<1>5. NoTwo'
  BY <1>1, <1>2 DEF SInv, DInv, NoTwo
<1> QED BY <1>1, <1>2, <1>3, <1>4, <1>5, Elsewhere, OneConcerned

\* A request is for the connection that has the descriptor now.
LEMMA RequestFacts ==
  ASSUME SInv, pc # "closed", closeQueue # <<>>
  PROVE  /\ Head(closeQueue).fd \in Fds /\ Head(closeQueue).cl \in Clients
         /\ fdOwner[Head(closeQueue).fd] = Head(closeQueue).cl
         /\ connects[Head(closeQueue).fd] # Null
         /\ Where(Head(closeQueue).cl) = {"closing"}
         /\ Range(closeQueue) = Range(Tail(closeQueue)) \cup {Head(closeQueue)}
         /\ Distinct(Tail(closeQueue))
         /\ \A r \in Range(Tail(closeQueue)) : r.cl # Head(closeQueue).cl
<1>1. closeQueue \in Seq(Request) /\ Range(closeQueue) \subseteq Request
  BY Types DEF SInv
<1>2. Range(closeQueue) = Range(Tail(closeQueue)) \cup {Head(closeQueue)}
  BY <1>1, RangeTail
<1>3. /\ Distinct(Tail(closeQueue))
      /\ \A r \in Range(Tail(closeQueue)) : r.cl # Head(closeQueue).cl
  BY <1>1, DistinctTail DEF SInv, DInv, NoTwo
<1>4. RequestSound(Head(closeQueue)) /\ Head(closeQueue) \in Request
  BY <1>1, <1>2 DEF SInv, DInv, AllSound
<1>5. Head(closeQueue).cl \in Clients /\ IsClosing(Head(closeQueue).cl)
  BY <1>2, <1>4 DEF Request, IsClosing
<1>6. connects[Head(closeQueue).fd] # Null
  BY <1>4, <1>5, Parameters DEF RequestSound, SInv, IInv, TableSound, Parameters
<1> QED BY <1>2, <1>3, <1>4, <1>5, <1>6, Alone DEF RequestSound

LEMMA DrainStep ==
  ASSUME SInv, IInv', DrainOne
  PROVE  DInv'
<1>0. PICK r \in Request : r = Head(closeQueue)
  BY Types, HeadTailProperties DEF SInv, DrainOne
<1>1. /\ pc # "closed" /\ closeQueue # <<>> /\ closeQueue' = Tail(closeQueue)
      /\ UNCHANGED <<batch, tasks, job>>
      /\ ~(r.fd = NoFd \/ connects[r.fd] = Null) => ConnectsRemoveFd(r.fd)
  BY <1>0 DEF DrainOne, Draining, loopVars
<1>2. /\ r.fd \in Fds /\ r.cl \in Clients /\ fdOwner[r.fd] = r.cl /\ connects[r.fd] # Null
      /\ Where(r.cl) = {"closing"} /\ Range(closeQueue) = Range(closeQueue') \cup {r}
      /\ Distinct(closeQueue') /\ \A x \in Range(closeQueue') : x.cl # r.cl
  BY <1>0, <1>1, RequestFacts
<1>3. ConnectsRemoveFd(r.fd)
  BY <1>1, <1>2, Parameters DEF Parameters
<1>4. /\ Spares(r.cl) /\ r.cl \notin Owned'
      /\ \A d \in Clients \ {r.cl} : IsArmed(d)' <=> IsArmed(d)
  BY <1>1, <1>2, <1>3, RemovalSpares
<1>5. \A d \in Clients \ {r.cl} : Where(d)' = Where(d)
  <2>1. \A d \in Clients \ {r.cl} : IsClosing(d)' <=> IsClosing(d)
    BY <1>2 DEF IsClosing
  <2> QED BY <1>1, <1>4, <2>1, WhereKept DEF IsReady, IsQueued, IsServed
<1>6. NoTwo'
  BY <1>1, <1>2 DEF SInv, DInv, NoTwo
<1> QED BY <1>1, <1>2, <1>4, <1>5, <1>6, Elsewhere, OneConcerned

LEMMA InstallStepD ==
  ASSUME SInv, IInv', NEW e \in batch, NEW c \in backlog, AcceptInstall(e, c)
  PROVE  DInv'
<1>1. PICK fd \in AcceptResults, t \in Acquirable : Install(fd, t, c)
  BY DEF AcceptInstall
<1>2. /\ e.ev = "accept" /\ TakeEvent(e) /\ UNCHANGED <<closeQueue, tasks, job>>
      /\ pc # "closed" /\ batch' = batch \ {e}
  BY TakeFacts DEF AcceptInstall, SInv
<1>3. /\ c \in Clients \ Owned /\ Spares(c) /\ (fd \in Fds => IsArmed(c)')
      /\ fd \notin Fds => c \notin Owned'
      /\ \A d \in Clients \ {c} : IsArmed(d)' <=> IsArmed(d)
  BY <1>1, <1>2, InstallSpares
<1>4. Where(c) = {}
  BY <1>2, <1>3, Served, WhereIs DEF SInv, DInv
<1>5. \A d : IsReady(d)' <=> IsReady(d)
  BY <1>2 DEF IsReady
<1>6. \A d \in Clients \ {c} : Where(d)' = Where(d)
  BY <1>2, <1>3, <1>5, WhereKept DEF IsQueued, IsServed, IsClosing
<1>7. fd \in Fds => Where(c)' = {"armed"}
  BY <1>2, <1>3, <1>4, <1>5, WhereIs, WhereWillBe DEF IsQueued, IsServed, IsClosing
<1>8. NoTwo'
  BY <1>2 DEF SInv, DInv, NoTwo
<1> QED BY <1>2, <1>3, <1>4, <1>6, <1>7, <1>8, Elsewhere, OneConcerned

\* epoll_wait reports what is armed and, with one-shot delivery, disarms it.
LEMMA EpollStep ==
  ASSUME SInv, OneShot, EpollWait
  PROVE  DInv'
<1>1. PICK B \in Batches :
        /\ pc = "wait" /\ batch' = B /\ interest' = InterestAfter({e.fd : e \in B})
        /\ UNCHANGED <<fdOwner, connects, sock, status, closeQueue, tasks, job>>
  BY DEF EpollWait, connVars
<1>2. batch = {} /\ pc # "closed"
  BY <1>1 DEF SInv, IInv, BatchShaped
<1>3. /\ \A e \in B : e.ev = "accept" <=> e.fd = NoFd
      /\ \A e \in B : e.fd \in Fds \cup {NoFd}
      /\ \A e \in B : e.fd \in Fds => fdOwner[e.fd] = e.cl
  BY <1>2, BatchFacts DEF SInv, Event
<1>4. \A e \in B : e.fd \in Fds => interest[e.fd] # "off"
  <2> SUFFICES ASSUME NEW e \in B, e.fd \in Fds PROVE interest[e.fd] # "off"
    OBVIOUS
  <2> DEFINE Of(f) == {[fd |-> f, ev |-> v, cl |-> fdOwner[f]] : v \in Reports(f)}
  <2>1. e \in UNION {Of(f) : f \in Fds}
    BY Parameters DEF Batches, ReadyEvents, Accept, Parameters
  <2>2. PICK f \in Fds : e \in Of(f)
    BY <2>1
  <2>3. Reports(f) # {} /\ e.fd = f
    BY <2>2
  <2> QED BY <2>3 DEF Reports
<1>5. \A f \in Fds : interest'[f] # "off" <=>
                       interest[f] # "off" /\ ~\E e \in B : e.fd = f
  BY <1>1 DEF InterestAfter
<1>6. AllSound' /\ NoTwo'
  BY <1>1, <1>2 DEF SInv, DInv, AllSound, NoTwo, TaskSound, JobSound, RequestSound, Holds
<1>7. ASSUME NEW c \in Owned PROVE \E p : Where(c)' = {p}
  <2>1. PICK f \in Fds : fdOwner[f] = c /\ c \in Clients
    BY <1>7, Types DEF SInv
  <2>2. \A g \in Fds : fdOwner[g] = c => g = f
    BY <2>1, Parameters DEF SInv, ServedSound, Parameters
  <2>3. IsArmed(c) <=> interest[f] # "off"
    BY <2>1, <2>2 DEF IsArmed
  <2>4. IsArmed(c)' <=> interest[f] # "off" /\ ~\E e \in B : e.fd = f
    BY <1>1, <1>5, <2>1, <2>2 DEF IsArmed
  <2>5. ~IsReady(c) /\ (IsReady(c)' <=> \E e \in B : e.fd = f)
    BY <1>1, <1>2, <1>3, <2>1, <2>2, Parameters DEF IsReady, Parameters
  <2>6. /\ IsQueued(c)' <=> IsQueued(c)
        /\ IsServed(c)' <=> IsServed(c)
        /\ IsClosing(c)' <=> IsClosing(c)
    BY <1>1 DEF IsQueued, IsServed, IsClosing
  <2>7. PICK p : Where(c) = {p}
    BY <1>2, <1>7 DEF SInv, DInv, InOnePlace
  <2>8. CASE \E e \in B : e.fd = f
    <3>1. IsArmed(c) /\ ~IsArmed(c)' /\ IsReady(c)'
      BY <1>4, <2>3, <2>4, <2>5, <2>8
    <3> QED BY <2>6, <2>7, <3>1, WhereIs, WhereWillBe
  <2>9. CASE ~\E e \in B : e.fd = f
    BY <2>3, <2>4, <2>5, <2>6, <2>7, <2>9, WhereKept
  <2> QED BY <2>8, <2>9
<1>8. Owned' = Owned
  BY <1>1 DEF Owned
<1> QED BY <1>6, <1>7, <1>8 DEF DInv, InOnePlace

LEMMA ToPoolStep ==
  ASSUME SInv, IInv', NEW e \in batch, DispatchToPool(e)
  PROVE  DInv'
<1>1. /\ TakeEvent(e) /\ e.ev \in HandlerEvents /\ e.ev # "accept"
      /\ status' = [status EXCEPT ![connects[e.fd]] = EventStatus(e.ev)]
      /\ tasks' = Append(tasks, [obj |-> connects[e.fd], cl |-> e.cl])
      /\ UNCHANGED <<fdOwner, interest, connects, sock, closeQueue, job>>
  BY DEF DispatchToPool, HandlerEvents, kernelVars
<1>2. PICK c \in Clients, o \in Objs : c = e.cl /\ o = connects[e.fd]
  BY <1>1, EventFacts
<1>3. /\ pc # "closed" /\ Holds(c, o) /\ Where(c) = {"ready"} /\ ~IsReady(c)'
      /\ \A d \in Clients \ {c} : IsReady(d)' <=> IsReady(d)
  BY <1>1, <1>2, EventFacts DEF IsReady
<1>4. PICK t \in Task : t = [obj |-> o, cl |-> c]
  BY DEF Task
<1>5. tasks \in Seq(Task) /\ tasks' = Append(tasks, t) /\ Range(tasks') = Range(tasks) \cup {t}
  BY <1>1, <1>2, <1>4, Types, RangeAppend DEF SInv
<1>6. EventStatus(e.ev) \in Dispatched /\ status \in [Objs -> Statuses]
  BY <1>1 DEF EventStatus, HandlerEvents, Dispatched, SInv, IInv, TypeOK, ConnTypeOK
<1>7. status'[o] \in Dispatched /\ status' = [status EXCEPT ![o] = status'[o]]
  BY <1>1, <1>2, <1>6
<1>8. Spares(c)
  BY <1>1, <1>3, <1>7, StatusSpares
<1>9. TaskSound(t)'
  BY <1>1, <1>3, <1>4, <1>7 DEF TaskSound, Holds
<1>10. NoTwo'
  <2>1. \A x \in Range(tasks) : x.cl # t.cl
    BY <1>3, <1>4, Elsewhere
  <2>2. Distinct(tasks)
    BY <1>3 DEF SInv, DInv, NoTwo
  <2>3. Distinct(Append(tasks, t))
    BY <1>5, <2>1, <2>2, DistinctAppend
  <2> QED BY <1>1, <1>3, <1>5, <2>3 DEF SInv, DInv, NoTwo
<1>11. \A d \in Clients \ {c} : Where(d)' = Where(d)
  <2>1. \A d \in Clients \ {c} : IsQueued(d)' <=> IsQueued(d)
    BY <1>4, <1>5 DEF IsQueued
  <2> QED BY <1>1, <1>3, <2>1, WhereKept DEF IsArmed, IsServed, IsClosing
<1>12. Where(c)' = {"queued"}
  <2>1. IsQueued(c)'
    BY <1>4, <1>5 DEF IsQueued
  <2> QED BY <1>1, <1>3, <2>1, WhereIs, WhereWillBe DEF IsArmed, IsServed, IsClosing
<1> QED BY <1>1, <1>3, <1>5, <1>8, <1>9, <1>10, <1>11, <1>12, Elsewhere, OneConcerned

-----------------------------------------------------------------------------
(* The workers *)

\* With such handlers process() runs one call.
LEMMA OneCall ==
  ASSUME Disciplined, NEW st \in Dispatched, NEW p \in Programs(st)
  PROVE  \E x \in Call : p.ops = <<x>>
BY DEF Disciplined, Programs, Dispatched, HungUp, Path, Call

\* What a worker knows of the connection it serves.
LEMMA JobFacts ==
  ASSUME SInv, NEW w \in Workers, pc # "closed", job[w].at # "idle"
  PROVE  /\ job[w].cl \in Clients /\ job[w].obj \in Objs /\ JobSound(job[w])
         /\ Where(job[w].cl) = {"served"} /\ job[w] \in Job /\ job \in [Workers -> Job]
         /\ \A v \in Workers \ {w} : job[v].at = "idle" \/ job[v].cl # job[w].cl
<1>1. job[w].cl \in Clients /\ job[w].obj \in Objs /\ job[w] \in Job /\ job \in [Workers -> Job]
  BY Types DEF SInv, JobShaped, IInv, TypeOK, WorkTypeOK
<1>2. IsServed(job[w].cl)
  BY DEF IsServed
<1> QED BY <1>1, <1>2, Alone DEF SInv, DInv, AllSound, NoTwo

\* The operation of a job is its last.
LEMMA LastOp ==
  ASSUME NEW w \in Workers, job \in [Workers -> Job],
         \E x \in Call : job[w].todo = <<x>>, Advance(w)
  PROVE  job' = [job EXCEPT ![w] = NoJob]
<1>1. Tail(job[w].todo) = <<>>
  OBVIOUS
<1> QED BY <1>1 DEF Advance

\* A worker goes on with the connection it serves.
LEMMA GoesOn ==
  ASSUME SInv, IInv', NEW w \in Workers, pc # "closed", job[w].at # "idle",
         NEW j \in Job, job' = [job EXCEPT ![w] = j], j.at # "idle", j.cl = job[w].cl,
         JobSound(j)', Spares(job[w].cl),
         UNCHANGED <<fdOwner, interest, batch, closeQueue, tasks>>
  PROVE  DInv'
<1>0. PICK c \in Clients : c = job[w].cl
  BY JobFacts
<1>1. /\ Where(c) = {"served"} /\ job \in [Workers -> Job] /\ Spares(c)
      /\ \A v \in Workers \ {w} : job[v].at = "idle" \/ job[v].cl # c
  BY <1>0, JobFacts
<1>2. \A v \in Workers : job'[v] = IF v = w THEN j ELSE job[v]
  BY <1>1
<1>3. \A d : IsServed(d)' <=> IsServed(d)
  BY <1>2 DEF IsServed
<1>4. \A d : Where(d)' = Where(d)
  BY <1>3, WhereKept DEF IsArmed, IsReady, IsQueued, IsClosing
<1>5. NoTwo'
  BY <1>0, <1>1, <1>2 DEF SInv, DInv, NoTwo
<1>6. \A v \in Workers : JobSound(job[v])' \/
                          (job'[v] = job[v] /\ (job[v].at = "idle" \/ job[v].cl # c))
  <2>1. JobSound(job[w])'
    BY <1>2
  <2> QED BY <1>1, <1>2, <2>1
<1> QED BY <1>1, <1>4, <1>5, <1>6, Elsewhere, OneConcerned

\* sem.acquire() and pop: the connection goes from the queue to the worker.
LEMMA TakeStep ==
  ASSUME SInv, IInv', NEW w \in Workers, WorkerTake(w)
  PROVE  DInv'
<1>1. /\ pc # "closed" /\ job[w].at = "idle" /\ tasks # <<>> /\ tasks' = Tail(tasks)
      /\ UNCHANGED <<kernelVars, loopVars, connVars, closeQueue>>
  BY DEF WorkerTake, Busy
<1>2. tasks \in Seq(Task) /\ job \in [Workers -> Job] /\ Range(tasks) \subseteq Task
  BY Types DEF SInv, IInv, TypeOK, WorkTypeOK
<1>3. PICK t \in Task : t = Head(tasks)
  BY <1>1, <1>2, HeadTailProperties
<1>4. PICK c \in Clients, o \in Objs : c = t.cl /\ o = t.obj
  BY DEF Task
<1>5. PICK j : j = [NoJob EXCEPT !.obj = o, !.cl = c, !.at = "switch"]
  OBVIOUS
<1>6. /\ job' = [job EXCEPT ![w] = j]
      /\ j.at = "switch" /\ j.cl = c /\ j.obj = o
  BY <1>3, <1>4, <1>5 DEF WorkerTake, NoJob
<1>7. \A v \in Workers : job'[v] = IF v = w THEN j ELSE job[v]
  BY <1>2, <1>6
<1>8. Range(tasks) = Range(tasks') \cup {t}
  BY <1>1, <1>2, <1>3, RangeTail
<1>9. Distinct(tasks') /\ \A x \in Range(tasks') : x.cl # c
  <2>1. Distinct(tasks)
    BY <1>1 DEF SInv, DInv, NoTwo
  <2> QED BY <1>1, <1>2, <1>3, <1>4, <2>1, DistinctTail
<1>10. Where(c) = {"queued"} /\ TaskSound(t)
  <2>1. IsQueued(c)
    BY <1>4, <1>8 DEF IsQueued
  <2> QED BY <1>1, <1>8, <2>1, Alone DEF SInv, DInv, AllSound
<1>11. JobSound(j)' /\ Spares(c)
  BY <1>1, <1>4, <1>6, <1>10
     DEF JobSound, TaskSound, Holds, Spares, kernelVars, connVars
<1>12. NoTwo'
  BY <1>1, <1>6, <1>7, <1>9, <1>10, Elsewhere DEF SInv, DInv, NoTwo
<1>13. \A d \in Clients \ {c} : Where(d)' = Where(d)
  <2>1. \A d \in Clients \ {c} : IsQueued(d)' <=> IsQueued(d)
    BY <1>4, <1>8 DEF IsQueued
  <2>2. \A d \in Clients \ {c} : IsServed(d)' <=> IsServed(d)
    BY <1>1, <1>6, <1>7 DEF IsServed
  <2> QED BY <1>1, <2>1, <2>2, WhereKept DEF IsArmed, IsReady, IsClosing, kernelVars, loopVars
<1>14. Where(c)' = {"served"}
  <2>1. IsServed(c)' /\ ~IsQueued(c)'
    BY <1>6, <1>7, <1>9 DEF IsServed, IsQueued
  <2> QED BY <1>1, <1>10, <2>1, WhereIs, WhereWillBe
          DEF IsArmed, IsReady, IsClosing, kernelVars, loopVars
<1>15. \A v \in Workers : JobSound(job[v])' \/
                           (job'[v] = job[v] /\ (job[v].at = "idle" \/ job[v].cl # c))
  <2>1. JobSound(job[w])'
    BY <1>7, <1>11
  <2> QED BY <1>7, <1>10, <2>1, Elsewhere
<1>16. \A r \in Range(closeQueue') : r \in Range(closeQueue) /\ r.cl # c
  BY <1>1, <1>10, Elsewhere
<1>17. \A x \in Range(tasks') : x \in Range(tasks) /\ x.cl # c
  BY <1>8, <1>9
<1> QED BY <1>1, <1>11, <1>12, <1>13, <1>14, <1>15, <1>16, <1>17, OneConcerned

\* The worker is done with the connection: it is armed, or its close requested.
LEMMA LetsGo ==
  ASSUME SInv, IInv', NEW w \in Workers, pc # "closed", job[w].at # "idle",
         job' = [job EXCEPT ![w] = NoJob], Spares(job[w].cl),
         UNCHANGED <<fdOwner, batch, tasks>>,
         NEW c, c = job[w].cl, Distinct(closeQueue'),
         \A r \in Range(closeQueue') : RequestSound(r)' \/ (r \in Range(closeQueue) /\ r.cl # c),
         \A d \in Clients \ {c} : /\ IsArmed(d)' <=> IsArmed(d)
                                  /\ IsClosing(d)' <=> IsClosing(d),
         IsArmed(c)' <=> ~IsClosing(c)'
  PROVE  DInv'
<1>1. /\ c \in Clients /\ Where(c) = {"served"} /\ job \in [Workers -> Job] /\ Spares(c)
      /\ \A v \in Workers \ {w} : job[v].at = "idle" \/ job[v].cl # c
  BY JobFacts
<1>2. \A v \in Workers : job'[v] = IF v = w THEN NoJob ELSE job[v]
  BY <1>1
<1>3. NoJob.at = "idle"
  BY DEF NoJob
<1>4. ~IsServed(c)' /\ \A d \in Clients \ {c} : IsServed(d)' <=> IsServed(d)
  BY <1>1, <1>2, <1>3 DEF IsServed
<1>5. \A d \in Clients \ {c} : Where(d)' = Where(d)
  BY <1>4, WhereKept DEF IsReady, IsQueued
<1>6. ~IsReady(c)' /\ ~IsQueued(c)'
  BY <1>1, WhereIs DEF IsReady, IsQueued
<1>7. \E p : Where(c)' = {p}
  <2>1. CASE IsArmed(c)'
    BY <1>4, <1>6, <2>1, WhereWillBe
  <2>2. CASE IsClosing(c)'
    BY <1>4, <1>6, <2>2, WhereWillBe
  <2> QED BY <2>1, <2>2
<1>8. NoTwo'
  BY <1>2, <1>3 DEF SInv, DInv, NoTwo
<1>9. \A v \in Workers : JobSound(job[v])' \/
                          (job'[v] = job[v] /\ (job[v].at = "idle" \/ job[v].cl # c))
  <2>1. JobSound(job[w])'
    BY <1>2, <1>3 DEF JobSound
  <2> QED BY <1>1, <1>2, <2>1
<1>10. \A x \in Range(tasks') : x \in Range(tasks) /\ x.cl # c
  BY <1>1, Elsewhere
<1> QED BY <1>1, <1>5, <1>7, <1>8, <1>9, <1>10, OneConcerned

LEMMA SwitchStep ==
  ASSUME SInv, IInv', Disciplined, NEW w \in Workers, WorkerSwitch(w)
  PROVE  DInv'
<1>1. /\ pc # "closed" /\ job[w].at = "switch"
      /\ UNCHANGED <<kernelVars, loopVars, connVars, closeQueue, tasks>>
  BY DEF WorkerSwitch, Busy
<1>2. PICK p \in Programs(status[job[w].obj]) :
        job' = [job EXCEPT ![w] = IF p.ops = <<>> THEN NoJob
                                  ELSE [@ EXCEPT !.todo = p.ops, !.at = "op"]]
  BY DEF WorkerSwitch
<1>3. JobSound(job[w]) /\ job[w] \in Job /\ job \in [Workers -> Job]
  BY <1>1, JobFacts
<1>4. PICK x \in Call : p.ops = <<x>>
  BY <1>1, <1>2, <1>3, OneCall DEF JobSound
<1>5. PICK j : j = [job[w] EXCEPT !.todo = <<x>>, !.at = "op"]
  OBVIOUS
<1>6. job' = [job EXCEPT ![w] = j]
  BY <1>2, <1>3, <1>4, <1>5
<1>7. /\ j \in Job /\ j.at = "op" /\ j.cl = job[w].cl /\ j.obj = job[w].obj /\ j.todo = <<x>>
  <2>1. x \in Op
    BY DEF Op
  <2>2. <<x>> \in Seq(Op)
    BY <2>1
  <2> QED BY <1>3, <1>5, <2>2 DEF Job
<1>8. JobSound(j)' /\ Spares(job[w].cl)
  BY <1>1, <1>3, <1>7 DEF JobSound, Holds, Spares, kernelVars, connVars
<1> QED BY <1>1, <1>6, <1>7, <1>8, GoesOn DEF kernelVars, loopVars

LEMMA NextLoadStep ==
  ASSUME SInv, IInv', NEW w \in Workers, WorkerNextLoad(w)
  PROVE  DInv'
<1>1. /\ pc # "closed" /\ job[w].at = "op"
      /\ UNCHANGED <<kernelVars, loopVars, connVars, closeQueue, tasks>>
  BY DEF WorkerNextLoad, Busy
<1>2. JobSound(job[w]) /\ job[w] \in Job /\ job \in [Workers -> Job] /\ job[w].obj \in Objs
  BY <1>1, JobFacts
<1>3. PICK j : j = [job[w] EXCEPT !.at = "ctl", !.reg = sock[job[w].obj]]
  OBVIOUS
<1>4. /\ job' = [job EXCEPT ![w] = j] /\ j \in Job /\ j.at = "ctl" /\ j.cl = job[w].cl
      /\ j.obj = job[w].obj /\ j.todo = job[w].todo /\ j.reg = sock[j.obj]
  BY <1>2, <1>3 DEF WorkerNextLoad, Job, SInv, IInv, TypeOK, ConnTypeOK
<1>5. JobSound(j)' /\ Spares(job[w].cl)
  BY <1>1, <1>2, <1>4 DEF JobSound, Holds, Spares, kernelVars, connVars
<1> QED BY <1>1, <1>4, <1>5, GoesOn DEF kernelVars, loopVars

\* epoll_ctl arms the connection that the worker serves.
LEMMA NextCtlStep ==
  ASSUME SInv, IInv', NEW w \in Workers, WorkerNextCtl(w)
  PROVE  DInv'
<1>1. /\ pc # "closed" /\ job[w].at = "ctl" /\ Advance(w)
      /\ interest' = [f \in Fds |-> IF f = job[w].reg /\ fdOwner[f] # Null
                                    THEN Head(job[w].todo) ELSE interest[f]]
      /\ UNCHANGED <<fdOwner, loopVars, connVars, closeQueue, tasks>>
  BY DEF WorkerNextCtl, Busy
<1>2. /\ JobSound(job[w]) /\ JobShaped(job[w]) /\ job \in [Workers -> Job]
      /\ Where(job[w].cl) = {"served"}
  BY <1>1, JobFacts, Types DEF SInv
<1>3. PICK c \in Clients : c = job[w].cl
  BY <1>1, JobFacts
<1>4. job[w].reg \in Fds /\ fdOwner[job[w].reg] = c /\ Head(job[w].todo) \in {"in", "out"}
  BY <1>1, <1>2, <1>3 DEF JobSound, JobShaped, Holds
<1>5. \A f \in Fds : interest'[f] # "off" <=> interest[f] # "off" \/ f = job[w].reg
  BY <1>1, <1>4, Parameters DEF Parameters
<1>6. IsArmed(c)' /\ \A d \in Clients \ {c} : IsArmed(d)' <=> IsArmed(d)
  BY <1>1, <1>4, <1>5 DEF IsArmed
<1>7. job' = [job EXCEPT ![w] = NoJob]
  BY <1>1, <1>2, LastOp DEF JobSound
<1>8. ~IsClosing(c)' /\ \A d : IsClosing(d)' <=> IsClosing(d)
  BY <1>1, <1>2, <1>3, WhereIs DEF IsClosing
<1>9. Distinct(closeQueue') /\ \A r \in Range(closeQueue') : r \in Range(closeQueue) /\ r.cl # c
  BY <1>1, <1>2, <1>3, Elsewhere DEF SInv, DInv, NoTwo
<1>10. Spares(c)
  BY <1>1 DEF Spares, Holds, connVars
<1> QED BY <1>1, <1>3, <1>6, <1>7, <1>8, <1>9, <1>10, LetsGo DEF loopVars

\* notify_close(): the status is not CLOSE yet, for nobody else sets it.
LEMMA NotifyStep ==
  ASSUME SInv, IInv', NEW w \in Workers, WorkerNotifyTest(w) \/ WorkerNotifyMark(w)
  PROVE  DInv'
<1>1. /\ pc # "closed" /\ job[w].at \in {"op", "mark"}
      /\ UNCHANGED <<kernelVars, loopVars, connects, sock, closeQueue, tasks>>
  BY DEF WorkerNotifyTest, WorkerNotifyMark, Busy, connVars
<1>2. /\ JobSound(job[w]) /\ job[w] \in Job /\ job \in [Workers -> Job]
      /\ status[job[w].obj] \in Dispatched
  BY <1>1, JobFacts DEF JobSound
<1>0. PICK c \in Clients, o \in Objs : c = job[w].cl /\ o = job[w].obj
  BY <1>1, JobFacts
<1>3. PICK at \in {"mark", "push"} :
        /\ Goto(w, at)
        /\ at = "mark" => status' = status
        /\ at = "push" => status' = [status EXCEPT ![o] = "CLOSE"]
  BY <1>0, <1>2 DEF WorkerNotifyTest, WorkerNotifyMark, Dispatched, connVars
<1>4. PICK j : j = [job[w] EXCEPT !.at = at]
  OBVIOUS
<1>5. /\ job' = [job EXCEPT ![w] = j] /\ j \in Job /\ j.at = at /\ j.cl = c
      /\ j.obj = o /\ j.todo = job[w].todo
  BY <1>0, <1>2, <1>3, <1>4 DEF Goto, Job
<1>6. Holds(c, o) /\ status \in [Objs -> Statuses]
  BY <1>0, <1>1, <1>2 DEF JobSound, SInv, IInv, TypeOK, ConnTypeOK
<1>7. Spares(c)
  <2>1. status' = [status EXCEPT ![o] = status'[o]]
    BY <1>3, <1>6
  <2> QED BY <1>1, <1>6, <2>1, StatusSpares DEF kernelVars
<1>8. JobSound(j)'
  BY <1>0, <1>1, <1>2, <1>3, <1>5, <1>6 DEF JobSound, Holds, kernelVars
<1> QED BY <1>0, <1>1, <1>5, <1>7, <1>8, GoesOn DEF kernelVars, loopVars

\* ... and the descriptor that is pushed is the connection's.
LEMMA PushStep ==
  ASSUME SInv, IInv', NEW w \in Workers, WorkerNotifyPush(w)
  PROVE  DInv'
<1>1. /\ pc # "closed" /\ job[w].at = "push" /\ Advance(w)
      /\ closeQueue' = Append(closeQueue, [fd |-> sock[job[w].obj], cl |-> job[w].cl])
      /\ UNCHANGED <<kernelVars, loopVars, connVars, tasks>>
  BY DEF WorkerNotifyPush, Busy
<1>2. JobSound(job[w]) /\ job \in [Workers -> Job] /\ Where(job[w].cl) = {"served"}
  BY <1>1, JobFacts
<1>3. PICK c \in Clients, o \in Objs : c = job[w].cl /\ o = job[w].obj
  BY <1>1, JobFacts
<1>4. PICK r \in Request : r = [fd |-> sock[o], cl |-> c]
  BY <1>1, <1>2, <1>3 DEF Request, JobSound, Holds
<1>5. /\ closeQueue \in Seq(Request) /\ closeQueue' = Append(closeQueue, r)
      /\ Range(closeQueue') = Range(closeQueue) \cup {r}
  BY <1>1, <1>3, <1>4, Types, RangeAppend DEF SInv
<1>6. RequestSound(r)'
  BY <1>1, <1>2, <1>3, <1>4 DEF JobSound, Holds, RequestSound, kernelVars
<1>7. \A x \in Range(closeQueue) : x.cl # c
  BY <1>2, <1>3, Elsewhere
<1>8. Distinct(closeQueue')
  <2>1. Distinct(closeQueue)
    BY <1>1 DEF SInv, DInv, NoTwo
  <2>2. Distinct(Append(closeQueue, r))
    BY <1>4, <1>5, <1>7, <2>1, DistinctAppend
  <2> QED BY <1>5, <2>2
<1>9. IsClosing(c)' /\ \A d \in Clients \ {c} : IsClosing(d)' <=> IsClosing(d)
  BY <1>4, <1>5 DEF IsClosing
<1>10. ~IsArmed(c)' /\ \A d : IsArmed(d)' <=> IsArmed(d)
  BY <1>1, <1>2, <1>3, WhereIs DEF IsArmed, kernelVars
<1>11. job' = [job EXCEPT ![w] = NoJob]
  BY <1>1, <1>2, LastOp DEF JobSound
<1>12. Spares(c)
  BY <1>1 DEF Spares, Holds, kernelVars, connVars
<1>13. /\ pc # "closed" /\ UNCHANGED <<fdOwner, batch, tasks>>
       /\ job[w].at # "idle" /\ Spares(job[w].cl)
  BY <1>1, <1>3, <1>12 DEF kernelVars, loopVars
<1>14. /\ IsArmed(c)' <=> ~IsClosing(c)'
       /\ \A d \in Clients \ {c} : /\ IsArmed(d)' <=> IsArmed(d)
                                   /\ IsClosing(d)' <=> IsClosing(d)
  BY <1>9, <1>10
<1>15. \A q \in Range(closeQueue') : RequestSound(q)' \/ (q \in Range(closeQueue) /\ q.cl # c)
  BY <1>5, <1>6, <1>7
<1> QED BY <1>3, <1>8, <1>11, <1>13, <1>14, <1>15, LetsGo

\* Such a handler has no operation but its call.
LEMMA NoReset ==
  ASSUME SInv, NEW w \in Workers, WorkerReset(w)
  PROVE  FALSE
<1>1. pc # "closed" /\ job[w].at = "op" /\ Head(job[w].todo) = "reset"
  BY DEF WorkerReset, Busy
<1>2. PICK x \in Call : job[w].todo = <<x>>
  BY <1>1, JobFacts DEF JobSound
<1> QED BY <1>1, <1>2 DEF Call

-----------------------------------------------------------------------------
(* The theorems *)

LEMMA DInit == Init => DInv
<1> SUFFICES ASSUME Init PROVE DInv
  OBVIOUS
<1>1. Range(tasks) = {} /\ Range(closeQueue) = {} /\ DOMAIN tasks = {} /\ DOMAIN closeQueue = {}
  BY DEF Init, Range
<1>2. \A w \in Workers : job[w].at = "idle"
  BY DEF Init, NoJob
<1>3. Owned = {}
  BY DEF Init, Owned, Range
<1> QED BY <1>1, <1>2, <1>3 DEF DInv, AllSound, JobSound, NoTwo, Distinct, InOnePlace

LEMMA DStep ==
  ASSUME Disciplined, SInv, IInv', [Next]_vars
  PROVE  DInv'
<1>1. CASE pc' = "closed"
  BY <1>1 DEF DInv
<1>2. CASE pc = "closed" /\ pc' # "closed"
  BY <1>2 DEF Next, Loop, Stopped, vars, loopVars, DrainOne, Draining, DrainDone, EpollWait,
     EpollFails, Close, Dispatch, AcceptOver, AcceptOccupied, AcceptInstall, DispatchToPool,
     DispatchOverload, DispatchInline, DispatchOther, TakeEvent, Environment, StopRequest,
     Arrive, HangUp, Worker, WorkerTake, WorkerSwitch, WorkerReset, WorkerNextLoad,
     WorkerNextCtl, WorkerNotifyTest, WorkerNotifyMark, WorkerNotifyPush, Busy
<1>3. CASE pc # "closed" /\ pc' # "closed"
  <2>1. CASE UNCHANGED vars
    BY <1>3, <2>1, NobodyConcerned DEF vars, kernelVars, connVars, loopVars
  <2>2. CASE Environment \/ DrainDone \/ EpollFails
    BY <1>3, <2>2, NobodyConcerned
       DEF Environment, StopRequest, Arrive, HangUp, DrainDone, EpollFails,
           kernelVars, connVars, loopVars
  <2>3. CASE Close
    BY <1>3, <2>3 DEF Close
  <2>4. ASSUME NEW e \in batch, NEW c \in backlog, AcceptOver(e, c) \/ AcceptOccupied(e, c)
        PROVE  DInv'
    <3>1. /\ batch' = batch \ {e} /\ e.ev = "accept"
          /\ UNCHANGED <<fdOwner, interest, connects, sock, status, closeQueue, tasks, job>>
      BY <2>4 DEF AcceptOver, AcceptOccupied, TakeEvent, connVars
    <3> QED BY <1>3, <3>1, NobodyConcerned
  <2>5. ASSUME NEW e \in batch, Dispatch(e) PROVE DInv'
    BY <2>4, <2>5, InstallStepD, ToPoolStep, RemoveDispatch
       DEF Dispatch, DispatchInline, Disciplined
  <2>6. ASSUME NEW w \in Workers, Worker(w) PROVE DInv'
    BY <2>6, TakeStep, SwitchStep, NoReset, NextLoadStep, NextCtlStep, NotifyStep, PushStep
       DEF Worker
  <2> QED BY <2>1, <2>2, <2>3, <2>5, <2>6, DrainStep, EpollStep
          DEF Next, Loop, Stopped, Disciplined
<1> QED BY <1>1, <1>2, <1>3

LEMMA SInvariance ==
  ASSUME Disciplined
  PROVE  Spec => []SInv
<1>1. Init => IInv /\ ServedSound /\ DInv
  BY InitInv, ServiceInit, DInit
<1>2. IInv /\ IInv' /\ ServedSound /\ DInv /\ [Next]_vars => ServedSound' /\ DInv'
  BY StepSimulates, DStep DEF SInv
<1> QED BY <1>1, <1>2, Invariance, PTL DEF Spec, SInv

\* One worker at a time serves a connection, on the connection's own object and
\* while it is in the table, if its handlers do as the README asks.
THEOREM OneServes ==
  ASSUME Disciplined
  PROVE  Spec => []ExclusiveService
<1>1. SInv => ExclusiveService
  <2> SUFFICES ASSUME SInv, pc # "closed" PROVE ExclusiveService
    BY DEF ExclusiveService
  <2>1. ASSUME NEW c \in Clients PROVE Cardinality(Pending(c)) + Cardinality(Serving(c)) <= 1
    <3>1. \A i, j \in Pending(c) : i = j
      BY DEF Pending, SInv, DInv, NoTwo, Distinct
    <3>2. \A v, w \in Serving(c) : v = w
      BY DEF Serving, SInv, DInv, NoTwo
    <3>3. Pending(c) = {} \/ Serving(c) = {}
      <4>1. CASE IsQueued(c)
        <5>1. ~IsServed(c)
          BY <4>1, Alone, WhereIs
        <5> QED BY <5>1 DEF IsServed, Serving
      <4>2. CASE ~IsQueued(c)
        BY <4>2 DEF IsQueued, Pending, Range
      <4> QED BY <4>1, <4>2
    <3>4. ASSUME NEW S, \A x, y \in S : x = y PROVE Cardinality(S) \in {0, 1}
      <4>1. CASE S = {}
        BY <4>1, FS_EmptySet
      <4>2. CASE S # {}
        <5>1. PICK x : S = {x}
          BY <3>4, <4>2
        <5> QED BY <5>1, FS_Singleton
      <4> QED BY <4>1, <4>2
    <3>5. Cardinality(Pending(c)) \in {0, 1} /\ Cardinality(Serving(c)) \in {0, 1}
      BY <3>1, <3>2, <3>4
    <3> QED BY <3>3, <3>5, FS_EmptySet
  <2>2. \A i \in DOMAIN tasks : Holds(tasks[i].cl, tasks[i].obj)
    BY DEF SInv, DInv, AllSound, TaskSound, Range
  <2>3. \A w \in Workers : job[w].at # "idle" => Holds(job[w].cl, job[w].obj)
    BY DEF SInv, DInv, AllSound, JobSound
  <2> QED BY <2>1, <2>2, <2>3 DEF ExclusiveService, Holds
<1> QED BY <1>1, SInvariance, PTL

\* No connection is forgotten: an event, a task, a worker or a close request
\* waits for it, or it is armed.
THEOREM NobodyForgotten ==
  ASSUME Disciplined
  PROVE  Spec => []NeverForgotten
<1>1. SInv => NeverForgotten
  <2> SUFFICES ASSUME SInv, pc # "closed", NEW fd \in Fds, fdOwner[fd] # Null
               PROVE  \/ interest[fd] # "off"
                      \/ \E e \in batch : e.fd = fd
                      \/ \E i \in DOMAIN tasks : tasks[i].obj = connects[fd]
                      \/ \E w \in Workers : job[w].at # "idle" /\ job[w].obj = connects[fd]
                      \/ \E i \in DOMAIN closeQueue : closeQueue[i].fd = fd
    BY DEF NeverForgotten
  <2>1. PICK c \in Clients : c = fdOwner[fd] /\ c \in Owned
    BY Types DEF SInv, IInv, TypeOK, KernelTypeOK
  <2>2. \A f \in Fds : fdOwner[f] = c => f = fd
    BY <2>1 DEF SInv, ServedSound
  <2>3. IsArmed(c) \/ IsReady(c) \/ IsQueued(c) \/ IsServed(c) \/ IsClosing(c)
    BY <2>1, WhereIs DEF SInv, DInv, InOnePlace
  <2>4. CASE IsArmed(c)
    BY <2>2, <2>4 DEF IsArmed
  <2>5. CASE IsReady(c)
    <3>1. PICK e \in batch : e.ev # "accept" /\ e.cl = c
      BY <2>5 DEF IsReady
    <3>2. e.fd \in Fds /\ fdOwner[e.fd] = c
      BY <3>1 DEF SInv, IInv, TypeOK, LoopTypeOK, BatchShaped, Event, EventsFresh
    <3> QED BY <2>2, <3>1, <3>2
  <2>6. CASE IsQueued(c)
    <3>1. PICK i \in DOMAIN tasks : tasks[i].cl = c /\ TaskSound(tasks[i])
      BY <2>6 DEF IsQueued, Range, SInv, DInv, AllSound
    <3> QED BY <2>2, <3>1 DEF TaskSound, Holds
  <2>7. CASE IsServed(c)
    <3>1. PICK w \in Workers : job[w].at # "idle" /\ job[w].cl = c /\ JobSound(job[w])
      BY <2>7 DEF IsServed, SInv, DInv, AllSound
    <3> QED BY <2>2, <3>1 DEF JobSound, Holds
  <2>8. CASE IsClosing(c)
    <3>1. PICK i \in DOMAIN closeQueue : closeQueue[i].cl = c /\ RequestSound(closeQueue[i])
      BY <2>8 DEF IsClosing, Range, SInv, DInv, AllSound
    <3> QED BY <2>2, <3>1 DEF RequestSound
  <2> QED BY <2>3, <2>4, <2>5, <2>6, <2>7, <2>8
<1> QED BY <1>1, SInvariance, PTL

\* The loop closes a connection only if its own handler asked for it.
THEOREM RequesterClosed ==
  ASSUME Disciplined
  PROVE  Spec => DrainClosesRequester
<1>1. SInv /\ DrainOne => LET q == Head(closeQueue) IN
        q.fd \in Fds /\ fdOwner[q.fd] # Null => fdOwner[q.fd] = q.cl
  BY RequestFacts DEF DrainOne, Draining
<1> QED BY <1>1, SInvariance, PTL DEF Spec, DrainClosesRequester
=============================================================================
