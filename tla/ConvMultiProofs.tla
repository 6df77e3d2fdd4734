-------------------------- MODULE ConvMultiProofs ---------------------------
(***************************************************************************)
(* Proofs about ConvMulti, for every number of clients, objects, reactors, *)
(* workers and descriptors, every handler and every configuration: the     *)
(* types, and that the tables of the reactors, the kernel's descriptors,   *)
(* the objects, the shared pool and the shared count agree.                *)
(***************************************************************************)
EXTENDS ConvMulti, DataLemmas, TLAPS, FiniteSetTheorems, SequenceTheorems

-----------------------------------------------------------------------------
(* The types *)

Statuses == {"OK", "IN", "OUT", "RDHUP", "ERROR", "CLOSE", "BAD"}
Event == [fd : Fds, ev : HandlerEvents \cup {"other"}, cl : Clients]
Tables == [Reactors -> [Fds -> Objs \cup {Null}]]
Request == [fd : Fds \cup {NoFd}, cl : Clients]
Task == [obj : Objs, cl : Clients]
Job == [obj : Objs \cup {Null}, cl : Clients \cup {Null},
        at : {"idle", "switch", "op", "ctl", "mark", "push"}, todo : Seq(Op),
        reg : [epoll : Reactors \cup {Null}, fd : Fds \cup {NoFd}]]

KernelTypeOK ==
  /\ arrived \subseteq Clients /\ backlog \subseteq Clients /\ hup \subseteq Clients
  /\ fdOwner \in [Fds -> Clients \cup {Null}] /\ home \in [Fds -> Reactors \cup {Null}]
  /\ interest \in [Fds -> {"off", "in", "out"}]

AcceptorTypeOK ==
  acc \in [at : {"wait", "look", "least"}, fd : Fds \cup {NoFd}, next : 0..ReactorCount,
           least : Nat, pick : Reactors]

LoopTypeOK ==
  /\ pc \in [Reactors -> {"drain", "wait", "serve"}]
  /\ batch \in [Reactors -> SUBSET Event] /\ cur \in [Reactors -> Event \cup {NoEvent}]
  /\ keys \in [Reactors -> SUBSET Fds]

ConnTypeOK ==
  /\ connects \in Tables /\ gone \in [Reactors -> Objs \cup {Null}]
  /\ sock \in [Objs -> Fds \cup {NoFd}] /\ status \in [Objs -> Statuses]
  /\ boss \in [Objs -> Reactors \cup {Null}] /\ pool \in Seq(Objs) /\ count \in Nat

WorkTypeOK ==
  /\ closeQueue \in [Reactors -> Seq(Request)] /\ tasks \in [Reactors -> Seq(Task)]
  /\ job \in [Threads -> Job]

TypeOK == KernelTypeOK /\ AcceptorTypeOK /\ LoopTypeOK /\ ConnTypeOK /\ WorkTypeOK

-----------------------------------------------------------------------------
(* The inductive invariant *)

\* A busy worker has an object and a client, and an operation to perform
\* whenever it is past the switch.
JobShaped(j) ==
  /\ j.at # "idle" => j.obj \in Objs /\ j.cl \in Clients
  /\ j.at \in {"op", "ctl", "mark", "push"} => j.todo # <<>>
  /\ j.at = "ctl" => Head(j.todo) \in {"in", "out"}

JobsShaped == \A t \in Threads : JobShaped(job[t])

\* Only an open descriptor is in an epoll instance: close takes it out.
HomeOpen == \A f \in Fds : home[f] # Null => fdOwner[f] # Null

\* The descriptor that the acceptor places is open and in no epoll instance.
PlacingSound ==
  /\ acc.at # "wait" => acc.fd \in Fds /\ fdOwner[acc.fd] # Null /\ home[acc.fd] = Null
  /\ acc.at = "least" => acc.next \in Reactors

\* An event of reactor r is about the connection its descriptor still has.
Current(r, e) == fdOwner[e.fd] = e.cl /\ home[e.fd] = r

\* There are events only while they are served, at most one of a descriptor,
\* all of them current; the one a reactor is at has an object.
RoundSound(r) ==
  /\ pc[r] # "serve" => batch[r] = {} /\ cur[r] = NoEvent
  /\ \A e \in batch[r] : Current(r, e) /\ e.fd # cur[r].fd
  /\ \A e1, e2 \in batch[r] : e1.fd = e2.fd => e1 = e2
  /\ cur[r] # NoEvent => /\ Current(r, cur[r]) /\ gone[r] = Null
                         /\ connects[r][cur[r].fd] # Null

RoundsSound == \A r \in Reactors : RoundSound(r)

IInv == /\ TypeOK /\ JobsShaped /\ HomeOpen /\ PlacingSound /\ RoundsSound
        /\ TableSound

-----------------------------------------------------------------------------
(* Handlers and tables *)

\* Whatever the status of a connection, process() runs a program.
LEMMA ProgramsType ==
  ASSUME NEW st \in Statuses
  PROVE  Programs(st) \subseteq Program
<1>1. Fails \in Program /\ HungUp \in Program /\ Path(<<>>, TRUE) \in Program
  BY DEF Fails, HungUp, Path, Program, Op, Call
<1>2. \A p \in Program : Failing(p) \in Program
  <2> TAKE p \in Program
  <2>1. p.ops \in Seq(Op) /\ "notify" \in Op
    BY DEF Program, Op, Call
  <2>2. Append(p.ops, "notify") \in Seq(Op)
    BY <2>1, AppendProperties
  <2> QED BY <2>2 DEF Failing, Path, Program
<1>3. InPaths \subseteq Program /\ OutPaths \subseteq Program
  BY MultiParameters
<1> QED BY <1>1, <1>2, <1>3 DEF Programs, Statuses

\* No two constants of different sorts are equal.
LEMMA Sorts == /\ NoFd \notin Fds /\ Null \notin Objs /\ Null \notin Clients
               /\ Null \notin Reactors /\ IsFiniteSet(Fds) /\ IsFiniteSet(Reactors)
               /\ Reactors \subseteq Nat /\ 0 \in Reactors
<1>1. Reactors \subseteq Nat /\ 0 \in Reactors
  BY MultiParameters DEF MultiParameters, Reactors
<1>2. IsFiniteSet(Reactors)
  BY MultiParameters, FS_Interval DEF MultiParameters, Reactors
<1> QED BY <1>1, <1>2, MultiParameters DEF MultiParameters

\* The objects of a family of tables, and the finiteness of its entries.
LEMMA TableFacts ==
  ASSUME NEW t \in Tables
  PROVE  /\ \A o : o \in UNION {Range(t[r]) \ {Null} : r \in Reactors}
                     <=> o \in Objs /\ \E r \in Reactors, f \in Fds : t[r][f] = o
         /\ IsFiniteSet({rf \in Reactors \X Fds : t[rf[1]][rf[2]] # Null})
<1>1. ASSUME NEW o
      PROVE  o \in UNION {Range(t[r]) \ {Null} : r \in Reactors}
               <=> o \in Objs /\ \E r \in Reactors, f \in Fds : t[r][f] = o
  <2>1. \A r \in Reactors : t[r] \in [Fds -> Objs \cup {Null}]
    BY DEF Tables
  <2>2. \A r \in Reactors : o \in Range(t[r]) <=> \E f \in Fds : t[r][f] = o
    BY <2>1 DEF Range
  <2> QED BY <2>1, <2>2, Sorts
<1>2. IsFiniteSet({rf \in Reactors \X Fds : t[rf[1]][rf[2]] # Null})
  BY Sorts, FS_Product, FS_Subset
<1> QED BY <1>1, <1>2

\* An object is live when an entry holds it.
LEMMA LiveFacts ==
  ASSUME connects \in Tables
  PROVE  /\ \A o : o \in Live
                     <=> o \in Objs /\ \E r \in Reactors, f \in Fds : connects[r][f] = o
         /\ IsFiniteSet(Entries) /\ Cardinality(Entries) \in Nat
BY TableFacts, FS_CardinalityType DEF Live, LiveIn, Entries

\* An object that a reactor is closing.
LEMMA ClosingFacts ==
  ASSUME NEW g \in [Reactors -> Objs \cup {Null}]
  PROVE  \A o : o \in Range(g) \ {Null} <=> o \in Objs /\ \E r \in Reactors : g[r] = o
BY Sorts DEF Range

-----------------------------------------------------------------------------
(* The steps that change the tables *)

\* CONNECTS_REMOVE_FD_REACTOR up to the close of the descriptor: the entry and
\* the descriptor go together, so tables, kernel and count still agree, and
\* neither the acceptor nor another reactor is concerned.
LEMMA UnlinkStep ==
  ASSUME IInv, NEW r \in Reactors, NEW fd \in Fds, connects[r][fd] # Null,
         gone[r] = Null, Unlink(r, fd), acc' = acc
  PROVE  /\ KernelTypeOK' /\ ConnTypeOK' /\ HomeOpen' /\ PlacingSound' /\ TableSound'
         /\ home[fd] = r
         /\ \A f \in Fds \ {fd} : fdOwner'[f] = fdOwner[f] /\ home'[f] = home[f]
         /\ \A q \in Reactors, f \in Fds :
              q # r \/ f # fd => connects'[q][f] = connects[q][f]
         /\ \A q \in Reactors \ {r} : gone'[q] = gone[q]
<1> USE DEF IInv, TypeOK
<1>0. PICK o \in Objs : o = connects[r][fd]
  BY DEF ConnTypeOK, Tables
<1>1. /\ sock[o] = fd /\ boss[o] = r /\ home[fd] = r /\ fdOwner[fd] # Null
  BY <1>0 DEF TableSound
<1>2. /\ fdOwner' = [fdOwner EXCEPT ![fd] = Null] /\ home' = [home EXCEPT ![fd] = Null]
      /\ interest' = [interest EXCEPT ![fd] = "off"] /\ count' = count - 1
      /\ connects' = [connects EXCEPT ![r][fd] = Null] /\ gone' = [gone EXCEPT ![r] = o]
      /\ UNCHANGED <<arrived, backlog, hup, sock, status, boss, pool>>
  BY <1>0, <1>1 DEF Unlink
<1>3. KernelTypeOK' /\ HomeOpen'
  BY <1>2 DEF KernelTypeOK, HomeOpen
<1>4. PlacingSound'
  BY <1>1, <1>2, Sorts DEF PlacingSound, KernelTypeOK
<1>5. /\ connects' \in Tables /\ connects'[r][fd] = Null
      /\ \A q \in Reactors, f \in Fds : q # r \/ f # fd => connects'[q][f] = connects[q][f]
  BY <1>2 DEF ConnTypeOK, Tables
<1>6. /\ \A x : x \in Live' <=> x \in Objs /\ \E q \in Reactors, f \in Fds : connects'[q][f] = x
      /\ \A x : x \in Live <=> x \in Objs /\ \E q \in Reactors, f \in Fds : connects[q][f] = x
  BY <1>5, TableFacts DEF Live, LiveIn, ConnTypeOK
<1>7. \A q \in Reactors, f \in Fds : connects[q][f] = o => q = r /\ f = fd
  BY <1>1, Sorts DEF TableSound
<1>8. Live' = Live \ {o} /\ o \in Live
  <2>1. o \in Live
    BY <1>0, <1>6
  <2>2. ASSUME NEW x \in Live \ {o} PROVE x \in Live'
    BY <2>2, <1>0, <1>5, <1>6
  <2>3. ASSUME NEW x \in Live' PROVE x \in Live \ {o}
    <3>1. PICK q \in Reactors, f \in Fds : connects'[q][f] = x /\ x \in Objs
      BY <2>3, <1>6
    <3>2. q # r \/ f # fd
      BY <3>1, <1>5, Sorts
    <3> QED BY <3>1, <3>2, <1>5, <1>6, <1>7
  <2> QED BY <2>1, <2>2, <2>3
<1>9. /\ Entries' = Entries \ {<<r, fd>>} /\ <<r, fd>> \in Entries
      /\ IsFiniteSet(Entries) /\ Cardinality(Entries) \in Nat
  BY <1>5, LiveFacts DEF Entries, ConnTypeOK
<1>10. count' = Cardinality(Entries') /\ count' \in Nat
  <2>1. /\ Cardinality(Entries \ {<<r, fd>>}) = Cardinality(Entries) - 1
        /\ Cardinality(Entries \ {<<r, fd>>}) \in Nat
    BY <1>9, FS_RemoveElement, FS_CardinalityType
  <2> QED BY <2>1, <1>2, <1>9 DEF TableSound
<1>11. gone' \in [Reactors -> Objs \cup {Null}]
  BY <1>2 DEF ConnTypeOK
<1>12. ConnTypeOK'
  BY <1>2, <1>5, <1>10, <1>11 DEF ConnTypeOK
<1>13. TableSound'
  <2>1. ASSUME NEW q \in Reactors, NEW f \in Fds, connects'[q][f] # Null
        PROVE  /\ fdOwner'[f] # Null /\ home'[f] = q
               /\ sock'[connects'[q][f]] = f /\ boss'[connects'[q][f]] = q
    <3>1. connects'[q][f] = connects[q][f]
      BY <2>1, <1>5
    <3>2. f # fd
      BY <2>1, <3>1, <1>1, <1>5 DEF TableSound
    <3> QED BY <2>1, <3>1, <3>2, <1>2 DEF TableSound, KernelTypeOK
  <2>2. \A q \in Reactors : gone'[q] # Null => gone'[q] \notin Live'
    BY <1>2, <1>8 DEF TableSound, ConnTypeOK
  <2>3. \A q1, q2 \in Reactors : gone'[q1] = gone'[q2] /\ gone'[q1] # Null => q1 = q2
    BY <1>2, <1>8 DEF TableSound, ConnTypeOK
  <2>4. (Live' \cup Closing') \cap Range(pool') = {} /\ IsInjective(pool')
    <3>1. ASSUME NEW x \in Closing' PROVE x \in Closing \cup {o}
      BY <1>2, <1>11, ClosingFacts DEF Closing, ConnTypeOK
    <3>2. o \notin Range(pool)
      BY <1>8 DEF TableSound
    <3> QED BY <3>1, <3>2, <1>2, <1>8 DEF TableSound
  <2> QED BY <2>1, <2>2, <2>3, <2>4, <1>10 DEF TableSound
<1> QED BY <1>1, <1>2, <1>3, <1>4, <1>5, <1>12, <1>13 DEF KernelTypeOK, ConnTypeOK

\* The rest of the removal: the object forgets its descriptor and is released.
LEMMA ForgetStep ==
  ASSUME IInv, NEW r \in Reactors, Forget(r)
  PROVE  ConnTypeOK' /\ TableSound' /\ \A q \in Reactors \ {r} : gone'[q] = gone[q]
<1> USE DEF IInv, TypeOK
<1>0. PICK o \in Objs : o = gone[r]
  BY DEF Forget, ConnTypeOK
<1>1. /\ sock' = [sock EXCEPT ![o] = NoFd] /\ status' = [status EXCEPT ![o] = "OK"]
      /\ pool' = (IF recycling THEN Append(pool, o) ELSE pool)
      /\ gone' = [gone EXCEPT ![r] = Null]
      /\ UNCHANGED <<fdOwner, home, connects, boss, count>>
  BY <1>0 DEF Forget, kernelVars
<1>2. o \notin Live /\ o \notin Range(pool) /\ pool \in Seq(Objs) /\ IsInjective(pool)
  BY <1>0, ClosingFacts, Sorts DEF TableSound, ConnTypeOK, Closing
<1>3. /\ pool' \in Seq(Objs) /\ IsInjective(pool')
      /\ Range(pool') \subseteq Range(pool) \cup {o}
  BY <1>1, <1>2, AppendProperties, RangeAppend, InjectiveAppend
<1>4. /\ gone' \in [Reactors -> Objs \cup {Null}] /\ gone'[r] = Null
      /\ \A q \in Reactors \ {r} : gone'[q] = gone[q]
  BY <1>1 DEF ConnTypeOK
<1>5. ConnTypeOK'
  BY <1>1, <1>3, <1>4 DEF ConnTypeOK, Statuses
<1>6. Live' = Live /\ Entries' = Entries
  BY <1>1 DEF Live, LiveIn, Entries
<1>7. \A q \in Reactors, f \in Fds : connects[q][f] # o
  BY <1>2, LiveFacts DEF ConnTypeOK
<1>8. \A q \in Reactors \ {r} : gone[q] # o
  BY <1>0, Sorts DEF TableSound
<1>9. TableSound'
  <2>1. ASSUME NEW q \in Reactors, NEW f \in Fds, connects'[q][f] # Null
        PROVE  /\ fdOwner'[f] # Null /\ home'[f] = q
               /\ sock'[connects'[q][f]] = f /\ boss'[connects'[q][f]] = q
    BY <2>1, <1>1, <1>7 DEF TableSound, ConnTypeOK, Tables
  <2>2. \A q \in Reactors : gone'[q] # Null => gone'[q] \notin Live'
    BY <1>4, <1>6 DEF TableSound
  <2>3. \A q1, q2 \in Reactors : gone'[q1] = gone'[q2] /\ gone'[q1] # Null => q1 = q2
    BY <1>4 DEF TableSound
  <2>4. (Live' \cup Closing') \cap Range(pool') = {}
    <3>1. ASSUME NEW x \in Closing' PROVE x \in Closing /\ x # o
      BY <3>1, <1>4, <1>8, ClosingFacts DEF Closing, ConnTypeOK
    <3> QED BY <3>1, <1>2, <1>3, <1>6 DEF TableSound
  <2> QED BY <2>1, <2>2, <2>3, <2>4, <1>1, <1>3, <1>6 DEF TableSound
<1> QED BY <1>4, <1>5, <1>9

\* An object taken from the pool, or a new one, serves no connection.
LEMMA AcquiredFacts ==
  ASSUME IInv, NEW o \in Acquirable,
         NEW p, p = IF recycling /\ pool # <<>> THEN Tail(pool) ELSE pool
  PROVE  /\ o \in Objs /\ o \notin Live \cup Closing \cup Range(p)
         /\ p \in Seq(Objs) /\ IsInjective(p) /\ Range(p) \subseteq Range(pool)
<1>1. /\ pool \in Seq(Objs) /\ IsInjective(pool)
      /\ (Live \cup Closing) \cap Range(pool) = {}
  BY DEF IInv, TypeOK, ConnTypeOK, TableSound
<1>2. CASE recycling /\ pool # <<>>
  <2>1. o = Head(pool) /\ p = Tail(pool)
    BY <1>2 DEF Acquirable
  <2>2. Head(pool) \in Objs /\ Tail(pool) \in Seq(Objs)
    BY <1>1, <1>2, HeadTailProperties
  <2>3. Range(pool) = Range(Tail(pool)) \cup {Head(pool)}
    BY <1>1, <1>2, RangeTail
  <2>4. IsInjective(Tail(pool)) /\ Head(pool) \notin Range(Tail(pool))
    BY <1>1, <1>2, InjectiveTail
  <2> QED BY <2>1, <2>2, <2>3, <2>4, <1>1
<1>3. CASE ~(recycling /\ pool # <<>>)
  BY <1>1, <1>3 DEF Acquirable, Fresh
<1> QED BY <1>2, <1>3

\* The first event of a connection gives the descriptor an object.
LEMMA InstallStep ==
  ASSUME IInv, NEW r \in Reactors, NEW fd \in Fds, connects[r][fd] = Null,
         fdOwner[fd] # Null, home[fd] = r, NEW o \in Acquirable,
         connects' = [connects EXCEPT ![r][fd] = o], sock' = [sock EXCEPT ![o] = fd],
         status' = [status EXCEPT ![o] = "OK"], boss' = [boss EXCEPT ![o] = r],
         pool' = IF recycling /\ pool # <<>> THEN Tail(pool) ELSE pool,
         count' = count + 1, UNCHANGED <<fdOwner, home, gone>>
  PROVE  /\ ConnTypeOK' /\ TableSound' /\ connects'[r][fd] # Null
         /\ \A q \in Reactors, f \in Fds : connects[q][f] # Null => connects'[q][f] # Null
<1> USE DEF IInv, TypeOK
<1>1. /\ o \in Objs /\ o \notin Live \cup Closing \cup Range(pool')
      /\ pool' \in Seq(Objs) /\ IsInjective(pool') /\ Range(pool') \subseteq Range(pool)
  BY AcquiredFacts
<1>2. /\ connects' \in Tables /\ connects'[r][fd] = o
      /\ \A q \in Reactors, f \in Fds : q # r \/ f # fd => connects'[q][f] = connects[q][f]
  BY <1>1 DEF ConnTypeOK, Tables
<1>3. /\ \A x : x \in Live' <=> x \in Objs /\ \E q \in Reactors, f \in Fds : connects'[q][f] = x
      /\ \A x : x \in Live <=> x \in Objs /\ \E q \in Reactors, f \in Fds : connects[q][f] = x
  BY <1>2, TableFacts DEF Live, LiveIn, ConnTypeOK
<1>4. Live' \subseteq Live \cup {o}
  <2> SUFFICES ASSUME NEW x \in Live', x # o PROVE x \in Live
    OBVIOUS
  <2>1. PICK q \in Reactors, f \in Fds : connects'[q][f] = x /\ x \in Objs
    BY <1>3
  <2> QED BY <2>1, <1>2, <1>3
<1>5. /\ Entries' = Entries \cup {<<r, fd>>} /\ <<r, fd>> \notin Entries
      /\ IsFiniteSet(Entries) /\ Cardinality(Entries) \in Nat
  BY <1>1, <1>2, LiveFacts, Sorts DEF Entries, ConnTypeOK
<1>6. count' = Cardinality(Entries') /\ count' \in Nat
  <2>1. Cardinality(Entries \cup {<<r, fd>>}) = Cardinality(Entries) + 1
    BY <1>5, FS_AddElement
  <2> QED BY <2>1, <1>5 DEF TableSound
<1>7. ConnTypeOK'
  BY <1>1, <1>2, <1>6 DEF ConnTypeOK, Statuses
<1>8. TableSound'
  <2>1. ASSUME NEW q \in Reactors, NEW f \in Fds, connects'[q][f] # Null
        PROVE  /\ fdOwner'[f] # Null /\ home'[f] = q
               /\ sock'[connects'[q][f]] = f /\ boss'[connects'[q][f]] = q
    <3>1. CASE q = r /\ f = fd
      BY <3>1, <1>1, <1>2 DEF ConnTypeOK
    <3>2. CASE ~(q = r /\ f = fd)
      <4>1. /\ connects'[q][f] = connects[q][f] /\ connects[q][f] \in Objs
            /\ connects[q][f] # o
        BY <2>1, <3>2, <1>1, <1>2, <1>3 DEF ConnTypeOK, Tables
      <4> QED BY <2>1, <4>1 DEF TableSound, ConnTypeOK
    <3> QED BY <3>1, <3>2
  <2>2. \A q \in Reactors : gone'[q] # Null => gone'[q] \notin Live' /\ gone'[q] # o
    <3> SUFFICES ASSUME NEW q \in Reactors, gone[q] # Null
                 PROVE  gone[q] \notin Live' /\ gone[q] # o
      OBVIOUS
    <3>1. gone[q] \in Closing /\ gone[q] \notin Live
      BY ClosingFacts DEF Closing, ConnTypeOK, TableSound
    <3> QED BY <3>1, <1>1, <1>4
  <2>3. \A q1, q2 \in Reactors : gone'[q1] = gone'[q2] /\ gone'[q1] # Null => q1 = q2
    BY DEF TableSound
  <2>4. (Live' \cup Closing') \cap Range(pool') = {}
    <3>1. Closing' = Closing
      BY DEF Closing
    <3> QED BY <3>1, <1>1, <1>4 DEF TableSound
  <2> QED BY <2>1, <2>2, <2>3, <2>4, <1>1, <1>6 DEF TableSound
<1>9. o # Null
  BY <1>1, Sorts
<1> QED BY <1>2, <1>7, <1>8, <1>9

-----------------------------------------------------------------------------
(* The invariant holds initially; clients and the acceptor keep it *)

LEMMA InitInv == Init => IInv
<1> SUFFICES ASSUME Init PROVE IInv
  OBVIOUS
<1> USE DEF Init
<1>1. pool \in Seq(Objs) /\ IsInjective(pool)
  <2>1. CASE recycling
    <3>1. pool \in [1..PoolSize -> Objs] /\ IsInjective(pool)
      BY <2>1 DEF Injection
    <3> QED BY <3>1, MultiParameters DEF MultiParameters
  <2>2. CASE ~recycling
    <3>1. pool = <<>>
      BY <2>2
    <3> QED BY <3>1, EmptySeq DEF IsInjective
  <2> QED BY <2>1, <2>2
<1>2. /\ connects \in Tables /\ gone \in [Reactors -> Objs \cup {Null}]
      /\ \A r \in Reactors, f \in Fds : connects[r][f] = Null
  BY DEF Tables
<1>3. Entries = {} /\ Live = {} /\ Closing = {}
  <2>1. Live = {}
    BY <1>2, LiveFacts, Sorts
  <2>2. Closing = {}
    BY <1>2, ClosingFacts, Sorts DEF Closing
  <2> QED BY <2>1, <2>2, <1>2 DEF Entries
<1>4. TypeOK
  <2>1. KernelTypeOK
    BY DEF KernelTypeOK
  <2>2. AcceptorTypeOK
    BY Sorts, MultiParameters DEF AcceptorTypeOK, Searching, MultiParameters
  <2>3. LoopTypeOK
    BY DEF LoopTypeOK
  <2>4. ConnTypeOK
    BY <1>1, <1>2 DEF ConnTypeOK, Statuses
  <2>5. WorkTypeOK
    BY EmptySeq DEF WorkTypeOK, NoJob, Job
  <2> QED BY <2>1, <2>2, <2>3, <2>4, <2>5 DEF TypeOK
<1>5. JobsShaped /\ HomeOpen /\ PlacingSound
  BY DEF JobsShaped, JobShaped, NoJob, HomeOpen, PlacingSound, Searching
<1>6. RoundsSound
  BY DEF RoundsSound, RoundSound
<1>7. TableSound
  BY <1>1, <1>2, <1>3, FS_EmptySet DEF TableSound
<1> QED BY <1>4, <1>5, <1>6, <1>7 DEF IInv

\* The round of a reactor is sound as long as its connections stay.
LEMMA RoundFrame ==
  ASSUME NEW r \in Reactors, RoundSound(r), LoopTypeOK,
         pc'[r] = pc[r], batch'[r] = batch[r], cur'[r] = cur[r], gone'[r] = gone[r],
         NEW fd \in Fds, home[fd] # r,
         \A f \in Fds \ {fd} : fdOwner'[f] = fdOwner[f] /\ home'[f] = home[f],
         \A f \in Fds \ {fd} : connects[r][f] # Null => connects'[r][f] # Null
  PROVE  RoundSound(r)'
<1>1. \A e \in batch[r] : e.fd \in Fds \ {fd}
  BY DEF RoundSound, LoopTypeOK, Current, Event
<1>2. cur[r] # NoEvent => cur[r].fd \in Fds \ {fd}
  BY DEF RoundSound, LoopTypeOK, Current, Event
<1>3. \A e \in batch[r] : Current(r, e)'
  BY <1>1 DEF RoundSound, Current
<1> QED BY <1>1, <1>2, <1>3 DEF RoundSound, Current

LEMMA ClientInv ==
  ASSUME IInv, NEW c \in Clients, Arrive(c) \/ HangUp(c)
  PROVE  IInv'
<1> USE DEF IInv, TypeOK
<1>1. /\ UNCHANGED <<fdOwner, home, interest, acc, loopVars, connVars, workVars>>
      /\ KernelTypeOK'
  <2>1. CASE Arrive(c)
    BY <2>1 DEF Arrive, KernelTypeOK
  <2>2. CASE HangUp(c)
    BY <2>2 DEF HangUp, KernelTypeOK
  <2> QED BY <2>1, <2>2
<1>2. AcceptorTypeOK' /\ LoopTypeOK' /\ ConnTypeOK' /\ WorkTypeOK' /\ JobsShaped'
  BY <1>1 DEF AcceptorTypeOK, LoopTypeOK, ConnTypeOK, WorkTypeOK, JobsShaped,
              loopVars, connVars, workVars
<1>3. HomeOpen' /\ PlacingSound' /\ RoundsSound'
  BY <1>1 DEF HomeOpen, PlacingSound, RoundsSound, RoundSound, Current, loopVars, connVars
<1>4. TableSound'
  BY <1>1 DEF TableSound, Live, LiveIn, Closing, Entries, loopVars, connVars
<1> QED BY <1>1, <1>2, <1>3, <1>4

\* Placing a connection concerns no reactor before its epoll instance has it.
LEMMA AcceptorInv ==
  ASSUME IInv, Acceptor
  PROVE  IInv'
<1> USE DEF IInv, TypeOK
<1>1. UNCHANGED <<arrived, hup, modeVars, loopVars, connVars, workVars>>
  BY DEF Acceptor, AcceptorAccept, AcceptorLook, AcceptorLeast, AcceptorAdd, kernelVars
<1>2. /\ LoopTypeOK' /\ ConnTypeOK' /\ WorkTypeOK' /\ JobsShaped'
  BY <1>1 DEF LoopTypeOK, ConnTypeOK, WorkTypeOK, JobsShaped, loopVars, connVars, workVars
<1>3. Live' = Live /\ Closing' = Closing /\ Entries' = Entries
  BY <1>1 DEF Live, LiveIn, Closing, Entries, loopVars, connVars
<1>4. CASE AcceptorAccept
  <2>1. PICK c \in backlog, fd \in FreeFds :
          /\ acc.at = "wait" /\ backlog' = backlog \ {c}
          /\ fdOwner' = [fdOwner EXCEPT ![fd] = c]
          /\ acc' = [Searching EXCEPT !.at = "look", !.fd = fd, !.least = Cardinality(Fds) + 1]
          /\ UNCHANGED <<home, interest>>
    BY <1>4 DEF AcceptorAccept
  <2>2. /\ fd \in Fds /\ fdOwner[fd] = Null /\ home[fd] = Null
        /\ c \in Clients /\ c # Null
    BY <2>1, Sorts DEF FreeFds, HomeOpen, KernelTypeOK
  <2>3. KernelTypeOK'
    BY <1>1, <2>1, <2>2 DEF KernelTypeOK
  <2>4. AcceptorTypeOK'
    <3>1. PICK n \in Nat : n = Cardinality(Fds) + 1
      BY Sorts, FS_CardinalityType
    <3>2. acc' = [at |-> "look", fd |-> fd, next |-> 0, least |-> n, pick |-> 0]
      BY <2>1, <3>1 DEF Searching
    <3>3. 0 \in 0..ReactorCount /\ 0 \in Reactors
      BY Sorts, MultiParameters DEF MultiParameters
    <3> QED BY <2>2, <3>2, <3>3 DEF AcceptorTypeOK
  <2>5. HomeOpen' /\ PlacingSound'
    BY <2>1, <2>2 DEF HomeOpen, PlacingSound, KernelTypeOK, Searching
  <2>6. \A f \in Fds \ {fd} : fdOwner'[f] = fdOwner[f] /\ home'[f] = home[f]
    BY <2>1 DEF KernelTypeOK
  <2>7. RoundsSound'
    <3> SUFFICES ASSUME NEW r \in Reactors PROVE RoundSound(r)'
      BY DEF RoundsSound
    <3>1. RoundSound(r) /\ home[fd] # r
      BY <2>2, Sorts DEF RoundsSound
    <3>2. /\ pc' = pc /\ batch' = batch /\ cur' = cur /\ gone' = gone /\ connects' = connects
      BY <1>1 DEF loopVars, connVars
    <3> QED BY <3>1, <3>2, <2>2, <2>6, RoundFrame
  <2>8. TableSound'
    BY <1>1, <1>3, <2>1, <2>2, <2>6 DEF TableSound, KernelTypeOK, loopVars, connVars
  <2> QED BY <1>2, <2>3, <2>4, <2>5, <2>7, <2>8
<1>5. CASE AcceptorLook \/ AcceptorLeast
  <2>1. UNCHANGED kernelVars
    BY <1>5 DEF AcceptorLook, AcceptorLeast
  <2>2. AcceptorTypeOK' /\ PlacingSound'
    <3>1. acc.next \in Reactors /\ Size(acc.next) \in Nat
      <4>1. acc.next \in Reactors
        BY <1>5 DEF AcceptorLook, AcceptorLeast, PlacingSound
      <4>2. keys[acc.next] \subseteq Fds
        BY <4>1 DEF LoopTypeOK
      <4> QED BY <4>1, <4>2, Sorts, FS_Subset, FS_CardinalityType DEF Size
    <3>2. acc.next + 1 \in 0..ReactorCount
      BY <3>1, MultiParameters DEF MultiParameters, Reactors
    <3>3. \/ acc' = [acc EXCEPT !.at = "least"]
          \/ acc' = [acc EXCEPT !.at = "look", !.next = acc.next + 1, !.least = Size(acc.next),
                                !.pick = acc.next]
          \/ acc' = [acc EXCEPT !.next = acc.next + 1] /\ acc.at = "look"
      BY <1>5 DEF AcceptorLook, AcceptorLeast
    <3>4. AcceptorTypeOK'
      BY <3>1, <3>2, <3>3 DEF AcceptorTypeOK
    <3>5. /\ acc.at # "wait" /\ acc'.fd = acc.fd
          /\ acc'.at = "least" => acc'.next = acc.next
      <4>1. acc.at # "wait"
        BY <1>5 DEF AcceptorLook, AcceptorLeast
      <4> QED BY <3>3, <4>1 DEF AcceptorTypeOK
    <3> QED BY <3>1, <3>4, <3>5, <2>1 DEF PlacingSound, kernelVars
  <2>3. KernelTypeOK' /\ HomeOpen'
    BY <2>1 DEF KernelTypeOK, HomeOpen, kernelVars
  <2>4. RoundsSound' /\ TableSound'
    BY <1>1, <1>3, <2>1 DEF RoundsSound, RoundSound, Current, TableSound, kernelVars,
                            loopVars, connVars
  <2> QED BY <1>2, <2>2, <2>3, <2>4
<1>6. CASE AcceptorAdd
  <2>1. /\ acc.at = "look" /\ acc' = Searching
        /\ home' = [home EXCEPT ![acc.fd] = acc.pick]
        /\ interest' = [interest EXCEPT ![acc.fd] = "in"]
        /\ UNCHANGED <<backlog, fdOwner>>
    BY <1>6 DEF AcceptorAdd, Placed
  <2>2. PICK fd \in Fds : fd = acc.fd /\ fdOwner[fd] # Null /\ home[fd] = Null
    BY <2>1 DEF PlacingSound
  <2>3. acc.pick \in Reactors
    BY DEF AcceptorTypeOK
  <2>4. KernelTypeOK' /\ HomeOpen'
    BY <1>1, <2>1, <2>2, <2>3 DEF KernelTypeOK, HomeOpen
  <2>5. AcceptorTypeOK' /\ PlacingSound'
    BY <2>1, Sorts, MultiParameters DEF AcceptorTypeOK, PlacingSound, Searching, MultiParameters
  <2>6. \A f \in Fds \ {fd} : fdOwner'[f] = fdOwner[f] /\ home'[f] = home[f]
    BY <2>1, <2>2 DEF KernelTypeOK
  <2>7. RoundsSound'
    <3> SUFFICES ASSUME NEW r \in Reactors PROVE RoundSound(r)'
      BY DEF RoundsSound
    <3>1. RoundSound(r) /\ home[fd] # r
      BY <2>2, Sorts DEF RoundsSound
    <3>2. /\ pc' = pc /\ batch' = batch /\ cur' = cur /\ gone' = gone /\ connects' = connects
      BY <1>1 DEF loopVars, connVars
    <3> QED BY <3>1, <3>2, <2>6, RoundFrame
  <2>8. TableSound'
    <3>1. \A r \in Reactors : connects[r][fd] = Null
      BY <2>2, Sorts DEF TableSound
    <3> QED BY <1>1, <1>3, <2>6, <3>1 DEF TableSound, loopVars, connVars
  <2> QED BY <1>2, <2>4, <2>5, <2>7, <2>8
<1> QED BY <1>4, <1>5, <1>6 DEF Acceptor

-----------------------------------------------------------------------------
(* The reactors keep the invariant *)

\* A step of one reactor that touches no connection but its own fd, if any,
\* leaves the rounds of the others sound.
LEMMA OtherRounds ==
  ASSUME IInv, NEW r \in Reactors, NEW fd \in Fds, home[fd] = r,
         \A q \in Reactors \ {r} : /\ pc'[q] = pc[q] /\ batch'[q] = batch[q]
                                   /\ cur'[q] = cur[q] /\ gone'[q] = gone[q],
         \A f \in Fds \ {fd} : fdOwner'[f] = fdOwner[f] /\ home'[f] = home[f],
         \A q \in Reactors, f \in Fds :
           q # r /\ connects[q][f] # Null => connects'[q][f] # Null,
         RoundSound(r)'
  PROVE  RoundsSound'
<1> SUFFICES ASSUME NEW q \in Reactors PROVE RoundSound(q)'
  BY DEF RoundsSound
<1>1. CASE q = r BY <1>1
<1>2. CASE q # r
  <2>1. RoundSound(q) /\ LoopTypeOK /\ home[fd] # q
    BY <1>2 DEF IInv, TypeOK, RoundsSound
  <2> QED BY <1>2, <2>1, RoundFrame
<1> QED BY <1>1, <1>2

\* The same for a step that opens and closes no connection.
LEMMA StillRounds ==
  ASSUME IInv, NEW r \in Reactors, UNCHANGED <<fdOwner, home>>,
         \A q \in Reactors \ {r} : /\ pc'[q] = pc[q] /\ batch'[q] = batch[q]
                                   /\ cur'[q] = cur[q] /\ gone'[q] = gone[q],
         \A q \in Reactors, f \in Fds : connects[q][f] # Null => connects'[q][f] # Null,
         RoundSound(r)'
  PROVE  RoundsSound'
<1> SUFFICES ASSUME NEW q \in Reactors, q # r PROVE RoundSound(q)'
  BY DEF RoundsSound
<1>1. RoundSound(q) /\ LoopTypeOK
  BY DEF IInv, TypeOK, RoundsSound
<1>2. /\ pc'[q] = pc[q] /\ batch'[q] = batch[q] /\ cur'[q] = cur[q] /\ gone'[q] = gone[q]
  OBVIOUS
<1>3. cur[q] # NoEvent => cur[q].fd \in Fds
  BY <1>1 DEF LoopTypeOK, Event
<1> QED BY <1>1, <1>2, <1>3 DEF RoundSound, Current

LEMMA ForgetInv ==
  ASSUME IInv, NEW r \in Reactors, Forget(r)
  PROVE  IInv'
<1> USE DEF IInv, TypeOK
<1>1. /\ ConnTypeOK' /\ TableSound' /\ \A q \in Reactors \ {r} : gone'[q] = gone[q]
  BY ForgetStep
<1>2. /\ UNCHANGED <<kernelVars, acc, pc, batch, cur, connects, keys, workVars>>
      /\ gone[r] # Null
  BY DEF Forget
<1>3. KernelTypeOK' /\ AcceptorTypeOK' /\ LoopTypeOK' /\ WorkTypeOK' /\ JobsShaped'
  BY <1>2 DEF KernelTypeOK, AcceptorTypeOK, LoopTypeOK, WorkTypeOK, JobsShaped,
              kernelVars, workVars
<1>4. HomeOpen' /\ PlacingSound'
  BY <1>2 DEF HomeOpen, PlacingSound, kernelVars
<1>5. RoundSound(r)'
  BY <1>2 DEF RoundsSound, RoundSound, Current, kernelVars
<1>6. RoundsSound'
  BY <1>1, <1>2, <1>5, StillRounds DEF kernelVars
<1> QED BY <1>1, <1>3, <1>4, <1>6

\* A reactor that moves on, with no effect on tables and descriptors.
LEMMA MoveFrame ==
  ASSUME IInv, NEW r \in Reactors,
         UNCHANGED <<arrived, backlog, hup, fdOwner, home, acc, gone, connVars, workVars>>,
         interest' \in [Fds -> {"off", "in", "out"}], LoopTypeOK',
         \A q \in Reactors \ {r} : /\ pc'[q] = pc[q] /\ batch'[q] = batch[q]
                                   /\ cur'[q] = cur[q],
         RoundSound(r)'
  PROVE  IInv'
<1> USE DEF IInv, TypeOK
<1>1. KernelTypeOK' /\ AcceptorTypeOK' /\ ConnTypeOK' /\ WorkTypeOK' /\ JobsShaped'
  BY DEF KernelTypeOK, AcceptorTypeOK, ConnTypeOK, WorkTypeOK, JobsShaped, connVars, workVars
<1>2. HomeOpen' /\ PlacingSound'
  BY DEF HomeOpen, PlacingSound
<1>3. TableSound'
  BY DEF TableSound, Live, LiveIn, Closing, Entries, connVars
<1>4. RoundsSound'
  BY StillRounds DEF connVars
<1> QED BY <1>1, <1>2, <1>3, <1>4

LEMMA MoveInv ==
  ASSUME IInv, NEW r \in Reactors, DrainDone(r) \/ RoundDone(r) \/ PickKnown(r)
  PROVE  IInv'
<1> USE DEF IInv, TypeOK
<1>1. /\ UNCHANGED <<arrived, backlog, hup, fdOwner, home, interest, acc, gone, connVars,
                     workVars>>
      /\ gone[r] = Null
  BY DEF DrainDone, RoundDone, PickKnown, kernelVars, At
<1>2. RoundSound(r) /\ interest' \in [Fds -> {"off", "in", "out"}]
  BY <1>1 DEF RoundsSound, KernelTypeOK
<1>3. CASE DrainDone(r) \/ RoundDone(r)
  <2>1. /\ UNCHANGED <<batch, cur>> /\ batch[r] = {} /\ cur[r] = NoEvent
        /\ \E p \in {"wait", "drain"} : pc' = [pc EXCEPT ![r] = p]
    BY <1>2, <1>3 DEF DrainDone, RoundDone, RoundSound, At
  <2>2. LoopTypeOK'
    BY <1>1, <2>1 DEF LoopTypeOK, connVars
  <2>3. RoundSound(r)'
    BY <2>1 DEF RoundSound
  <2>4. \A q \in Reactors \ {r} : pc'[q] = pc[q] /\ batch'[q] = batch[q] /\ cur'[q] = cur[q]
    BY <2>1 DEF LoopTypeOK
  <2> QED BY <1>1, <1>2, <2>2, <2>3, <2>4, MoveFrame
<1>4. CASE PickKnown(r)
  <2>1. PICK e \in batch[r] : /\ pc[r] = "serve" /\ cur[r] = NoEvent
                              /\ connects[r][e.fd] # Null /\ pc' = pc
                              /\ cur' = [cur EXCEPT ![r] = e]
                              /\ batch' = [batch EXCEPT ![r] = batch[r] \ {e}]
    BY <1>4 DEF PickKnown, At
  <2>2. e \in Event /\ batch[r] \subseteq Event
    BY DEF LoopTypeOK
  <2>3. LoopTypeOK'
    BY <1>1, <2>1, <2>2 DEF LoopTypeOK, connVars
  <2>4. cur'[r] = e /\ batch'[r] = batch[r] \ {e} /\ pc'[r] = "serve"
    BY <2>1 DEF LoopTypeOK
  <2>5. RoundSound(r)'
    BY <1>1, <1>2, <2>1, <2>4 DEF RoundSound, Current, connVars
  <2>6. \A q \in Reactors \ {r} : pc'[q] = pc[q] /\ batch'[q] = batch[q] /\ cur'[q] = cur[q]
    BY <2>1 DEF LoopTypeOK
  <2> QED BY <1>1, <1>2, <2>3, <2>5, <2>6, MoveFrame
<1> QED BY <1>3, <1>4

\* What epoll_wait reports is about the connection the descriptor has.
LEMMA BatchFacts ==
  ASSUME IInv, NEW r \in Reactors, NEW B \in Batches(r)
  PROVE  /\ B \subseteq Event /\ \A e \in B : Current(r, e)
         /\ \A e1, e2 \in B : e1.fd = e2.fd => e1 = e2
<1> USE DEF IInv, TypeOK
<1> DEFINE Of(f) == {[fd |-> f, ev |-> v, cl |-> fdOwner[f]] : v \in Reports(f)}
<1>1. /\ B \subseteq UNION {Of(f) : f \in Registered(r)}
      /\ \A e1, e2 \in B : e1.fd = e2.fd => e1 = e2
  BY DEF Batches
<1>2. ASSUME NEW e \in B PROVE e \in Event /\ Current(r, e)
  <2>1. PICK f \in Registered(r) : e \in Of(f)
    BY <1>1
  <2>2. PICK v \in Reports(f) : e = [fd |-> f, ev |-> v, cl |-> fdOwner[f]]
    BY <2>1
  <2>3. f \in Fds /\ home[f] = r /\ fdOwner[f] \in Clients
    BY Sorts DEF Registered, HomeOpen, KernelTypeOK
  <2>4. v \in HandlerEvents \cup {"other"}
    BY <2>3, MultiParameters DEF Reports, HandlerEvents, KernelTypeOK, MultiParameters
  <2> QED BY <2>2, <2>3, <2>4 DEF Event, Current
<1> QED BY <1>1, <1>2

LEMMA EpollInv ==
  ASSUME IInv, NEW r \in Reactors, EpollWait(r)
  PROVE  IInv'
<1> USE DEF IInv, TypeOK
<1>1. PICK B \in Batches(r) :
        /\ batch' = [batch EXCEPT ![r] = B]
        /\ pc' = [pc EXCEPT ![r] = IF B = {} THEN "drain" ELSE "serve"]
        /\ interest' = Disarmed({e.fd : e \in B})
  BY DEF EpollWait
<1>2. /\ UNCHANGED <<arrived, backlog, hup, fdOwner, home, acc, cur, gone, connVars, workVars>>
      /\ pc[r] = "wait" /\ gone[r] = Null /\ cur[r] = NoEvent
  BY DEF EpollWait, At, RoundsSound, RoundSound
<1>3. /\ B \subseteq Event /\ \A e \in B : Current(r, e)
      /\ \A e1, e2 \in B : e1.fd = e2.fd => e1 = e2
  BY BatchFacts
<1>4. LoopTypeOK'
  BY <1>1, <1>2, <1>3 DEF LoopTypeOK, connVars
<1>5. RoundSound(r)'
  <2>1. batch'[r] = B /\ cur'[r] = NoEvent /\ (pc'[r] # "serve" => B = {})
    BY <1>1, <1>2 DEF LoopTypeOK
  <2>2. \A e \in B : e.fd # NoEvent.fd
    BY <1>3, Sorts DEF Event, NoEvent
  <2> QED BY <1>2, <1>3, <2>1, <2>2 DEF RoundSound, Current
<1>6. interest' \in [Fds -> {"off", "in", "out"}]
  BY <1>1 DEF Disarmed, KernelTypeOK
<1>7. \A q \in Reactors \ {r} : pc'[q] = pc[q] /\ batch'[q] = batch[q] /\ cur'[q] = cur[q]
  BY <1>1, <1>2 DEF LoopTypeOK
<1> QED BY <1>2, <1>4, <1>5, <1>6, <1>7, MoveFrame

\* A request on the close queue is typed, and so is the rest of the queue.
LEMMA DrainInv ==
  ASSUME IInv, NEW r \in Reactors, DrainOne(r)
  PROVE  IInv'
<1> USE DEF IInv, TypeOK
<1>1. PICK fd \in Fds \cup {NoFd} :
        /\ fd = Head(closeQueue[r]).fd /\ closeQueue[r] # <<>>
        /\ closeQueue' = [closeQueue EXCEPT ![r] = Tail(closeQueue[r])]
  <2>1. closeQueue[r] # <<>> /\ closeQueue[r] \in Seq(Request)
    BY DEF DrainOne, WorkTypeOK
  <2>2. Head(closeQueue[r]) \in Request
    BY <2>1, HeadTailProperties
  <2> QED BY <2>1, <2>2 DEF DrainOne, Request
<1>2. /\ pc[r] = "drain" /\ gone[r] = Null /\ UNCHANGED <<acc, pc, batch, cur, tasks, job>>
      /\ keys' = [keys EXCEPT ![r] = keys[r] \cup ({fd} \ {NoFd})]
      /\ IF fd = NoFd \/ connects[r][fd] = Null
         THEN UNCHANGED <<kernelVars, gone, connects, sock, status, boss, pool, count>>
         ELSE Unlink(r, fd)
  BY <1>1 DEF DrainOne, At
<1>3. WorkTypeOK' /\ JobsShaped'
  <2>1. Tail(closeQueue[r]) \in Seq(Request)
    BY <1>1, HeadTailProperties DEF WorkTypeOK
  <2> QED BY <1>1, <1>2, <2>1 DEF WorkTypeOK, JobsShaped
<1>4. AcceptorTypeOK' /\ LoopTypeOK'
  BY <1>2 DEF AcceptorTypeOK, LoopTypeOK
<1>5. batch[r] = {} /\ cur[r] = NoEvent /\ batch'[r] = {} /\ cur'[r] = NoEvent
  BY <1>2 DEF RoundsSound, RoundSound
<1>6. RoundSound(r)'
  BY <1>5 DEF RoundSound
<1>7. CASE fd = NoFd \/ connects[r][fd] = Null
  <2>1. UNCHANGED <<kernelVars, gone, connects, sock, status, boss, pool, count>>
    BY <1>2, <1>7
  <2>2. KernelTypeOK' /\ ConnTypeOK' /\ HomeOpen' /\ PlacingSound'
    BY <1>2, <2>1 DEF KernelTypeOK, ConnTypeOK, HomeOpen, PlacingSound, kernelVars
  <2>3. TableSound'
    BY <2>1 DEF TableSound, Live, LiveIn, Closing, Entries, kernelVars
  <2>4. RoundsSound'
    BY <1>2, <1>6, <2>1, StillRounds DEF kernelVars
  <2> QED BY <1>3, <1>4, <2>2, <2>3, <2>4
<1>8. CASE ~(fd = NoFd \/ connects[r][fd] = Null)
  <2>1. fd \in Fds /\ connects[r][fd] # Null /\ Unlink(r, fd)
    BY <1>2, <1>8
  <2>2. /\ KernelTypeOK' /\ ConnTypeOK' /\ HomeOpen' /\ PlacingSound' /\ TableSound'
        /\ home[fd] = r
        /\ \A f \in Fds \ {fd} : fdOwner'[f] = fdOwner[f] /\ home'[f] = home[f]
        /\ \A q \in Reactors, f \in Fds :
             q # r \/ f # fd => connects'[q][f] = connects[q][f]
        /\ \A q \in Reactors \ {r} : gone'[q] = gone[q]
    BY <1>2, <2>1, UnlinkStep
  <2>3. RoundsSound'
    BY <1>2, <1>6, <2>1, <2>2, OtherRounds
  <2> QED BY <1>3, <1>4, <2>2, <2>3
<1> QED BY <1>7, <1>8

\* The event a reactor is at, and what is left of the round once it is served.
LEMMA ServingFacts ==
  ASSUME IInv, NEW r \in Reactors,
         Serving(r, HandlerEvents \cup {"other"}), Served(r), keys' = keys
  PROVE  /\ cur[r] \in Event /\ cur[r] # NoEvent /\ gone[r] = Null
         /\ Current(r, cur[r]) /\ Subject(r) \in Objs /\ sock[Subject(r)] = cur[r].fd
         /\ LoopTypeOK' /\ cur'[r] = NoEvent /\ pc' = pc /\ batch' = batch
         /\ \A q \in Reactors \ {r} : cur'[q] = cur[q]
         /\ \A e \in batch'[r] : e.fd # cur[r].fd
<1> USE DEF IInv, TypeOK
<1>1. /\ cur' = [cur EXCEPT ![r] = NoEvent] /\ UNCHANGED <<pc, batch>> /\ gone[r] = Null
      /\ cur[r].ev \in HandlerEvents \cup {"other"}
  BY DEF Served, Serving, At
<1>2. cur[r] # NoEvent /\ cur[r] \in Event
  BY <1>1 DEF NoEvent, HandlerEvents, LoopTypeOK
<1>3. /\ Current(r, cur[r]) /\ connects[r][cur[r].fd] # Null
      /\ \A e \in batch[r] : e.fd # cur[r].fd
  BY <1>2 DEF RoundsSound, RoundSound
<1>4. Subject(r) \in Objs /\ sock[Subject(r)] = cur[r].fd
  BY <1>2, <1>3 DEF Subject, Event, ConnTypeOK, Tables, TableSound
<1>5. LoopTypeOK' /\ cur'[r] = NoEvent /\ \A q \in Reactors \ {r} : cur'[q] = cur[q]
  BY <1>1 DEF LoopTypeOK
<1> QED BY <1>1, <1>2, <1>3, <1>4, <1>5

\* The round after the event at hand is served, if no other event is touched.
LEMMA ServedRound ==
  ASSUME IInv, NEW r \in Reactors, pc' = pc, batch' = batch, cur'[r] = NoEvent,
         \A e \in batch[r] : Current(r, e)'
  PROVE  RoundSound(r)'
<1>1. \A e \in batch[r] : e.fd # NoEvent.fd
  BY Sorts DEF IInv, TypeOK, LoopTypeOK, Event, NoEvent
<1> QED BY <1>1 DEF IInv, RoundsSound, RoundSound

\* CONNECTS_REMOVE_FD_REACTOR while an event of that descriptor is served.
LEMMA RemoveServedInv ==
  ASSUME IInv, NEW r \in Reactors, Serving(r, HandlerEvents \cup {"other"}), Served(r),
         Unlink(r, cur[r].fd), UNCHANGED <<acc, keys>>, WorkTypeOK', JobsShaped'
  PROVE  IInv'
<1> USE DEF IInv, TypeOK
<1>1. /\ cur[r] \in Event /\ cur[r] # NoEvent /\ gone[r] = Null
      /\ Subject(r) \in Objs
      /\ LoopTypeOK' /\ cur'[r] = NoEvent /\ pc' = pc /\ batch' = batch
      /\ \A q \in Reactors \ {r} : cur'[q] = cur[q]
      /\ \A e \in batch'[r] : e.fd # cur[r].fd
  BY ServingFacts
<1>2. PICK fd \in Fds : fd = cur[r].fd /\ connects[r][fd] # Null
  BY <1>1, Sorts DEF Event, Subject
<1>3. Unlink(r, fd)
  BY <1>2
<1>4. /\ KernelTypeOK' /\ ConnTypeOK' /\ HomeOpen' /\ PlacingSound' /\ TableSound'
      /\ home[fd] = r
      /\ \A f \in Fds \ {fd} : fdOwner'[f] = fdOwner[f] /\ home'[f] = home[f]
      /\ \A q \in Reactors, f \in Fds : q # r \/ f # fd => connects'[q][f] = connects[q][f]
      /\ \A q \in Reactors \ {r} : gone'[q] = gone[q]
  BY <1>1, <1>2, <1>3, UnlinkStep
<1>5. RoundSound(r)'
  <2>1. \A e \in batch[r] : e.fd \in Fds \ {fd} /\ Current(r, e)
    BY <1>1, <1>2 DEF LoopTypeOK, Event, RoundsSound, RoundSound
  <2>2. \A e \in batch[r] : Current(r, e)'
    BY <1>4, <2>1 DEF Current
  <2> QED BY <1>1, <2>2, ServedRound
<1>6. RoundsSound'
  BY <1>1, <1>4, <1>5, OtherRounds
<1>7. AcceptorTypeOK'
  BY DEF AcceptorTypeOK
<1> QED BY <1>1, <1>4, <1>6, <1>7

LEMMA RemovalInv ==
  ASSUME IInv, NEW r \in Reactors, DispatchOverload(r) \/ DispatchOther(r)
  PROVE  IInv'
<1>1. /\ Serving(r, HandlerEvents \cup {"other"}) /\ Served(r) /\ Unlink(r, cur[r].fd)
      /\ UNCHANGED <<acc, keys, workVars>>
  BY DEF DispatchOverload, DispatchOther, Serving
<1>2. WorkTypeOK' /\ JobsShaped'
  BY <1>1 DEF IInv, TypeOK, WorkTypeOK, JobsShaped, workVars
<1> QED BY <1>1, <1>2, RemoveServedInv

\* Serving an event without closing its connection.
LEMMA ServeFrame ==
  ASSUME IInv, NEW r \in Reactors, Serving(r, HandlerEvents \cup {"other"}), Served(r),
         UNCHANGED <<arrived, backlog, hup, fdOwner, home, acc>>,
         UNCHANGED <<gone, connects, keys, sock, boss, pool, count>>,
         interest' \in [Fds -> {"off", "in", "out"}], status' \in [Objs -> Statuses],
         WorkTypeOK', JobsShaped'
  PROVE  IInv'
<1> USE DEF IInv, TypeOK
<1>1. /\ LoopTypeOK' /\ cur'[r] = NoEvent /\ pc' = pc /\ batch' = batch
      /\ \A q \in Reactors \ {r} : cur'[q] = cur[q]
  BY ServingFacts
<1>2. KernelTypeOK' /\ AcceptorTypeOK' /\ ConnTypeOK'
  BY DEF KernelTypeOK, AcceptorTypeOK, ConnTypeOK
<1>3. HomeOpen' /\ PlacingSound'
  BY DEF HomeOpen, PlacingSound
<1>4. TableSound'
  BY DEF TableSound, Live, LiveIn, Closing, Entries
<1>5. RoundSound(r)'
  <2>1. \A e \in batch[r] : Current(r, e)'
    BY DEF RoundsSound, RoundSound, Current
  <2> QED BY <1>1, <2>1, ServedRound
<1>6. RoundsSound'
  BY <1>1, <1>5, StillRounds
<1> QED BY <1>1, <1>2, <1>3, <1>4, <1>6

LEMMA ToPoolInv ==
  ASSUME IInv, NEW r \in Reactors, DispatchToPool(r)
  PROVE  IInv'
<1> USE DEF IInv, TypeOK
<1>1. /\ Serving(r, HandlerEvents \cup {"other"}) /\ Served(r) /\ cur[r].ev \in HandlerEvents
      /\ status' = [status EXCEPT ![Subject(r)] = EventStatus(cur[r].ev)]
      /\ tasks' = [tasks EXCEPT ![r] = Append(tasks[r], [obj |-> Subject(r), cl |-> cur[r].cl])]
      /\ UNCHANGED <<kernelVars, acc, gone, connects, keys, sock, boss, pool, count,
                     closeQueue, job>>
  BY DEF DispatchToPool, Serving
<1>2. cur[r] \in Event /\ Subject(r) \in Objs
  BY <1>1, ServingFacts
<1>3. WorkTypeOK' /\ JobsShaped'
  <2>1. [obj |-> Subject(r), cl |-> cur[r].cl] \in Task
    BY <1>2 DEF Task, Event
  <2>2. Append(tasks[r], [obj |-> Subject(r), cl |-> cur[r].cl]) \in Seq(Task)
    BY <2>1, AppendProperties DEF WorkTypeOK
  <2> QED BY <1>1, <2>2 DEF WorkTypeOK, JobsShaped
<1>4. status' \in [Objs -> Statuses]
  <2>1. EventStatus(cur[r].ev) \in Statuses
    BY <1>1 DEF EventStatus, HandlerEvents, Statuses
  <2> QED BY <1>1, <2>1 DEF ConnTypeOK
<1> QED BY <1>1, <1>3, <1>4, ServeFrame DEF kernelVars, KernelTypeOK

LEMMA InlineInv ==
  ASSUME IInv, NEW r \in Reactors, DispatchInline(r)
  PROVE  IInv'
<1> USE DEF IInv, TypeOK
<1>1. /\ Serving(r, HandlerEvents \cup {"other"}) /\ Served(r) /\ cur[r].ev \in HandlerEvents
      /\ UNCHANGED <<acc, keys, tasks, job>>
  BY DEF DispatchInline, Serving
<1>2. PICK p \in Programs(EventStatus(cur[r].ev)) :
        /\ closeQueue' = [closeQueue EXCEPT ![r] =
             IF Notifies(p) THEN Append(closeQueue[r], [fd |-> sock[Subject(r)], cl |-> cur[r].cl])
             ELSE closeQueue[r]]
        /\ IF InlineRemoves(cur[r].ev, p)
           THEN Unlink(r, cur[r].fd)
           ELSE /\ \E new \in {"off", "in", "out"} :
                     interest' = [interest EXCEPT ![sock[Subject(r)]] = new]
                /\ status' = [status EXCEPT ![Subject(r)] =
                                IF Notifies(p) THEN "CLOSE" ELSE EventStatus(cur[r].ev)]
                /\ UNCHANGED <<arrived, backlog, hup, fdOwner, home, gone, connects, sock,
                               boss, pool, count>>
  BY DEF DispatchInline
<1>3. cur[r] \in Event /\ Subject(r) \in Objs /\ sock[Subject(r)] = cur[r].fd
  BY <1>1, ServingFacts
<1>4. WorkTypeOK' /\ JobsShaped'
  <2>1. [fd |-> sock[Subject(r)], cl |-> cur[r].cl] \in Request
    BY <1>3 DEF Request, Event
  <2>2. Append(closeQueue[r], [fd |-> sock[Subject(r)], cl |-> cur[r].cl]) \in Seq(Request)
    BY <2>1, AppendProperties DEF WorkTypeOK
  <2> QED BY <1>1, <1>2, <2>2 DEF WorkTypeOK, JobsShaped
<1>5. CASE InlineRemoves(cur[r].ev, p)
  BY <1>1, <1>2, <1>4, <1>5, RemoveServedInv
<1>6. CASE ~InlineRemoves(cur[r].ev, p)
  <2>1. interest' \in [Fds -> {"off", "in", "out"}]
    BY <1>2, <1>6 DEF KernelTypeOK
  <2>2. status' \in [Objs -> Statuses]
    <3>1. EventStatus(cur[r].ev) \in Statuses /\ "CLOSE" \in Statuses
      BY <1>1 DEF EventStatus, HandlerEvents, Statuses
    <3> QED BY <1>2, <1>6, <3>1 DEF ConnTypeOK
  <2> QED BY <1>1, <1>2, <1>4, <1>6, <2>1, <2>2, ServeFrame
<1> QED BY <1>5, <1>6

LEMMA PickNewInv ==
  ASSUME IInv, NEW r \in Reactors, PickNew(r)
  PROVE  IInv'
<1> USE DEF IInv, TypeOK
<1>1. PICK e \in batch[r], o \in Acquirable :
        /\ connects[r][e.fd] = Null
        /\ cur' = [cur EXCEPT ![r] = e] /\ batch' = [batch EXCEPT ![r] = batch[r] \ {e}]
        /\ connects' = [connects EXCEPT ![r][e.fd] = o]
        /\ keys' = [keys EXCEPT ![r] = keys[r] \cup {e.fd}]
        /\ sock' = [sock EXCEPT ![o] = e.fd] /\ status' = [status EXCEPT ![o] = "OK"]
        /\ boss' = [boss EXCEPT ![o] = r]
  BY DEF PickNew
<1>2. /\ pool' = (IF recycling /\ pool # <<>> THEN Tail(pool) ELSE pool)
      /\ count' = count + 1 /\ UNCHANGED <<kernelVars, acc, pc, gone, workVars>>
      /\ pc[r] = "serve" /\ gone[r] = Null /\ cur[r] = NoEvent
  BY DEF PickNew, At
<1>3. /\ e \in Event /\ e.fd \in Fds /\ batch[r] \subseteq Event
      /\ Current(r, e) /\ \A x \in batch[r] : x.fd = e.fd => x = e
  BY DEF LoopTypeOK, Event, RoundsSound, RoundSound
<1>4. fdOwner[e.fd] # Null /\ home[e.fd] = r /\ UNCHANGED <<fdOwner, home, gone>>
  BY <1>2, <1>3, Sorts DEF Current, Event, kernelVars
<1>5. /\ ConnTypeOK' /\ TableSound' /\ connects'[r][e.fd] # Null
      /\ \A q \in Reactors, f \in Fds : connects[q][f] # Null => connects'[q][f] # Null
  BY <1>1, <1>2, <1>3, <1>4, InstallStep
<1>6. KernelTypeOK' /\ AcceptorTypeOK' /\ WorkTypeOK' /\ JobsShaped'
  BY <1>2 DEF KernelTypeOK, AcceptorTypeOK, WorkTypeOK, JobsShaped, kernelVars, workVars
<1>7. HomeOpen' /\ PlacingSound'
  BY <1>2 DEF HomeOpen, PlacingSound, kernelVars
<1>8. LoopTypeOK'
  BY <1>1, <1>2, <1>3 DEF LoopTypeOK
<1>9. RoundSound(r)'
  <2>1. cur'[r] = e /\ batch'[r] = batch[r] \ {e} /\ pc'[r] = "serve" /\ gone'[r] = Null
    BY <1>1, <1>2 DEF LoopTypeOK
  <2>2. /\ \A x \in batch[r] : Current(r, x)
        /\ \A e1, e2 \in batch[r] : e1.fd = e2.fd => e1 = e2
    BY DEF RoundsSound, RoundSound
  <2> QED BY <1>3, <1>4, <1>5, <2>1, <2>2 DEF RoundSound, Current
<1>10. \A q \in Reactors \ {r} : /\ pc'[q] = pc[q] /\ batch'[q] = batch[q]
                                 /\ cur'[q] = cur[q] /\ gone'[q] = gone[q]
  BY <1>1, <1>2 DEF LoopTypeOK
<1>11. RoundsSound'
  BY <1>4, <1>5, <1>9, <1>10, StillRounds
<1> QED BY <1>5, <1>6, <1>7, <1>8, <1>11

LEMMA ReactorInv ==
  ASSUME IInv, NEW r \in Reactors, Reactor(r)
  PROVE  IInv'
BY ForgetInv, DrainInv, MoveInv, EpollInv, PickNewInv, ToPoolInv, RemovalInv, InlineInv
   DEF Reactor

-----------------------------------------------------------------------------
(* The workers keep the invariant *)

\* A worker's new job is typed and shaped; the others keep theirs.
LEMMA JobStep ==
  ASSUME IInv, NEW t \in Threads, NEW j \in Job, JobShaped(j), job' = [job EXCEPT ![t] = j]
  PROVE  job' \in [Threads -> Job] /\ JobsShaped'
BY DEF IInv, TypeOK, WorkTypeOK, JobsShaped

LEMMA IdleJob == NoJob \in Job /\ JobShaped(NoJob)
<1>1. <<>> \in Seq(Op)
  BY EmptySeq
<1> QED BY <1>1 DEF NoJob, Job, JobShaped

LEMMA AdvanceStep ==
  ASSUME IInv, NEW t \in Threads, job[t].at \in {"op", "ctl", "mark", "push"}, Advance(t)
  PROVE  job' \in [Threads -> Job] /\ JobsShaped'
<1> DEFINE rest == Tail(job[t].todo)
           next == [NoJob EXCEPT !.obj = job[t].obj, !.cl = job[t].cl,
                                 !.at = "op", !.todo = rest]
<1>1. /\ job[t] \in Job /\ JobShaped(job[t]) /\ rest \in Seq(Op)
  <2>1. job[t] \in Job /\ JobShaped(job[t])
    BY DEF IInv, TypeOK, WorkTypeOK, JobsShaped
  <2>2. job[t].todo \in Seq(Op) /\ job[t].todo # <<>>
    BY <2>1 DEF Job, JobShaped
  <2> QED BY <2>1, <2>2, HeadTailProperties
<1>2. job' = [job EXCEPT ![t] = IF rest = <<>> THEN NoJob ELSE next]
  BY DEF Advance
<1>3. rest # <<>> => next \in Job /\ JobShaped(next)
  BY <1>1 DEF Job, JobShaped, NoJob
<1> HIDE DEF rest, next
<1> QED BY <1>2, <1>3, IdleJob, JobStep

\* What every step of a worker leaves alone, and what remains to show of it.
LEMMA WorkerFrame ==
  ASSUME IInv, UNCHANGED <<arrived, backlog, hup, fdOwner, home, acc>>,
         UNCHANGED <<loopVars, connects, keys, sock, boss, pool, count>>,
         interest' \in [Fds -> {"off", "in", "out"}], status' \in [Objs -> Statuses],
         WorkTypeOK', JobsShaped'
  PROVE  IInv'
<1> USE DEF IInv, TypeOK
<1>1. KernelTypeOK' /\ AcceptorTypeOK' /\ LoopTypeOK' /\ ConnTypeOK'
  BY DEF KernelTypeOK, AcceptorTypeOK, LoopTypeOK, ConnTypeOK, loopVars
<1>2. HomeOpen' /\ PlacingSound' /\ RoundsSound'
  BY DEF HomeOpen, PlacingSound, RoundsSound, RoundSound, Current, loopVars
<1>3. TableSound'
  BY DEF TableSound, Live, LiveIn, Closing, Entries, loopVars
<1> QED BY <1>1, <1>2, <1>3

LEMMA WorkerInv ==
  ASSUME IInv, NEW t \in Threads, Worker(t)
  PROVE  IInv'
<1>1. /\ job[t] \in Job /\ JobShaped(job[t]) /\ job \in [Threads -> Job]
      /\ closeQueue \in [Reactors -> Seq(Request)] /\ tasks \in [Reactors -> Seq(Task)]
      /\ status \in [Objs -> Statuses] /\ interest \in [Fds -> {"off", "in", "out"}]
      /\ sock \in [Objs -> Fds \cup {NoFd}] /\ boss \in [Objs -> Reactors \cup {Null}]
  BY DEF IInv, TypeOK, KernelTypeOK, WorkTypeOK, ConnTypeOK, JobsShaped
<1>2. CASE WorkerTake(t)
  <2>0. PICK r \in Reactors : r = t[1]
    BY DEF Threads
  <2>1. /\ tasks[r] # <<>> /\ tasks' = [tasks EXCEPT ![r] = Tail(tasks[r])]
        /\ job' = [job EXCEPT ![t] = [NoJob EXCEPT !.obj = Head(tasks[r]).obj,
                                        !.cl = Head(tasks[r]).cl, !.at = "switch"]]
        /\ UNCHANGED <<kernelVars, acc, loopVars, connVars, closeQueue>>
    BY <1>2, <2>0 DEF WorkerTake
  <2>2. Head(tasks[r]) \in Task /\ Tail(tasks[r]) \in Seq(Task)
    BY <1>1, <2>1, HeadTailProperties
  <2> DEFINE j == [NoJob EXCEPT !.obj = Head(tasks[r]).obj, !.cl = Head(tasks[r]).cl,
                                !.at = "switch"]
  <2>3. j \in Job /\ JobShaped(j)
    BY <2>2, IdleJob DEF NoJob, Job, JobShaped, Task
  <2>4. job' = [job EXCEPT ![t] = j]
    BY <2>1
  <2> HIDE DEF j
  <2>5. job' \in [Threads -> Job] /\ JobsShaped'
    BY <2>3, <2>4, JobStep
  <2>6. WorkTypeOK'
    BY <1>1, <2>1, <2>2, <2>5 DEF WorkTypeOK
  <2> QED BY <1>1, <2>1, <2>5, <2>6, WorkerFrame DEF kernelVars, connVars
<1>3. CASE WorkerSwitch(t)
  <2>1. PICK p \in Programs(status[job[t].obj]) :
          job' = [job EXCEPT ![t] = IF p.ops = <<>> THEN NoJob
                                    ELSE [job[t] EXCEPT !.todo = p.ops, !.at = "op"]]
    BY <1>1, <1>3 DEF WorkerSwitch
  <2>2. /\ job[t].at = "switch"
        /\ UNCHANGED <<kernelVars, acc, loopVars, connVars, closeQueue, tasks>>
    BY <1>3 DEF WorkerSwitch, Busy
  <2>3. p.ops \in Seq(Op)
    <3>1. status[job[t].obj] \in Statuses
      BY <1>1, <2>2 DEF JobShaped
    <3>2. p \in Program
      BY <3>1, <2>1, ProgramsType
    <3> QED BY <3>2 DEF Program
  <2> DEFINE j == IF p.ops = <<>> THEN NoJob
                  ELSE [job[t] EXCEPT !.todo = p.ops, !.at = "op"]
  <2>4. j \in Job /\ JobShaped(j)
    BY <1>1, <2>2, <2>3, IdleJob DEF Job, JobShaped
  <2>5. job' = [job EXCEPT ![t] = j]
    BY <2>1
  <2> HIDE DEF j
  <2>6. job' \in [Threads -> Job] /\ JobsShaped'
    BY <2>4, <2>5, JobStep
  <2>7. WorkTypeOK'
    BY <1>1, <2>2, <2>6 DEF WorkTypeOK
  <2> QED BY <1>1, <2>2, <2>6, <2>7, WorkerFrame DEF kernelVars, connVars
<1>4. CASE WorkerNextLoad(t)
  <2> DEFINE j == [job[t] EXCEPT !.at = "ctl",
                     !.reg = [epoll |-> boss[job[t].obj], fd |-> sock[job[t].obj]]]
  <2>1. /\ job[t].at = "op" /\ Head(job[t].todo) \in {"in", "out"}
        /\ job' = [job EXCEPT ![t] = j]
        /\ UNCHANGED <<kernelVars, acc, loopVars, connVars, closeQueue, tasks>>
    BY <1>1, <1>4 DEF WorkerNextLoad, Busy
  <2>2. j \in Job /\ JobShaped(j)
    BY <1>1, <2>1 DEF Job, JobShaped
  <2> HIDE DEF j
  <2>3. job' \in [Threads -> Job] /\ JobsShaped'
    BY <2>1, <2>2, JobStep
  <2>4. WorkTypeOK'
    BY <1>1, <2>1, <2>3 DEF WorkTypeOK
  <2> QED BY <1>1, <2>1, <2>3, <2>4, WorkerFrame DEF kernelVars, connVars
<1>5. CASE WorkerNextCtl(t)
  <2>1. /\ job[t].at = "ctl" /\ Advance(t)
        /\ interest' = [f \in Fds |-> IF /\ f = job[t].reg.fd /\ home[f] = job[t].reg.epoll
                                         /\ home[f] # Null
                                      THEN Head(job[t].todo) ELSE interest[f]]
        /\ UNCHANGED <<arrived, backlog, hup, fdOwner, home, acc, loopVars, connVars,
                       closeQueue, tasks>>
    BY <1>5 DEF WorkerNextCtl, Busy
  <2>2. interest' \in [Fds -> {"off", "in", "out"}]
    BY <1>1, <2>1 DEF JobShaped
  <2>3. job' \in [Threads -> Job] /\ JobsShaped'
    BY <2>1, AdvanceStep
  <2>4. WorkTypeOK'
    BY <1>1, <2>1, <2>3 DEF WorkTypeOK
  <2> QED BY <1>1, <2>1, <2>2, <2>3, <2>4, WorkerFrame DEF connVars
<1>6. CASE WorkerNotifyTest(t)
  <2>1. /\ job[t].at = "op"
        /\ UNCHANGED <<kernelVars, acc, loopVars, connVars, closeQueue, tasks>>
        /\ Advance(t) \/ job' = [job EXCEPT ![t] = [job[t] EXCEPT !.at = "mark"]]
    BY <1>1, <1>6 DEF WorkerNotifyTest, Busy
  <2>2. job' \in [Threads -> Job] /\ JobsShaped'
    <3>1. CASE Advance(t)
      BY <2>1, <3>1, AdvanceStep
    <3>2. CASE ~Advance(t)
      <4> DEFINE j == [job[t] EXCEPT !.at = "mark"]
      <4>1. j \in Job /\ JobShaped(j) /\ job' = [job EXCEPT ![t] = j]
        BY <1>1, <2>1, <3>2 DEF Job, JobShaped
      <4> HIDE DEF j
      <4> QED BY <4>1, JobStep
    <3> QED BY <3>1, <3>2
  <2>3. WorkTypeOK'
    BY <1>1, <2>1, <2>2 DEF WorkTypeOK
  <2> QED BY <1>1, <2>1, <2>2, <2>3, WorkerFrame DEF kernelVars, connVars
<1>7. CASE WorkerNotifyMark(t)
  <2> DEFINE j == [job[t] EXCEPT !.at = "push"]
  <2>1. /\ job[t].at = "mark" /\ job' = [job EXCEPT ![t] = j]
        /\ status' = [status EXCEPT ![job[t].obj] = "CLOSE"]
        /\ UNCHANGED <<kernelVars, acc, loopVars, connects, keys, sock, boss, pool, count,
                       closeQueue, tasks>>
    BY <1>1, <1>7 DEF WorkerNotifyMark, Busy
  <2>2. j \in Job /\ JobShaped(j)
    BY <1>1, <2>1 DEF Job, JobShaped
  <2> HIDE DEF j
  <2>3. job' \in [Threads -> Job] /\ JobsShaped' /\ status' \in [Objs -> Statuses]
    BY <1>1, <2>1, <2>2, JobStep DEF Statuses
  <2>4. WorkTypeOK'
    BY <1>1, <2>1, <2>3 DEF WorkTypeOK
  <2> QED BY <1>1, <2>1, <2>3, <2>4, WorkerFrame DEF kernelVars
<1>8. CASE WorkerNotifyPush(t)
  <2>1. /\ job[t].at = "push" /\ Advance(t)
        /\ closeQueue' = [q \in Reactors |->
             IF q = boss[job[t].obj]
             THEN Append(closeQueue[q], [fd |-> sock[job[t].obj], cl |-> job[t].cl])
             ELSE closeQueue[q]]
        /\ UNCHANGED <<kernelVars, acc, loopVars, connVars, tasks>>
    BY <1>8 DEF WorkerNotifyPush, Busy
  <2>2. [fd |-> sock[job[t].obj], cl |-> job[t].cl] \in Request
    BY <1>1, <2>1 DEF Request, JobShaped
  <2>3. \A q \in Reactors :
          Append(closeQueue[q], [fd |-> sock[job[t].obj], cl |-> job[t].cl]) \in Seq(Request)
    BY <1>1, <2>2, AppendProperties
  <2>4. closeQueue' \in [Reactors -> Seq(Request)]
    BY <1>1, <2>1, <2>3
  <2>5. job' \in [Threads -> Job] /\ JobsShaped'
    BY <2>1, AdvanceStep
  <2>6. WorkTypeOK'
    BY <1>1, <2>1, <2>4, <2>5 DEF WorkTypeOK
  <2> QED BY <1>1, <2>1, <2>5, <2>6, WorkerFrame DEF kernelVars, connVars
<1> QED BY <1>2, <1>3, <1>4, <1>5, <1>6, <1>7, <1>8 DEF Worker

-----------------------------------------------------------------------------
(* The theorems *)

LEMMA StutterInv ==
  ASSUME IInv, UNCHANGED vars
  PROVE  IInv'
<1>1. WorkTypeOK' /\ JobsShaped'
  BY DEF IInv, TypeOK, WorkTypeOK, JobsShaped, vars, workVars
<1>2. UNCHANGED <<kernelVars, acc, loopVars, connVars>>
  BY DEF vars
<1> QED BY <1>1, <1>2, WorkerFrame
        DEF kernelVars, connVars, IInv, TypeOK, KernelTypeOK, ConnTypeOK

\* Every state that acceptor, reactors and workers reach satisfies the
\* inductive invariant, whatever the handlers, the clients and the schedule.
THEOREM Invariance == Spec => []IInv
<1>1. Init => IInv
  BY InitInv
<1>2. IInv /\ [Next]_vars => IInv'
  BY AcceptorInv, ReactorInv, WorkerInv, ClientInv, StutterInv DEF Next
<1> QED BY <1>1, <1>2, PTL DEF Spec

\* Every variable of the acceptor, the reactors and their workers keeps its
\* type; no operation is left to run for a worker without an object.
THEOREM TypeCorrect == Spec => [](TypeOK /\ JobsShaped)
<1>1. IInv => TypeOK /\ JobsShaped
  BY DEF IInv
<1> QED BY <1>1, Invariance, PTL

\* The tables of all reactors, the kernel's descriptors, the objects, the
\* shared object pool and the shared count agree between any two steps of the
\* threads (reactor::work, acceptor::_accept_, CONNECTS_REMOVE_FD_REACTOR).
THEOREM TableAgreement == Spec => []TableSound
<1>1. IInv => TableSound
  BY DEF IInv
<1> QED BY <1>1, Invariance, PTL

\* Every event a reactor is about to serve is of the connection its
\* descriptor still has, and of this reactor: no other thread closes it or
\* hands the number on between epoll_wait and the end of the round.
THEOREM RoundsAreCurrent == Spec => []RoundsSound
<1>1. IInv => RoundsSound
  BY DEF IInv
<1> QED BY <1>1, Invariance, PTL

-----------------------------------------------------------------------------
(***************************************************************************)
(* What the framework with several reactors gives to a handler that does   *)
(* as the README asks: with workers, and handlers each of whose paths ends *)
(* in one call of next() or one of notify_close(), every connection is in  *)
(* one place at any time, and in one reactor.  The acceptor places it, or  *)
(* it is armed in an epoll instance, or has an event in a round, or a      *)
(* task, or a worker, or a close request: not in two, so that one worker   *)
(* of all serves it and nobody else's request closes it, and not in none.  *)
(***************************************************************************)

\* There are workers, and every path, as process_in_base and process_out_base
\* complete it, is one call.
Disciplined ==
  /\ Modes \subseteq {TRUE} \X BOOLEAN
  /\ \A p \in InPaths \cup OutPaths : \E x \in Call : Failing(p).ops = <<x>>

-----------------------------------------------------------------------------
(* Descriptors and clients *)

Owned == Range(fdOwner) \ {Null}

\* A client has one descriptor at most, and only once it has left the listen
\* queue; what is armed is in an epoll instance.
FdsSound ==
  /\ \A f, g \in Fds : fdOwner[f] = fdOwner[g] /\ fdOwner[f] # Null => f = g
  /\ Owned \cap backlog = {} /\ Owned \subseteq arrived /\ backlog \subseteq arrived
  /\ \A f \in Fds : interest[f] # "off" => home[f] # Null

LEMMA OwnedFacts ==
  ASSUME NEW owner \in [Fds -> Clients \cup {Null}]
  PROVE  \A c : c \in Range(owner) \ {Null} <=> c \in Clients /\ \E f \in Fds : owner[f] = c
BY Sorts DEF Range

\* What a step can do to descriptors, clients and epoll instances.
LEMMA FdsStep ==
  ASSUME IInv, Next, pooled
  PROVE  \/ \E c \in Clients : Arrive(c)
         \/ AcceptorAccept
         \/ AcceptorAdd
         \/ \E fd : /\ fdOwner' = [fdOwner EXCEPT ![fd] = Null]
                    /\ home' = [home EXCEPT ![fd] = Null]
                    /\ interest' = [interest EXCEPT ![fd] = "off"]
                    /\ UNCHANGED <<arrived, backlog>>
         \/ /\ UNCHANGED <<arrived, backlog, fdOwner, home>>
            /\ \A f \in Fds : interest'[f] # "off" => interest[f] # "off" \/ home[f] # Null
<1>1. CASE Acceptor
  BY <1>1 DEF Acceptor, AcceptorLook, AcceptorLeast, kernelVars
<1>2. ASSUME NEW c \in Clients, Arrive(c) \/ HangUp(c)
      PROVE  Arrive(c) \/ UNCHANGED <<arrived, backlog, fdOwner, home, interest>>
  BY <1>2 DEF HangUp
<1>3. ASSUME NEW t \in Threads, Worker(t)
      PROVE  /\ UNCHANGED <<arrived, backlog, fdOwner, home>>
             /\ \A f \in Fds : interest'[f] # "off" => interest[f] # "off" \/ home[f] # Null
  <2>1. CASE WorkerNextCtl(t)
    BY <2>1 DEF WorkerNextCtl
  <2>2. ASSUME WorkerTake(t) \/ WorkerSwitch(t) \/ WorkerNextLoad(t)
        PROVE  UNCHANGED <<arrived, backlog, fdOwner, home, interest>>
    BY <2>2 DEF WorkerTake, WorkerSwitch, WorkerNextLoad, kernelVars
  <2>3. ASSUME WorkerNotifyTest(t) \/ WorkerNotifyMark(t) \/ WorkerNotifyPush(t)
        PROVE  UNCHANGED <<arrived, backlog, fdOwner, home, interest>>
    BY <2>3 DEF WorkerNotifyTest, WorkerNotifyMark, WorkerNotifyPush, kernelVars
  <2> QED BY <1>3, <2>1, <2>2, <2>3 DEF Worker
<1>4. ASSUME NEW r \in Reactors, NEW fd, Unlink(r, fd)
      PROVE  \E f : /\ fdOwner' = [fdOwner EXCEPT ![f] = Null]
                    /\ home' = [home EXCEPT ![f] = Null]
                    /\ interest' = [interest EXCEPT ![f] = "off"]
                    /\ UNCHANGED <<arrived, backlog>>
  BY <1>4 DEF Unlink
<1>5. ASSUME NEW r \in Reactors, EpollWait(r)
      PROVE  /\ UNCHANGED <<arrived, backlog, fdOwner, home>>
             /\ \A f \in Fds : interest'[f] # "off" => interest[f] # "off"
  BY <1>5 DEF EpollWait, Disarmed
<1>6. ASSUME NEW r \in Reactors, Reactor(r)
      PROVE  \/ \E fd : Unlink(r, fd)
             \/ EpollWait(r)
             \/ UNCHANGED <<arrived, backlog, fdOwner, home, interest>>
  BY <1>6 DEF Reactor, Forget, DrainOne, DrainDone, PickKnown, PickNew, RoundDone,
              DispatchToPool, DispatchOverload, DispatchInline, DispatchOther, kernelVars
<1> QED BY <1>1, <1>2, <1>3, <1>4, <1>5, <1>6 DEF Next, Acceptor

LEMMA FdsInv ==
  ASSUME IInv, IInv', FdsSound, pooled, [Next]_vars
  PROVE  FdsSound'
<1>1. /\ fdOwner \in [Fds -> Clients \cup {Null}] /\ fdOwner' \in [Fds -> Clients \cup {Null}]
      /\ interest \in [Fds -> {"off", "in", "out"}] /\ home \in [Fds -> Reactors \cup {Null}]
      /\ backlog \subseteq Clients
  BY DEF IInv, TypeOK, KernelTypeOK
<1>2. /\ \A c : c \in Owned <=> c \in Clients /\ \E f \in Fds : fdOwner[f] = c
      /\ \A c : c \in Owned' <=> c \in Clients /\ \E f \in Fds : fdOwner'[f] = c
  BY <1>1, OwnedFacts DEF Owned
<1>3. ASSUME NEW c \in Clients, Arrive(c) PROVE FdsSound'
  <2>1. /\ c \notin arrived /\ arrived' = arrived \cup {c} /\ backlog' = backlog \cup {c}
        /\ UNCHANGED <<fdOwner, home, interest>>
    BY <1>3 DEF Arrive
  <2>2. Owned' = Owned
    BY <2>1 DEF Owned
  <2> QED BY <2>1, <2>2 DEF FdsSound
<1>4. CASE AcceptorAccept
  <2>1. PICK c \in backlog, fd \in FreeFds :
          /\ backlog' = backlog \ {c} /\ fdOwner' = [fdOwner EXCEPT ![fd] = c]
          /\ UNCHANGED <<arrived, home, interest>>
    BY <1>4 DEF AcceptorAccept
  <2>2. fd \in Fds /\ fdOwner[fd] = Null /\ c \in Clients /\ c \notin Owned
    BY <2>1, <1>1 DEF FreeFds, FdsSound
  <2>3. \A f \in Fds : fdOwner'[f] = IF f = fd THEN c ELSE fdOwner[f]
    BY <1>1, <2>1
  <2>4. \A d : d \in Owned' <=> d \in Owned \/ d = c
    BY <1>2, <2>2, <2>3, Sorts
  <2>5. \A f, g \in Fds : fdOwner'[f] = fdOwner'[g] /\ fdOwner'[f] # Null => f = g
    BY <1>2, <2>2, <2>3 DEF FdsSound
  <2> QED BY <2>1, <2>4, <2>5 DEF FdsSound
<1>5. CASE AcceptorAdd
  <2>1. /\ home' = [home EXCEPT ![acc.fd] = acc.pick]
        /\ interest' = [interest EXCEPT ![acc.fd] = "in"] /\ acc.pick \in Reactors
        /\ UNCHANGED <<arrived, backlog, fdOwner>>
    BY <1>5 DEF AcceptorAdd, IInv, TypeOK, AcceptorTypeOK
  <2>2. Owned' = Owned
    BY <2>1 DEF Owned
  <2>3. \A f \in Fds : interest'[f] # "off" => home'[f] # Null
    BY <1>1, <2>1, Sorts DEF FdsSound
  <2> QED BY <2>1, <2>2, <2>3 DEF FdsSound
<1>6. ASSUME NEW fd, fdOwner' = [fdOwner EXCEPT ![fd] = Null],
             home' = [home EXCEPT ![fd] = Null],
             interest' = [interest EXCEPT ![fd] = "off"], UNCHANGED <<arrived, backlog>>
      PROVE  FdsSound'
  <2>1. \A f \in Fds : fdOwner'[f] = IF f = fd THEN Null ELSE fdOwner[f]
    BY <1>1, <1>6
  <2>2. \A f \in Fds : interest'[f] # "off" => home'[f] # Null
    BY <1>1, <1>6 DEF FdsSound
  <2>3. \A c \in Owned' : c \in Owned
    BY <1>2, <2>1, Sorts
  <2> QED BY <1>6, <2>1, <2>2, <2>3 DEF FdsSound
<1>7. ASSUME UNCHANGED <<arrived, backlog, fdOwner, home>>,
             \A f \in Fds : interest'[f] # "off" => interest[f] # "off" \/ home[f] # Null
      PROVE  FdsSound'
  BY <1>7 DEF FdsSound, Owned
<1>8. CASE UNCHANGED vars
  BY <1>7, <1>8 DEF vars, kernelVars
<1> QED BY <1>3, <1>4, <1>5, <1>6, <1>7, <1>8, FdsStep

-----------------------------------------------------------------------------
(* The inductive invariant *)

\* Reactor r serves client c through the object o.
Holds(r, c, o) == sock[o] \in Fds /\ fdOwner[sock[o]] = c /\ connects[r][sock[o]] = o

Dispatched == {"RDHUP", "ERROR", "OUT", "IN"}

\* Tasks, jobs and requests are about the connection they were made for, and
\* are with the reactor that has it.
TaskSound(r, t) == Holds(r, t.cl, t.obj) /\ status[t.obj] \in Dispatched
JobSound(r, j) ==
  j.at # "idle" =>
    /\ Holds(r, j.cl, j.obj)
    /\ j.at \in {"switch", "op", "mark"} => status[j.obj] \in Dispatched
    /\ j.at # "switch" => \E x \in Call : j.todo = <<x>>
    /\ j.at = "ctl" => j.reg = [epoll |-> r, fd |-> sock[j.obj]]
RequestSound(r, q) == q.fd \in Fds /\ fdOwner[q.fd] = q.cl /\ connects[r][q.fd] # Null

AllSound ==
  /\ \A r \in Reactors : \A t \in Range(tasks[r]) : TaskSound(r, t)
  /\ \A w \in Threads : JobSound(w[1], job[w])
  /\ \A r \in Reactors : \A q \in Range(closeQueue[r]) : RequestSound(r, q)

\* There are no two of a kind for one client.
Distinct(s) == \A i, j \in DOMAIN s : s[i].cl = s[j].cl => i = j

NoTwo ==
  /\ \A r \in Reactors : Distinct(tasks[r]) /\ Distinct(closeQueue[r])
  /\ \A v, w \in Threads :
       job[v].at # "idle" /\ job[w].at # "idle" /\ job[v].cl = job[w].cl => v = w

\* The acceptor has a descriptor in its hands.
Placing == acc.at # "wait"

\* The places where the connection of a client is.
IsPlaced(c)  == Placing /\ fdOwner[acc.fd] = c
IsArmed(c)   == \E f \in Fds : fdOwner[f] = c /\ interest[f] # "off"
IsReady(c)   == \E r \in Reactors : \E e \in batch[r] \cup {cur[r]} : e.cl = c
IsQueued(c)  == \E r \in Reactors : \E t \in Range(tasks[r]) : t.cl = c
IsServed(c)  == \E w \in Threads : job[w].at # "idle" /\ job[w].cl = c
IsClosing(c) == \E r \in Reactors : \E q \in Range(closeQueue[r]) : q.cl = c

Where(c) ==
  (IF IsPlaced(c) THEN {"placed"} ELSE {}) \cup (IF IsArmed(c) THEN {"armed"} ELSE {})
  \cup (IF IsReady(c) THEN {"ready"} ELSE {}) \cup (IF IsQueued(c) THEN {"queued"} ELSE {})
  \cup (IF IsServed(c) THEN {"served"} ELSE {})
  \cup (IF IsClosing(c) THEN {"closing"} ELSE {})

InOnePlace == \A c \in Owned : \E p \in Where(c) : Where(c) = {p}

DInv == AllSound /\ NoTwo /\ InOnePlace

SInv == IInv /\ pooled /\ FdsSound /\ DInv

-----------------------------------------------------------------------------
(* Places *)

LEMMA WhereIs ==
  ASSUME NEW c
  PROVE  /\ Where(c) \subseteq {"placed", "armed", "ready", "queued", "served", "closing"}
         /\ "placed" \in Where(c) <=> IsPlaced(c)
         /\ "armed" \in Where(c) <=> IsArmed(c)
         /\ "ready" \in Where(c) <=> IsReady(c)
         /\ "queued" \in Where(c) <=> IsQueued(c)
         /\ "served" \in Where(c) <=> IsServed(c)
         /\ "closing" \in Where(c) <=> IsClosing(c)
BY DEF Where

LEMMA WhereWillBe ==
  ASSUME NEW c
  PROVE  /\ Where(c)' \subseteq {"placed", "armed", "ready", "queued", "served", "closing"}
         /\ "placed" \in Where(c)' <=> IsPlaced(c)'
         /\ "armed" \in Where(c)' <=> IsArmed(c)'
         /\ "ready" \in Where(c)' <=> IsReady(c)'
         /\ "queued" \in Where(c)' <=> IsQueued(c)'
         /\ "served" \in Where(c)' <=> IsServed(c)'
         /\ "closing" \in Where(c)' <=> IsClosing(c)'
BY DEF Where

LEMMA WhereKept ==
  ASSUME NEW c, IsPlaced(c)' <=> IsPlaced(c), IsArmed(c)' <=> IsArmed(c),
         IsReady(c)' <=> IsReady(c), IsQueued(c)' <=> IsQueued(c),
         IsServed(c)' <=> IsServed(c), IsClosing(c)' <=> IsClosing(c)
  PROVE  Where(c)' = Where(c)
BY DEF Where

\* The sets that the invariant ranges over, typed.
LEMMA Types ==
  ASSUME IInv
  PROVE  /\ \A r \in Reactors :
              /\ closeQueue[r] \in Seq(Request) /\ Range(closeQueue[r]) \subseteq Request
              /\ tasks[r] \in Seq(Task) /\ Range(tasks[r]) \subseteq Task
              /\ \A e \in batch[r] \cup {cur[r]} : e \in Event \cup {NoEvent}
         /\ \A w \in Threads : job[w] \in Job /\ JobShaped(job[w]) /\ w[1] \in Reactors
         /\ \A c : c \in Owned <=> c \in Clients /\ \E f \in Fds : fdOwner[f] = c
<1>1. /\ closeQueue \in [Reactors -> Seq(Request)] /\ tasks \in [Reactors -> Seq(Task)]
      /\ job \in [Threads -> Job] /\ batch \in [Reactors -> SUBSET Event]
      /\ cur \in [Reactors -> Event \cup {NoEvent}]
  BY DEF IInv, TypeOK, WorkTypeOK, LoopTypeOK
<1>2. \A S : \A s \in Seq(S) : Range(s) \subseteq S
  BY LenProperties, ElementOfSeq DEF Range
<1>3. \A c : c \in Owned <=> c \in Clients /\ \E f \in Fds : fdOwner[f] = c
  BY OwnedFacts DEF IInv, TypeOK, KernelTypeOK, Owned
<1>4. \A w \in Threads : job[w] \in Job /\ JobShaped(job[w]) /\ w[1] \in Reactors
  BY <1>1 DEF IInv, JobsShaped, Threads
<1>5. ASSUME NEW r \in Reactors
      PROVE  /\ closeQueue[r] \in Seq(Request) /\ Range(closeQueue[r]) \subseteq Request
             /\ tasks[r] \in Seq(Task) /\ Range(tasks[r]) \subseteq Task
             /\ \A e \in batch[r] \cup {cur[r]} : e \in Event \cup {NoEvent}
  <2>1. closeQueue[r] \in Seq(Request) /\ tasks[r] \in Seq(Task)
    BY <1>1
  <2> QED BY <1>1, <1>2, <2>1
<1> QED BY <1>3, <1>4, <1>5

\* An event is of the connection its descriptor has.
LEMMA ReadyFacts ==
  ASSUME IInv, NEW r \in Reactors, NEW e \in batch[r] \cup {cur[r]}, e.cl \in Clients
  PROVE  e \in Event /\ e.fd \in Fds /\ fdOwner[e.fd] = e.cl /\ home[e.fd] = r
<1>1. e # NoEvent
  BY Sorts DEF NoEvent
<1>2. e \in Event
  BY <1>1, Types
<1>3. Current(r, e)
  BY <1>1 DEF IInv, RoundsSound, RoundSound
<1> QED BY <1>2, <1>3 DEF Current, Event

\* Whoever is in a place is served.
LEMMA InAPlace ==
  ASSUME IInv, AllSound, NEW c \in Clients,
         \/ IsPlaced(c) \/ IsArmed(c) \/ IsReady(c)
         \/ IsQueued(c) \/ IsServed(c) \/ IsClosing(c)
  PROVE  c \in Owned
<1>1. CASE IsPlaced(c)
  BY <1>1, Types DEF IsPlaced, Placing, IInv, PlacingSound
<1>2. CASE IsReady(c)
  BY <1>2, ReadyFacts, Types DEF IsReady
<1>3. CASE IsArmed(c)
  BY <1>3, Types DEF IsArmed
<1>4. CASE IsQueued(c)
  BY <1>4, Types DEF IsQueued, AllSound, TaskSound, Holds
<1>5. CASE IsServed(c)
  BY <1>5, Types DEF IsServed, AllSound, JobSound, Holds
<1>6. CASE IsClosing(c)
  BY <1>6, Types DEF IsClosing, AllSound, RequestSound
<1> QED BY <1>1, <1>2, <1>3, <1>4, <1>5, <1>6

\* Whoever is in a place is in no other.
LEMMA Alone ==
  ASSUME SInv, NEW c \in Clients
  PROVE  /\ IsPlaced(c) => Where(c) = {"placed"}
         /\ IsArmed(c) => Where(c) = {"armed"}
         /\ IsReady(c) => Where(c) = {"ready"}
         /\ IsQueued(c) => Where(c) = {"queued"}
         /\ IsServed(c) => Where(c) = {"served"}
         /\ IsClosing(c) => Where(c) = {"closing"}
<1>1. Where(c) # {} => c \in Owned
  BY InAPlace, WhereIs DEF SInv, DInv
<1>2. \A p : p \in Where(c) => Where(c) = {p}
  BY <1>1 DEF SInv, DInv, InOnePlace
<1> QED BY <1>2, WhereIs

\* What is in the hands of the workers is not c's when c is elsewhere.
LEMMA Elsewhere ==
  ASSUME NEW c
  PROVE  /\ "queued" \notin Where(c) =>
              \A r \in Reactors : \A t \in Range(tasks[r]) : t.cl # c
         /\ "served" \notin Where(c) =>
              \A w \in Threads : job[w].at = "idle" \/ job[w].cl # c
         /\ "closing" \notin Where(c) =>
              \A r \in Reactors : \A q \in Range(closeQueue[r]) : q.cl # c
BY WhereIs DEF IsQueued, IsServed, IsClosing

-----------------------------------------------------------------------------
(* Sequences in which there are no two of a client *)

LEMMA DistinctAppend ==
  ASSUME NEW S, NEW s \in Seq(S), NEW e \in S, Distinct(s),
         \A t \in Range(s) : t.cl # e.cl
  PROVE  Distinct(Append(s, e))
<1>1. /\ DOMAIN s = 1..Len(s) /\ Len(s) \in Nat
      /\ DOMAIN Append(s, e) = 1..(Len(s) + 1)
      /\ \A i \in 1..Len(s) : Append(s, e)[i] = s[i]
      /\ Append(s, e)[Len(s) + 1] = e
  BY LenProperties, AppendProperties
<1>2. \A i \in 1..Len(s) : s[i].cl # e.cl
  BY <1>1 DEF Range
<1> QED BY <1>1, <1>2 DEF Distinct

LEMMA DistinctTail ==
  ASSUME NEW S, NEW s \in Seq(S), s # <<>>, Distinct(s)
  PROVE  Distinct(Tail(s)) /\ \A t \in Range(Tail(s)) : t.cl # Head(s).cl
<1>1. /\ DOMAIN s = 1..Len(s) /\ Len(s) \in Nat \ {0}
      /\ DOMAIN Tail(s) = 1..(Len(s) - 1)
      /\ \A i \in 1..(Len(s) - 1) : Tail(s)[i] = s[i + 1]
      /\ Head(s) = s[1]
  BY LenProperties, HeadTailProperties, EmptySeq
<1> QED BY <1>1 DEF Distinct, Range

-----------------------------------------------------------------------------
(* Steps that concern one client leave the others alone *)

\* The step takes nothing of a client other than c: neither its descriptor
\* nor its object, nor what the object says.
Spares(c) ==
  \A d \in Clients \ {c} :
    /\ \A f \in Fds : fdOwner'[f] = d <=> fdOwner[f] = d
    /\ \A r \in Reactors, f \in Fds : fdOwner[f] = d /\ connects[r][f] # Null =>
         /\ connects'[r][f] = connects[r][f]
         /\ sock'[connects[r][f]] = sock[connects[r][f]]
         /\ status'[connects[r][f]] = status[connects[r][f]]

LEMMA SparesHolds ==
  ASSUME SInv, NEW c, Spares(c), NEW d \in Clients \ {c}, NEW r \in Reactors, NEW o \in Objs,
         Holds(r, d, o)
  PROVE  Holds(r, d, o)' /\ sock'[o] = sock[o] /\ status'[o] = status[o]
<1>1. /\ sock[o] \in Fds /\ fdOwner[sock[o]] = d /\ connects[r][sock[o]] = o /\ o # Null
  BY Sorts DEF Holds
<1> QED BY <1>1 DEF Holds, Spares

\* A step that moves c, or serves or ends it, and spares the others; one that
\* concerns nobody if c is no client.
LEMMA OneConcerned ==
  ASSUME SInv, IInv', NEW c, Spares(c), NoTwo',
         \A r \in Reactors : \A t \in Range(tasks'[r]) :
           TaskSound(r, t)' \/ (t \in Range(tasks[r]) /\ t.cl # c),
         \A w \in Threads : \/ JobSound(w[1], job[w])'
                            \/ job'[w] = job[w] /\ (job[w].at = "idle" \/ job[w].cl # c),
         \A r \in Reactors : \A q \in Range(closeQueue'[r]) :
           RequestSound(r, q)' \/ (q \in Range(closeQueue[r]) /\ q.cl # c),
         c \in Owned' => \E p : Where(c)' = {p},
         \A d \in Clients \ {c} : Where(d)' = Where(d)
  PROVE  DInv'
<1>1. AllSound
  BY DEF SInv, DInv
<1>2. ASSUME NEW r \in Reactors, NEW t \in Range(tasks'[r]) PROVE TaskSound(r, t)'
  <2> SUFFICES ASSUME t \in Range(tasks[r]), t.cl # c PROVE TaskSound(r, t)'
    BY <1>2
  <2>1. t.obj \in Objs /\ t.cl \in Clients \ {c} /\ TaskSound(r, t)
    BY <1>1, Types DEF SInv, Task, AllSound
  <2>2. PICK d \in Clients \ {c}, o \in Objs : d = t.cl /\ o = t.obj
    BY <2>1
  <2> QED BY <2>1, <2>2, SparesHolds DEF TaskSound
<1>3. ASSUME NEW w \in Threads PROVE JobSound(w[1], job[w])'
  <2> SUFFICES ASSUME job'[w] = job[w], job[w].at # "idle", job[w].cl # c
               PROVE  JobSound(w[1], job[w])'
    BY DEF JobSound
  <2>1. /\ job[w].obj \in Objs /\ job[w].cl \in Clients \ {c} /\ JobSound(w[1], job[w])
        /\ w[1] \in Reactors
    BY <1>1, Types DEF SInv, JobShaped, AllSound
  <2>2. PICK d \in Clients \ {c}, o \in Objs, r \in Reactors :
          d = job[w].cl /\ o = job[w].obj /\ r = w[1]
    BY <2>1
  <2>3. Holds(r, d, o)' /\ sock'[o] = sock[o] /\ status'[o] = status[o]
    BY <2>1, <2>2, SparesHolds DEF JobSound
  <2>4. Holds(w[1], job[w].cl, job[w].obj)'
    BY <2>2, <2>3
  <2> QED BY <2>1, <2>2, <2>3, <2>4 DEF JobSound
<1>4. ASSUME NEW r \in Reactors, NEW q \in Range(closeQueue'[r]) PROVE RequestSound(r, q)'
  <2> SUFFICES ASSUME q \in Range(closeQueue[r]), q.cl # c PROVE RequestSound(r, q)'
    BY <1>4
  <2>1. q.cl \in Clients \ {c} /\ RequestSound(r, q)
    BY <1>1, Types DEF SInv, Request, AllSound
  <2> QED BY <2>1 DEF RequestSound, Spares
<1>5. InOnePlace'
  <2>1. \A d \in Owned' \ {c} : d \in Owned /\ Where(d)' = Where(d) /\ d \in Clients
    <3>1. \A d : d \in Owned' => d \in Clients /\ \E f \in Fds : fdOwner'[f] = d
      BY OwnedFacts DEF IInv, TypeOK, KernelTypeOK, Owned
    <3> QED BY <3>1, Types DEF SInv, Spares
  <2>2. \A d \in Owned : \E p : Where(d) = {p}
    BY DEF SInv, DInv, InOnePlace
  <2>3. ASSUME NEW d \in Owned' PROVE \E p : Where(d)' = {p}
    BY <2>1, <2>2
  <2> QED BY <2>3 DEF InOnePlace
<1> QED BY <1>2, <1>3, <1>4, <1>5 DEF DInv, AllSound

\* Nobody moves, and nobody's object is touched.
LEMMA NobodyConcerned ==
  ASSUME SInv, IInv', UNCHANGED <<fdOwner, interest, closeQueue, tasks, job>>,
         Placing' = Placing, acc'.fd = acc.fd, Spares(Null),
         \A c \in Clients : IsReady(c)' <=> IsReady(c)
  PROVE  DInv'
<1>1. Null \notin Clients
  BY Sorts
<1>2. NoTwo'
  BY DEF SInv, DInv, NoTwo
<1>3. \A c \in Clients : Where(c)' = Where(c)
  BY WhereKept DEF IsPlaced, IsArmed, IsQueued, IsServed, IsClosing
<1>4. Null \notin Owned'
  BY DEF Owned
<1>5. /\ \A r \in Reactors : \A t \in Range(tasks[r]) : t.cl # Null
      /\ \A w \in Threads : job[w].at = "idle" \/ job[w].cl # Null
      /\ \A r \in Reactors : \A q \in Range(closeQueue[r]) : q.cl # Null
  BY <1>1, Types DEF SInv, Task, Request, JobShaped
<1> QED BY <1>1, <1>2, <1>3, <1>4, <1>5, OneConcerned

\* Neither is anybody when tables, objects and descriptors stay.
LEMMA NothingTouched ==
  ASSUME SInv, IInv', UNCHANGED <<fdOwner, interest, connects, sock, status>>,
         UNCHANGED <<closeQueue, tasks, job>>, Placing' = Placing, acc'.fd = acc.fd,
         \A c \in Clients : IsReady(c)' <=> IsReady(c)
  PROVE  DInv'
BY NobodyConcerned DEF Spares

LEMMA QuietStep ==
  ASSUME SInv, IInv', \/ UNCHANGED vars \/ AcceptorLook \/ AcceptorLeast
                      \/ \E c \in Clients : Arrive(c) \/ HangUp(c)
                      \/ \E r \in Reactors : DrainDone(r) \/ RoundDone(r)
  PROVE  DInv'
<1>1. /\ UNCHANGED <<fdOwner, interest, connects, sock, status>>
      /\ UNCHANGED <<closeQueue, tasks, job, batch, cur>>
  BY DEF vars, AcceptorLook, AcceptorLeast, Arrive, HangUp, DrainDone, RoundDone, kernelVars,
         connVars, loopVars, workVars
<1>2. Placing' = Placing /\ acc'.fd = acc.fd
  <2>1. CASE AcceptorLook \/ AcceptorLeast
    BY <2>1 DEF AcceptorLook, AcceptorLeast, SInv, IInv, TypeOK, AcceptorTypeOK, Placing
  <2>2. CASE ~(AcceptorLook \/ AcceptorLeast)
    BY <2>2 DEF vars, Arrive, HangUp, DrainDone, RoundDone, Placing
  <2> QED BY <2>1, <2>2
<1>3. \A c \in Clients : IsReady(c)' <=> IsReady(c)
  BY <1>1 DEF IsReady
<1> QED BY <1>1, <1>2, <1>3, NothingTouched

\* Taking an event from the batch leaves it in the reactor's hands.
LEMMA PickReady ==
  ASSUME IInv, NEW r \in Reactors, NEW e \in batch[r], cur[r] = NoEvent,
         cur' = [cur EXCEPT ![r] = e], batch' = [batch EXCEPT ![r] = batch[r] \ {e}]
  PROVE  \A c \in Clients : IsReady(c)' <=> IsReady(c)
<1>1. NoEvent.cl \notin Clients
  BY Sorts DEF NoEvent
<1>2. /\ batch \in [Reactors -> SUBSET Event] /\ cur \in [Reactors -> Event \cup {NoEvent}]
  BY DEF IInv, TypeOK, LoopTypeOK
<1>3. \A q \in Reactors : /\ cur'[q] = IF q = r THEN e ELSE cur[q]
                          /\ batch'[q] = IF q = r THEN batch[q] \ {e} ELSE batch[q]
  BY <1>2
<1> SUFFICES ASSUME NEW c \in Clients PROVE IsReady(c)' <=> IsReady(c)
  OBVIOUS
<1>4. ASSUME IsReady(c) PROVE IsReady(c)'
  <2>0. PICK q \in Reactors : \E x \in batch[q] \cup {cur[q]} : x.cl = c
    BY <1>4 DEF IsReady
  <2>1. PICK x \in batch[q] \cup {cur[q]} : x.cl = c
    BY <2>0
  <2>2. x \in batch'[q] \cup {cur'[q]}
    BY <1>1, <1>3, <2>1
  <2> QED BY <2>1, <2>2 DEF IsReady
<1>5. ASSUME IsReady(c)' PROVE IsReady(c)
  <2>0. PICK q \in Reactors : \E x \in batch'[q] \cup {cur'[q]} : x.cl = c
    BY <1>5 DEF IsReady
  <2>1. PICK x \in batch'[q] \cup {cur'[q]} : x.cl = c
    BY <2>0
  <2>2. x \in batch[q] \cup {cur[q]}
    BY <1>3, <2>1
  <2> QED BY <2>1, <2>2 DEF IsReady
<1> QED BY <1>4, <1>5

LEMMA PickStep ==
  ASSUME SInv, IInv', NEW r \in Reactors, PickKnown(r) \/ PickNew(r)
  PROVE  DInv'
<1>1. /\ cur[r] = NoEvent /\ UNCHANGED <<fdOwner, interest, acc, closeQueue, tasks, job>>
  BY DEF PickKnown, PickNew, kernelVars, workVars
<1>2. PICK e \in batch[r] : /\ cur' = [cur EXCEPT ![r] = e]
                            /\ batch' = [batch EXCEPT ![r] = batch[r] \ {e}]
  BY DEF PickKnown, PickNew
<1>3. \A c \in Clients : IsReady(c)' <=> IsReady(c)
  BY <1>1, <1>2, PickReady DEF SInv
<1>4. CASE PickKnown(r)
  BY <1>1, <1>3, <1>4, NothingTouched DEF PickKnown, connVars, Placing
<1>5. CASE PickNew(r)
  <2>1. PICK fd \in Fds, o \in Acquirable :
          /\ connects[r][fd] = Null /\ connects' = [connects EXCEPT ![r][fd] = o]
          /\ sock' = [sock EXCEPT ![o] = fd] /\ status' = [status EXCEPT ![o] = "OK"]
    <3>1. PICK x \in batch[r], o \in Acquirable :
            /\ connects[r][x.fd] = Null /\ connects' = [connects EXCEPT ![r][x.fd] = o]
            /\ sock' = [sock EXCEPT ![o] = x.fd] /\ status' = [status EXCEPT ![o] = "OK"]
      BY <1>5 DEF PickNew
    <3>2. x.fd \in Fds
      BY DEF SInv, IInv, TypeOK, LoopTypeOK, Event
    <3> QED BY <3>1, <3>2
  <2>2. PICK p : p = IF recycling /\ pool # <<>> THEN Tail(pool) ELSE pool
    OBVIOUS
  <2>3. o \in Objs /\ o \notin Live
    BY <2>2, AcquiredFacts DEF SInv
  <2>4. /\ connects \in Tables /\ sock \in [Objs -> Fds \cup {NoFd}]
        /\ status \in [Objs -> Statuses]
    BY DEF SInv, IInv, TypeOK, ConnTypeOK
  <2>5. ASSUME NEW q \in Reactors, NEW f \in Fds, connects[q][f] # Null
        PROVE  /\ connects'[q][f] = connects[q][f]
               /\ sock'[connects[q][f]] = sock[connects[q][f]]
               /\ status'[connects[q][f]] = status[connects[q][f]]
    <3>1. connects[q][f] \in Live /\ connects[q][f] \in Objs
      BY <2>4, <2>5, LiveFacts DEF Tables
    <3> QED BY <2>1, <2>3, <2>4, <2>5, <3>1 DEF Tables
  <2>6. Spares(Null)
    BY <1>1, <2>5 DEF Spares
  <2> QED BY <1>1, <1>3, <2>6, NobodyConcerned DEF Placing
<1> QED BY <1>4, <1>5

\* An object that is released serves nobody.
LEMMA ReleaseStep ==
  ASSUME SInv, IInv', NEW r \in Reactors, Forget(r)
  PROVE  DInv'
<1>1. /\ sock' = [sock EXCEPT ![gone[r]] = NoFd] /\ status' = [status EXCEPT ![gone[r]] = "OK"]
      /\ UNCHANGED <<fdOwner, interest, acc, connects, batch, cur, closeQueue, tasks, job>>
  BY DEF Forget, kernelVars, workVars
<1>2. /\ gone[r] \notin Live /\ connects \in Tables /\ sock \in [Objs -> Fds \cup {NoFd}]
      /\ status \in [Objs -> Statuses]
  BY DEF Forget, SInv, IInv, TableSound, TypeOK, ConnTypeOK
<1>3. ASSUME NEW q \in Reactors, NEW f \in Fds, connects[q][f] # Null
      PROVE  /\ sock'[connects[q][f]] = sock[connects[q][f]]
             /\ status'[connects[q][f]] = status[connects[q][f]]
  <2>1. connects[q][f] \in Live /\ connects[q][f] \in Objs
    BY <1>2, <1>3, LiveFacts DEF Tables
  <2> QED BY <1>1, <1>2, <2>1
<1>4. Spares(Null)
  BY <1>1, <1>3 DEF Spares
<1>5. \A c \in Clients : IsReady(c)' <=> IsReady(c)
  BY <1>1 DEF IsReady
<1> QED BY <1>1, <1>4, <1>5, NobodyConcerned DEF Placing

-----------------------------------------------------------------------------
(* The acceptor *)

\* A connection that is accepted is in the acceptor's hands.
LEMMA AcceptStep ==
  ASSUME SInv, IInv', AcceptorAccept
  PROVE  DInv'
<1>1. PICK c \in backlog, fd \in FreeFds :
        /\ acc.at = "wait" /\ fdOwner' = [fdOwner EXCEPT ![fd] = c]
        /\ acc'.at = "look" /\ acc'.fd = fd
        /\ UNCHANGED <<home, interest, loopVars, connVars, workVars>>
  BY DEF AcceptorAccept, Searching
<1>2. /\ fd \in Fds /\ fdOwner[fd] = Null /\ c \in Clients /\ c \notin Owned
      /\ home[fd] = Null /\ interest[fd] = "off"
  BY <1>1 DEF FreeFds, SInv, FdsSound, IInv, HomeOpen, TypeOK, KernelTypeOK
<1>3. \A f \in Fds : fdOwner'[f] = IF f = fd THEN c ELSE fdOwner[f]
  BY <1>1 DEF SInv, IInv, TypeOK, KernelTypeOK
<1>4. Where(c) = {}
  BY <1>2, InAPlace, WhereIs DEF SInv, DInv
<1>5. Spares(c)
  BY <1>1, <1>2, <1>3, Sorts DEF Spares, connVars
<1>6. \A d \in Clients : IsArmed(d)' <=> IsArmed(d)
  BY <1>1, <1>2, <1>3 DEF IsArmed
<1>7. /\ \A d : IsReady(d)' <=> IsReady(d)
      /\ \A d : IsQueued(d)' <=> IsQueued(d)
      /\ \A d : IsServed(d)' <=> IsServed(d)
      /\ \A d : IsClosing(d)' <=> IsClosing(d)
  BY <1>1 DEF IsReady, IsQueued, IsServed, IsClosing, loopVars, workVars
<1>8. \A d \in Clients \ {c} : Where(d)' = Where(d)
  <2>1. \A d \in Clients \ {c} : ~IsPlaced(d)' /\ ~IsPlaced(d)
    BY <1>1, <1>2, <1>3 DEF IsPlaced, Placing
  <2> QED BY <1>6, <1>7, <2>1, WhereKept
<1>9. Where(c)' = {"placed"}
  <2>1. IsPlaced(c)'
    BY <1>1, <1>2, <1>3 DEF IsPlaced, Placing
  <2> QED BY <1>2, <1>4, <1>6, <1>7, <2>1, WhereIs, WhereWillBe
<1>10. NoTwo'
  BY <1>1 DEF SInv, DInv, NoTwo, workVars
<1>11. closeQueue' = closeQueue /\ tasks' = tasks /\ job' = job
  BY <1>1 DEF workVars
<1> QED BY <1>4, <1>5, <1>8, <1>9, <1>10, <1>11, Elsewhere, OneConcerned

\* epoll_add: from the acceptor's hands to the epoll instance of a reactor.
LEMMA AddStep ==
  ASSUME SInv, IInv', AcceptorAdd
  PROVE  DInv'
<1>1. /\ acc.at = "look" /\ acc'.at = "wait"
      /\ interest' = [interest EXCEPT ![acc.fd] = "in"]
      /\ UNCHANGED <<fdOwner, loopVars, connVars, workVars>>
  BY DEF AcceptorAdd, Placed, Searching
<1>2. PICK fd \in Fds : fd = acc.fd /\ fdOwner[fd] # Null /\ home[fd] = Null
  BY <1>1 DEF SInv, IInv, PlacingSound
<1>3. PICK c \in Clients : c = fdOwner[fd]
  BY <1>2 DEF SInv, IInv, TypeOK, KernelTypeOK
<1>4. \A f \in Fds : interest'[f] = IF f = fd THEN "in" ELSE interest[f]
  BY <1>1, <1>2 DEF SInv, IInv, TypeOK, KernelTypeOK
<1>5. Where(c) = {"placed"}
  <2>1. IsPlaced(c)
    BY <1>1, <1>2, <1>3 DEF IsPlaced, Placing
  <2> QED BY <2>1, Alone
<1>6. Spares(c)
  BY <1>1 DEF Spares, connVars
<1>7. /\ \A d : IsReady(d)' <=> IsReady(d)
      /\ \A d : IsQueued(d)' <=> IsQueued(d)
      /\ \A d : IsServed(d)' <=> IsServed(d)
      /\ \A d : IsClosing(d)' <=> IsClosing(d)
  BY <1>1 DEF IsReady, IsQueued, IsServed, IsClosing, loopVars, workVars
<1>8. /\ \A d \in Clients \ {c} : IsArmed(d)' <=> IsArmed(d)
      /\ \A d \in Clients \ {c} : IsPlaced(d)' <=> IsPlaced(d)
      /\ IsArmed(c)' /\ ~IsPlaced(c)'
  BY <1>1, <1>2, <1>3, <1>4 DEF IsArmed, IsPlaced, Placing
<1>9. \A d \in Clients \ {c} : Where(d)' = Where(d)
  BY <1>7, <1>8, WhereKept
<1>10. Where(c)' = {"armed"}
  BY <1>5, <1>7, <1>8, WhereIs, WhereWillBe
<1>11. NoTwo'
  BY <1>1 DEF SInv, DInv, NoTwo, workVars
<1>12. closeQueue' = closeQueue /\ tasks' = tasks /\ job' = job
  BY <1>1 DEF workVars
<1> QED BY <1>5, <1>6, <1>9, <1>10, <1>11, <1>12, Elsewhere, OneConcerned

-----------------------------------------------------------------------------
(* The reactors *)

\* CONNECTS_REMOVE_FD_REACTOR ends the connection of one client.
LEMMA UnlinkSpares ==
  ASSUME SInv, NEW r \in Reactors, NEW fd \in Fds, connects[r][fd] # Null,
         gone[r] = Null, Unlink(r, fd), acc' = acc, NEW c, c = fdOwner[fd]
  PROVE  /\ c \in Clients /\ Spares(c) /\ c \notin Owned'
         /\ \A d \in Clients \ {c} : IsArmed(d)' <=> IsArmed(d)
         /\ \A d \in Clients \ {c} : IsPlaced(d)' <=> IsPlaced(d)
<1>1. /\ fdOwner' = [fdOwner EXCEPT ![fd] = Null] /\ interest' = [interest EXCEPT ![fd] = "off"]
      /\ connects' = [connects EXCEPT ![r][fd] = Null] /\ UNCHANGED <<sock, status>>
      /\ fdOwner[fd] # Null /\ home[fd] = r
  <2>1. sock[connects[r][fd]] = fd /\ fdOwner[fd] # Null /\ home[fd] = r
    BY DEF SInv, IInv, TableSound
  <2> QED BY <2>1 DEF Unlink
<1>2. /\ fdOwner \in [Fds -> Clients \cup {Null}] /\ interest \in [Fds -> {"off", "in", "out"}]
      /\ connects \in Tables
  BY DEF SInv, IInv, TypeOK, KernelTypeOK, ConnTypeOK
<1>3. \A f \in Fds : fdOwner'[f] = IF f = fd THEN Null ELSE fdOwner[f]
  BY <1>1, <1>2
<1>4. c \in Clients
  BY <1>1, <1>2
<1>5. ASSUME NEW d \in Clients \ {c}, NEW q \in Reactors, NEW f \in Fds, fdOwner[f] = d
      PROVE  connects'[q][f] = connects[q][f]
  BY <1>1, <1>2, <1>5 DEF Tables
<1>6. Spares(c)
  BY <1>1, <1>3, <1>4, <1>5, Sorts DEF Spares
<1>7. c \notin Owned'
  <2>1. \A f \in Fds : fdOwner'[f] # c
    BY <1>1, <1>3 DEF SInv, FdsSound
  <2>2. fdOwner' \in [Fds -> Clients \cup {Null}]
    BY <1>1, <1>2
  <2> QED BY <2>1, <2>2, OwnedFacts DEF Owned
<1>8. \A d \in Clients \ {c} : IsArmed(d)' <=> IsArmed(d)
  BY <1>1, <1>2, <1>3, Sorts DEF IsArmed
<1>9. \A d \in Clients \ {c} : IsPlaced(d)' <=> IsPlaced(d)
  BY <1>1, <1>3, Sorts DEF IsPlaced, Placing, SInv, IInv, PlacingSound
<1> QED BY <1>4, <1>6, <1>7, <1>8, <1>9

\* What a reactor knows of the connection of the event at hand, and what
\* becomes of the rounds once it is served.
LEMMA EventFacts ==
  ASSUME SInv, NEW r \in Reactors, Serving(r, HandlerEvents \cup {"other"}), Served(r),
         keys' = keys, NEW c, c = cur[r].cl
  PROVE  /\ c \in Clients /\ cur[r].fd \in Fds /\ fdOwner[cur[r].fd] = c
         /\ Subject(r) \in Objs /\ Holds(r, c, Subject(r)) /\ gone[r] = Null
         /\ connects[r][cur[r].fd] # Null /\ Where(c) = {"ready"}
         /\ ~IsReady(c)'
         /\ \A d \in Clients \ {c} : IsReady(d)' <=> IsReady(d)
<1>1. /\ cur[r] \in Event /\ cur[r] # NoEvent /\ gone[r] = Null
      /\ Current(r, cur[r]) /\ Subject(r) \in Objs /\ sock[Subject(r)] = cur[r].fd
      /\ cur'[r] = NoEvent /\ batch' = batch
      /\ \A q \in Reactors \ {r} : cur'[q] = cur[q]
      /\ \A e \in batch'[r] : e.fd # cur[r].fd
  BY ServingFacts DEF SInv
<1>2. c \in Clients
  BY <1>1 DEF Event
<1>3. IsReady(c) /\ cur[r].fd \in Fds /\ fdOwner[cur[r].fd] = c
  BY <1>1, <1>2 DEF IsReady, Current, Event
<1>4. Where(c) = {"ready"}
  BY <1>2, <1>3, Alone
<1>5. connects[r][cur[r].fd] # Null /\ Holds(r, c, Subject(r))
  BY <1>1, <1>2, <1>3, Sorts DEF Holds, Subject
<1>6. NoEvent.cl \notin Clients
  BY Sorts DEF NoEvent
<1>7. ~IsReady(c)'
  <2> SUFFICES ASSUME IsReady(c)' PROVE FALSE
    OBVIOUS
  <2>0. PICK q \in Reactors : \E x \in batch'[q] \cup {cur'[q]} : x.cl = c
    BY DEF IsReady
  <2>1. PICK x \in batch'[q] \cup {cur'[q]} : x.cl = c
    BY <2>0
  <2>2. x \in batch[q] \cup {cur[q]} /\ x # cur'[r]
    BY <1>1, <1>2, <1>6, <2>1
  <2>3. x.fd \in Fds /\ fdOwner[x.fd] = c /\ home[x.fd] = q
    BY <1>2, <2>1, <2>2, ReadyFacts DEF SInv
  <2>4. x.fd = cur[r].fd /\ q = r
    BY <1>1, <1>2, <1>3, <2>3, Sorts DEF SInv, FdsSound, Current
  <2> QED BY <1>1, <2>1, <2>2, <2>4
<1>8. ASSUME NEW d \in Clients \ {c} PROVE IsReady(d)' <=> IsReady(d)
  <2>1. ASSUME IsReady(d) PROVE IsReady(d)'
    <3>0. PICK q \in Reactors : \E x \in batch[q] \cup {cur[q]} : x.cl = d
      BY <2>1 DEF IsReady
    <3>1. PICK x \in batch[q] \cup {cur[q]} : x.cl = d
      BY <3>0
    <3>2. x \in batch'[q] \cup {cur'[q]}
      BY <1>1, <1>2, <3>1
    <3> QED BY <3>1, <3>2 DEF IsReady
  <2>2. ASSUME IsReady(d)' PROVE IsReady(d)
    <3>0. PICK q \in Reactors : \E x \in batch'[q] \cup {cur'[q]} : x.cl = d
      BY <2>2 DEF IsReady
    <3>1. PICK x \in batch'[q] \cup {cur'[q]} : x.cl = d
      BY <3>0
    <3>2. x \in batch[q] \cup {cur[q]}
      BY <1>1, <1>6, <3>1
    <3> QED BY <3>1, <3>2 DEF IsReady
  <2> QED BY <2>1, <2>2
<1> QED BY <1>1, <1>2, <1>3, <1>4, <1>5, <1>7, <1>8

LEMMA RemoveStep ==
  ASSUME SInv, IInv', NEW r \in Reactors, DispatchOverload(r) \/ DispatchOther(r)
  PROVE  DInv'
<1>1. /\ Serving(r, HandlerEvents \cup {"other"}) /\ Served(r) /\ Unlink(r, cur[r].fd)
      /\ UNCHANGED <<acc, closeQueue, tasks, job>> /\ keys' = keys
  BY DEF DispatchOverload, DispatchOther, Serving, workVars
<1>2. PICK c, fd : c = cur[r].cl /\ fd = cur[r].fd
  OBVIOUS
<1>3. /\ c \in Clients /\ fd \in Fds
      /\ fdOwner[fd] = c /\ gone[r] = Null /\ connects[r][fd] # Null /\ Where(c) = {"ready"}
      /\ \A d \in Clients \ {c} : IsReady(d)' <=> IsReady(d)
  BY <1>1, <1>2, EventFacts
<1>4. /\ Spares(c) /\ c \notin Owned'
      /\ \A d \in Clients \ {c} : IsArmed(d)' <=> IsArmed(d)
      /\ \A d \in Clients \ {c} : IsPlaced(d)' <=> IsPlaced(d)
  <2>1. Unlink(r, fd)
    BY <1>1, <1>2
  <2> QED BY <1>1, <1>3, <2>1, UnlinkSpares
<1>5. \A d \in Clients \ {c} : Where(d)' = Where(d)
  BY <1>1, <1>3, <1>4, WhereKept DEF IsQueued, IsServed, IsClosing
<1>6. NoTwo'
  BY <1>1 DEF SInv, DInv, NoTwo
<1> QED BY <1>1, <1>3, <1>4, <1>5, <1>6, Elsewhere, OneConcerned

\* A request is for the connection that has the descriptor now.
LEMMA RequestFacts ==
  ASSUME SInv, NEW r \in Reactors, closeQueue[r] # <<>>, NEW q, q = Head(closeQueue[r])
  PROVE  /\ q.fd \in Fds /\ q.cl \in Clients /\ fdOwner[q.fd] = q.cl
         /\ connects[r][q.fd] # Null /\ Where(q.cl) = {"closing"}
         /\ Range(closeQueue[r]) = Range(Tail(closeQueue[r])) \cup {q}
         /\ Distinct(Tail(closeQueue[r]))
         /\ \A x \in Range(Tail(closeQueue[r])) : x.cl # q.cl
<1>1. closeQueue[r] \in Seq(Request) /\ Range(closeQueue[r]) \subseteq Request
  BY Types DEF SInv
<1>2. Range(closeQueue[r]) = Range(Tail(closeQueue[r])) \cup {q}
  BY <1>1, RangeTail
<1>3. Distinct(Tail(closeQueue[r])) /\ \A x \in Range(Tail(closeQueue[r])) : x.cl # q.cl
  BY <1>1, DistinctTail DEF SInv, DInv, NoTwo
<1>4. RequestSound(r, q) /\ q \in Request
  BY <1>1, <1>2 DEF SInv, DInv, AllSound
<1>5. q.cl \in Clients /\ IsClosing(q.cl)
  BY <1>2, <1>4 DEF Request, IsClosing
<1> QED BY <1>2, <1>3, <1>4, <1>5, Alone DEF RequestSound

LEMMA DrainStep ==
  ASSUME SInv, IInv', NEW r \in Reactors, DrainOne(r)
  PROVE  DInv'
<1>0. PICK q : q = Head(closeQueue[r])
  OBVIOUS
<1>1. /\ closeQueue[r] # <<>> /\ closeQueue' = [closeQueue EXCEPT ![r] = Tail(closeQueue[r])]
      /\ gone[r] = Null /\ UNCHANGED <<acc, batch, cur, tasks, job>>
      /\ ~(q.fd = NoFd \/ connects[r][q.fd] = Null) => Unlink(r, q.fd)
  BY <1>0 DEF DrainOne, At
<1>2. PICK c \in Clients, fd \in Fds : c = q.cl /\ fd = q.fd
  BY <1>0, <1>1, RequestFacts
<1>3. /\ fdOwner[fd] = c /\ connects[r][fd] # Null /\ Where(c) = {"closing"}
      /\ Range(closeQueue[r]) = Range(Tail(closeQueue[r])) \cup {q}
      /\ Distinct(Tail(closeQueue[r])) /\ \A x \in Range(Tail(closeQueue[r])) : x.cl # c
  BY <1>0, <1>1, <1>2, RequestFacts
<1>4. /\ Spares(c) /\ c \notin Owned'
      /\ \A d \in Clients \ {c} : IsArmed(d)' <=> IsArmed(d)
      /\ \A d \in Clients \ {c} : IsPlaced(d)' <=> IsPlaced(d)
  <2>1. Unlink(r, fd)
    BY <1>1, <1>2, <1>3, Sorts
  <2> QED BY <1>1, <1>3, <2>1, UnlinkSpares
<1>5. \A p \in Reactors : closeQueue'[p] = IF p = r THEN Tail(closeQueue[r]) ELSE closeQueue[p]
  BY <1>1 DEF SInv, IInv, TypeOK, WorkTypeOK
<1>6. \A p \in Reactors \ {r} : \A x \in Range(closeQueue[p]) : x.cl # c
  <2> SUFFICES ASSUME NEW p \in Reactors \ {r}, NEW x \in Range(closeQueue[p]), x.cl = c
               PROVE  FALSE
    OBVIOUS
  <2>1. x.fd \in Fds /\ fdOwner[x.fd] = c /\ connects[p][x.fd] # Null
    BY DEF SInv, DInv, AllSound, RequestSound
  <2>2. x.fd = fd
    BY <1>3, <2>1, Sorts DEF SInv, FdsSound
  <2> QED BY <1>3, <2>1, <2>2 DEF SInv, IInv, TableSound
<1>7. \A d \in Clients \ {c} : Where(d)' = Where(d)
  <2>1. ASSUME NEW d \in Clients \ {c}, NEW p \in Reactors
        PROVE  (\E x \in Range(closeQueue'[p]) : x.cl = d)
                 <=> \E x \in Range(closeQueue[p]) : x.cl = d
    BY <1>2, <1>3, <1>5
  <2>2. \A d \in Clients \ {c} : IsClosing(d)' <=> IsClosing(d)
    BY <2>1 DEF IsClosing
  <2> QED BY <1>1, <1>4, <2>2, WhereKept DEF IsReady, IsQueued, IsServed
<1>8. NoTwo'
  BY <1>1, <1>3, <1>5 DEF SInv, DInv, NoTwo
<1>9. ASSUME NEW p \in Reactors, NEW x \in Range(closeQueue'[p])
      PROVE  x \in Range(closeQueue[p]) /\ x.cl # c
  BY <1>3, <1>5, <1>6
<1> QED BY <1>1, <1>3, <1>4, <1>7, <1>8, <1>9, Elsewhere, OneConcerned


\* epoll_wait reports what is armed in this reactor and disarms it.
LEMMA EpollStep ==
  ASSUME SInv, NEW r \in Reactors, EpollWait(r)
  PROVE  DInv'
<1>1. PICK B \in Batches(r) :
        /\ batch' = [batch EXCEPT ![r] = B]
        /\ interest' = Disarmed({e.fd : e \in B})
        /\ UNCHANGED <<fdOwner, acc, cur, connects, sock, status, closeQueue, tasks, job>>
  BY DEF EpollWait, connVars, workVars
<1>2. batch[r] = {} /\ cur[r] = NoEvent /\ batch \in [Reactors -> SUBSET Event]
  BY DEF EpollWait, At, SInv, IInv, RoundsSound, RoundSound, TypeOK, LoopTypeOK
<1>3. B \subseteq Event /\ \A e \in B : e.fd \in Fds /\ e.cl \in Clients /\ fdOwner[e.fd] = e.cl
  BY BatchFacts DEF SInv, Event, Current
<1>4. \A e \in B : interest[e.fd] # "off"
  <2> SUFFICES ASSUME NEW e \in B PROVE interest[e.fd] # "off"
    OBVIOUS
  <2> DEFINE Of(f) == {[fd |-> f, ev |-> v, cl |-> fdOwner[f]] : v \in Reports(f)}
  <2>1. e \in UNION {Of(f) : f \in Registered(r)}
    BY DEF Batches
  <2>2. PICK f \in Registered(r) : e \in Of(f)
    BY <2>1
  <2>3. Reports(f) # {} /\ e.fd = f
    BY <2>2
  <2> QED BY <2>3 DEF Reports
<1>5. \A f \in Fds : interest'[f] # "off" <=> interest[f] # "off" /\ ~\E e \in B : e.fd = f
  BY <1>1 DEF Disarmed
<1>6. AllSound' /\ NoTwo'
  BY <1>1 DEF SInv, DInv, AllSound, NoTwo, TaskSound, JobSound, RequestSound, Holds
<1>7. ASSUME NEW c \in Clients
      PROVE  IsReady(c)' <=> IsReady(c) \/ \E e \in B : e.cl = c
  <2>1. /\ batch'[r] = B
        /\ \A q \in Reactors \ {r} : batch'[q] = batch[q]
    BY <1>1, <1>2
  <2>2. NoEvent.cl # c
    BY Sorts DEF NoEvent
  <2>3. ASSUME NEW q \in Reactors
        PROVE  (\E e \in batch'[q] \cup {cur'[q]} : e.cl = c)
                 <=> \/ \E e \in batch[q] \cup {cur[q]} : e.cl = c
                     \/ q = r /\ \E e \in B : e.cl = c
    <3>1. CASE q = r
      BY <1>1, <1>2, <2>1, <2>2, <3>1
    <3>2. CASE q # r
      BY <1>1, <2>1, <3>2
    <3> QED BY <3>1, <3>2
  <2> QED BY <2>3 DEF IsReady
<1>8. ASSUME NEW c \in Owned PROVE \E p : Where(c)' = {p}
  <2>1. PICK f \in Fds : fdOwner[f] = c /\ c \in Clients
    BY <1>8, Types DEF SInv
  <2>2. \A g \in Fds : fdOwner[g] = c => g = f
    BY <2>1, Sorts DEF SInv, FdsSound
  <2>3. IsArmed(c) <=> interest[f] # "off"
    BY <2>1, <2>2 DEF IsArmed
  <2>4. IsArmed(c)' <=> interest[f] # "off" /\ ~\E e \in B : e.fd = f
    BY <1>1, <1>5, <2>1, <2>2 DEF IsArmed
  <2>5. (\E e \in B : e.cl = c) <=> \E e \in B : e.fd = f
    BY <1>3, <2>1, <2>2
  <2>6. /\ IsPlaced(c)' <=> IsPlaced(c)
        /\ IsQueued(c)' <=> IsQueued(c)
        /\ IsServed(c)' <=> IsServed(c)
        /\ IsClosing(c)' <=> IsClosing(c)
    BY <1>1 DEF IsPlaced, Placing, IsQueued, IsServed, IsClosing
  <2>7. PICK p : Where(c) = {p}
    BY <1>8 DEF SInv, DInv, InOnePlace
  <2>8. CASE \E e \in B : e.fd = f
    <3>1. IsArmed(c) /\ ~IsArmed(c)' /\ IsReady(c)'
      BY <1>4, <1>7, <2>1, <2>3, <2>4, <2>5, <2>8
    <3> QED BY <2>6, <2>7, <3>1, WhereIs, WhereWillBe
  <2>9. CASE ~\E e \in B : e.fd = f
    BY <1>7, <2>1, <2>3, <2>4, <2>5, <2>6, <2>7, <2>9, WhereKept
  <2> QED BY <2>8, <2>9
<1>9. Owned' = Owned
  BY <1>1 DEF Owned
<1> QED BY <1>6, <1>8, <1>9 DEF DInv, InOnePlace

\* One reactor at most serves a client.
LEMMA HeldOnce ==
  ASSUME SInv, NEW c \in Clients, NEW p \in Reactors, NEW q \in Reactors,
         NEW x \in Objs, NEW y \in Objs, Holds(p, c, x), Holds(q, c, y)
  PROVE  p = q /\ x = y
<1>1. sock[x] = sock[y]
  BY Sorts DEF Holds, SInv, FdsSound
<1>2. home[sock[x]] = p /\ home[sock[x]] = q
  BY <1>1, Sorts DEF Holds, SInv, IInv, TableSound
<1> QED BY <1>1, <1>2 DEF Holds

\* A write to the status of an object concerns the client it serves.
LEMMA StatusSpares ==
  ASSUME SInv, NEW r \in Reactors, NEW c \in Clients, NEW o \in Objs, Holds(r, c, o),
         status' = [status EXCEPT ![o] = status'[o]], UNCHANGED <<fdOwner, connects, sock>>
  PROVE  Spares(c)
<1>1. status \in [Objs -> Statuses] /\ connects \in Tables
  BY DEF SInv, IInv, TypeOK, ConnTypeOK
<1>2. ASSUME NEW d \in Clients \ {c}, NEW q \in Reactors, NEW f \in Fds,
             fdOwner[f] = d, connects[q][f] # Null
      PROVE  status'[connects[q][f]] = status[connects[q][f]]
  <2>1. sock[connects[q][f]] = f /\ connects[q][f] \in Objs
    BY <1>1, <1>2 DEF SInv, IInv, TableSound, Tables
  <2>2. connects[q][f] # o
    BY <1>2, <2>1 DEF Holds
  <2> QED BY <1>1, <2>1, <2>2
<1> QED BY <1>2 DEF Spares

\* threadpool::add: from the reactor's hands to the queue of its workers.
LEMMA ToPoolStep ==
  ASSUME SInv, IInv', NEW r \in Reactors, DispatchToPool(r)
  PROVE  DInv'
<1>1. /\ Serving(r, HandlerEvents \cup {"other"}) /\ Served(r) /\ cur[r].ev \in HandlerEvents
      /\ status' = [status EXCEPT ![Subject(r)] = EventStatus(cur[r].ev)]
      /\ tasks' = [tasks EXCEPT ![r] = Append(tasks[r], [obj |-> Subject(r), cl |-> cur[r].cl])]
      /\ UNCHANGED <<fdOwner, interest, acc, connects, keys, sock, closeQueue, job>>
  BY DEF DispatchToPool, Serving, kernelVars
<1>2. PICK c, o : c = cur[r].cl /\ o = Subject(r)
  OBVIOUS
<1>3. /\ c \in Clients /\ o \in Objs /\ Holds(r, c, o) /\ Where(c) = {"ready"} /\ ~IsReady(c)'
      /\ \A d \in Clients \ {c} : IsReady(d)' <=> IsReady(d)
  BY <1>1, <1>2, EventFacts
<1>4. PICK t \in Task : t = [obj |-> o, cl |-> c]
  BY <1>3 DEF Task
<1>5. /\ tasks[r] \in Seq(Task) /\ tasks'[r] = Append(tasks[r], t)
      /\ Range(tasks'[r]) = Range(tasks[r]) \cup {t}
      /\ \A q \in Reactors \ {r} : tasks'[q] = tasks[q]
  <2>1. tasks \in [Reactors -> Seq(Task)]
    BY DEF SInv, IInv, TypeOK, WorkTypeOK
  <2>2. /\ tasks[r] \in Seq(Task) /\ tasks'[r] = Append(tasks[r], t)
        /\ \A q \in Reactors \ {r} : tasks'[q] = tasks[q]
    BY <1>1, <1>2, <1>4, <2>1
  <2> QED BY <2>2, RangeAppend
<1>6. EventStatus(cur[r].ev) \in Dispatched /\ status \in [Objs -> Statuses]
  BY <1>1 DEF EventStatus, HandlerEvents, Dispatched, SInv, IInv, TypeOK, ConnTypeOK
<1>7. status'[o] \in Dispatched /\ status' = [status EXCEPT ![o] = status'[o]]
  BY <1>1, <1>2, <1>3, <1>6
<1>8. Spares(c)
  BY <1>1, <1>3, <1>7, StatusSpares
<1>9. TaskSound(r, t)'
  BY <1>1, <1>3, <1>4, <1>7 DEF TaskSound, Holds
<1>10. NoTwo'
  <2>1. \A x \in Range(tasks[r]) : x.cl # t.cl
    BY <1>3, <1>4, Elsewhere
  <2>2. \A q \in Reactors : Distinct(tasks[q])
    BY DEF SInv, DInv, NoTwo
  <2>3. Distinct(Append(tasks[r], t))
    BY <1>5, <2>1, <2>2, DistinctAppend
  <2>4. \A q \in Reactors : Distinct(tasks'[q])
    BY <1>5, <2>2, <2>3
  <2> QED BY <1>1, <2>4 DEF SInv, DInv, NoTwo
<1>11. \A d \in Clients \ {c} : Where(d)' = Where(d)
  <2>1. \A d \in Clients \ {c} : IsQueued(d)' <=> IsQueued(d)
    <3>1. ASSUME NEW d \in Clients \ {c}, NEW q \in Reactors
          PROVE  (\E x \in Range(tasks'[q]) : x.cl = d) <=> \E x \in Range(tasks[q]) : x.cl = d
      <4>1. t.cl # d
        BY <1>4
      <4>2. CASE q = r
        BY <1>5, <4>1, <4>2
      <4>3. CASE q # r
        BY <1>5, <4>3
      <4> QED BY <4>2, <4>3
    <3> QED BY <3>1 DEF IsQueued
  <2> QED BY <1>1, <1>3, <2>1, WhereKept DEF IsPlaced, Placing, IsArmed, IsServed, IsClosing
<1>12. Where(c)' = {"queued"}
  <2>0. t \in Range(tasks'[r]) /\ t.cl = c
    BY <1>4, <1>5
  <2>1. IsQueued(c)'
    BY <2>0 DEF IsQueued
  <2> QED BY <1>1, <1>3, <2>1, WhereIs, WhereWillBe
          DEF IsPlaced, Placing, IsArmed, IsServed, IsClosing
<1>13. \A q \in Reactors : \A x \in Range(tasks'[q]) :
         TaskSound(q, x)' \/ (x \in Range(tasks[q]) /\ x.cl # c)
  <2>1. \A q \in Reactors : \A x \in Range(tasks[q]) : x.cl # c
    BY <1>3, Elsewhere
  <2> SUFFICES ASSUME NEW q \in Reactors, NEW x \in Range(tasks'[q]), x \notin Range(tasks[q])
               PROVE  TaskSound(q, x)'
    BY <2>1
  <2>2. q = r /\ x = t
    BY <1>5
  <2> QED BY <1>9, <2>2
<1> QED BY <1>1, <1>3, <1>8, <1>10, <1>11, <1>12, <1>13, Elsewhere, OneConcerned

-----------------------------------------------------------------------------
(* The workers *)

\* With such handlers process() runs one call.
LEMMA OneCall ==
  ASSUME Disciplined, NEW st \in Dispatched, NEW p \in Programs(st)
  PROVE  \E x \in Call : p.ops = <<x>>
BY DEF Disciplined, Programs, Dispatched, HungUp, Path, Call

\* What a worker knows of the connection it serves.
LEMMA JobFacts ==
  ASSUME SInv, NEW w \in Threads, job[w].at # "idle"
  PROVE  /\ job[w].cl \in Clients /\ job[w].obj \in Objs /\ JobSound(w[1], job[w])
         /\ Where(job[w].cl) = {"served"} /\ job[w] \in Job /\ job \in [Threads -> Job]
         /\ \A v \in Threads \ {w} : job[v].at = "idle" \/ job[v].cl # job[w].cl
<1>1. job[w].cl \in Clients /\ job[w].obj \in Objs /\ job[w] \in Job /\ job \in [Threads -> Job]
  BY Types DEF SInv, JobShaped, IInv, TypeOK, WorkTypeOK
<1>2. IsServed(job[w].cl)
  BY DEF IsServed
<1> QED BY <1>1, <1>2, Alone DEF SInv, DInv, AllSound, NoTwo

\* The operation of a job is its last.
LEMMA LastOp ==
  ASSUME NEW w \in Threads, job \in [Threads -> Job],
         \E x \in Call : job[w].todo = <<x>>, Advance(w)
  PROVE  job' = [job EXCEPT ![w] = NoJob]
<1>1. Tail(job[w].todo) = <<>>
  OBVIOUS
<1> QED BY <1>1 DEF Advance

\* A worker goes on with the connection it serves.
LEMMA GoesOn ==
  ASSUME SInv, IInv', NEW w \in Threads, job[w].at # "idle",
         NEW j \in Job, job' = [job EXCEPT ![w] = j], j.at # "idle", j.cl = job[w].cl,
         JobSound(w[1], j)', Spares(job[w].cl),
         UNCHANGED <<fdOwner, interest, acc, batch, cur, closeQueue, tasks>>
  PROVE  DInv'
<1>0. PICK c \in Clients : c = job[w].cl
  BY JobFacts
<1>1. /\ Where(c) = {"served"} /\ job \in [Threads -> Job] /\ Spares(c)
      /\ \A v \in Threads \ {w} : job[v].at = "idle" \/ job[v].cl # c
  BY <1>0, JobFacts
<1>2. \A v \in Threads : job'[v] = IF v = w THEN j ELSE job[v]
  BY <1>1
<1>3. \A d : IsServed(d)' <=> IsServed(d)
  BY <1>2 DEF IsServed
<1>4. \A d : Where(d)' = Where(d)
  BY <1>3, WhereKept DEF IsPlaced, Placing, IsArmed, IsReady, IsQueued, IsClosing
<1>5. NoTwo'
  BY <1>0, <1>1, <1>2 DEF SInv, DInv, NoTwo
<1>6. \A v \in Threads : JobSound(v[1], job[v])' \/
                          (job'[v] = job[v] /\ (job[v].at = "idle" \/ job[v].cl # c))
  <2>1. JobSound(w[1], job[w])'
    BY <1>2
  <2> QED BY <1>1, <1>2, <2>1
<1>7. /\ \A r \in Reactors : \A t \in Range(tasks'[r]) : t \in Range(tasks[r]) /\ t.cl # c
      /\ \A r \in Reactors : \A q \in Range(closeQueue'[r]) : q \in Range(closeQueue[r]) /\ q.cl # c
  BY <1>1, Elsewhere
<1>8. Where(c)' = {"served"}
  BY <1>1, <1>4
<1> QED BY <1>1, <1>4, <1>5, <1>6, <1>7, <1>8, OneConcerned

\* sem.acquire() and pop: the connection goes from the queue to the worker.
LEMMA TakeStep ==
  ASSUME SInv, IInv', NEW w \in Threads, WorkerTake(w)
  PROVE  DInv'
<1>0. PICK r \in Reactors : r = w[1]
  BY DEF Threads
<1>1. /\ job[w].at = "idle" /\ tasks[r] # <<>> /\ tasks' = [tasks EXCEPT ![r] = Tail(tasks[r])]
      /\ UNCHANGED <<kernelVars, acc, loopVars, connVars, closeQueue>>
  BY <1>0 DEF WorkerTake, Busy
<1>2. /\ tasks[r] \in Seq(Task) /\ job \in [Threads -> Job] /\ Range(tasks[r]) \subseteq Task
      /\ tasks \in [Reactors -> Seq(Task)]
  BY Types DEF SInv, IInv, TypeOK, WorkTypeOK
<1>3. PICK t \in Task : t = Head(tasks[r])
  BY <1>1, <1>2, HeadTailProperties
<1>4. PICK c \in Clients, o \in Objs : c = t.cl /\ o = t.obj
  BY DEF Task
<1>5. PICK j : j = [NoJob EXCEPT !.obj = o, !.cl = c, !.at = "switch"]
  OBVIOUS
<1>6. /\ job' = [job EXCEPT ![w] = j]
      /\ j.at = "switch" /\ j.cl = c /\ j.obj = o
  BY <1>0, <1>3, <1>4, <1>5 DEF WorkerTake, NoJob
<1>7. \A v \in Threads : job'[v] = IF v = w THEN j ELSE job[v]
  BY <1>2, <1>6
<1>8. /\ Range(tasks[r]) = Range(tasks'[r]) \cup {t} /\ tasks'[r] = Tail(tasks[r])
      /\ \A q \in Reactors \ {r} : tasks'[q] = tasks[q]
  <2>1. tasks'[r] = Tail(tasks[r]) /\ \A q \in Reactors \ {r} : tasks'[q] = tasks[q]
    BY <1>1, <1>2
  <2> QED BY <1>1, <1>2, <1>3, <2>1, RangeTail
<1>9. Distinct(tasks'[r]) /\ \A x \in Range(tasks'[r]) : x.cl # c
  <2>1. Distinct(tasks[r])
    BY DEF SInv, DInv, NoTwo
  <2>2. Distinct(Tail(tasks[r])) /\ \A x \in Range(Tail(tasks[r])) : x.cl # Head(tasks[r]).cl
    BY <1>1, <1>2, <2>1, DistinctTail
  <2> QED BY <1>3, <1>4, <1>8, <2>2
<1>10. Where(c) = {"queued"} /\ TaskSound(r, t)
  <2>1. IsQueued(c)
    BY <1>4, <1>8 DEF IsQueued
  <2> QED BY <1>8, <2>1, Alone DEF SInv, DInv, AllSound
<1>11. JobSound(r, j)' /\ Spares(c)
  BY <1>1, <1>4, <1>6, <1>10
     DEF JobSound, TaskSound, Holds, Spares, kernelVars, connVars
<1>12. \A q \in Reactors \ {r} : \A x \in Range(tasks[q]) : x.cl # c
  <2> SUFFICES ASSUME NEW q \in Reactors \ {r}, NEW x \in Range(tasks[q]), x.cl = c
               PROVE  FALSE
    OBVIOUS
  <2>1. Holds(q, c, x.obj) /\ x.obj \in Objs /\ Holds(r, c, o)
    BY <1>4, <1>10, Types DEF SInv, DInv, AllSound, TaskSound, Task
  <2> QED BY <2>1, HeldOnce
<1>13. NoTwo'
  <2>1. \A q \in Reactors : Distinct(tasks[q]) /\ Distinct(closeQueue[q])
    BY DEF SInv, DInv, NoTwo
  <2>2. \A q \in Reactors : Distinct(tasks'[q]) /\ Distinct(closeQueue'[q])
    BY <1>1, <1>8, <1>9, <2>1
  <2>3. \A v \in Threads : job[v].at = "idle" \/ job[v].cl # c
    BY <1>10, Elsewhere
  <2> QED BY <1>1, <1>6, <1>7, <2>2, <2>3 DEF SInv, DInv, NoTwo
<1>14. /\ \A d \in Clients \ {c} : IsQueued(d)' <=> IsQueued(d)
       /\ ~IsQueued(c)'
  <2>1. ASSUME NEW d \in Clients \ {c}, NEW q \in Reactors
        PROVE  (\E x \in Range(tasks'[q]) : x.cl = d) <=> \E x \in Range(tasks[q]) : x.cl = d
    BY <1>4, <1>8
  <2>2. \A d \in Clients \ {c} : IsQueued(d)' <=> IsQueued(d)
    BY <2>1 DEF IsQueued
  <2>3. \A q \in Reactors : \A x \in Range(tasks'[q]) : x.cl # c
    BY <1>8, <1>9, <1>12
  <2> QED BY <2>2, <2>3 DEF IsQueued
<1>15. \A d \in Clients \ {c} : Where(d)' = Where(d)
  <2>1. \A d \in Clients \ {c} : IsServed(d)' <=> IsServed(d)
    BY <1>1, <1>6, <1>7 DEF IsServed
  <2> QED BY <1>1, <1>14, <2>1, WhereKept
          DEF IsPlaced, Placing, IsArmed, IsReady, IsClosing, kernelVars, loopVars
<1>16. Where(c)' = {"served"}
  <2>1. IsServed(c)'
    BY <1>6, <1>7 DEF IsServed
  <2> QED BY <1>1, <1>10, <1>14, <2>1, WhereIs, WhereWillBe
          DEF IsPlaced, Placing, IsArmed, IsReady, IsClosing, kernelVars, loopVars
<1>17. \A v \in Threads : JobSound(v[1], job[v])' \/
                           (job'[v] = job[v] /\ (job[v].at = "idle" \/ job[v].cl # c))
  <2>1. JobSound(w[1], job[w])'
    BY <1>0, <1>7, <1>11
  <2> QED BY <1>7, <1>10, <2>1, Elsewhere
<1>18. \A q \in Reactors : \A x \in Range(closeQueue'[q]) : x \in Range(closeQueue[q]) /\ x.cl # c
  BY <1>1, <1>10, Elsewhere
<1>19. \A q \in Reactors : \A x \in Range(tasks'[q]) : x \in Range(tasks[q]) /\ x.cl # c
  BY <1>8, <1>9, <1>12
<1> QED BY <1>11, <1>13, <1>15, <1>16, <1>17, <1>18, <1>19, OneConcerned

\* The worker is done with the connection: it is armed, or its close requested.
LEMMA LetsGo ==
  ASSUME SInv, IInv', NEW w \in Threads, job[w].at # "idle",
         job' = [job EXCEPT ![w] = NoJob], Spares(job[w].cl),
         UNCHANGED <<fdOwner, acc, batch, cur, tasks>>,
         NEW c, c = job[w].cl, \A r \in Reactors : Distinct(closeQueue'[r]),
         \A r \in Reactors : \A q \in Range(closeQueue'[r]) :
           RequestSound(r, q)' \/ (q \in Range(closeQueue[r]) /\ q.cl # c),
         \A d \in Clients \ {c} : /\ IsArmed(d)' <=> IsArmed(d)
                                  /\ IsClosing(d)' <=> IsClosing(d),
         IsArmed(c)' <=> ~IsClosing(c)'
  PROVE  DInv'
<1>1. /\ c \in Clients /\ Where(c) = {"served"} /\ job \in [Threads -> Job] /\ Spares(c)
      /\ \A v \in Threads \ {w} : job[v].at = "idle" \/ job[v].cl # c
  BY JobFacts
<1>2. \A v \in Threads : job'[v] = IF v = w THEN NoJob ELSE job[v]
  BY <1>1
<1>3. NoJob.at = "idle"
  BY DEF NoJob
<1>4. ~IsServed(c)' /\ \A d \in Clients \ {c} : IsServed(d)' <=> IsServed(d)
  BY <1>1, <1>2, <1>3 DEF IsServed
<1>5. \A d \in Clients \ {c} : Where(d)' = Where(d)
  BY <1>4, WhereKept DEF IsPlaced, Placing, IsReady, IsQueued
<1>6. ~IsPlaced(c)' /\ ~IsReady(c)' /\ ~IsQueued(c)'
  BY <1>1, WhereIs DEF IsPlaced, Placing, IsReady, IsQueued
<1>7. \E p : Where(c)' = {p}
  <2>1. CASE IsArmed(c)'
    BY <1>4, <1>6, <2>1, WhereWillBe
  <2>2. CASE IsClosing(c)'
    BY <1>4, <1>6, <2>2, WhereWillBe
  <2> QED BY <2>1, <2>2
<1>8. NoTwo'
  <2>1. \A r \in Reactors : Distinct(tasks'[r])
    BY DEF SInv, DInv, NoTwo
  <2> QED BY <1>2, <1>3, <2>1 DEF SInv, DInv, NoTwo
<1>9. \A v \in Threads : JobSound(v[1], job[v])' \/
                          (job'[v] = job[v] /\ (job[v].at = "idle" \/ job[v].cl # c))
  <2>1. JobSound(w[1], job[w])'
    BY <1>2, <1>3 DEF JobSound
  <2> QED BY <1>1, <1>2, <2>1
<1>10. \A r \in Reactors : \A x \in Range(tasks'[r]) : x \in Range(tasks[r]) /\ x.cl # c
  BY <1>1, Elsewhere
<1> QED BY <1>1, <1>5, <1>7, <1>8, <1>9, <1>10, OneConcerned

LEMMA SwitchStep ==
  ASSUME SInv, IInv', Disciplined, NEW w \in Threads, WorkerSwitch(w)
  PROVE  DInv'
<1>1. /\ job[w].at = "switch"
      /\ UNCHANGED <<kernelVars, acc, loopVars, connVars, closeQueue, tasks>>
  BY DEF WorkerSwitch, Busy
<1>2. PICK p \in Programs(status[job[w].obj]) :
        job' = [job EXCEPT ![w] = IF p.ops = <<>> THEN NoJob
                                  ELSE [@ EXCEPT !.todo = p.ops, !.at = "op"]]
  BY DEF WorkerSwitch
<1>3. JobSound(w[1], job[w]) /\ job[w] \in Job /\ job \in [Threads -> Job]
  BY <1>1, JobFacts
<1>4. PICK x \in Call : p.ops = <<x>>
  BY <1>1, <1>2, <1>3, OneCall DEF JobSound
<1>5. PICK j : j = [job[w] EXCEPT !.todo = <<x>>, !.at = "op"]
  OBVIOUS
<1>6. job' = [job EXCEPT ![w] = j]
  BY <1>2, <1>3, <1>4, <1>5
<1>7. /\ j \in Job /\ j.at = "op" /\ j.cl = job[w].cl /\ j.obj = job[w].obj /\ j.todo = <<x>>
  <2>1. x \in Op
    BY DEF Op
  <2>2. <<x>> \in Seq(Op)
    BY <2>1
  <2> QED BY <1>3, <1>5, <2>2 DEF Job
<1>8. JobSound(w[1], j)' /\ Spares(job[w].cl)
  BY <1>1, <1>3, <1>7 DEF JobSound, Holds, Spares, kernelVars, connVars
<1> QED BY <1>1, <1>6, <1>7, <1>8, GoesOn DEF kernelVars, loopVars

\* The object a worker works on knows its reactor and its descriptor.
LEMMA BossFacts ==
  ASSUME SInv, NEW w \in Threads, job[w].at # "idle"
  PROVE  /\ boss[job[w].obj] = w[1] /\ w[1] \in Reactors
         /\ sock[job[w].obj] \in Fds /\ home[sock[job[w].obj]] = w[1]
         /\ fdOwner[sock[job[w].obj]] = job[w].cl
         /\ connects[w[1]][sock[job[w].obj]] = job[w].obj /\ job[w].obj # Null
<1>1. JobSound(w[1], job[w]) /\ job[w].obj \in Objs /\ w[1] \in Reactors
  BY JobFacts DEF Threads
<1>2. Holds(w[1], job[w].cl, job[w].obj) /\ job[w].obj # Null
  BY <1>1, Sorts DEF JobSound
<1> QED BY <1>1, <1>2 DEF Holds, SInv, IInv, TableSound

\* next(): what is read is the connection's descriptor and its reactor's epoll.
LEMMA NextLoadStep ==
  ASSUME SInv, IInv', NEW w \in Threads, WorkerNextLoad(w)
  PROVE  DInv'
<1>1. /\ job[w].at = "op"
      /\ UNCHANGED <<kernelVars, acc, loopVars, connVars, closeQueue, tasks>>
  BY DEF WorkerNextLoad, Busy
<1>2. /\ JobSound(w[1], job[w]) /\ job[w] \in Job /\ job \in [Threads -> Job]
      /\ job[w].obj \in Objs /\ boss[job[w].obj] = w[1] /\ w[1] \in Reactors
      /\ sock[job[w].obj] \in Fds
  BY <1>1, JobFacts, BossFacts
<1>3. PICK j : j = [job[w] EXCEPT !.at = "ctl",
                                  !.reg = [epoll |-> boss[job[w].obj], fd |-> sock[job[w].obj]]]
  OBVIOUS
<1>4. /\ job' = [job EXCEPT ![w] = j] /\ j \in Job /\ j.at = "ctl" /\ j.cl = job[w].cl
      /\ j.obj = job[w].obj /\ j.todo = job[w].todo
      /\ j.reg = [epoll |-> w[1], fd |-> sock[j.obj]]
  BY <1>2, <1>3 DEF WorkerNextLoad, Job
<1>5. JobSound(w[1], j)' /\ Spares(job[w].cl)
  BY <1>1, <1>2, <1>4 DEF JobSound, Holds, Spares, kernelVars, connVars
<1> QED BY <1>1, <1>4, <1>5, GoesOn DEF kernelVars, loopVars

\* epoll_ctl arms the connection that the worker serves, in its reactor.
LEMMA NextCtlStep ==
  ASSUME SInv, IInv', NEW w \in Threads, WorkerNextCtl(w)
  PROVE  DInv'
<1>1. /\ job[w].at = "ctl" /\ Advance(w)
      /\ interest' = [f \in Fds |-> IF /\ f = job[w].reg.fd /\ home[f] = job[w].reg.epoll
                                       /\ home[f] # Null
                                    THEN Head(job[w].todo) ELSE interest[f]]
      /\ UNCHANGED <<fdOwner, acc, loopVars, connVars, closeQueue, tasks>>
  BY DEF WorkerNextCtl, Busy
<1>2. /\ JobSound(w[1], job[w]) /\ JobShaped(job[w]) /\ job \in [Threads -> Job]
      /\ Where(job[w].cl) = {"served"}
  BY <1>1, JobFacts, Types DEF SInv
<1>3. PICK c \in Clients : c = job[w].cl
  BY <1>1, JobFacts
<1>4. PICK fd \in Fds : fd = sock[job[w].obj] /\ fdOwner[fd] = c /\ home[fd] = w[1]
  BY <1>1, <1>3, BossFacts
<1>5. /\ job[w].reg.fd = fd /\ job[w].reg.epoll = w[1] /\ w[1] # Null
      /\ Head(job[w].todo) \in {"in", "out"}
  BY <1>1, <1>2, <1>4, BossFacts, Sorts DEF JobSound, JobShaped
<1>6. \A f \in Fds : interest'[f] # "off" <=> interest[f] # "off" \/ f = fd
  BY <1>1, <1>4, <1>5
<1>7. IsArmed(c)' /\ \A d \in Clients \ {c} : IsArmed(d)' <=> IsArmed(d)
  BY <1>1, <1>4, <1>6 DEF IsArmed
<1>8. job' = [job EXCEPT ![w] = NoJob]
  BY <1>1, <1>2, LastOp DEF JobSound
<1>9. ~IsClosing(c)' /\ \A d : IsClosing(d)' <=> IsClosing(d)
  BY <1>1, <1>2, <1>3, WhereIs DEF IsClosing
<1>10. /\ \A r \in Reactors : Distinct(closeQueue'[r])
       /\ \A r \in Reactors : \A q \in Range(closeQueue'[r]) :
            q \in Range(closeQueue[r]) /\ q.cl # c
  BY <1>1, <1>2, <1>3, Elsewhere DEF SInv, DInv, NoTwo
<1>11. Spares(c)
  BY <1>1 DEF Spares, connVars
<1>12. UNCHANGED <<fdOwner, acc, batch, cur, tasks>> /\ job[w].at # "idle"
  BY <1>1 DEF loopVars
<1>13. /\ IsArmed(c)' <=> ~IsClosing(c)'
       /\ \A d \in Clients \ {c} : /\ IsArmed(d)' <=> IsArmed(d)
                                   /\ IsClosing(d)' <=> IsClosing(d)
  BY <1>7, <1>9
<1>14. Spares(job[w].cl)
  BY <1>3, <1>11
<1> QED BY <1>3, <1>8, <1>10, <1>12, <1>13, <1>14, LetsGo

\* notify_close(): the status is not CLOSE yet, for nobody else sets it.
LEMMA NotifyStep ==
  ASSUME SInv, IInv', NEW w \in Threads, WorkerNotifyTest(w) \/ WorkerNotifyMark(w)
  PROVE  DInv'
<1>1. /\ job[w].at \in {"op", "mark"}
      /\ UNCHANGED <<kernelVars, acc, loopVars, connects, sock, closeQueue, tasks>>
  BY DEF WorkerNotifyTest, WorkerNotifyMark, Busy, connVars
<1>2. /\ JobSound(w[1], job[w]) /\ job[w] \in Job /\ job \in [Threads -> Job]
      /\ status[job[w].obj] \in Dispatched
  BY <1>1, JobFacts DEF JobSound
<1>3. PICK c \in Clients, o \in Objs : c = job[w].cl /\ o = job[w].obj
  BY <1>1, JobFacts
<1>4. PICK at \in {"mark", "push"} :
        /\ job' = [job EXCEPT ![w].at = at]
        /\ at = "mark" => status' = status
        /\ at = "push" => status' = [status EXCEPT ![o] = "CLOSE"]
  BY <1>2, <1>3 DEF WorkerNotifyTest, WorkerNotifyMark, Dispatched, connVars
<1>5. PICK j : j = [job[w] EXCEPT !.at = at]
  OBVIOUS
<1>6. /\ job' = [job EXCEPT ![w] = j] /\ j \in Job /\ j.at = at /\ j.cl = c
      /\ j.obj = o /\ j.todo = job[w].todo
  BY <1>2, <1>3, <1>4, <1>5 DEF Job
<1>7. Holds(w[1], c, o) /\ status \in [Objs -> Statuses] /\ w[1] \in Reactors
  BY <1>1, <1>2, <1>3 DEF JobSound, SInv, IInv, TypeOK, ConnTypeOK, Threads
<1>8. Spares(c)
  <2>1. status' = [status EXCEPT ![o] = status'[o]]
    BY <1>4, <1>7
  <2> QED BY <1>1, <1>7, <2>1, StatusSpares DEF kernelVars
<1>9. JobSound(w[1], j)'
  BY <1>1, <1>2, <1>3, <1>4, <1>6, <1>7 DEF JobSound, Holds, kernelVars
<1> QED BY <1>1, <1>3, <1>6, <1>8, <1>9, GoesOn DEF kernelVars, loopVars

\* ... and the descriptor that is pushed is the connection's, on the queue of
\* its reactor.
LEMMA PushStep ==
  ASSUME SInv, IInv', NEW w \in Threads, WorkerNotifyPush(w)
  PROVE  DInv'
<1>1. /\ job[w].at = "push" /\ Advance(w)
      /\ closeQueue' = [q \in Reactors |->
           IF q = boss[job[w].obj]
           THEN Append(closeQueue[q], [fd |-> sock[job[w].obj], cl |-> job[w].cl])
           ELSE closeQueue[q]]
      /\ UNCHANGED <<kernelVars, acc, loopVars, connVars, tasks>>
  BY DEF WorkerNotifyPush, Busy
<1>2. JobSound(w[1], job[w]) /\ job \in [Threads -> Job] /\ Where(job[w].cl) = {"served"}
  BY <1>1, JobFacts
<1>3. PICK c \in Clients, o \in Objs : c = job[w].cl /\ o = job[w].obj
  BY <1>1, JobFacts
<1>4. PICK r \in Reactors : r = w[1] /\ boss[o] = r
  BY <1>1, <1>3, BossFacts
<1>5. PICK x \in Request : x = [fd |-> sock[o], cl |-> c]
  BY <1>1, <1>3, BossFacts DEF Request
<1>6. /\ closeQueue[r] \in Seq(Request) /\ closeQueue'[r] = Append(closeQueue[r], x)
      /\ Range(closeQueue'[r]) = Range(closeQueue[r]) \cup {x}
      /\ \A q \in Reactors \ {r} : closeQueue'[q] = closeQueue[q]
  <2>1. closeQueue[r] \in Seq(Request)
    BY Types DEF SInv
  <2>2. closeQueue'[r] = Append(closeQueue[r], x)
    BY <1>1, <1>3, <1>4, <1>5
  <2>3. \A q \in Reactors \ {r} : closeQueue'[q] = closeQueue[q]
    BY <1>1, <1>3, <1>4
  <2> QED BY <2>1, <2>2, <2>3, RangeAppend
<1>7. RequestSound(r, x)'
  BY <1>1, <1>3, <1>4, <1>5, BossFacts DEF RequestSound, kernelVars, connVars
<1>8. \A q \in Reactors : \A y \in Range(closeQueue[q]) : y.cl # c
  BY <1>2, <1>3, Elsewhere
<1>9. \A q \in Reactors : Distinct(closeQueue'[q])
  <2>1. \A q \in Reactors : Distinct(closeQueue[q])
    BY DEF SInv, DInv, NoTwo
  <2>2. Distinct(Append(closeQueue[r], x))
    BY <1>5, <1>6, <1>8, <2>1, DistinctAppend
  <2> QED BY <1>6, <2>1, <2>2
<1>10. IsClosing(c)' /\ \A d \in Clients \ {c} : IsClosing(d)' <=> IsClosing(d)
  <2>1. x \in Range(closeQueue'[r]) /\ x.cl = c
    BY <1>5, <1>6
  <2>2. ASSUME NEW d \in Clients \ {c}, NEW q \in Reactors
        PROVE  (\E y \in Range(closeQueue'[q]) : y.cl = d)
                 <=> \E y \in Range(closeQueue[q]) : y.cl = d
    <3>1. CASE q = r
      BY <1>6, <2>1, <3>1
    <3>2. CASE q # r
      BY <1>6, <3>2
    <3> QED BY <3>1, <3>2
  <2> QED BY <2>1, <2>2 DEF IsClosing
<1>11. ~IsArmed(c)' /\ \A d : IsArmed(d)' <=> IsArmed(d)
  BY <1>1, <1>2, <1>3, WhereIs DEF IsArmed, kernelVars
<1>12. job' = [job EXCEPT ![w] = NoJob]
  BY <1>1, <1>2, LastOp DEF JobSound
<1>13. Spares(c)
  BY <1>1 DEF Spares, kernelVars, connVars
<1>14. \A q \in Reactors : \A y \in Range(closeQueue'[q]) :
         RequestSound(q, y)' \/ (y \in Range(closeQueue[q]) /\ y.cl # c)
  <2> SUFFICES ASSUME NEW q \in Reactors, NEW y \in Range(closeQueue'[q]),
                      y \notin Range(closeQueue[q])
               PROVE  RequestSound(q, y)'
    BY <1>8
  <2>1. q = r /\ y = x
    BY <1>6
  <2> QED BY <1>7, <2>1
<1>15. UNCHANGED <<fdOwner, acc, batch, cur, tasks>>
  BY <1>1 DEF kernelVars, loopVars
<1>16. job[w].at # "idle" /\ Spares(job[w].cl)
  BY <1>1, <1>3, <1>13
<1>17. /\ IsArmed(c)' <=> ~IsClosing(c)'
       /\ \A d \in Clients \ {c} : /\ IsArmed(d)' <=> IsArmed(d)
                                   /\ IsClosing(d)' <=> IsClosing(d)
  BY <1>10, <1>11
<1> QED BY <1>3, <1>9, <1>12, <1>14, <1>15, <1>16, <1>17, LetsGo

-----------------------------------------------------------------------------
(* The theorems *)

\* There are workers from the start, and for good.
LEMMA Pooled ==
  ASSUME Disciplined
  PROVE  /\ Init => pooled
         /\ pooled /\ [Next]_vars => pooled'
<1>1. ASSUME Init PROVE pooled
  <2>1. PICK mode \in Modes : pooled = mode[1]
    BY <1>1 DEF Init
  <2>2. mode \in {TRUE} \X BOOLEAN
    BY DEF Disciplined
  <2> QED BY <2>1, <2>2
<1>2. [Next]_vars => pooled' = pooled
  <2>1. Acceptor => pooled' = pooled
    BY DEF Acceptor, AcceptorAccept, AcceptorLook, AcceptorLeast, AcceptorAdd, modeVars
  <2>2. ASSUME NEW r \in Reactors PROVE Reactor(r) => pooled' = pooled
    <3>1. Forget(r) \/ DrainOne(r) \/ DrainDone(r) \/ EpollWait(r) => pooled' = pooled
      BY DEF Forget, DrainOne, DrainDone, EpollWait, modeVars
    <3>2. PickKnown(r) \/ PickNew(r) \/ RoundDone(r) \/ DispatchToPool(r) => pooled' = pooled
      BY DEF PickKnown, PickNew, RoundDone, DispatchToPool, modeVars
    <3>3. DispatchOverload(r) \/ DispatchInline(r) \/ DispatchOther(r) => pooled' = pooled
      BY DEF DispatchOverload, DispatchInline, DispatchOther, modeVars
    <3> QED BY <3>1, <3>2, <3>3 DEF Reactor
  <2>3. ASSUME NEW t \in Threads PROVE Worker(t) => pooled' = pooled
    <3>1. WorkerTake(t) \/ WorkerSwitch(t) \/ WorkerNextLoad(t) \/ WorkerNextCtl(t)
            => pooled' = pooled
      BY DEF WorkerTake, WorkerSwitch, WorkerNextLoad, WorkerNextCtl, modeVars
    <3>2. WorkerNotifyTest(t) \/ WorkerNotifyMark(t) \/ WorkerNotifyPush(t) => pooled' = pooled
      BY DEF WorkerNotifyTest, WorkerNotifyMark, WorkerNotifyPush, modeVars
    <3> QED BY <3>1, <3>2 DEF Worker
  <2>4. ASSUME NEW c \in Clients PROVE Arrive(c) \/ HangUp(c) => pooled' = pooled
    BY DEF Arrive, HangUp, modeVars
  <2> QED BY <2>1, <2>2, <2>3, <2>4 DEF Next, vars, modeVars
<1> QED BY <1>1, <1>2

LEMMA DInit == Init => FdsSound /\ DInv
<1> SUFFICES ASSUME Init PROVE FdsSound /\ DInv
  OBVIOUS
<1>1. \A r \in Reactors : /\ Range(tasks[r]) = {} /\ Range(closeQueue[r]) = {}
                          /\ DOMAIN tasks[r] = {} /\ DOMAIN closeQueue[r] = {}
  BY DEF Init, Range
<1>2. \A w \in Threads : job[w].at = "idle"
  BY DEF Init, NoJob
<1>3. \A f \in Fds : fdOwner[f] = Null /\ interest[f] = "off"
  BY DEF Init
<1>4. Owned = {}
  BY DEF Init, Owned, Range
<1>5. backlog = {} /\ arrived = {}
  BY DEF Init
<1>6. FdsSound
  BY <1>3, <1>4, <1>5 DEF FdsSound
<1>7. NoTwo /\ AllSound
  BY <1>1, <1>2 DEF AllSound, JobSound, NoTwo, Distinct
<1> QED BY <1>4, <1>6, <1>7 DEF DInv, InOnePlace

LEMMA DStep ==
  ASSUME Disciplined, SInv, IInv', [Next]_vars
  PROVE  DInv'
<1>1. CASE Acceptor
  BY <1>1, AcceptStep, AddStep, QuietStep DEF Acceptor
<1>2. ASSUME NEW r \in Reactors, Reactor(r) PROVE DInv'
  <2>1. ~DispatchInline(r)
    BY DEF SInv, DispatchInline
  <2> QED BY <1>2, <2>1, ReleaseStep, DrainStep, QuietStep, EpollStep, PickStep, ToPoolStep,
             RemoveStep DEF Reactor
<1>3. ASSUME NEW w \in Threads, Worker(w) PROVE DInv'
  BY <1>3, TakeStep, SwitchStep, NextLoadStep, NextCtlStep, NotifyStep, PushStep DEF Worker
<1>4. ASSUME NEW c \in Clients, Arrive(c) \/ HangUp(c) PROVE DInv'
  BY <1>4, QuietStep
<1>5. CASE UNCHANGED vars
  BY <1>5, QuietStep
<1> QED BY <1>1, <1>2, <1>3, <1>4, <1>5 DEF Next

LEMMA SInvariance ==
  ASSUME Disciplined
  PROVE  Spec => []SInv
<1>1. Init => pooled /\ FdsSound /\ DInv
  BY DInit, Pooled
<1>2. IInv /\ IInv' /\ pooled /\ FdsSound /\ DInv /\ [Next]_vars => pooled' /\ FdsSound' /\ DInv'
  BY Pooled, FdsInv, DStep DEF SInv
<1> QED BY <1>1, <1>2, Invariance, PTL DEF Spec, SInv

\* One of all the workers of all the reactors serves a connection at a time, on
\* the object that its own reactor has for it, if the handlers do as the README
\* asks.
THEOREM OneServes ==
  ASSUME Disciplined
  PROVE  Spec => []ExclusiveService
<1>1. SInv => ExclusiveService
  <2> SUFFICES ASSUME SInv PROVE ExclusiveService
    OBVIOUS
  <2>1. ASSUME NEW c \in Clients PROVE Cardinality(Owing(c)) + Cardinality(AtWork(c)) <= 1
    <3>1. \A x, y \in Owing(c) : x = y
      <4> SUFFICES ASSUME NEW x \in Owing(c), NEW y \in Owing(c) PROVE x = y
        OBVIOUS
      <4>1. PICK q \in Reactors, i \in 1..MaxProcess :
              x = <<q, i>> /\ i \in DOMAIN tasks[q] /\ tasks[q][i].cl = c
        BY DEF Owing
      <4>2. PICK p \in Reactors, j \in 1..MaxProcess :
              y = <<p, j>> /\ j \in DOMAIN tasks[p] /\ tasks[p][j].cl = c
        BY DEF Owing
      <4>3. TaskSound(q, tasks[q][i]) /\ TaskSound(p, tasks[p][j])
        BY <4>1, <4>2 DEF SInv, DInv, AllSound, Range
      <4>4. tasks[q][i].obj \in Objs /\ tasks[p][j].obj \in Objs
        <5>1. tasks[q][i] \in Range(tasks[q]) /\ tasks[p][j] \in Range(tasks[p])
          BY <4>1, <4>2 DEF Range
        <5> QED BY <5>1, Types DEF SInv, Task
      <4>5. q = p
        BY <4>1, <4>2, <4>3, <4>4, HeldOnce DEF TaskSound
      <4>6. Distinct(tasks[q])
        BY <4>1 DEF SInv, DInv, NoTwo
      <4> QED BY <4>1, <4>2, <4>5, <4>6 DEF Distinct
    <3>2. \A v, w \in AtWork(c) : v = w
      BY DEF AtWork, SInv, DInv, NoTwo
    <3>3. Owing(c) = {} \/ AtWork(c) = {}
      <4>1. CASE IsQueued(c)
        <5>1. ~IsServed(c)
          BY <4>1, Alone, WhereIs
        <5> QED BY <5>1 DEF IsServed, AtWork
      <4>2. CASE ~IsQueued(c)
        BY <4>2 DEF IsQueued, Owing, Range
      <4> QED BY <4>1, <4>2
    <3>4. ASSUME NEW S, \A x, y \in S : x = y PROVE Cardinality(S) \in {0, 1}
      <4>1. CASE S = {}
        BY <4>1, FS_EmptySet
      <4>2. CASE S # {}
        <5>1. PICK x : S = {x}
          BY <3>4, <4>2
        <5> QED BY <5>1, FS_Singleton
      <4> QED BY <4>1, <4>2
    <3>5. Cardinality(Owing(c)) \in {0, 1} /\ Cardinality(AtWork(c)) \in {0, 1}
      BY <3>1, <3>2, <3>4
    <3> QED BY <3>3, <3>5, FS_EmptySet
  <2>2. \A w \in Threads : job[w].at # "idle" => Holds(w[1], job[w].cl, job[w].obj)
    BY DEF SInv, DInv, AllSound, JobSound
  <2> QED BY <2>1, <2>2 DEF ExclusiveService, Holds
<1> QED BY <1>1, SInvariance, PTL

\* No connection is forgotten: the acceptor is placing it, or its own reactor
\* has it armed, or an event, a task, a worker or a close request of it.
THEOREM NobodyForgotten ==
  ASSUME Disciplined
  PROVE  Spec => []NeverForgotten
<1>1. SInv => NeverForgotten
  <2> SUFFICES ASSUME SInv, NEW f \in Fds, fdOwner[f] # Null, acc.fd # f
               PROVE  \E r \in Reactors :
                        /\ home[f] = r
                        /\ \/ interest[f] # "off"
                           \/ \E e \in batch[r] \cup {cur[r]} : e.fd = f
                           \/ \E i \in DOMAIN tasks[r] : tasks[r][i].obj = connects[r][f]
                           \/ \E t \in Threads : job[t].at # "idle" /\ job[t].obj = connects[r][f]
                           \/ \E i \in DOMAIN closeQueue[r] : closeQueue[r][i].fd = f
    BY DEF NeverForgotten
  <2>1. PICK c \in Clients : c = fdOwner[f] /\ c \in Owned
    BY Types DEF SInv, IInv, TypeOK, KernelTypeOK
  <2>2. \A g \in Fds : fdOwner[g] = c => g = f
    BY <2>1 DEF SInv, FdsSound
  <2>3. \/ IsPlaced(c) \/ IsArmed(c) \/ IsReady(c)
        \/ IsQueued(c) \/ IsServed(c) \/ IsClosing(c)
    BY <2>1, WhereIs DEF SInv, DInv, InOnePlace
  <2>4. ~IsPlaced(c)
    BY <2>2 DEF IsPlaced, Placing, SInv, IInv, PlacingSound
  <2>5. CASE IsArmed(c)
    <3>1. interest[f] # "off" /\ home[f] # Null
      BY <2>2, <2>5 DEF IsArmed, SInv, FdsSound
    <3>2. home[f] \in Reactors
      BY <3>1 DEF SInv, IInv, TypeOK, KernelTypeOK
    <3> QED BY <3>1, <3>2
  <2>6. CASE IsReady(c)
    <3>0. PICK r \in Reactors : \E e \in batch[r] \cup {cur[r]} : e.cl = c
      BY <2>6 DEF IsReady
    <3>1. PICK e \in batch[r] \cup {cur[r]} : e.cl = c
      BY <3>0
    <3>2. e.fd = f /\ home[f] = r
      BY <2>2, <3>1, ReadyFacts DEF SInv
    <3> QED BY <3>1, <3>2
  <2>7. CASE IsQueued(c)
    <3>0. PICK r \in Reactors : \E i \in DOMAIN tasks[r] :
            tasks[r][i].cl = c /\ TaskSound(r, tasks[r][i]) /\ tasks[r][i].obj \in Objs
      BY <2>7, Types DEF IsQueued, Range, SInv, DInv, AllSound, Task
    <3>1. PICK i \in DOMAIN tasks[r] :
            tasks[r][i].cl = c /\ TaskSound(r, tasks[r][i]) /\ tasks[r][i].obj \in Objs
      BY <3>0
    <3>2. connects[r][f] = tasks[r][i].obj
      BY <2>2, <3>1 DEF TaskSound, Holds
    <3>3. home[f] = r
      BY <3>1, <3>2, Sorts DEF SInv, IInv, TableSound
    <3> QED BY <3>2, <3>3
  <2>8. CASE IsServed(c)
    <3>1. PICK w \in Threads : job[w].at # "idle" /\ job[w].cl = c
      BY <2>8 DEF IsServed
    <3>2. /\ w[1] \in Reactors /\ home[f] = w[1] /\ connects[w[1]][f] = job[w].obj
      BY <2>2, <3>1, BossFacts
    <3> QED BY <3>1, <3>2
  <2>9. CASE IsClosing(c)
    <3>0. PICK r \in Reactors : \E i \in DOMAIN closeQueue[r] :
            closeQueue[r][i].cl = c /\ RequestSound(r, closeQueue[r][i])
      BY <2>9 DEF IsClosing, Range, SInv, DInv, AllSound
    <3>1. PICK i \in DOMAIN closeQueue[r] :
            closeQueue[r][i].cl = c /\ RequestSound(r, closeQueue[r][i])
      BY <3>0
    <3>2. closeQueue[r][i].fd = f /\ connects[r][f] # Null
      BY <2>2, <3>1 DEF RequestSound
    <3> QED BY <3>2 DEF SInv, IInv, TableSound
  <2> QED BY <2>3, <2>4, <2>5, <2>6, <2>7, <2>8, <2>9
<1> QED BY <1>1, SInvariance, PTL

\* A reactor closes a connection only if that connection's own handler asked
\* for it, although numbers wander between the reactors.
THEOREM RequesterClosed ==
  ASSUME Disciplined
  PROVE  Spec => DrainClosesRequester
<1>1. ASSUME SInv, NEW r \in Reactors, DrainOne(r)
      PROVE  LET q == Head(closeQueue[r]) IN fdOwner[q.fd] = q.cl
  BY <1>1, RequestFacts DEF DrainOne
<1>2. SInv => \A r \in Reactors : DrainOne(r) /\ gone'[r] # Null =>
        LET q == Head(closeQueue[r]) IN fdOwner[q.fd] = q.cl
  BY <1>1
<1> QED BY <1>2, SInvariance, PTL DEF Spec, DrainClosesRequester
=============================================================================
