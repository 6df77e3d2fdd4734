# TLA+ models and proofs for conv_event

conv_event is a small C++ framework for network servers on Linux epoll.  A user
derives a connection class from `hzd::conn`, implements `process_in` and
`process_out`, and runs it in `conv_single<T>` (one event loop) or
`conv_multi<T>` (one acceptor and several reactors), with or without worker
threads, an object pool, one-shot and edge-triggered delivery.  Two servers come
with it: an HTTP server and an image-recognition server.

This directory holds TLA+ modules that model the framework, TLC configurations
that check them on small instances, and TLAPS proofs of what holds for every
value of the constants.

    tlc -workers 2 -config mt_readme.cfg MCConvSingle
    tlapm ConvSingleProofs.tla
    tlc -workers 2 -config pool.cfg ThreadPool
    tlapm ThreadPoolProofs.tla
    tlc -workers 2 -config multi.cfg MCConvMulti
    tlapm ConvMultiProofs.tla
    tlapm SocketIOProofs.tla
    tlapm HttpTextProofs.tla
    tlapm HttpConnProofs.tla
    tlapm JsonStringProofs.tla

## 1. The system

| Component | Source | State it keeps | Operations |
|---|---|---|---|
| Single-reactor loop | `core/conv_single.h` | `run`, `connects`, `current_connect_count`, the batch of events, the close queue, the configuration | `wait`, `CONNECTS_REMOVE_FD`, `close`, `enable_*`/`disable_*`/`set_*` |
| Connection base class | `core/include/conn.h` | `status`, `socket_fd`, `epoll_fd`, `close_queue` | `init`, `next`, `notify_close`, `process` and its `_base` wrappers, `close` |
| Object pool | `core/include/conn.h` (`connpool`) | a `lock_queue` of objects | `acquire`, `release` |
| Thread pool | `core/include/threadpool.h` | a `lock_queue` of tasks, a counting semaphore, `stop` | `add`, `run` |
| Locked queue | `core/include/lock_queue.h` | a `std::deque` and a mutex | `push`, `pop`, `empty`, `size` (without the lock) |
| Multi-reactor model | `core/conv_multi.h`, `core/include/acceptor.h`, `core/include/reactor.h` | per reactor a table, an epoll instance, a close queue and a thread pool; a shared connection count | accept and distribute, lazy creation, dispatch, close queue |
| Socket I/O | `core/include/socket_io.h` | the flag `already` (the last transfer is complete), cursors and byte counts | `send*`, `recv*`, resumable after `EAGAIN` |
| HTTP connection | `http/http_conn.h` | request, response, file descriptor of the body, session | `process_in`, `process_out`, `send_*`, `load_file` |
| HTTP filters and routers | `http/http_conn.h` | a tree of filters, a list of routers | `_register_filter`, `match`, `_register_router` |
| HTTP parsing | `http/http_conn.h` | request line, headers, body | `parse_header`, `parse_body` |
| Detect connection | `detect/detect_conn.h` | the received image | `process_in`, `process_out` |
| Detector | `detect/detector.h` | a libtorch model | `detect` |
| JSON | `core/include/json/json.h` | values, arrays, objects | construction, `operator[]`, parser, serialiser |
| Configuration | `core/include/configure.h`, `core/include/conv_base.h` | the parsed `conf.json` | `get_config`, the virtual setters |
| Lock-free queue | `core/include/safe_queue.h` | a free list and a queue of nodes | `push`, `pop`; used by nothing else |

How they interact.  The loop accepts a client, takes an object from the pool (or
allocates one), stores it in `connects[client_fd]` and registers the descriptor in
epoll.  An event of the descriptor sets the object's `status`, and the object is
either handed to the thread pool or processed at once.  `process()` switches on
`status`, runs the handler, and the handler re-arms the descriptor with `next()`
or asks for its close with `notify_close()`, which pushes the descriptor *number*
on the close queue.  The loop serves the close queue at the start of each round:
it closes the descriptor, recycles or deletes the object and forgets the entry.
Descriptor numbers and object addresses are reused, and nothing in a close
request, a task or an event says which of its successive owners it is about.

What is hard here, and hardly reached by a test:

- **Interleavings.**  Workers and the loop share `status`, `socket_fd` and the
  object itself, without a lock; `notify_close()` is a test, a write and a push.
- **Stale names.**  A descriptor in the close queue or in the batch, and an
  object in the task queue, may by now belong to another client.
- **Limits.**  `max_connect_count`, the task queue, the descriptors of the
  process; `accept` may return -1, which the loop does not test.
- **Liveness.**  One-shot delivery forgets a connection whose handler neither
  re-arms nor closes; an edge-triggered listening socket forgets clients.
- **Several threads of control.**  An acceptor and the reactors share descriptor
  numbers and the object pool; one reactor's closed descriptor is the next one's
  client.
- **Partial transfers.**  Cursors and flags outlive a failed transfer and the client
  it was for; a negative result is kept in an unsigned number.
- **Recycled objects.**  `init` resets three fields; request, response and cursors
  of the client before are still there.
- **Shutdown.**  `close()` runs while detached workers still hold objects.

The places that matter most are listed, with their lines, under `hazards` in
`PROJECT.json`; others, which no property reaches, under "Not modelled" below.

What makes each component correct:

- *Loop, connection class, pool*: table, descriptors, objects, pool and count
  agree; an event or a close request only ever touches the connection it is about;
  one worker at a time serves a connection; no open connection is forgotten; every
  waiting client is accepted or refused; a departed client's place is freed.
- *Thread pool and locked queue*: a task added is run once, by one worker; the
  queue stays within its bound; no worker sleeps while a task waits.
- *Multi-reactor*: the same as the loop, per reactor, with one descriptor space
  shared by all; a descriptor is in one reactor's table at most.
- *Socket I/O*: the bytes delivered are a prefix of the bytes given, no byte twice
  and none lost across short transfers, `EAGAIN`, reuse of the object, and failure;
  every transfer ends.
- *HTTP connection*: a response belongs to the request it answers and is as long as
  it says; whoever waits for one is answered; query, form and header fields are
  what the client wrote.
- *Filters and routers*: which filter decides follows from what was registered.
- *JSON*: `load` accepts the grammar and means what it says; copies and moves share
  nothing and stay within their memory; what `dump` writes is read back.

## 2. Modules

| Module | Models |
|---|---|
| `Handlers` | what the handlers of the two servers, and one written as the README asks, do to the loop |
| `ConvSingle` | the loop, the connection class, the object pool, the close queue and the workers |
| `ConnService` | the abstract service the loop promises to its clients |
| `MCConvSingle` | instances of `ConvSingle` for TLC |
| `ConvSingleProofs` | the inductive invariant of `ConvSingle`, what follows from it, that `ConvSingle` implements `ConnService`, and what it gives to handlers that do as the README asks |
| `DataLemmas` | pushes and pops of a queue, the greatest and the least number of a set, induction over numbers: lemmas |
| `ThreadPool` | the thread pool, its semaphore and its locked queue |
| `TaskService` | the abstract task queue the pool promises to the event loops |
| `ConvMulti`, `MCConvMulti` | acceptor, reactors, their workers and the shared pool |
| `ConvMultiProofs` | the inductive invariant of `ConvMulti`, what follows from it, and what it gives to handlers that do as the README asks |
| `SocketIO`, `MCSocketIO` | sends and receives, one system call at a time |
| `SocketIOProofs` | what holds of transfers of every length over sockets that fail |
| `HttpText` | how a query, a form and header lines are taken apart: operators |
| `HttpTextProofs` | what comes of query, form and header lines of any length |
| `HttpConn`, `MCHttpConn` | filters, and what a connection object reads, remembers and answers |
| `HttpConnProofs` | what holds of every site: events, responses, turns, filters, heads and forms |
| `JsonVal` | JSON values and the memory they own: operators |
| `JsonString` | the escapes and the encoding of strings, and one string that is written and read |
| `JsonStringProofs` | what is read of every escape and of every string that `dump` wrote |
| `Json`, `MCJson` | `load`, `dump`, and what an application does to a document in between |
| `ThreadPoolProofs` | the inductive invariant of `ThreadPool`, what follows from it, and that `ThreadPool` implements `TaskService` |

### Handlers

The loop sees of a handler only the calls of `next()` and `notify_close()` it makes
and the value it returns; a path through a handler is the sequence of these calls
and the result.  `HttpIn`/`HttpOut` list the paths of `http_conn` (`HttpNoMethod` is the
one without any call: the method is none of the nine), `DetectIn`/`DetectOut` those of
`detect_conn`.  Two paths of the HTTP server call `next()`
twice, and two go on after the connection has been re-armed; these are the paths
that reach objects already recycled.

### ConvSingle

| Variable | Code |
|---|---|
| `connects`, `count`, `run`, `batch`, `pc` | `connects`, `current_connect_count`, `run`, `events[event_index..ret-1]`, the position in `wait` |
| `sock`, `status` | `conn::socket_fd`, `conn::status` of the object at each address |
| `pool`, `closeQueue`, `tasks` | the queues of `connpool`, of `close_queue` and of the thread pool |
| `job` | what each worker is doing: the object it holds, the calls still to make, the descriptor already loaded by `next()` |
| `fdOwner`, `interest`, `edge`, `backlog` | the kernel: descriptor table, epoll registration, the edge of the listening socket, the listen queue |
| `arrived`, `hup` | the clients |

Requests, tasks and jobs also carry the client they were made for (`cl`).  The code
has no such field; no guard reads it; it is there to say in a property whom a
request is about.

Actions of the loop: `DrainOne` and `DrainDone` (the close queue), `EpollWait`
(any batch the kernel may report, with one-shot disarming), `EpollFails`, and one
action per branch of the dispatch: `AcceptOver`, `AcceptOccupied`, `AcceptInstall`,
`DispatchToPool`, `DispatchOverload`, `DispatchInline`, `DispatchOther`; `Close`
ends the loop.  A dispatched event is one step, since no other thread observes
the loop's locals; without worker threads the handler runs inside that step.
Actions of a worker: `WorkerTake`, `WorkerSwitch` (the read of `status`),
`WorkerReset`, `WorkerNextLoad` and `WorkerNextCtl` (the read of `socket_fd`, then
`epoll_ctl`), `WorkerNotifyTest`, `WorkerNotifyMark`, `WorkerNotifyPush`.  They are
separate because the loop can close and recycle the object between any two of them.

Abstractions and limits of the model, each by choice:

- A socket to which the server wants to write is taken to be writable, and whether
  there is data to read is the client's choice; a departed client makes its
  descriptor report any event of `HangUps`.
- `accept` returns any free descriptor, a superset of the kernel's rule (the lowest
  one): files a handler opens in between take numbers as well.  These files are
  not in the descriptor table; that they, or a system limit, make `accept` fail
  while the model's table has room is `AcceptMayFail`.
- `"other"` is an event set without any of the four flags the loop tests.  Linux
  reports `EPOLLHUP` together with the flags asked for, so the branch is probably
  never taken; it is modelled because it is written.
- An object deleted while a worker still holds it is an address like any other: the
  worker's next access sees what is there, or the object allocated there next.
  `ExclusiveService` says when this does not happen.
- Edge-triggered connections without one-shot are not modelled (the assumption
  `EdgeOnlyWithOneShot`).
- After `close()` detached workers use freed queues, which is undefined; no worker
  step is modelled after it.
- The sequential set-up (`bind`, `listen`, reading the configuration) ends before
  the loop starts.  Its outcomes are the constants.

### ConnService

A client is away, waiting, served or gone.  The service admits a waiting client when
fewer than `MaxConnect` are served, refuses one only when all places are taken,
ends a connection once, and turns everyone waiting away when it stops.  The
refinement mapping reads a client's phase off the kernel's listen queue and
descriptor table.  `Spare` is 1 only when `accept` can fail before `max_connect_count` is reached: the
loop does not test its result, and the failed connection occupies `connects[-1]`,
an entry that no event and no close request ever removes.

### ThreadPool

The task queue that `ConvSingle` takes for granted, in the steps the code takes:
`add` is the unlocked read of `size()` (`Offer` to `SizeTest`), `push` and
`release`; a worker passes the semaphore (`Acquire`), tests `empty()`
(`TestEmpty`), pops (`Pop`) and runs the task (`Run`).  `sem` is the semaphore's
`count`; `at` says where each worker is, `"waiting"` and `"woken"` being inside
`cv.wait`; `adder` where the one thread that calls `add` is.  `WakeUp` is a
spurious wake-up.

`size()` reads the iterators of a `std::deque` without the lock.  A `pop_front`
inside a block changes one pointer, and the number read is the length before or
after it; one that leaves a block changes four, and a read in between can give
any number.  `Torn` says that this has happened since `add` was called (`first` is what
had left the queue then, `taken` what has left it now, `Block` elements to a block),
and then `SizeReads` leaves the result open.  The consequence for the caller is that
`add` may refuse a task although there is room: in `ConvSingle` this is
`Overloaded`, which holds of every queue that a worker could be taking from.

The semaphore is the one the C++17 build compiles (`threadpool.h:17`).  The
destructor frees the queue and the flag `stop` under detached workers, which is
undefined, and is not modelled.

`TaskService` is the queue of tasks without all that: a task is asked for, accepted
or refused, started in its turn, and finished.  The refinement mapping reads a task's
phase off the place where it is (`Places`: the adding thread's hand, the queue, a
worker's hand, the tasks run, the tasks refused); a task in two places, or in none,
would have the phase `"lost"`, which the service does not know.  A task is refused only
when the queue is full or `moved`: some worker has taken a task during the call.

How the modules stand to each other: `ThreadPool` implements `TaskService`, the queue
of tasks that `ConvSingle` and `ConvMulti` take as one step; `Handlers` is what those two see of
the handlers, `HttpConn` what the HTTP handlers do to their own object, `SocketIO`
what the calls in them do to socket and cursors.

### ConvMulti

`connects`, `keys`, `pc`, `batch`, `cur`, `closeQueue`, `tasks` are those of
`ConvSingle`, one per reactor (`keys` are the keys of the map, null entries
included, which is what `connects.size()` counts).  `home` is the epoll instance a
descriptor is registered with, `boss` the `epoll_fd` and `close_queue` an object was
initialised with.  `gone` is the object a reactor is closing, `tmp` in
`CONNECTS_REMOVE_FD_REACTOR`: the removal is two steps, `Unlink` up to the close of the
descriptor and `Forget` from there to the release, because the acceptor may get the
number in between and a worker may still use the object.  The acceptor goes step by
step through the sizes of the reactors (`AcceptorAccept`, `AcceptorLook`, `AcceptorAdd`)
and reads a size that is below the least so far once more, as that least
(`AcceptorLeast`).  A reactor creates the object of a connection at its first event
(`PickNew`).  `Modes` lets one run cover servers with and without workers and pool.

The default of `process()` sets `status` to OK, which the model leaves out: a worker
meets OK only in a stale task, and handlers that make one call each, those of the run,
leave none behind.  `ConvSingle`, which is checked with other handlers, has it
(`WorkerReset`).

Limits: one-shot delivery; no failing `epoll_wait`; no way to the stop; the map that
the acceptor reads while a reactor inserts is taken to give one of the sizes it had.
The batch holds everything that is ready (`max_events_count` is 4096).

### SocketIO

One connection object, the calls its handler makes in turn (`Handlers`: the scripts
of `http_conn` and `detect_conn`), and a peer that sends pieces, ends its stream or is
gone.  The step is one `send`, `recv` or `sendfile`.  `already` and the cursors are the
code's; `data` and `wire` say what the current transfer has read or put out; sizes
wrap at `Base * Base` instead of 2^64.  A call of `send` may fail on a working socket
up to `MaxFails` times (`EAGAIN`); on a broken one it always does.  `-1` in a `size_t`
is `Slipped` and `RecvFileWild`.  `send_base` ignores what it means, `recv_file` hands
SIZE_MAX to `fwrite`: a crash, or garbage in the file.

### HttpConn and HttpText

Filters register in any order, all of them before the first client comes (they are
static objects, `http_conn.h:693`); then clients come to one recycled object.  A client
puts the pieces of a request on the wire, `Deliver` moves them on; a `calm` client
waits for its response, another does not and cuts its request line in two.
`process_in` begins with `ReadEnd`, `ReadPart`, `ReadRest` or `ReadHead`.  `ReadEnd` is a
`recv_all` that meets the end of the stream: it may fail, by what an earlier call left in
`errno`, and what it has read is lost.  A part of a head has nothing to parse, and the
method and version of the request before are used; its rest has a method that no one
knows, or, cut within the version, none at all.  Then come `QueryLoop` (a round of the
loop over the query), `HeadRead`, and for a POST `ReadBody` and `BodyRead`;
`process_out` is one step, `ProcessOut`, with the filter, the router and the files.
Method and version of a new object are uninitialised memory (`Fresh`).  What ends the
program (a POST without `Content-Length` or `Content-Type`, a version that is none) is
`pc = "crash"`.  What never ends is `pc = "endless"`: `send_str` of an empty string, for
which `send()` returns false (`socket_io.h:160`) and a stale `EAGAIN` in `errno` lets the
loop go round, or another value closes the connection; and the sending of a file that has
become shorter since `stat` (`Shrinking`), where `sendfile()` sends 0 bytes for ever.

A url is a sequence of segments with a query; a header line has a name and the
sequence of its values; a file or a text in a response is named, not spelled.  What
the model leaves out: multipart bodies, cutting a line at its colon and commas, six of
the nine methods, heads cut behind the request line, the failure of a send that is not
empty (which `send_base` cannot report), exceptions of a router's method, two workers on
one object (`ConvSingle` shows where that happens).  `render` leaves its path in
`req_header.url`, which the next `process_in` clears unread.

### JsonVal, JsonString and Json

`JsonVal` keeps for each array what it holds, how much is allocated (`alloc`) and the
`capacity` the code trusts, which lives in a union that a change of type does not
reset.  `Json` is a document: texts grow token by token as long as the parser has not
failed, `Load` parses one, and `Set`, `SetList`, `Push`, `PushOther`, `PushArray`,
`PushInto` and `Assign` are what an application does through `operator[]`.  `Assign` may
assign a value to itself: `operator=` (`json.h:338`) clears it before it copies, and a
string, an array or an object is gone.  `meaning` is the same document without memory,
kept by reference definitions.  Parser and
`to_string` of `Json` are RECURSIVE, so nothing is proved about that module.

`JsonString` works on bytes and has one variable, `string`: what was read last, and of
what.  `ReadEscape` reads the escape of a code, `ReadValue` and `ReadKey` what `dump`
made of a string, each behind its opening quote.  Its loops are recursive functions, so
its properties are proved of `StringSpec`.  `Json` has its steps in `ReadAlone`: a
behaviour of the run reads either one string or a document (a bound; a string is read
the same way wherever it stands in a text).

## 3. Model checking

| Run | Configuration | What it shows |
|---|---|---|
| `mt_http` | 1 worker, HTTP handler, 2 clients, 2 descriptors, failing `accept` | `TypeOK`, `TableSound`, `EventsFresh`, `CountExact`: the table survives every stale call the HTTP handler makes, and the count is exact, a failed `accept` included |
| `mt_readme` | 2 workers, a pool of 1, task queue of 1, a handler as the README asks, fair | `ExclusiveService`, `NeverForgotten`, `DrainClosesRequester`, `Attended`, `Reclaimed` |
| `inline_http` | no workers, one-shot, HTTP handler, 3 clients for 1 place | `Implements` (refinement of `ConnService`) |
| `pool` | thread pool: 3 workers, 5 tasks, a queue of 2, blocks of 2, fair | `TypeOK`, `Balance`, `NoIdleSleeper`, `BoundKept`, `EveryTaskRun`, `Implements` (refinement of `TaskService`) |
| `multi` | 2 reactors with a worker each or none, a shared pool or none, 2 clients, 2 descriptors, fair | `TableSound`, `ExclusiveService`, `NeverForgotten`, `DrainClosesRequester`, `Attended`, `Reclaimed` |
| `socket` | the scripts of both servers, 2 clients in turn, buffer of 2, sizes modulo 16, fair | `TypeOK`, `NoGap`, `CleanSend`, `BodyOnly`, `Ends` |
| `http` | 3 filters in every order, 9 requests, 2 clients in turn, fair | `MatchIsLast`, `InTurn`, `BodyAsAnnounced`, `NotForgotten`, `HeadRight` (`ParametersRight` and `FieldsRight`), `FormRight`, `Answered` |
| `json` | texts of up to 9 tokens, 3 operations, arrays of up to 6; every code of the first plane and the ends of the others; strings of up to 4 bytes out of 6 | `LoadRight`, `Meant`, `InBounds`, `RoundTrip`, `EscapesRight`, `DumpedStrings` |

`mt_http` uses symmetry over clients, objects, workers and descriptors, which the
specification treats alike; the runs with liveness properties use none.

Why these bounds.  Reuse of a descriptor or an object takes two clients in a row; the
three on one place of `inline_http` add one that is refused.  In `mt_readme` and `multi`
nobody is refused: there are as many descriptors and clients as places (the
multi-reactor model has no limit).  Two workers are what it takes for one
connection to be served twice.  A batch of up to three events holds one event of each
descriptor and the listening socket's.  A task queue of one is full as soon as two
connections are ready.  With one pooled object and two places the pool is found empty
and grows again.  In the thread pool three workers can be asleep, woken and past the
semaphore at once, five tasks fill and empty the queue of two several times, and every
second task leaves a block of the deque.  Two reactors are what it takes for a
descriptor to change hands between them.  In `socket` the longest transfer is more
than one buffer and the second client inherits every state the first can leave.  In
`http` the three filters share a first segment, lie below one another and cover all
urls; the requests reach every kind of file, every call of a router and both versions;
a second client meets every request and response the first can leave.  Nine tokens
spell an object with two members or one in another, a `true` with a `false` behind it,
an extra comma, which is refused, or something behind the object; three operations overwrite, grow and copy a nested array, and an array of
six has been reallocated twice.

Fairness.  `FairSpec` asks for weak fairness of the loop and of each worker: both
are threads that block only in `epoll_wait` (which has a time-out) and on the
semaphore; in `ConvMulti` also of the acceptor and of each reactor.  In `ThreadPool`
the adding thread, once inside `add`, and each worker outside `cv.wait` go on; nobody
owes a task or a spurious wake-up.  In `SocketIO` a call that was begun goes on, in
`HttpConn` the handlers do (their events are dispatched, as the other modules show),
and what a client has begun to send arrives unless it leaves.  Clients owe nothing
else.  `Batches` requires that `epoll_wait` reports what is certainly ready unless the
batch is full, which is what the kernel does; the kernel's rotation of its ready list
is not needed at these bounds, the batch being as large as the number of descriptors.
`Attended` of `mt_readme` has a descriptor for every client; in `multi` it promises
something only while descriptors are free: when `accept` fails for want of one the client
stays in the listen queue, which no fairness of the loop can help.  `Answered` is about
requests whose handling ends (`Completes`): not those for an empty string or a file that
becomes shorter, nor those with a query that ends in a key alone or a POST without its
two fields.

Where code and documentation differ (runs that TLC must refute):

- `double_notify`.  `http_conn::process_in` calls `notify_close()` and returns
  false, and `process_in_base` calls it again.  Between the two the loop may close
  the connection and give the object and its descriptor to a new client, whose
  connection the second call closes.  `conn.h:153` calls the function thread safe.
- `detect_forgotten`.  `detect_conn` registers no event after an answer, so with
  one-shot its connection is neither served nor closed again (`README.md:114`).
- `send_whole`.  `send()` returns true although its data has not been sent: the -1 of
  `::send` is kept in a `size_t`, passes the test `<= 0` and moves the cursor back
  (`socket_io.h:33`).  From cursor 0 the loop ends at once; from a later one a byte is
  sent twice.
- `push_nested`.  `push_back` moves a list of four into a new element, which takes over
  the allocation and the size and keeps its own capacity, 0 (`json.h:309`).  The next
  `push_back` on that element counts 0 as 1, allocates two and copies the four into them
  (`json.h:82`).  The run `json` does without pushes onto moved lists (`IntoMoved`).

Seen with the same models in other configurations, and true of the code: without
worker threads a failing handler leaves its descriptor in the close queue although the
loop removes the connection at once, and a client accepted later in the same batch is
closed for it (`conv_single.h:427`; in `ConvMulti` this cannot happen, because objects
are created only after the queue was served); `conv_single::close` leaves the
descriptors of the connections open (`conv_single.h:245`); with `et` the listening
socket is edge-triggered too, and of two simultaneous clients one waits for ever
(`conv_single.h:123`).

Some properties describe what the code does where that is not what one would wish,
so that a change shows: `MatchIsLast` (a later filter below an earlier one replaces
it), `BodyAsAnnounced` (a refused file is sent under another length), `EscapesRight`
(two ranges of codes get a byte too many), `LoadRight` (text behind the object is
ignored, and `truefalse` is read as `false`), `Meant` (what is assigned to itself is lost,
unless it is a number), `DumpedStrings` (nothing is escaped).

Each property of a passing run also has a mutant of the modelled code (a dropped
count, a dropped guard, a pool that keeps the object it gave away, a drain between
two events, ...) under which TLC finds it violated.

## 4. Proofs

`ConvSingleProofs` proves, for every set of clients, objects, workers and
descriptors, all bounds, all flags and all handlers (any `InPaths`, `OutPaths`
within `Program`), from the assumption `Parameters` (and `EdgeOnlyWithOneShot`,
which no proof needs):

- `TypeCorrect`: `Spec => []TypeOK`;
- `TableAgreement`: `Spec => []TableSound`;
- `CountIsExact`: `Spec => []CountExact`;
- `FreshEvents`: `Spec => []EventsFresh`.

They follow from `Invariance`: `Spec => []IInv`.  None of the four is inductive
alone.  The table agrees with the kernel after a removal only if the removed
object was in one entry, knew its descriptor and was not in the pool; the count
stays exact only because the removed entry existed.  An event stays fresh only
if the batch has one event per descriptor (`BatchShaped`), because the removal
of the dispatched event's connection must not touch another event's; if
nothing is dispatched while the close queue is served (`batch = {}` outside the
dispatch); and if an accept never overwrites an entry.  What `epoll_wait`
reports has an entry because only open descriptors are armed (`ArmedAreOpen`),
a fact that a late `next()` of a worker could break if `epoll_ctl` accepted
closed descriptors.  `JobsShaped` says a worker has an operation to perform.

The argument is one lemma per way to change the table (`RemoveStep`,
`InstallStep`, `AcquiredFacts`), one per group of actions (`DrainInv`, `EpollInv`,
`AcceptInv`, `ToPoolInv`, `OverloadInv`, `InlineInv`, `CloseInv`, `WorkerInv`,
`EnvironmentInv`), and a frame lemma (`WorkerFrame`) saying that workers touch
nothing but `interest`, `status` and the queues.

`ConvSingleProofs` also proves, from the same assumptions,

- `Refinement`: `Spec => Implements`, that is `Spec => Service!Spec`.

It needs two facts more, `ServedSound`: a client has at most one descriptor, and
only after it has left the listen queue; and `connects[-1]` is taken only if
`Spare` is 1.  A step is first classified by what the service can see of it
(`StepKinds`): nothing (`Quiet`, all steps of workers among them), a removal, an
admission, a refusal, a step of a client, or the end of the loop.  Each class is
then simulated (`RemoveSimulates`, `AdmitSimulates`, ...).  The numbers meet in
`Places`: clients and open descriptors correspond one to one, so the exact
`current_connect_count` of `CountExact` is the number of clients served, plus the
lost place.

`ConvSingleProofs` proves besides, from the same assumptions and from `Disciplined` (there
are workers, delivery is one-shot, and every path of the handlers, completed by
`process_in_base` or `process_out_base`, is one call of `next()` or `notify_close()`, as
`README.md:114` of the repository asks; the handlers of `mt_readme` are of this kind,
those of the HTTP and the detect server are not),

- `OneServes`: `Spec => []ExclusiveService`;
- `NobodyForgotten`: `Spec => []NeverForgotten`;
- `RequesterClosed`: `Spec => DrainClosesRequester`.

All three follow from `InOnePlace`: a client that has a descriptor is armed in epoll, or
has an event in the batch, a task, a worker or a close request, and only one of these.
In two places at once it would have two workers, or a close request that outlives it;
in none it would be forgotten.  Only one of a kind is `NoTwo`; that a task, a job and a
request name the descriptor and the object the client has now is `AllSound`, with the
status a worker will find (a status `CLOSE` at the switch, or at the test of
`notify_close()`, would lose the connection).  Each step moves one client from one place
to the next and spares the others (`Spares`, `OneConcerned`); only `epoll_wait` moves many.

`ThreadPoolProofs` proves, from `PoolParameters` alone (any number of workers and
tasks, any `max_process_count`, any block size),

- `TypeCorrect`: `Spec => []TypeOK`;
- `SemaphoreAgrees`: `Spec => []Balance`;
- `NobodySleepsOnWork`: `Spec => []NoIdleSleeper`;
- `QueueBounded`: `Spec => []BoundKept`.

`Balance` is what rules out that a worker has consumed a count and finds the queue
empty (`TaskForIt`), the case the code tests for twice.  `BoundKept` needs
`RoomToPush`: a read of the size is torn only by a worker that has just made room,
and nobody else adds, so whatever number is read there is room when it matters.
The counting is in `OneMoves`: a worker that moves changes the number of workers
in a set of places by one at most.

`ThreadPoolProofs` also proves, from the same assumption,

- `Refinement`: `Spec => Implements`, that is `Spec => Service!Spec` of `TaskService`.

The invariant it adds says that every task is in one place (`Single`), that the queue is
in the order of the additions (`Sorted`: the task at its head has waited longest) and
that no two workers hold the same task (`OneEach`: fewer than all are busy when one of
them takes a task).  A step moves one task from one place to another (`OfferSimulates`,
`RefuseSimulates`, `PushSimulates`, `PopSimulates`, `RunSimulates`) or none
(`QuietStep`, all steps of the semaphore among them).  The bound of the service is
`RoomToPush` once more, and `QueueCount`: as the queue holds no task twice, its length is
the number of tasks that wait.

`ConvMultiProofs` proves, from `MultiParameters` alone (any number of reactors, workers,
clients, descriptors and objects, every handler, with and without workers and pool),

- `TypeCorrect`: `Spec => [](TypeOK /\ JobsShaped)`;
- `TableAgreement`: `Spec => []TableSound`;
- `RoundsAreCurrent`: `Spec => []RoundsSound`.

The reactors share the descriptors, the objects and the count, and no lock orders them;
what keeps them apart is `home`.  `RoundsSound` says that the events of a round are of
connections whose descriptor the reactor still owns: only the owner closes it, it
closes only the descriptor of the event at hand, and a round has one event of each.
`HomeOpen` and `PlacingSound` say that a number the kernel hands out again is in no
epoll instance before the acceptor puts it there.  The count is exact because it is
changed in the same step as the entry (`UnlinkStep`, `InstallStep`); between the close of
a descriptor and the release of its object (`gone`) the object is nowhere else
(`ForgetStep`).

`ConvMultiProofs` proves besides, from `MultiParameters` and the same discipline of the
handlers (`Disciplined`: there are workers and every completed path is one call),

- `OneServes`: `Spec => []ExclusiveService`;
- `NobodyForgotten`: `Spec => []NeverForgotten`;
- `RequesterClosed`: `Spec => DrainClosesRequester`.

The argument is that of `ConvSingleProofs`, with one place more (`IsPlaced`: the
acceptor has the descriptor and looks for a reactor) and with the reactor in every fact:
a task, a job or a request is with the reactor whose table holds the client's object
(`Holds(r, c, o)`), and since `TableSound` gives a descriptor one reactor, two reactors
never serve one client (`HeldOnce`).  `BossFacts` carries it to the workers: the epoll
instance and the close queue that an object points to are those of the worker's own
reactor, so `next()` arms and `notify_close()` pushes where the connection is.
`FdsSound` adds that a client has one descriptor and that what is armed is in an epoll
instance.

The refinement of `ConnService` is checked by TLC for the loop without workers
(`inline_http`); the theorem holds with them as well.

`SocketIOProofs` proves, for every buffer size, every width of `size_t`, transfers of
every length and any number of failures and clients,

- `TypeCorrect`: `Spec => []TypeOK`;
- `NothingSkipped`: `Spec => []NoGap`;
- `CleanSends`: `Spec => CleanSend`;
- `BodyKept`: `Spec => BodyOnly`.

Beside `IOParameters` it uses `HandlersAndPeers`: peers send bytes, a size may be any
`size_t` (a client announces it) but that of the string of `send_with_header`, which is
below `SIZE_MAX`, and the calls of a connection begin with `recv_all` or
`recv_with_header`, as `process_in` of both servers does (`http_conn.h:1244`,
`detect_conn.h:21`).  The last one is needed, because `already` and the cursors survive
in a recycled object: `recv` and `send` of a new client would go on with the transfer
of the client before, while the two openers begin anew or take what is left for a
header.  That every later call finds `already` true is `Completed`; its one exception
is a body whose peer has ended the stream too early, in which the HTTP server reads for
ever (`Stuck`).  `BodyOnly` counts: while a body is read, what is appended and what is
still asked for are together the length announced (`BodyCounted`), so no `recv`
reaches behind it.  `NoGap` and `CleanSend` need `SendSound`: an error moves the
cursor back, or from 0 past the end, so while there is something to send the cursor is
never ahead of what is on the wire,
and without an error it is exactly there.

`HttpConnProofs` proves, for every site (filters, routers, files), all requests, any
number of clients one after the other and any way to cut what they send,

- `Remembered`: `Spec => []NotForgotten`;
- `Announcements`: `Spec => []BodyAsAnnounced`;
- `Answers`: `Spec => []InTurn`;
- `LastDecides`: `Spec => []MatchIsLast`;
- `HeadIsRead`: `Spec => []HeadRight`;
- `FormIsParsed`: `Spec => []FormRight`.

The assumption is `Site`: `Null` is no filter and the missing url no path (the code has
a null pointer and the empty string for them), urls, bodies, header
lines and their values are sequences, and what `stat` finds is a file, a file that may
not be read, or a directory.  Each theorem has
an invariant of its own.  `Armed` adds to `NotForgotten` that a handler does not go on
for a connection it has asked to be closed.  `InTurn` is about a client that waits for
each response and whose bodies are as long as it says (`Orderly`); it says nothing of
the request that is being worked on; `Turns` does: either nothing is owed and nothing of
a request is left, neither in the socket nor on its way, or exactly the last request is,
and it is on its way with its head first (`Unread`), or read up to here with method, url
and fields its own and no more to come than its body has (`Reading`), or to be answered
(`Ready`), or the handler never ends.  This is why bytes of a body are never taken for a head, and why the method
and version that `clear()` keeps are overwritten before they are used.  `Tree` describes
the nodes of the filters after any sequence of registrations: under each first segment
exactly the way to the filter that registered last, with that filter at its end and
nothing before it.  `LastAppended` says which filter is last, and `WayDecides` reads the
answer of `match` off the tree.  That a set of numbers with a bound has a greatest one
(`GreatestExists`), which `match` and `LastUnder` take for granted, is shown from the
well-foundedness of the strict subsets of a finite set.

`HeadRight` and `FormRight` speak of the last request of a waiting client once it has
been read; neither is inductive, as a head is read in one step, its query in many more,
and its body in as many as it has pieces.  `Held` adds what lies in between, of the
request that is owed: what has arrived and what is on its way are its pieces, in order
(`Following`), and what has been read of its body is the beginning of it (`Begun`); while
the query is read, the loop stands at one of its pairs and `parameters` has the first
value of each key of the pairs before (`Looping`, `FirstOf`), and behind the last pair
they are complete (`Parameters`).  Its other half is `Turns`: what has still to come is
as much as its body has, so that the body is whole when `BodyRead` parses it.

What the loops over a text compute is in `HttpTextProofs`, for texts of any length:

- `FieldsRead`: `HeaderFields` gives each name the values of its last line, the last of
  them with its continuations.  The invariant of the loop is `SoFar`: after `n` lines
  that holds of the lines up to `n`, and the next continuation goes to the right field;
- `FormsRead`: `Form` gives each key its last value.  It is read from the end
  (`LastOf`): the pairs behind a place are right, and the pair at the place is kept only
  if none of them has its key.

`JsonStringProofs` proves, for every set of codes that escapes can name and every set of
strings (`StringsAssumption`),

- `EscapesAreRead`: `StringSpec => []EscapesRight`;
- `DumpedAreRead`: `StringSpec => []DumpedStrings`.

That `parse_string` is what it reads from each place, for every text (`StringReadable`,
`StringIsRead`), is an induction from the end of the text, as an escape leads further
than the next byte.  Hexadecimal digits are joined and taken apart (`FourDigits`,
`DigitsOf`), surrogate pairs as well (`PairIsJoined`), and what the branches of
`Encoded` compute are the bytes of `InBytes` (`EncodedRight`).  For `DumpedStrings` one
direction follows a string with nothing to undo to its quote (`Copies`); the other is a
count (`Fits`): what is read is at most as long as the text in front of its last quote,
and shorter as soon as anything in it is a quote, a backslash or a 0.

These are inductions over data, which the prover cannot take from the library (its
theorems are about a predicate, given as an operator).  `DataLemmas` has induction for a
*set*: `Induction` and `InductionDown` say that a set with 0 (or the last number) and
with every successor (predecessor) has all numbers; a predicate becomes the set of the
numbers that have it.

Only model-checked: `LoadRight`, `Meant`, `InBounds` and `RoundTrip`, as documents nest
and their parser, their values and `dump` are RECURSIVE operators; `ExclusiveService`,
`NeverForgotten` and `DrainClosesRequester` of the loops without workers; and the
liveness properties `EveryTaskRun`, `Attended`, `Reclaimed`, `Ends` and `Answered`,
which are out of the prover's reach.

## 5. Plan

Done: the loop, the thread pool, and for both an abstract service and the refinement; the
multi-reactor model and its invariants; socket I/O; HTTP filters, sessions and texts; JSON.
Proved: the safety properties of the loops (of the handlers that do as the README asks,
where they need it), the thread pool, the transfers, the HTTP session, its filters and
texts, and the strings of JSON.

Left, in the order of what it would add:

1. Two workers on one HTTP object: the response data while a re-armed connection is
   already served again.
2. Multipart bodies.

## 6. Not modelled

- The detector (libtorch and OpenCV behind one call), logging and utilities: no state
  the framework sees.
- The configuration: read once at start; its values are the constants of the modules.
  (`multi_thread` and `object_pool` are switched on by their presence, whatever their
  value.)
- `safe_queue`: no file includes it, and its destructor deletes the elements of an
  array one by one, so there is no use of it to model.
- The way to the stop of `conv_multi`, and what detached threads do after `close()` of
  either model: they use freed memory.
- The text of numbers, `format`, casts and comparisons of JSON values; `json::operator=`,
  which adds to what is there (`json.h:1289`) and which the code does not use.
- `max_connect_count` of the multi-reactor model: it is stored (`conv_multi.h:218`) and
  never read, so there is no bound to check.
- `forward` to an url without a router (`http_conn.h:647`): `operator[]` inserts a null
  entry into a map that other threads read; the model forwards to routers that exist.
  A router's method that throws after it has answered (`http_conn.h:1131`).
- That `recv_with_header` returns true when there is nothing to read yet
  (`socket_io.h:61`) is in the model; nothing in the code promises otherwise, and no
  property is stated about it.  `send_file` leaves its file open on `EAGAIN`
  (`socket_io.h:202`); open files are not counted.
- In `SocketIO` a file is as long as its size says: for a shorter one `sendfile()` returns
  0 and `send_file` goes round for ever (`socket_io.h:200`; `HttpConn` has the same loop of
  `send_response_body_base`).  A `fopen` that fails in `recv_file` (`fwrite` to a null
  pointer, `socket_io.h:271`), and the SIGPIPE of the header that `send_with_header` sends
  without `MSG_NOSIGNAL` (`socket_io.h:102`; the model has the result false).  After an
  `ECONNRESET` the model goes on failing, where a further `recv` would return 0.
- Header lines that continue a field without values: `back()` of an empty vector
  (`http_conn.h:901`), which the model takes to change nothing.
- In JSON, an array that is pushed onto itself, whose copy never ends, and the pushing of
  an element of the array itself, which is read after `delete[]` (`json.h:102`).  A list
  of one number is a list only where its braces are spelled out as one; otherwise
  `operator=` of a number is called (`json.h:248`).  An empty array at the top of the
  document is not dumped (`Dumpable`): the loop would run to SIZE_MAX.
- The signal handler's output and `exit` (`conv_single.h:17`): the model has the flag it
  clears, and a program that has ended has no further steps.
