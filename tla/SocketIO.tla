------------------------------ MODULE SocketIO ------------------------------
(***************************************************************************)
(* socket_io: the sends and receives of a connection object over a         *)
(* non-blocking socket, one system call at a time.  The object remembers   *)
(* how far a transfer came (read_cursor, write_cursor and their totals)    *)
(* and in "already" whether the last one was completed; conn::init resets  *)
(* none of it, so a client that gets a pooled object starts with what the  *)
(* client before it left.  Cursors and totals are size_t.                  *)
(*                                                                         *)
(* A byte is a number below Base, and hzd::header is two bytes, the low    *)
(* one first (eight in the code).                                          *)
(***************************************************************************)
EXTENDS Integers, Sequences, FiniteSetsExt

CONSTANTS
  Base,      \* the number of values of a byte
  BufSize,   \* sizeof(read_buffer), sizeof(write_buffer)
  Handlers,  \* for each kind of connection, the sequences of calls it may make
  Streams,   \* what a peer may send
  MaxFails,  \* bound on how often send() fails on a socket that works
  MaxConns   \* bound on how many clients the object serves in turn

ASSUME IOParameters ==
  /\ Base \in Nat /\ Base > 1 /\ BufSize \in Nat \ {0}
  /\ MaxFails \in Nat /\ MaxConns \in Nat \ {0}

Modulus == Base * Base
SIZE_MAX == Modulus - 1

VARIABLES
  read_cursor, read_total_bytes, write_cursor, write_total_bytes, already,
  scripts, \* the kind of connection that this object is
  todo,    \* the calls the handler still makes
  call,    \* the call being made, NoCall between two calls
  ret,     \* what the last call returned
  coming,  \* what the peer has not sent yet
  avail,   \* the bytes in the socket's receive buffer
  peer,    \* "there", or its stream has ended ("fin"), or it is gone ("rst")
  data,    \* the bytes the current receive has appended to its string or file
  wire,    \* the positions in its data that the current send has put out
  smooth,  \* history: no send() of the current call failed
  fails, conns

cursors == <<read_cursor, read_total_bytes, write_cursor, write_total_bytes, already>>
network == <<coming, avail, peer>>
vars == <<cursors, scripts, todo, call, ret, network, data, wire, smooth, fails, conns>>

Receives == {"recv_with_header", "recv", "recv_all"}
Sends == {"send_with_header", "send"}
Calls == Receives \cup Sends \cup {"send_file", "recv_file"}
Command == {c \in [op : Calls, n : 0..SIZE_MAX] : c.op = "send_with_header" => c.n < SIZE_MAX}
NoCall == [op |-> "none", n |-> 0]
Crash == [op |-> "crash", n |-> 0]
Garbage == Base     \* what lies behind read_buffer

\* A peer sends bytes.  A handler begins with the read of a request; a size that
\* a request announces may be any, the string of send_with_header is shorter.
ASSUME HandlersAndPeers ==
  /\ Streams \subseteq Seq(0..(Base - 1))
  /\ \A handler \in Handlers : \A script \in handler :
       /\ script \in Seq(Command)
       /\ script # <<>> => Head(script).op \in {"recv_all", "recv_with_header"}

Init ==
  /\ read_cursor = 0 /\ read_total_bytes = 0
  /\ write_cursor = 0 /\ write_total_bytes = 0 /\ already = TRUE
  /\ scripts \in Handlers /\ todo \in scripts /\ call = NoCall /\ ret = TRUE
  /\ coming \in Streams /\ avail = <<>> /\ peer = "there"
  /\ data = <<>> /\ wire = <<>> /\ smooth = TRUE
  /\ fails = 0 /\ conns = 1

-----------------------------------------------------------------------------
(* The peer *)

PeerSends ==
  /\ peer = "there" /\ coming # <<>>
  /\ \E k \in 1..Len(coming) :
       /\ avail' = avail \o SubSeq(coming, 1, k)
       /\ coming' = SubSeq(coming, k + 1, Len(coming))
  /\ UNCHANGED <<cursors, scripts, todo, call, ret, peer, data, wire, smooth, fails, conns>>

PeerLeaves ==
  /\ peer = "there"
  /\ \/ peer' = "fin" /\ coming = <<>> /\ UNCHANGED avail
     \/ peer' = "rst" /\ avail' = <<>>
  /\ coming' = <<>>
  /\ UNCHANGED <<cursors, scripts, todo, call, ret, data, wire, smooth, fails, conns>>

-----------------------------------------------------------------------------
(* The handler *)

\* A call is made if the last one succeeded.
Idle == call = NoCall /\ ret
BodyLoop == Idle /\ todo # <<>> /\ Head(todo).op = "recv"

\* The next call, of the given kind, with its string empty.
Enter(op) ==
  /\ Idle /\ todo # <<>> /\ Head(todo).op = op
  /\ todo' = Tail(todo)
  /\ data' = <<>> /\ wire' = <<>> /\ smooth' = TRUE

Return(r) == call' = NoCall /\ ret' = r

\* The string has the n bytes that were announced.
BodyRead ==
  /\ BodyLoop /\ Len(data) >= Head(todo).n
  /\ todo' = Tail(todo)
  /\ UNCHANGED <<cursors, scripts, call, ret, network, data, wire, smooth, fails, conns>>

\* The connection is closed and its object goes to the next client: conn::init.
NextClient ==
  /\ call = NoCall /\ (todo = <<>> \/ ~Idle)
  /\ conns < MaxConns /\ conns' = conns + 1
  /\ todo' \in scripts /\ ret' = TRUE
  /\ coming' \in Streams /\ avail' = <<>> /\ peer' = "there"
  /\ data' = <<>> /\ wire' = <<>> /\ smooth' = TRUE
  /\ UNCHANGED <<cursors, scripts, call, fails>>

-----------------------------------------------------------------------------
(* Receiving *)

\* A call sets the totals only when the transfer before it was completed.
ReadTotals(n) ==
  IF already THEN read_total_bytes' = n /\ read_cursor' = 0
             ELSE UNCHANGED <<read_total_bytes, read_cursor>>

RecvAll ==
  /\ Enter("recv_all") /\ call' = Head(todo)
  /\ ReadTotals(SIZE_MAX)
  /\ UNCHANGED <<write_cursor, write_total_bytes, already, scripts, ret, network, fails, conns>>

\* recv(body, n - body.size())
Recv ==
  /\ BodyLoop /\ Len(data) < Head(todo).n
  /\ call' = Head(todo)
  /\ ReadTotals(Head(todo).n - Len(data))
  /\ UNCHANGED <<write_cursor, write_total_bytes, already, scripts, todo, ret, network, data,
                 wire, smooth, fails, conns>>

\* recv_with_header reads what there is of a header, or fails, unless it goes
\* on with a transfer.
RecvWithHeader ==
  /\ Enter("recv_with_header")
  /\ \/ already /\ avail = <<>> /\ Return(FALSE)
        /\ UNCHANGED <<read_total_bytes, read_cursor, avail>>
     \/ /\ already /\ avail # <<>>
        /\ ReadTotals(avail[1] + (IF Len(avail) > 1 THEN Base * avail[2] ELSE 0))
        /\ avail' = SubSeq(avail, 3, Len(avail))
        /\ call' = Head(todo) /\ UNCHANGED ret
     \/ ~already /\ call' = Head(todo)
        /\ UNCHANGED <<read_total_bytes, read_cursor, avail, ret>>
  /\ UNCHANGED <<write_cursor, write_total_bytes, already, scripts, coming, peer, fails, conns>>

RecvFile ==
  /\ Enter("recv_file") /\ call' = Head(todo)
  /\ read_cursor' = 0 /\ read_total_bytes' = Head(todo).n
  /\ UNCHANGED <<write_cursor, write_total_bytes, already, scripts, ret, network, fails, conns>>

Receiving(ops) == call.op \in ops /\ read_cursor < read_total_bytes

\* Mutant: a whole buffer is asked for.
MutantWanted == BufSize

\* The bytes recv() is asked for.
Wanted == Min({BufSize, read_total_bytes - read_cursor})

\* (recv_file writes what it reads into a file that it has been able to open.)
RecvSome ==
  /\ Receiving(Receives \cup {"recv_file"}) /\ avail # <<>>
  /\ LET k == Min({Wanted, Len(avail)}) IN
       /\ data' = data \o SubSeq(avail, 1, k)
       /\ avail' = SubSeq(avail, k + 1, Len(avail))
       /\ read_cursor' = read_cursor + k
  /\ UNCHANGED <<read_total_bytes, write_cursor, write_total_bytes, already, scripts, todo,
                 call, ret, coming, peer, wire, smooth, fails, conns>>

\* What recv_base returns when recv() finds nothing: EAGAIN is a success, a
\* reset a failure; at the end of the stream the errno of an earlier call says.
\* (A reset is reported once, and then read as the end of the stream.)
NothingRead == CASE peer = "there" -> {TRUE} [] peer = "rst" -> {FALSE} [] peer = "fin" -> BOOLEAN

\* What recv_base returns in the end; nothing to read at all is a failure.
RecvResults ==
  IF read_total_bytes = 0 THEN {FALSE}
  ELSE IF ~Receiving(Receives) THEN {TRUE}
  ELSE IF avail = <<>> THEN NothingRead ELSE {}

\* The loop of http_conn::process_in that reads a body takes no notice of
\* what recv returns.
RecvEnd ==
  /\ call.op \in Receives
  /\ \E r \in RecvResults : already' = r /\ Return(r \/ call.op = "recv")
  /\ UNCHANGED <<read_cursor, read_total_bytes, write_cursor, write_total_bytes, scripts, todo,
                 network, data, wire, smooth, fails, conns>>

RecvFileEnd ==
  /\ call.op = "recv_file"
  /\ \/ ~Receiving({"recv_file"}) /\ Return(TRUE)
     \/ Receiving({"recv_file"}) /\ avail = <<>> /\ peer = "fin" /\ \E r \in NothingRead : Return(r)
  /\ UNCHANGED <<cursors, scripts, todo, network, data, wire, smooth, fails, conns>>

\* recv_file keeps the result of recv() in a size_t, where -1 is not <= 0:
\* fwrite gets SIZE_MAX bytes from read_buffer, which ends the program or
\* puts what lies there in the file, and the cursor moves by SIZE_MAX.
RecvFileWild ==
  /\ Receiving({"recv_file"}) /\ avail = <<>> /\ peer # "fin"
  /\ \/ call' = Crash /\ UNCHANGED <<data, read_cursor>>
     \/ data' = Append(data, Garbage) /\ UNCHANGED call
        /\ read_cursor' = (read_cursor + SIZE_MAX) % Modulus
  /\ UNCHANGED <<read_total_bytes, write_cursor, write_total_bytes, already, scripts, todo, ret,
                 network, wire, smooth, fails, conns>>

-----------------------------------------------------------------------------
(* Sending *)

\* A send() or sendfile() that returns -1: there is no room, or the peer is gone.
Refused ==
  /\ peer = "rst" \/ fails < MaxFails
  /\ fails' = IF peer = "rst" THEN fails ELSE fails + 1
  /\ smooth' = FALSE

\* Mutant: the cursor of the transfer before is kept.
MutantWriteTotals(n) ==
  IF already THEN write_total_bytes' = n /\ UNCHANGED write_cursor
             ELSE UNCHANGED <<write_total_bytes, write_cursor>>

WriteTotals(n) ==
  IF already THEN write_total_bytes' = n /\ write_cursor' = 0
             ELSE UNCHANGED <<write_total_bytes, write_cursor>>

\* send(data, n): with nothing to send it fails.
Send ==
  /\ Enter("send") /\ WriteTotals(Head(todo).n)
  /\ IF already /\ Head(todo).n = 0 THEN Return(FALSE)
                                    ELSE call' = Head(todo) /\ UNCHANGED ret
  /\ UNCHANGED <<read_cursor, read_total_bytes, already, scripts, network, fails, conns>>

\* send_with_header(data) sends the final 0 of data too.  A header of which a
\* part is sent counts as sent.  (It is sent without MSG_NOSIGNAL: a program that
\* does not ignore SIGPIPE, as http_conn does, ends where this returns false.)
SendWithHeader ==
  /\ Idle /\ todo # <<>> /\ Head(todo).op = "send_with_header"
  /\ todo' = Tail(todo) /\ data' = <<>> /\ wire' = <<>>
  /\ WriteTotals(Head(todo).n + 1)
  /\ \/ already /\ Head(todo).n = 0 /\ Return(FALSE)
        /\ smooth' = TRUE /\ UNCHANGED fails
     \/ already /\ Head(todo).n > 0 /\ Refused /\ Return(FALSE)
     \/ ~(already /\ Head(todo).n = 0)
        /\ call' = Head(todo) /\ smooth' = TRUE /\ UNCHANGED <<ret, fails>>
  /\ UNCHANGED <<read_cursor, read_total_bytes, already, scripts, network, conns>>

\* send_file: a file that cannot be opened has no bytes.
SendFile ==
  /\ Enter("send_file") /\ call' = Head(todo)
  /\ write_total_bytes' = Head(todo).n /\ write_cursor' = 0
  /\ UNCHANGED <<read_cursor, read_total_bytes, already, scripts, ret, network, fails, conns>>

Sending(ops) == call.op \in ops /\ write_cursor < write_total_bytes

\* Mutant: a whole buffer is sent.
MutantChunk == BufSize

\* The bytes send() is given; sendfile() is given the rest of the file.
Chunk == IF call.op = "send_file" THEN write_total_bytes - write_cursor
         ELSE Min({BufSize, write_total_bytes - write_cursor})

\* (A file has the bytes that send_file has counted.  At the end of one that has
\* become shorter sendfile() would send 0 bytes, again and again.)
SendSome ==
  /\ Sending(Sends \cup {"send_file"}) /\ peer # "rst"
  /\ \E k \in 1..Chunk :
       /\ wire' = wire \o [i \in 1..k |-> write_cursor + i - 1]
       /\ write_cursor' = (write_cursor + k) % Modulus
  /\ UNCHANGED <<read_cursor, read_total_bytes, write_total_bytes, already, scripts, todo, call,
                 ret, network, data, smooth, fails, conns>>

\* Mutant: a send that fails leaves the cursor, and is made again.
MutantSlipped == write_cursor

\* send_base keeps the result of send() in a size_t, where -1 is not <= 0:
\* the cursor moves by SIZE_MAX.
Slipped == (write_cursor + SIZE_MAX) % Modulus

SendFails ==
  /\ Sending(Sends) /\ Refused
  /\ write_cursor' = Slipped
  /\ UNCHANGED <<read_cursor, read_total_bytes, write_total_bytes, already, scripts, todo, call,
                 ret, network, data, wire, conns>>

\* sendfile() returns -1: send_file gives up, here and when it is called again.
SendFileFails ==
  /\ Sending({"send_file"}) /\ Refused
  /\ Return(FALSE)
  /\ UNCHANGED <<cursors, scripts, todo, network, data, wire, conns>>

\* send_base has no way to fail; send_file does not touch already.
SendEnd ==
  /\ call.op \in Sends \cup {"send_file"} /\ write_cursor >= write_total_bytes
  /\ Return(TRUE)
  /\ already' = (call.op \in Sends \/ already)
  /\ UNCHANGED <<read_cursor, read_total_bytes, write_cursor, write_total_bytes, scripts, todo,
                 network, data, wire, smooth, fails, conns>>

-----------------------------------------------------------------------------
\* The steps of a call that was begun.
Step == RecvSome \/ RecvEnd \/ RecvFileEnd \/ RecvFileWild
        \/ SendSome \/ SendFails \/ SendFileFails \/ SendEnd

Call == RecvAll \/ Recv \/ RecvWithHeader \/ RecvFile \/ BodyRead
        \/ Send \/ SendWithHeader \/ SendFile

Next == PeerSends \/ PeerLeaves \/ Call \/ Step \/ NextClient

Spec == Init /\ [][Next]_vars

\* The thread that makes a call is not stopped.
FairSpec == Spec /\ WF_vars(Step)

-----------------------------------------------------------------------------
(* Properties *)

\* The type invariant.  A cursor stays within its total, or has slipped below 0.
TypeOK ==
  /\ read_total_bytes \in 0..SIZE_MAX /\ write_total_bytes \in 0..SIZE_MAX
  /\ read_cursor \in 0..read_total_bytes \cup {SIZE_MAX}
  /\ write_cursor \in 0..write_total_bytes \cup {SIZE_MAX}
  /\ {already, ret, smooth} \subseteq BOOLEAN
  /\ call \in Command \cup {NoCall, Crash}
  /\ peer \in {"there", "fin", "rst"} /\ fails \in 0..MaxFails /\ conns \in 1..MaxConns
  /\ {data[i] : i \in DOMAIN data} \subseteq 0..Garbage

\* Whatever fails, and however often the object was used before, a send puts
\* no byte out before the bytes in front of it: what goes wrong with
\* write_cursor repeats bytes and never skips any.
NoGap ==
  \A i \in DOMAIN wire : wire[i] <= IF i = 1 THEN 0 ELSE wire[i - 1] + 1

\* A send during which no send() failed, however short it was cut, and that
\* returns true has put out each byte once, in order.
CleanSend ==
  [][call.op \in Sends \cup {"send_file"} /\ call' = NoCall /\ ret' /\ smooth
       => wire = [i \in 1..write_total_bytes |-> i - 1]]_vars

\* Reading a body takes nothing of the request that follows it, whatever the
\* receives before it returned.
BodyOnly == [][call.op = "recv" => Len(data') <= call.n]_vars

\* A send that returns true has sent the data, each byte once and in order.
SendWhole ==
  [][call.op \in Sends /\ call' = NoCall /\ ret'
       => wire = [i \in 1..write_total_bytes |-> i - 1]]_vars

\* A call does not go on for ever, on a socket whose peer is gone neither, if the
\* file that it sends stays as long as it was.
Ends == call # NoCall ~> call \in {NoCall, Crash}
=============================================================================
