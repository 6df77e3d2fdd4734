--------------------------- MODULE SocketIOProofs ---------------------------
(***************************************************************************)
(* Proofs about SocketIO, for every buffer size, every length of a         *)
(* transfer, every handler that begins with the read of a request, and any *)
(* number of failures and clients: the types, that no byte is skipped, that *)
(* a send during which no send() failed is whole, and that the read of a   *)
(* body takes nothing of what follows it.                                  *)
(***************************************************************************)
EXTENDS SocketIO, TLAPS, SequenceTheorems

-----------------------------------------------------------------------------
(* The inductive invariant *)

Byte == 0..(Base - 1)
Openers == {"recv_all", "recv_with_header"}
Puts == Sends \cup {"send_file"}

\* What TypeOK does not say of the sequences.
Typed ==
  /\ coming \in Seq(Byte) /\ avail \in Seq(Byte)
  /\ data \in Seq(0..Garbage) /\ wire \in Seq(Nat)
  /\ scripts \in Handlers /\ todo \in Seq(Command)

\* The bytes of a body that a receive has still to bring are those it counts.
BodyCounted ==
  call.op = "recv" =>
    /\ todo # <<>> /\ Head(todo) = call
    /\ already => /\ read_cursor <= read_total_bytes /\ read_total_bytes > 0
                  /\ Len(data) + (read_total_bytes - read_cursor) = call.n

\* The body is not complete and never will be.
Stuck(c) == ~already /\ Len(data) < c.n /\ avail = <<>> /\ peer # "there"

\* Only the read of a request goes on with the transfer of the client before:
\* whatever comes after it finds the last transfer completed, or it is the
\* read of a body for ever.
Completed ==
  /\ call = NoCall /\ ret /\ todo # <<>> /\ Head(todo).op \notin Openers =>
       already \/ (Head(todo).op = "recv" /\ Stuck(Head(todo)))
  /\ call.op \in Calls \ Openers => already \/ (call.op = "recv" /\ Stuck(call))

\* The position behind the last one on the wire.
Following(w) == IF w = <<>> THEN 0 ELSE w[Len(w)] + 1

\* While there is something to send the cursor is not ahead of the wire; as long
\* as nothing failed the wire has what is below the cursor.
SendSound ==
  call.op \in Puts =>
    /\ write_cursor < write_total_bytes => write_cursor <= Following(wire)
    /\ smooth => /\ write_cursor <= write_total_bytes
                 /\ wire = [i \in 1..write_cursor |-> i - 1]

IInv == TypeOK /\ Typed /\ BodyCounted /\ Completed /\ SendSound /\ NoGap

-----------------------------------------------------------------------------
(* Numbers *)

LEMMA Sizes ==
  /\ Base \in Nat /\ Base > 1 /\ BufSize \in Nat \ {0}
  /\ SIZE_MAX \in Nat /\ SIZE_MAX >= 3 /\ Modulus = SIZE_MAX + 1
<1>1. Base * Base \in Nat /\ Base * Base >= 4
  BY IOParameters
<1> QED BY <1>1, IOParameters DEF SIZE_MAX, Modulus

\* A size_t that -1 is added to, and one that does not overflow.
LEMMA Slips ==
  ASSUME NEW c \in 0..SIZE_MAX
  PROVE  /\ c % Modulus = c
         /\ (c + SIZE_MAX) % Modulus = IF c = 0 THEN SIZE_MAX ELSE c - 1
<1>1. ASSUME NEW m \in Nat \ {0}, NEW a \in 0..(m - 1) PROVE a % m = a
  OBVIOUS
<1>2. ASSUME NEW m \in Nat \ {0}, NEW a \in 1..(m - 1) PROVE (a + (m - 1)) % m = a - 1
  OBVIOUS
<1>3. CASE c = 0
  BY <1>1, <1>3, Sizes
<1>4. CASE c # 0
  <2>1. Modulus \in Nat \ {0} /\ c \in 1..(Modulus - 1) /\ SIZE_MAX = Modulus - 1
    BY <1>4, Sizes
  <2> QED BY <1>1, <1>2, <1>4, <2>1
<1> QED BY <1>3, <1>4

\* The lesser of two numbers.
LEMMA MinOfTwo ==
  ASSUME NEW a \in Int, NEW b \in Int
  PROVE  Min({a, b}) = IF a <= b THEN a ELSE b
BY DEF Min

\* A size that a header announces.
LEMMA HeaderFits ==
  ASSUME NEW low \in Byte, NEW high \in Byte
  PROVE  low + Base * high \in 0..SIZE_MAX
<1>1. ASSUME NEW b \in Nat, b > 1, NEW x \in 0..(b - 1), NEW y \in 0..(b - 1)
      PROVE  x + b * y \in 0..(b * b - 1)
  OBVIOUS
<1> QED BY <1>1, IOParameters DEF Byte, SIZE_MAX, Modulus

-----------------------------------------------------------------------------
(* Sequences *)

\* The first k elements of a sequence, and the rest.
LEMMA Cut ==
  ASSUME NEW S, NEW s \in Seq(S), NEW k \in 1..Len(s)
  PROVE  /\ SubSeq(s, 1, k) \in Seq(S) /\ Len(SubSeq(s, 1, k)) = k
         /\ SubSeq(s, k + 1, Len(s)) \in Seq(S)
<1>1. Len(s) \in Nat /\ \A i \in 1..Len(s) : s[i] \in S
  BY LenProperties, ElementOfSeq
<1>2. /\ SubSeq(s, 1, k) \in Seq(S)
      /\ Len(SubSeq(s, 1, k)) = k
  BY <1>1, SubSeqProperties
<1>3. SubSeq(s, k + 1, Len(s)) \in Seq(S)
  BY <1>1, SubSeqProperties
<1> QED BY <1>2, <1>3

\* What is appended to a sequence.
LEMMA Joined ==
  ASSUME NEW S, NEW s \in Seq(S), NEW t \in Seq(S)
  PROVE  s \o t \in Seq(S) /\ Len(s \o t) = Len(s) + Len(t)
BY ConcatProperties

LEMMA DataBytes ==
  ASSUME NEW d \in Seq(0..Garbage)
  PROVE  {d[i] : i \in DOMAIN d} \subseteq 0..Garbage
BY ElementOfSeq, LenProperties

\* The kinds of calls.
LEMMA CommandFacts ==
  /\ \A c \in Command : /\ c.op \in Calls /\ c.n \in 0..SIZE_MAX
                        /\ c # NoCall /\ c # Crash
                        /\ c.op = "send_with_header" => c.n < SIZE_MAX
  /\ NoCall.op \notin Calls /\ Crash.op \notin Calls /\ NoCall # Crash
BY DEF Command, Calls, Receives, Sends, NoCall, Crash

LEMMA TodoFacts ==
  ASSUME todo \in Seq(Command), todo # <<>>
  PROVE  Head(todo) \in Command /\ Tail(todo) \in Seq(Command)
BY HeadTailProperties

LEMMA ScriptFacts ==
  ASSUME NEW handler \in Handlers, NEW script \in handler
  PROVE  /\ script \in Seq(Command)
         /\ script # <<>> => Head(script).op \in Openers
BY HandlersAndPeers DEF Openers

-----------------------------------------------------------------------------
(* The initial states, the peer, and what makes no call *)

LEMMA InitInv == Init => IInv
<1> SUFFICES ASSUME Init PROVE IInv
  OBVIOUS
<1>1. Typed
  <2>1. <<>> \in Seq(Byte) /\ <<>> \in Seq(0..Garbage) /\ <<>> \in Seq(Nat)
    BY EmptySeq
  <2> QED BY <2>1, ScriptFacts, HandlersAndPeers DEF Init, Typed, Byte
<1>2. TypeOK
  <2>1. {data[i] : i \in DOMAIN data} \subseteq 0..Garbage
    BY <1>1, DataBytes DEF Typed
  <2> QED BY <2>1, Sizes, IOParameters DEF Init, TypeOK
<1>3. BodyCounted /\ Completed /\ SendSound /\ NoGap
  <2>1. todo # <<>> => Head(todo).op \in Openers
    BY ScriptFacts DEF Init
  <2> QED BY <2>1, CommandFacts
          DEF Init, BodyCounted, Completed, SendSound, NoGap, NoCall, Puts, Sends
<1> QED BY <1>1, <1>2, <1>3 DEF IInv

\* The peer changes nothing of the object, and does nothing once it has left.
LEMMA PeerInv ==
  ASSUME IInv, PeerSends \/ PeerLeaves
  PROVE  IInv'
<1>1. /\ UNCHANGED <<cursors, scripts, todo, call, ret, data, wire, smooth, fails, conns>>
      /\ peer = "there" /\ peer' \in {"there", "fin", "rst"}
  BY DEF PeerSends, PeerLeaves
<1>2. coming' \in Seq(Byte) /\ avail' \in Seq(Byte)
  <2>1. CASE PeerSends
    <3>1. PICK k \in 1..Len(coming) : /\ avail' = avail \o SubSeq(coming, 1, k)
                                     /\ coming' = SubSeq(coming, k + 1, Len(coming))
      BY <2>1 DEF PeerSends
    <3>2. SubSeq(coming, 1, k) \in Seq(Byte) /\ coming' \in Seq(Byte)
      BY <3>1, Cut DEF IInv, Typed
    <3> QED BY <3>1, <3>2, Joined DEF IInv, Typed
  <2>2. CASE PeerLeaves
    BY <2>2, EmptySeq DEF PeerLeaves, IInv, Typed
  <2> QED BY <2>1, <2>2
<1>3. Typed' /\ TypeOK'
  BY <1>1, <1>2 DEF IInv, Typed, TypeOK, cursors
<1>4. BodyCounted' /\ SendSound' /\ NoGap'
  BY <1>1 DEF IInv, BodyCounted, SendSound, NoGap, cursors
<1>5. Completed'
  BY <1>1 DEF IInv, Completed, Stuck, cursors
<1> QED BY <1>3, <1>4, <1>5 DEF IInv

LEMMA BodyReadInv ==
  ASSUME IInv, BodyRead
  PROVE  IInv'
<1>1. /\ call = NoCall /\ ret /\ todo # <<>> /\ Head(todo).op = "recv"
      /\ Len(data) >= Head(todo).n /\ todo' = Tail(todo)
      /\ UNCHANGED <<cursors, scripts, call, ret, network, data, wire, smooth, fails, conns>>
  BY DEF BodyRead, BodyLoop, Idle
<1>2. Head(todo) \in Command /\ todo' \in Seq(Command) /\ Len(data) \in Nat
  BY <1>1, TodoFacts, LenProperties DEF IInv, Typed
<1>3. already
  BY <1>1, <1>2, CommandFacts, Sizes DEF IInv, Completed, Stuck, Openers
<1>4. Typed' /\ TypeOK'
  BY <1>1, <1>2 DEF IInv, Typed, TypeOK, cursors, network
<1>5. BodyCounted' /\ Completed' /\ SendSound' /\ NoGap'
  BY <1>1, <1>3 DEF IInv, BodyCounted, Completed, SendSound, NoGap, NoCall, Puts, Sends,
                    Calls, Receives, cursors
<1> QED BY <1>4, <1>5 DEF IInv

LEMMA NextClientInv ==
  ASSUME IInv, NextClient
  PROVE  IInv'
<1>1. /\ call = NoCall /\ ret' = TRUE /\ data' = <<>> /\ wire' = <<>> /\ smooth' = TRUE
      /\ todo' \in scripts /\ conns < MaxConns /\ conns' = conns + 1
      /\ coming' \in Streams /\ avail' = <<>> /\ peer' = "there"
      /\ UNCHANGED <<cursors, scripts, call, fails>>
  BY DEF NextClient
<1>2. /\ todo' \in Seq(Command)
      /\ todo' # <<>> => Head(todo').op \in Openers
      /\ coming' \in Seq(Byte) /\ avail' \in Seq(Byte)
      /\ data' \in Seq(0..Garbage) /\ wire' \in Seq(Nat)
  BY <1>1, ScriptFacts, HandlersAndPeers, EmptySeq DEF IInv, Typed, Byte
<1>3. Typed'
  BY <1>1, <1>2 DEF IInv, Typed
<1>4. TypeOK'
  <2>1. {data'[i] : i \in DOMAIN data'} \subseteq 0..Garbage
    BY <1>2, DataBytes
  <2> QED BY <1>1, <2>1, IOParameters DEF IInv, TypeOK, cursors
<1>5. BodyCounted' /\ Completed' /\ SendSound' /\ NoGap'
  BY <1>1, <1>2 DEF BodyCounted, Completed, SendSound, NoGap, NoCall, Puts, Sends,
                    Calls, Receives
<1> QED BY <1>3, <1>4, <1>5 DEF IInv

-----------------------------------------------------------------------------
(* The begin of a call *)

\* What a call that begins finds: it is the read of a request, or the transfer
\* before it is complete.
LEMMA Begins ==
  ASSUME IInv, Idle, todo # <<>>
  PROVE  /\ Head(todo) \in Command /\ Head(todo).op \in Calls
         /\ Head(todo).n \in 0..SIZE_MAX
         /\ Head(todo) # NoCall /\ Head(todo) # Crash
         /\ Tail(todo) \in Seq(Command) /\ call = NoCall /\ ret
         /\ Head(todo).op \notin Openers \cup {"recv"} => already
<1>1. Head(todo) \in Command /\ Tail(todo) \in Seq(Command)
  BY TodoFacts DEF IInv, Typed
<1>2. Head(todo).op \notin Openers \cup {"recv"} => already
  BY DEF IInv, Completed, Idle
<1> QED BY <1>1, <1>2, CommandFacts DEF Idle

\* A call other than recv() that begins, or that fails at once.
LEMMA BeginInv ==
  ASSUME IInv, Idle, todo # <<>>, Head(todo).op # "recv", TypeOK', avail' \in Seq(Byte),
         todo' = Tail(todo), data' = <<>>, wire' = <<>>,
         call' = Head(todo) \/ (call' = NoCall /\ ~ret'),
         UNCHANGED <<already, scripts, coming>>,
         call' = Head(todo) /\ Head(todo).op \in Puts =>
           smooth' /\ (already => write_cursor' = 0)
  PROVE  IInv'
<1>1. /\ Head(todo) \in Command /\ Tail(todo) \in Seq(Command) /\ Head(todo).op \in Calls
      /\ Head(todo).op \notin Openers \cup {"recv"} => already
  BY Begins
<1>2. Typed'
  BY <1>1, EmptySeq DEF IInv, Typed
<1>3. BodyCounted' /\ Completed'
  BY <1>1, CommandFacts DEF BodyCounted, Completed, NoCall
<1>4. SendSound' /\ NoGap'
  <2>1. call'.op \in Puts => call' = Head(todo) /\ already
    BY <1>1 DEF NoCall, Puts, Sends, Openers
  <2>2. write_total_bytes' \in Nat
    BY Sizes DEF TypeOK
  <2>3. wire' = [i \in 1..0 |-> i - 1]
    OBVIOUS
  <2> QED BY <2>1, <2>2, <2>3 DEF SendSound, NoGap, Following
<1> QED BY <1>2, <1>3, <1>4 DEF IInv

\* The types of a call that begins.
LEMMA BeginTypes ==
  ASSUME IInv, Idle, todo # <<>>, data' = <<>>, smooth' \in BOOLEAN,
         call' = Head(todo) \/ call' = NoCall, ret' \in BOOLEAN,
         read_total_bytes' \in 0..SIZE_MAX, write_total_bytes' \in 0..SIZE_MAX,
         read_cursor' \in 0..read_total_bytes' \cup {SIZE_MAX},
         write_cursor' \in 0..write_total_bytes' \cup {SIZE_MAX},
         fails' \in 0..MaxFails, UNCHANGED <<already, peer, conns>>
  PROVE  TypeOK'
<1>1. {data'[i] : i \in DOMAIN data'} \subseteq 0..Garbage
  OBVIOUS
<1> QED BY <1>1, Begins DEF IInv, TypeOK

LEMMA ReadTotalsTypes ==
  ASSUME IInv, NEW n \in 0..SIZE_MAX, ReadTotals(n)
  PROVE  /\ read_total_bytes' \in 0..SIZE_MAX
         /\ read_cursor' \in 0..read_total_bytes' \cup {SIZE_MAX}
BY Sizes DEF ReadTotals, IInv, TypeOK

LEMMA WriteTotalsTypes ==
  ASSUME IInv, NEW n \in 0..SIZE_MAX, WriteTotals(n)
  PROVE  /\ write_total_bytes' \in 0..SIZE_MAX
         /\ write_cursor' \in 0..write_total_bytes' \cup {SIZE_MAX}
         /\ already => write_cursor' = 0
BY Sizes DEF WriteTotals, IInv, TypeOK

LEMMA RecvAllInv ==
  ASSUME IInv, RecvAll
  PROVE  IInv'
<1>1. /\ Idle /\ todo # <<>> /\ Head(todo).op = "recv_all" /\ call' = Head(todo)
      /\ todo' = Tail(todo) /\ data' = <<>> /\ wire' = <<>> /\ smooth' = TRUE
      /\ ReadTotals(SIZE_MAX)
      /\ UNCHANGED <<write_cursor, write_total_bytes, already, scripts, ret, network, fails, conns>>
  BY DEF RecvAll, Enter
<1>2. TypeOK'
  BY <1>1, Sizes, ReadTotalsTypes, BeginTypes DEF IInv, TypeOK, network
<1> QED BY <1>1, <1>2, BeginInv DEF IInv, Typed, network, Puts, Sends

LEMMA RecvFileInv ==
  ASSUME IInv, RecvFile
  PROVE  IInv'
<1>1. /\ Idle /\ todo # <<>> /\ Head(todo).op = "recv_file" /\ call' = Head(todo)
      /\ todo' = Tail(todo) /\ data' = <<>> /\ wire' = <<>> /\ smooth' = TRUE
      /\ read_cursor' = 0 /\ read_total_bytes' = Head(todo).n
      /\ UNCHANGED <<write_cursor, write_total_bytes, already, scripts, ret, network, fails, conns>>
  BY DEF RecvFile, Enter
<1>2. TypeOK'
  BY <1>1, Sizes, Begins, BeginTypes DEF IInv, TypeOK, network
<1> QED BY <1>1, <1>2, BeginInv DEF IInv, Typed, network, Puts, Sends

LEMMA RecvWithHeaderInv ==
  ASSUME IInv, RecvWithHeader
  PROVE  IInv'
<1>1. /\ Idle /\ todo # <<>> /\ Head(todo).op = "recv_with_header"
      /\ todo' = Tail(todo) /\ data' = <<>> /\ wire' = <<>> /\ smooth' = TRUE
      /\ \/ call' = Head(todo) /\ ret' = ret
         \/ call' = NoCall /\ ret' = FALSE
      /\ UNCHANGED <<write_cursor, write_total_bytes, already, scripts, coming, peer, fails, conns>>
  BY DEF RecvWithHeader, Enter, Return
<1>2. /\ avail' \in Seq(Byte) /\ read_total_bytes' \in 0..SIZE_MAX
      /\ read_cursor' \in 0..read_total_bytes' \cup {SIZE_MAX}
  <2>1. CASE UNCHANGED <<read_total_bytes, read_cursor, avail>>
    BY <2>1 DEF IInv, Typed, TypeOK
  <2>2. CASE /\ avail # <<>>
             /\ ReadTotals(avail[1] + (IF Len(avail) > 1 THEN Base * avail[2] ELSE 0))
             /\ avail' = SubSeq(avail, 3, Len(avail))
    <3>1. /\ Len(avail) \in Nat \ {0} /\ avail[1] \in Byte
          /\ Len(avail) > 1 => avail[2] \in Byte
      BY <2>2, EmptySeq, LenProperties, ElementOfSeq DEF IInv, Typed
    <3>2. 0 \in Byte /\ Base * 0 = 0 /\ \A b \in Byte : b \in Nat
      BY Sizes DEF Byte
    <3>3. avail[1] + (IF Len(avail) > 1 THEN Base * avail[2] ELSE 0) \in 0..SIZE_MAX
      <4>1. CASE Len(avail) > 1
        BY <3>1, <4>1, HeaderFits
      <4>2. CASE ~(Len(avail) > 1)
        <5>1. avail[1] + Base * 0 \in 0..SIZE_MAX
          BY <3>1, <3>2, HeaderFits
        <5> QED BY <3>2, <4>2, <5>1
      <4> QED BY <4>1, <4>2
    <3>4. avail' \in Seq(Byte)
      BY <2>2, <3>1, SubSeqProperties, ElementOfSeq DEF IInv, Typed
    <3> QED BY <2>2, <3>3, <3>4, ReadTotalsTypes
  <2> QED BY <2>1, <2>2 DEF RecvWithHeader
<1>3. TypeOK'
  BY <1>1, <1>2, BeginTypes DEF IInv, TypeOK
<1> QED BY <1>1, <1>2, <1>3, BeginInv DEF Puts, Sends

LEMMA SendInv ==
  ASSUME IInv, Send
  PROVE  IInv'
<1>1. /\ Idle /\ todo # <<>> /\ Head(todo).op = "send" /\ WriteTotals(Head(todo).n)
      /\ todo' = Tail(todo) /\ data' = <<>> /\ wire' = <<>> /\ smooth' = TRUE
      /\ \/ call' = Head(todo) /\ ret' = ret
         \/ call' = NoCall /\ ret' = FALSE
      /\ UNCHANGED <<read_cursor, read_total_bytes, already, scripts, network, fails, conns>>
  BY DEF Send, Enter, Return
<1>2. /\ write_total_bytes' \in 0..SIZE_MAX
      /\ write_cursor' \in 0..write_total_bytes' \cup {SIZE_MAX}
      /\ already => write_cursor' = 0
  BY <1>1, Begins, Sizes, WriteTotalsTypes
<1>3. TypeOK'
  BY <1>1, <1>2, BeginTypes DEF IInv, TypeOK, network
<1> QED BY <1>1, <1>2, <1>3, BeginInv DEF IInv, Typed, network

LEMMA SendWithHeaderInv ==
  ASSUME IInv, SendWithHeader
  PROVE  IInv'
<1>1. /\ Idle /\ todo # <<>> /\ Head(todo).op = "send_with_header" /\ WriteTotals(Head(todo).n + 1)
      /\ todo' = Tail(todo) /\ data' = <<>> /\ wire' = <<>>
      /\ \/ call' = Head(todo) /\ ret' = ret /\ smooth' = TRUE
         \/ call' = NoCall /\ ret' = FALSE /\ smooth' \in BOOLEAN
      /\ fails' = fails \/ (fails < MaxFails /\ fails' = fails + 1)
      /\ UNCHANGED <<read_cursor, read_total_bytes, already, scripts, network, conns>>
  BY DEF SendWithHeader, Return, Refused
<1>2. /\ write_total_bytes' \in 0..SIZE_MAX
      /\ write_cursor' \in 0..write_total_bytes' \cup {SIZE_MAX}
      /\ already => write_cursor' = 0
  <2>1. Head(todo).n \in 0..SIZE_MAX /\ Head(todo).n < SIZE_MAX
    BY <1>1, Begins, CommandFacts
  <2>2. Head(todo).n + 1 \in 0..SIZE_MAX
    BY <2>1, Sizes
  <2> QED BY <1>1, <2>2, Begins, Sizes, WriteTotalsTypes
<1>3. fails' \in 0..MaxFails
  BY <1>1, IOParameters DEF IInv, TypeOK
<1>4. TypeOK'
  BY <1>1, <1>2, <1>3, BeginTypes DEF IInv, TypeOK, network
<1>5. avail' \in Seq(Byte) /\ coming' = coming
  BY <1>1 DEF IInv, Typed, network
<1>6. call' = Head(todo) => smooth'
  BY <1>1, Begins
<1> QED BY <1>1, <1>2, <1>4, <1>5, <1>6, BeginInv

LEMMA SendFileInv ==
  ASSUME IInv, SendFile
  PROVE  IInv'
<1>1. /\ Idle /\ todo # <<>> /\ Head(todo).op = "send_file" /\ call' = Head(todo)
      /\ todo' = Tail(todo) /\ data' = <<>> /\ wire' = <<>> /\ smooth' = TRUE
      /\ write_total_bytes' = Head(todo).n /\ write_cursor' = 0
      /\ UNCHANGED <<read_cursor, read_total_bytes, already, scripts, ret, network, fails, conns>>
  BY DEF SendFile, Enter
<1>2. TypeOK'
  BY <1>1, Sizes, Begins, BeginTypes DEF IInv, TypeOK, network
<1> QED BY <1>1, <1>2, BeginInv DEF IInv, Typed, network

\* recv() on a body takes over what the string has.
LEMMA RecvInv ==
  ASSUME IInv, Recv
  PROVE  IInv'
<1>1. /\ Idle /\ todo # <<>> /\ Head(todo).op = "recv" /\ Len(data) < Head(todo).n
      /\ call' = Head(todo) /\ ReadTotals(Head(todo).n - Len(data))
      /\ UNCHANGED <<write_cursor, write_total_bytes, already, scripts, todo, ret, network,
                     data, wire, smooth, fails, conns>>
  BY DEF Recv, BodyLoop
<1>2. /\ Head(todo) \in Command /\ Head(todo).n \in 0..SIZE_MAX /\ Len(data) \in Nat
      /\ call = NoCall /\ ret
  BY <1>1, Begins, LenProperties DEF IInv, Typed
<1>3. Head(todo).n - Len(data) \in 0..SIZE_MAX
  BY <1>1, <1>2, Sizes
<1>4. /\ read_total_bytes' \in 0..SIZE_MAX
      /\ read_cursor' \in 0..read_total_bytes' \cup {SIZE_MAX}
  BY <1>1, <1>3, ReadTotalsTypes
<1>5. Typed'
  BY <1>1 DEF IInv, Typed, network
<1>6. TypeOK'
  <2>1. {data'[i] : i \in DOMAIN data'} \subseteq 0..Garbage
    BY <1>1 DEF IInv, TypeOK
  <2> QED BY <1>1, <1>2, <1>4, <2>1 DEF IInv, TypeOK, network
<1>7. BodyCounted'
  BY <1>1, <1>2, Sizes DEF BodyCounted, ReadTotals
<1>8. Completed'
  BY <1>1, <1>2, CommandFacts DEF IInv, Completed, Stuck, network, Openers
<1>9. SendSound' /\ NoGap'
  BY <1>1 DEF IInv, SendSound, NoGap, Puts, Sends
<1> QED BY <1>5, <1>6, <1>7, <1>8, <1>9 DEF IInv

-----------------------------------------------------------------------------
(* Receiving *)

\* The bytes that recv() brings at once.
LEMMA Taken ==
  ASSUME NEW a \in Nat \ {0}, read_total_bytes \in Nat, read_cursor \in Nat,
         read_cursor < read_total_bytes
  PROVE  Min({Wanted, a}) \in 1..a /\ Min({Wanted, a}) <= read_total_bytes - read_cursor
<1>1. Wanted \in Nat \ {0} /\ Wanted <= read_total_bytes - read_cursor
  BY Sizes, MinOfTwo DEF Wanted
<1> QED BY <1>1, MinOfTwo

LEMMA RecvSomeInv ==
  ASSUME IInv, RecvSome
  PROVE  IInv'
<1>1. /\ call.op \in Receives \cup {"recv_file"} /\ read_cursor < read_total_bytes /\ avail # <<>>
      /\ UNCHANGED <<read_total_bytes, write_cursor, write_total_bytes, already, scripts, todo,
                     call, ret, coming, peer, wire, smooth, fails, conns>>
  BY DEF RecvSome, Receiving
<1> DEFINE k == Min({Wanted, Len(avail)})
<1>2. /\ read_total_bytes \in 0..SIZE_MAX /\ read_cursor \in 0..SIZE_MAX
      /\ Len(avail) \in Nat \ {0} /\ Len(data) \in Nat
  BY <1>1, Sizes, LenProperties, EmptySeq DEF IInv, TypeOK, Typed
<1>3. k \in 1..Len(avail) /\ k <= read_total_bytes - read_cursor
  BY <1>1, <1>2, Sizes, Taken
<1>4. /\ data' = data \o SubSeq(avail, 1, k) /\ avail' = SubSeq(avail, k + 1, Len(avail))
      /\ read_cursor' = read_cursor + k
  BY DEF RecvSome
<1> HIDE DEF k
<1>5. /\ SubSeq(avail, 1, k) \in Seq(Byte) /\ Len(SubSeq(avail, 1, k)) = k
      /\ avail' \in Seq(Byte)
  BY <1>3, <1>4, Cut DEF IInv, Typed
<1>6. data' \in Seq(0..Garbage) /\ Len(data') = Len(data) + k
  <2>1. SubSeq(avail, 1, k) \in Seq(0..Garbage)
    <3>1. Byte \subseteq 0..Garbage
      BY Sizes DEF Byte, Garbage
    <3> QED BY <1>5, <3>1, SeqMonotonic
  <2> QED BY <1>4, <1>5, <2>1, Joined DEF IInv, Typed
<1>7. Typed'
  BY <1>1, <1>5, <1>6 DEF IInv, Typed
<1>8. TypeOK'
  <2>1. read_cursor' \in 0..read_total_bytes'
    BY <1>1, <1>2, <1>3, <1>4
  <2>2. {data'[i] : i \in DOMAIN data'} \subseteq 0..Garbage
    BY <1>6, DataBytes
  <2> QED BY <1>1, <2>1, <2>2 DEF IInv, TypeOK
<1>9. BodyCounted'
  BY <1>1, <1>2, <1>3, <1>4, <1>6 DEF IInv, BodyCounted
<1>10. Completed'
  BY <1>1 DEF IInv, Completed, Stuck, NoCall, Receives
<1>11. SendSound' /\ NoGap'
  BY <1>1 DEF IInv, SendSound, NoGap
<1> QED BY <1>7, <1>8, <1>9, <1>10, <1>11 DEF IInv

\* A receive that fails was the read of a request, or is the read of a body
\* that never comes.
LEMMA RecvEndInv ==
  ASSUME IInv, RecvEnd
  PROVE  IInv'
<1>1. PICK r \in RecvResults : already' = r /\ Return(r \/ call.op = "recv")
  BY DEF RecvEnd
<1>2. /\ call.op \in Receives /\ call' = NoCall
      /\ UNCHANGED <<read_cursor, read_total_bytes, write_cursor, write_total_bytes, scripts,
                     todo, network, data, wire, smooth, fails, conns>>
  BY <1>1 DEF RecvEnd, Return
<1>0. NothingRead \subseteq BOOLEAN /\ (peer = "there" => NothingRead = {TRUE})
  BY DEF NothingRead, IInv, TypeOK
<1>3. r \in BOOLEAN /\ ret' = (r \/ call.op = "recv")
  BY <1>0, <1>1 DEF RecvResults, Return
<1>4. ~r /\ call.op = "recv" =>
        Len(data) < call.n /\ avail = <<>> /\ peer # "there" /\ Head(todo) = call
  <2> SUFFICES ASSUME ~r, call.op = "recv"
               PROVE  Len(data) < call.n /\ avail = <<>> /\ peer # "there" /\ Head(todo) = call
    OBVIOUS
  <2>1. Head(todo) = call
    BY DEF IInv, BodyCounted
  <2>2. CASE ~already
    BY <2>1, <2>2 DEF IInv, Completed, Stuck, Calls, Receives, Openers
  <2>3. CASE already
    <3>1. /\ read_cursor <= read_total_bytes /\ read_total_bytes > 0
          /\ Len(data) + (read_total_bytes - read_cursor) = call.n
      BY <2>3 DEF IInv, BodyCounted
    <3>2. Receiving(Receives) /\ avail = <<>> /\ peer # "there"
      <4>1. r = FALSE /\ read_total_bytes # 0
        BY <1>3, <3>1 DEF IInv, TypeOK
      <4>2. /\ r \in IF ~Receiving(Receives) THEN {TRUE}
                      ELSE IF avail = <<>> THEN NothingRead ELSE {}
        BY <1>1, <4>1, Zenon DEF RecvResults
      <4> QED BY <1>0, <4>1, <4>2
    <3>3. /\ read_cursor < read_total_bytes /\ Len(data) \in Nat
          /\ read_total_bytes \in Nat /\ read_cursor \in Nat
      BY <3>2, Sizes, LenProperties DEF Receiving, IInv, TypeOK, Typed
    <3> QED BY <2>1, <3>1, <3>2, <3>3
  <2> QED BY <2>2, <2>3
<1>5. Typed' /\ TypeOK'
  BY <1>1, <1>2, <1>3 DEF IInv, Typed, TypeOK, network
<1>6. BodyCounted' /\ SendSound' /\ NoGap'
  BY <1>2 DEF IInv, BodyCounted, SendSound, NoGap, NoCall, Puts, Sends
<1>7. Completed'
  BY <1>1, <1>2, <1>3, <1>4 DEF Completed, Stuck, NoCall, Calls, Receives, Sends, network
<1> QED BY <1>5, <1>6, <1>7 DEF IInv

LEMMA RecvFileEndInv ==
  ASSUME IInv, RecvFileEnd
  PROVE  IInv'
<1>1. /\ call.op = "recv_file" /\ call' = NoCall /\ ret' \in BOOLEAN
      /\ UNCHANGED <<cursors, scripts, todo, network, data, wire, smooth, fails, conns>>
  BY DEF RecvFileEnd, Return, NothingRead
<1>2. already
  BY <1>1 DEF IInv, Completed, Calls, Openers
<1>3. Typed' /\ TypeOK'
  BY <1>1 DEF IInv, Typed, TypeOK, network, cursors
<1>4. BodyCounted' /\ Completed' /\ SendSound' /\ NoGap'
  BY <1>1, <1>2 DEF IInv, BodyCounted, Completed, SendSound, NoGap, NoCall, Puts, Sends,
                    Calls, Receives, cursors
<1> QED BY <1>3, <1>4 DEF IInv

LEMMA RecvFileWildInv ==
  ASSUME IInv, RecvFileWild
  PROVE  IInv'
<1>1. /\ call.op = "recv_file" /\ read_cursor < read_total_bytes
      /\ \/ call' = Crash /\ UNCHANGED <<data, read_cursor>>
         \/ /\ data' = Append(data, Garbage) /\ call' = call
            /\ read_cursor' = (read_cursor + SIZE_MAX) % Modulus
      /\ UNCHANGED <<read_total_bytes, write_cursor, write_total_bytes, already, scripts, todo,
                     ret, network, wire, smooth, fails, conns>>
  BY DEF RecvFileWild, Receiving
<1>2. /\ read_total_bytes \in 0..SIZE_MAX /\ read_cursor \in 0..SIZE_MAX
  BY Sizes DEF IInv, TypeOK
<1>3. read_cursor' \in 0..read_total_bytes' \cup {SIZE_MAX}
  <2>1. CASE UNCHANGED read_cursor
    BY <1>1, <2>1 DEF IInv, TypeOK
  <2>2. CASE read_cursor' = (read_cursor + SIZE_MAX) % Modulus
    <3>1. read_cursor' = IF read_cursor = 0 THEN SIZE_MAX ELSE read_cursor - 1
      BY <1>2, <2>2, Slips
    <3> QED BY <1>1, <1>2, <3>1
  <2> QED BY <1>1, <2>1, <2>2
<1>4. data' \in Seq(0..Garbage)
  <2>1. Garbage \in 0..Garbage /\ data \in Seq(0..Garbage)
    BY Sizes DEF Garbage, IInv, Typed
  <2>2. Append(data, Garbage) \in Seq(0..Garbage)
    BY <2>1, AppendProperties
  <2> QED BY <1>1, <2>1, <2>2
<1>5. Typed'
  BY <1>1, <1>4 DEF IInv, Typed, network
<1>6. TypeOK'
  <2>1. {data'[i] : i \in DOMAIN data'} \subseteq 0..Garbage
    BY <1>4, DataBytes
  <2> QED BY <1>1, <1>3, <2>1 DEF IInv, TypeOK, network
<1>7. BodyCounted' /\ Completed' /\ SendSound' /\ NoGap'
  BY <1>1 DEF IInv, BodyCounted, Completed, SendSound, NoGap, NoCall, Crash, Puts, Sends,
              Calls, Receives
<1> QED BY <1>5, <1>6, <1>7 DEF IInv

-----------------------------------------------------------------------------
(* Sending *)

\* Of a send that is under way.
LEMMA SendingFacts ==
  ASSUME IInv, call.op \in Puts
  PROVE  /\ already /\ call \in Command /\ call # NoCall /\ call.op \notin Openers
         /\ call.op # "recv" /\ call.op \in Calls
         /\ write_total_bytes \in 0..SIZE_MAX /\ write_cursor \in 0..SIZE_MAX
         /\ Len(wire) \in Nat /\ wire \in Seq(Nat)
<1>1. /\ call.op \in Calls /\ call.op \notin Openers /\ call.op # "recv"
      /\ call # NoCall /\ call # Crash
  BY DEF Puts, Sends, Calls, Openers, NoCall, Crash
<1>2. /\ call \in Command
      /\ write_total_bytes \in 0..SIZE_MAX /\ write_cursor \in 0..SIZE_MAX
  BY <1>1, Sizes DEF IInv, TypeOK
<1>3. Len(wire) \in Nat /\ wire \in Seq(Nat)
  BY LenProperties DEF IInv, Typed
<1> QED BY <1>1, <1>2, <1>3 DEF IInv, Completed

\* No position is skipped; the k positions from c on; those below c.
NoSkip(w) == \A i \in DOMAIN w : w[i] <= IF i = 1 THEN 0 ELSE w[i - 1] + 1
Positions(c, k) == [i \in 1..k |-> c + i - 1]
Whole(c) == [i \in 1..c |-> i - 1]

\* The elements of what is appended to a sequence.
LEMMA Glued ==
  ASSUME NEW w \in Seq(Nat), NEW t \in Seq(Nat), NEW v, v = w \o t
  PROVE  /\ v \in Seq(Nat) /\ Len(v) = Len(w) + Len(t)
         /\ \A i \in 1..(Len(w) + Len(t)) : v[i] = IF i <= Len(w) THEN w[i] ELSE t[i - Len(w)]
BY ConcatProperties

\* v is the wire w with the k bytes from position c on.
Sent(w, c, k, v) ==
  /\ w \in Seq(Nat) /\ c \in Nat /\ k \in Nat \ {0}
  /\ c <= Following(w) /\ NoSkip(w) /\ v = w \o Positions(c, k)

\* What the k bytes from position c on do to a wire that has come so far.
LEMMA Extends ==
  ASSUME NEW w, NEW c, NEW k, NEW v, Sent(w, c, k, v)
  PROVE  /\ v \in Seq(Nat) /\ Following(v) = c + k /\ NoSkip(v)
         /\ w = Whole(c) => v = Whole(c + k)
<1>1. w \in Seq(Nat) /\ c \in Nat /\ k \in Nat \ {0}
  BY DEF Sent
<1>2. PICK t : t = Positions(c, k)
  OBVIOUS
<1>3. t \in Seq(Nat) /\ Len(t) = k /\ \A i \in 1..k : t[i] = c + i - 1
  <2>1. \A i \in 1..k : c + i - 1 \in Nat
    BY <1>1
  <2> QED BY <1>1, <1>2, <2>1, IsASeq DEF Positions
<1>4. /\ v \in Seq(Nat) /\ Len(v) = Len(w) + k
      /\ \A i \in 1..(Len(w) + k) : v[i] = IF i <= Len(w) THEN w[i] ELSE t[i - Len(w)]
  <2>1. v = w \o t
    BY <1>2 DEF Sent
  <2> QED BY <1>1, <1>3, <2>1, Glued
<1>5. PICK n : n = Len(w)
  OBVIOUS
<1>6. n \in Nat /\ DOMAIN w = 1..n /\ DOMAIN v = 1..(n + k) /\ Len(v) = n + k
  BY <1>1, <1>4, <1>5, LenProperties
<1>7. ASSUME NEW i \in 1..n PROVE v[i] = w[i]
  <2>1. i \in 1..(n + k) /\ i <= n
    BY <1>1, <1>6
  <2> QED BY <1>4, <1>5, <2>1
<1>8. ASSUME NEW i \in (n + 1)..(n + k) PROVE v[i] = c + (i - n) - 1
  <2>1. i \in 1..(n + k) /\ ~(i <= n) /\ i - n \in 1..k
    BY <1>1, <1>6
  <2> QED BY <1>3, <1>4, <1>5, <2>1
<1>9. Following(v) = c + k
  <2>1. n + k \in (n + 1)..(n + k) /\ (n + k) - n = k /\ n + k # 0
    BY <1>1, <1>6
  <2>2. v[Len(v)] = c + k - 1 /\ v # <<>>
    BY <1>6, <1>8, <2>1, EmptySeq
  <2> QED BY <1>1, <2>2 DEF Following
<1>10. ASSUME NEW i \in DOMAIN v PROVE v[i] <= IF i = 1 THEN 0 ELSE v[i - 1] + 1
  <2>1. i \in 1..n \/ i = n + 1 \/ i \in (n + 2)..(n + k)
    BY <1>1, <1>6
  <2>2. CASE i \in 1..n
    <3>1. i # 1 => i - 1 \in 1..n
      BY <1>6, <2>2
    <3>2. v[i] = w[i] /\ (i # 1 => v[i - 1] = w[i - 1])
      BY <1>7, <2>2, <3>1
    <3> QED BY <1>6, <2>2, <3>2 DEF Sent, NoSkip
  <2>3. CASE i = n + 1
    <3>1. i \in (n + 1)..(n + k) /\ c + (i - n) - 1 = c /\ i - 1 = n
      BY <1>1, <1>6, <2>3
    <3>2. v[i] = c
      BY <1>8, <3>1
    <3>3. CASE n = 0
      <4>1. c <= 0
        BY <1>1, <1>5, <3>3, EmptySeq DEF Sent, Following
      <4> QED BY <2>3, <3>2, <3>3, <4>1
    <3>4. CASE n # 0
      <4>1. i # 1 /\ n \in 1..n
        BY <1>6, <2>3, <3>4
      <4>2. v[i - 1] = w[n]
        BY <1>7, <3>1, <4>1
      <4>3. c <= w[n] + 1
        BY <1>5, <3>4, EmptySeq DEF Sent, Following
      <4> QED BY <3>2, <4>1, <4>2, <4>3
    <3> QED BY <3>3, <3>4
  <2>4. CASE i \in (n + 2)..(n + k)
    <3>1. i \in (n + 1)..(n + k) /\ i - 1 \in (n + 1)..(n + k) /\ i # 1
      BY <1>1, <1>6, <2>4
    <3>2. v[i] = c + (i - n) - 1 /\ v[i - 1] = c + (i - 1 - n) - 1
      BY <1>8, <3>1
    <3> QED BY <1>1, <1>6, <2>4, <3>1, <3>2
  <2> QED BY <2>1, <2>2, <2>3, <2>4
<1>11. ASSUME w = Whole(c) PROVE v = Whole(c + k)
  <2>1. DOMAIN w = 1..c /\ \A i \in 1..c : w[i] = i - 1
    BY <1>11 DEF Whole
  <2>2. n = c
    <3>1. n <= c /\ c <= n
      BY <1>1, <1>6, <2>1
    <3> QED BY <1>1, <1>6, <3>1
  <2>3. ASSUME NEW i \in 1..(c + k) PROVE v[i] = i - 1
    <3>1. i \in 1..c \/ i \in (c + 1)..(c + k)
      BY <1>1
    <3>2. CASE i \in 1..c
      BY <1>7, <2>1, <2>2, <3>2
    <3>3. CASE i \in (c + 1)..(c + k)
      <4>1. v[i] = c + (i - c) - 1
        BY <1>8, <2>2, <3>3
      <4> QED BY <1>1, <4>1
    <3> QED BY <3>1, <3>2, <3>3
  <2>4. DOMAIN v = 1..(c + k) /\ v = [i \in DOMAIN v |-> v[i]]
    BY <1>4, <1>6, <2>2, LenProperties
  <2> QED BY <2>3, <2>4 DEF Whole
<1>12. NoSkip(v)
  BY <1>10 DEF NoSkip
<1> QED BY <1>4, <1>9, <1>11, <1>12

LEMMA SendSomeInv ==
  ASSUME IInv, SendSome
  PROVE  IInv'
<1>1. /\ call.op \in Puts /\ write_cursor < write_total_bytes
      /\ UNCHANGED <<read_cursor, read_total_bytes, write_total_bytes, already, scripts, todo,
                     call, ret, network, data, smooth, fails, conns>>
  BY DEF SendSome, Sending, Puts
<1>2. PICK k \in 1..Chunk : /\ wire' = wire \o [i \in 1..k |-> write_cursor + i - 1]
                            /\ write_cursor' = (write_cursor + k) % Modulus
  BY DEF SendSome
<1>3. k \in Nat \ {0} /\ write_cursor + k <= write_total_bytes
  <2>1. Chunk \in Nat /\ Chunk <= write_total_bytes - write_cursor
    BY <1>1, SendingFacts, Sizes, MinOfTwo DEF Chunk
  <2> QED BY <1>1, <2>1, SendingFacts
<1>4. write_cursor' = write_cursor + k
  <2>1. write_cursor + k \in 0..SIZE_MAX
    BY <1>1, <1>3, SendingFacts, Sizes
  <2> QED BY <1>2, <2>1, Slips
<1>5. /\ wire' \in Seq(Nat) /\ Following(wire') = write_cursor' /\ NoGap'
      /\ wire = Whole(write_cursor) => wire' = Whole(write_cursor')
  <2>1. write_cursor <= Following(wire) /\ wire \in Seq(Nat) /\ write_cursor \in Nat
    BY <1>1, SendingFacts DEF IInv, SendSound
  <2>2. NoSkip(wire) /\ wire' = wire \o Positions(write_cursor, k)
    BY <1>2 DEF IInv, NoGap, NoSkip, Positions
  <2>3. /\ wire' \in Seq(Nat) /\ Following(wire') = write_cursor + k /\ NoSkip(wire')
        /\ wire = Whole(write_cursor) => wire' = Whole(write_cursor + k)
    <3>1. PICK w, c, n, v : w = wire /\ c = write_cursor /\ n = k /\ v = wire'
      OBVIOUS
    <3>2. Sent(w, c, n, v)
      BY <1>3, <2>1, <2>2, <3>1 DEF Sent
    <3> QED BY <3>1, <3>2, Extends
  <2> QED BY <1>4, <2>3 DEF NoGap, NoSkip
<1>6. Typed'
  BY <1>1, <1>5 DEF IInv, Typed, network
<1>7. TypeOK'
  BY <1>1, <1>3, <1>4, SendingFacts DEF IInv, TypeOK, network
<1>8. BodyCounted' /\ Completed'
  BY <1>1, SendingFacts DEF BodyCounted, Completed
<1>9. SendSound'
  BY <1>1, <1>3, <1>4, <1>5, SendingFacts DEF IInv, SendSound, Whole
<1> QED BY <1>5, <1>6, <1>7, <1>8, <1>9 DEF IInv

\* A cursor that slips is further behind the wire, or at no byte any more.
LEMMA SendFailsInv ==
  ASSUME IInv, SendFails
  PROVE  IInv'
<1>1. /\ call.op \in Puts /\ write_cursor < write_total_bytes
      /\ write_cursor' = (write_cursor + SIZE_MAX) % Modulus /\ smooth' = FALSE
      /\ fails' = fails \/ (fails < MaxFails /\ fails' = fails + 1)
      /\ UNCHANGED <<read_cursor, read_total_bytes, write_total_bytes, already, scripts, todo,
                     call, ret, network, data, wire, conns>>
  BY DEF SendFails, Sending, Puts, Refused, Slipped
<1>2. write_cursor' = IF write_cursor = 0 THEN SIZE_MAX ELSE write_cursor - 1
  BY <1>1, SendingFacts, Slips
<1>3. Typed'
  BY <1>1 DEF IInv, Typed, network
<1>4. TypeOK'
  <2>1. fails' \in 0..MaxFails
    BY <1>1, IOParameters DEF IInv, TypeOK
  <2>2. write_cursor' \in 0..write_total_bytes' \cup {SIZE_MAX}
    BY <1>1, <1>2, SendingFacts
  <2> QED BY <1>1, <2>1, <2>2 DEF IInv, TypeOK, network
<1>5. BodyCounted' /\ Completed'
  BY <1>1, SendingFacts DEF BodyCounted, Completed
<1>6. SendSound'
  <2>1. Following(wire) \in Int
    BY <1>1, SendingFacts, ElementOfSeq, EmptySeq DEF Following
  <2> QED BY <1>1, <1>2, <2>1, Sizes, SendingFacts DEF IInv, SendSound
<1>7. NoGap'
  BY <1>1 DEF IInv, NoGap
<1> QED BY <1>3, <1>4, <1>5, <1>6, <1>7 DEF IInv

\* The end of a send, or of a send_file that gives up.
LEMMA SendOverInv ==
  ASSUME IInv, call.op \in Puts, call' = NoCall, already', ret' \in BOOLEAN, smooth' \in BOOLEAN,
         fails' \in 0..MaxFails,
         UNCHANGED <<read_cursor, read_total_bytes, write_cursor, write_total_bytes, scripts,
                     todo, network, data, wire, conns>>
  PROVE  IInv'
<1>1. Typed' /\ NoGap'
  BY DEF IInv, Typed, NoGap, network
<1>2. TypeOK'
  <2>1. already' \in BOOLEAN
    BY DEF TypeOK
  <2> QED BY <2>1 DEF IInv, TypeOK, network
<1>3. BodyCounted' /\ Completed' /\ SendSound'
  BY DEF BodyCounted, Completed, SendSound, NoCall, Puts, Sends, Calls, Receives
<1> QED BY <1>1, <1>2, <1>3 DEF IInv

LEMMA SendFileFailsInv ==
  ASSUME IInv, SendFileFails
  PROVE  IInv'
<1>1. /\ call.op \in Puts /\ call' = NoCall /\ ret' = FALSE /\ smooth' = FALSE
      /\ fails' = fails \/ (fails < MaxFails /\ fails' = fails + 1)
      /\ UNCHANGED <<cursors, scripts, todo, network, data, wire, conns>>
  BY DEF SendFileFails, Sending, Puts, Refused, Return
<1>2. fails' \in 0..MaxFails
  BY <1>1, IOParameters DEF IInv, TypeOK
<1> QED BY <1>1, <1>2, SendingFacts, SendOverInv DEF cursors

LEMMA SendEndInv ==
  ASSUME IInv, SendEnd
  PROVE  IInv'
<1>1. /\ call.op \in Puts /\ call' = NoCall /\ ret' = TRUE
      /\ already' = (call.op \in Sends \/ already)
      /\ UNCHANGED <<read_cursor, read_total_bytes, write_cursor, write_total_bytes, scripts,
                     todo, network, data, wire, smooth, fails, conns>>
  BY DEF SendEnd, Return, Puts
<1>2. already' /\ fails' \in 0..MaxFails /\ smooth' \in BOOLEAN
  BY <1>1, SendingFacts DEF IInv, TypeOK
<1> QED BY <1>1, <1>2, SendOverInv

-----------------------------------------------------------------------------
(* The theorems *)

LEMMA StepInv ==
  ASSUME IInv, [Next]_vars
  PROVE  IInv'
<1>1. CASE PeerSends \/ PeerLeaves
  BY <1>1, PeerInv
<1>2. CASE Call
  BY <1>2, RecvAllInv, RecvInv, RecvWithHeaderInv, RecvFileInv, BodyReadInv, SendInv,
     SendWithHeaderInv, SendFileInv DEF Call
<1>3. CASE Step
  BY <1>3, RecvSomeInv, RecvEndInv, RecvFileEndInv, RecvFileWildInv, SendSomeInv, SendFailsInv,
     SendFileFailsInv, SendEndInv DEF Step
<1>4. CASE NextClient
  BY <1>4, NextClientInv
<1>5. CASE UNCHANGED vars
  <2>1. UNCHANGED <<read_cursor, read_total_bytes, write_cursor, write_total_bytes, already,
                    scripts, todo, call, ret, coming, avail, peer, data, wire, smooth, fails,
                    conns>>
    BY <1>5 DEF vars, cursors, network
  <2>2. TypeOK' /\ Typed' /\ BodyCounted' /\ SendSound' /\ NoGap'
    BY <2>1 DEF IInv, TypeOK, Typed, BodyCounted, SendSound, NoGap
  <2>3. Completed'
    BY <2>1 DEF IInv, Completed, Stuck
  <2> QED BY <2>2, <2>3 DEF IInv
<1> QED BY <1>1, <1>2, <1>3, <1>4, <1>5 DEF Next

THEOREM Invariance == Spec => []IInv
BY InitInv, StepInv, PTL DEF Spec

\* Cursors stay within their totals, or have slipped below 0, whatever the peer
\* and the handler do (recv_base, send_base, recv_file, send_file).
THEOREM TypeCorrect == Spec => []TypeOK
<1>1. IInv => TypeOK
  BY DEF IInv
<1> QED BY <1>1, Invariance, PTL

\* No send puts a byte out before the bytes in front of it: the size_t cursor of
\* send_base that a failed send() moves by SIZE_MAX repeats bytes and skips none.
THEOREM NothingSkipped == Spec => []NoGap
<1>1. IInv => NoGap
  BY DEF IInv
<1> QED BY <1>1, Invariance, PTL

\* A send or send_file that no send() failed in, however short each was cut and
\* whatever client the object served before, returns true with the whole data out.
THEOREM CleanSends == Spec => CleanSend
<1>1. ASSUME IInv, [Next]_vars, call.op \in Puts, call' = NoCall, ret', smooth
      PROVE  wire = [i \in 1..write_total_bytes |-> i - 1]
  <2>1. SendEnd
    <3>1. call \in Command /\ call # NoCall /\ call.op \notin Receives
      BY <1>1, SendingFacts DEF Puts, Sends, Receives
    <3>2. call' # call
      BY <1>1, <3>1
    <3>3. ~(PeerSends \/ PeerLeaves \/ UNCHANGED vars)
      BY <3>2 DEF PeerSends, PeerLeaves, vars
    <3>4. ~Call /\ ~NextClient
      BY <3>1 DEF Call, NextClient, RecvAll, Recv, RecvWithHeader, RecvFile, BodyRead, Send,
                  SendWithHeader, SendFile, Enter, BodyLoop, Idle
    <3>5. ~(RecvSome \/ RecvEnd \/ RecvFileEnd \/ RecvFileWild)
      BY <3>1, <1>1 DEF RecvSome, RecvEnd, RecvFileEnd, RecvFileWild, Receiving, Puts, Sends
    <3>6. ~(SendSome \/ SendFails \/ SendFileFails)
      BY <1>1, <3>2 DEF SendSome, SendFails, SendFileFails, Return
    <3> QED BY <1>1, <3>3, <3>4, <3>5, <3>6 DEF Next, Step
  <2>2. write_cursor >= write_total_bytes
    BY <2>1 DEF SendEnd
  <2>3. write_cursor <= write_total_bytes /\ wire = [i \in 1..write_cursor |-> i - 1]
    BY <1>1 DEF IInv, SendSound
  <2>4. write_cursor = write_total_bytes
    BY <1>1, <2>2, <2>3, SendingFacts
  <2> QED BY <2>3, <2>4
<1>2. IInv /\ [Next]_vars
      => [call.op \in Sends \cup {"send_file"} /\ call' = NoCall /\ ret' /\ smooth
            => wire = [i \in 1..write_total_bytes |-> i - 1]]_vars
  BY <1>1 DEF Puts
<1> QED BY <1>2, Invariance, PTL DEF Spec, CleanSend

\* The read of a body (the loop of http_conn::process_in over recv) never holds
\* more than the bytes announced: what is behind them is left for the next request.
THEOREM BodyKept == Spec => BodyOnly
<1>1. ASSUME IInv, [Next]_vars, call.op = "recv"
      PROVE  Len(data') <= call.n
  <2>1. /\ call \in Command /\ call # NoCall /\ Len(data) \in Nat /\ call.n \in Nat
        /\ read_total_bytes \in Nat
        /\ read_cursor \in 0..read_total_bytes \cup {SIZE_MAX}
    BY <1>1, Sizes, CommandFacts, LenProperties
    DEF IInv, TypeOK, Typed, NoCall, Crash
  <2>2. Len(data) <= call.n
    <3>1. CASE already
      BY <1>1, <2>1, <3>1 DEF IInv, BodyCounted
    <3>2. CASE ~already
      BY <1>1, <2>1, <3>2 DEF IInv, Completed, Stuck, Calls, Receives, Openers
    <3> QED BY <3>1, <3>2
  <2>3. CASE RecvSome
    <3>1. PICK k : /\ k = Min({Wanted, Len(avail)}) /\ avail # <<>>
                   /\ read_cursor < read_total_bytes
                   /\ data' = data \o SubSeq(avail, 1, k)
      BY <2>3 DEF RecvSome, Receiving
    <3>2. already
      BY <1>1, <3>1 DEF IInv, Completed, Stuck, Calls, Receives, Openers
    <3>3. /\ read_cursor <= read_total_bytes
          /\ Len(data) + (read_total_bytes - read_cursor) = call.n
      BY <1>1, <3>2 DEF IInv, BodyCounted
    <3>4. Len(avail) \in Nat \ {0}
      BY <1>1, <3>1, LenProperties, EmptySeq DEF IInv, Typed
    <3>5. k \in 1..Len(avail) /\ k <= read_total_bytes - read_cursor
      <4>1. read_cursor \in Nat
        BY <2>1, Sizes
      <4> QED BY <2>1, <3>1, <3>4, <4>1, Taken
    <3>6. Len(data') = Len(data) + k
      BY <1>1, <3>1, <3>5, Cut, LenProperties, ConcatProperties DEF IInv, Typed, Garbage
    <3> QED BY <2>1, <3>3, <3>5, <3>6
  <2>4. CASE ~RecvSome
    <3>1. UNCHANGED data
      BY <1>1, <2>1, <2>4
      DEF Next, Call, Step, PeerSends, PeerLeaves, NextClient, RecvAll, Recv, RecvWithHeader,
          RecvFile, BodyRead, Send, SendWithHeader, SendFile, RecvEnd, RecvFileEnd, RecvFileWild,
          SendSome, SendFails, SendFileFails, SendEnd, Enter, BodyLoop, Idle, Receiving, vars
    <3> QED BY <2>2, <3>1
  <2> QED BY <2>3, <2>4
<1>2. IInv /\ [Next]_vars => [call.op = "recv" => Len(data') <= call.n]_vars
  BY <1>1
<1> QED BY <1>2, Invariance, PTL DEF Spec, BodyOnly
=============================================================================
