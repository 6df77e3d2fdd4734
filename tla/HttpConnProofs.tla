--------------------------- MODULE HttpConnProofs ---------------------------
(***************************************************************************)
(* Proofs about HttpConn, for every site, every client and every object    *)
(* that served others before: no connection is forgotten, a response       *)
(* carries what its Content-Length announces, with the exceptions of       *)
(* BodyAsAnnounced, requests are answered in turn, of the filters the last *)
(* one registered decides, and heads and forms are read as they are meant. *)
(***************************************************************************)
EXTENDS HttpConn, HttpTextProofs, TLAPS, SequenceTheorems, FiniteSetTheorems

-----------------------------------------------------------------------------
(* The events *)

\* While the filters register nothing has happened on the object; no handler works
\* on for a connection that it has asked to be closed.
Armed ==
  /\ NotForgotten
  /\ closing => pc = "wait"
  /\ pc = "register" => armed = "in" /\ ~closing

\* A handler that returns has called next or notify_close.
Returned == next("in") \/ next("out") \/ notify_close

LEMMA ReturnsArmed ==
  ASSUME Returned
  PROVE  Armed'
BY DEF Returned, next, notify_close, Armed, NotForgotten

\* What an action does to pc, armed and closing.
LEMMA Moves ==
  ASSUME [Next]_vars
  PROVE  \/ UNCHANGED <<pc, armed, closing>>
         \/ Returned
         \/ /\ pc' \in {"query", "head", "body", "crash", "endless"} /\ UNCHANGED closing
            /\ pc = "wait" => ~closing
         \/ pc = "register" /\ pc' = "wait" /\ UNCHANGED <<armed, closing>>
         \/ pc = "wait" /\ UNCHANGED pc /\ armed' = "in"
<1>1. CASE ProcessOut
  BY <1>1 DEF ProcessOut, Answer, Serve, Routed, send_str, http_1_0_close, endless, Returned,
              Dispatched
<1>2. CASE Handler /\ ~ProcessOut
  BY <1>2 DEF Handler, ReadEnd, HangUp, ReadPart, ReadRest, ReadHead, QueryLoop, HeadRead,
              AfterHeader, ReadBody, BodyRead, Returned, Dispatched
<1>3. CASE \/ \E f \in Filters : Register(f)
           \/ \E r \in Requests : Ask(r)
           \/ Deliver \/ Leave
  BY <1>3 DEF Register, Ask, Deliver, Leave
<1>4. CASE Started \/ NextClient \/ UNCHANGED vars
  BY <1>4 DEF Started, NextClient, vars
<1> QED BY <1>1, <1>2, <1>3, <1>4 DEF Next

LEMMA ArmedInv ==
  /\ Init => Armed
  /\ Armed /\ [Next]_vars => Armed'
<1>1. Init => Armed
  BY DEF Init, Armed, NotForgotten
<1>2. ASSUME Armed, [Next]_vars PROVE Armed'
  <2>1. CASE Returned
    BY <2>1, ReturnsArmed
  <2> QED BY <1>2, <2>1, Moves DEF Armed, NotForgotten
<1> QED BY <1>1, <1>2

\* A handler that has returned has registered the next event or asked for its
\* connection to be closed (next and notify_close on every path of process_in,
\* process_out and process_rdhup).
THEOREM Remembered == Spec => []NotForgotten
<1>1. Armed => NotForgotten
  BY DEF Armed
<1> QED BY <1>1, ArmedInv, PTL DEF Spec

-----------------------------------------------------------------------------
(* The responses *)

\* What BodyAsAnnounced says of one response.
Right(status, length, sent) ==
  \/ sent = length
  \/ status = "403" /\ \E p \in DOMAIN Files : Files[p] = "secret" /\ sent = File(p)
  \/ status = "400" /\ sent = Nothing
  \/ sent = Nothing /\ left

\* A response is sent, and the handler returns or, after an empty string, never does.
Responds ==
  /\ \E status, length, sent : Sends(status, length, sent) /\ Right(status, length, sent)
  /\ next("in") \/ notify_close \/ endless

\* A file is not sent to its end.
Hangs == endless /\ UNCHANGED answers

LEMMA AnswerResponds ==
  ASSUME NEW status, Answer(status)
  PROVE  Responds
BY DEF Answer, Responds, Right, http_1_0_close

\* The name of a file is not nothing.
LEMMA FileOpens ==
  ASSUME NEW path \in DOMAIN Files
  PROVE  File(path) # Nothing
<1> DEFINE S == STRING \cup {"file"}
<1>1. path.segs \in Seq(S)
  BY Site, SeqMonotonic
<1>2. <<"file">> \in Seq(S) /\ Len(<<"file">>) = 1
  BY OneElement
<1> HIDE DEF S
<1>3. Len(<<"file">> \o path.segs) = 1 + Len(path.segs) /\ Len(path.segs) \in Nat
  BY <1>1, <1>2, ConcatProperties, LenProperties
<1>4. Len(<<"file">> \o path.segs) # Len(<<>>)
  BY <1>3, EmptySeq
<1> QED BY <1>4 DEF File, Nothing

LEMMA ServeResponds ==
  ASSUME NEW path, Serve(path)
  PROVE  Responds \/ Hangs
<1> DEFINE l == Loaded(path)
<1>1. Kind(path) \in {"missing", "dir"} \/ (path \in DOMAIN Files /\ Kind(path) = Files[path]
                                            /\ Kind(path) \in {"file", "secret"})
  BY Site DEF Kind
<1>2. ASSUME NEW sent, Sends(l.status, l.length, sent), Right(l.status, l.length, sent),
             next("in") \/ notify_close
      PROVE  Responds
  BY <1>2 DEF Responds
<1>3. CASE l.fd = Nothing /\ Sends(l.status, l.length, StatusText(l.status)) /\ http_1_0_close
  <2>1. Kind(path) # "file"
    <3>1. SUFFICES ASSUME Kind(path) = "file" PROVE FALSE
      OBVIOUS
    <3>2. path \in DOMAIN Files /\ l.fd = File(path)
      BY <1>1, <3>1 DEF Loaded
    <3> QED BY <1>3, <3>2, FileOpens
  <2>2. l.length = StatusText(l.status)
    <3>1. CASE Kind(path) = "missing"
      BY <3>1 DEF Loaded
    <3>2. CASE Kind(path) = "secret"
      BY <3>2 DEF Loaded
    <3>3. CASE Kind(path) = "dir"
      BY <3>3 DEF Loaded
    <3> QED BY <1>1, <2>1, <3>1, <3>2, <3>3
  <2>3. Right(l.status, l.length, StatusText(l.status))
    BY <2>2 DEF Right
  <2> QED BY <1>2, <1>3, <2>3 DEF http_1_0_close
<1>4. CASE l.fd # Nothing /\ Kind(path) # "dir" /\ Sends(l.status, l.length, l.fd) /\ http_1_0_close
  <2>1. path \in DOMAIN Files /\ Kind(path) = Files[path] /\ l.fd = File(path)
    BY <1>1, <1>4 DEF Loaded
  <2>2. CASE Kind(path) = "file"
    <3>1. l.length = l.fd
      BY <2>1, <2>2 DEF Loaded
    <3>2. Right(l.status, l.length, l.fd)
      BY <3>1 DEF Right
    <3> QED BY <1>2, <1>4, <3>2 DEF http_1_0_close
  <2>3. CASE Kind(path) = "secret"
    <3>1. l.status = "403"
      BY <2>3 DEF Loaded
    <3>2. Right(l.status, l.length, l.fd)
      BY <2>1, <2>3, <3>1 DEF Right
    <3> QED BY <1>2, <1>4, <3>2 DEF http_1_0_close
  <2> QED BY <1>1, <1>4, <2>2, <2>3 DEF Loaded
<1>5. CASE /\ l.fd # Nothing /\ (Kind(path) = "dir" \/ left)
           /\ Sends(l.status, l.length, Nothing) /\ notify_close
  <2>1. Kind(path) = "dir" => l.status = "400"
    BY DEF Loaded
  <2>2. Right(l.status, l.length, Nothing)
    BY <1>5, <2>1 DEF Right
  <2> QED BY <1>2, <1>5, <2>2
<1> QED BY <1>3, <1>4, <1>5 DEF Serve, Hangs

LEMMA StringResponds ==
  ASSUME NEW str, send_str(str)
  PROVE  Responds
BY DEF send_str, Responds, Right, http_1_0_close

\* process_out crashes or hangs, closes the connection or sends a response.
LEMMA Outcome ==
  ASSUME ProcessOut
  PROVE  /\ Dispatched("out") /\ UNCHANGED <<tree, request, client>>
         /\ \/ pc' \in {"crash", "endless"} /\ UNCHANGED <<armed, closing, answers>>
            \/ notify_close /\ UNCHANGED answers
            \/ Responds
<1>1. ASSUME NEW does, Routed(does) PROVE Responds \/ Hangs
  <2>1. CASE does.call = "redirect" /\ Sends("303", Nothing, Nothing) /\ http_1_0_close
    BY <2>1 DEF Responds, Right, http_1_0_close
  <2> QED BY <1>1, <2>1, StringResponds, ServeResponds, AnswerResponds DEF Routed
<1> QED BY <1>1, ServeResponds, AnswerResponds DEF ProcessOut, Hangs, endless

\* Only process_out answers, and only the next client makes it undone.
LEMMA Answering ==
  ASSUME [Next]_vars
  PROVE  \/ UNCHANGED answers /\ (left => left')
         \/ Responds /\ UNCHANGED left
         \/ answers' = <<>>
<1>1. CASE ProcessOut
  BY <1>1, Outcome DEF client
<1>2. CASE Handler /\ ~ProcessOut
  BY <1>2 DEF Handler, ReadEnd, HangUp, ReadPart, ReadRest, ReadHead, QueryLoop, HeadRead,
              ReadBody, BodyRead, client
<1>3. CASE \/ \E f \in Filters : Register(f)
           \/ \E r \in Requests : Ask(r)
           \/ Deliver \/ Leave
  BY <1>3 DEF Register, Ask, Deliver, Leave, client
<1>4. CASE Started \/ NextClient \/ UNCHANGED vars
  BY <1>4 DEF Started, NextClient, vars, client
<1> QED BY <1>1, <1>2, <1>3, <1>4 DEF Next

Responded == IsSequence(answers) /\ BodyAsAnnounced

LEMMA RespondedInv ==
  /\ Init => Responded
  /\ Responded /\ [Next]_vars => Responded'
<1>1. ASSUME answers = <<>> PROVE Responded
  <2>1. Len(answers) = 0 /\ DOMAIN answers = {}
    BY <1>1
  <2>2. answers = [i \in 1..0 |-> answers[i]]
    BY <1>1
  <2> QED BY <2>1, <2>2 DEF Responded, IsSequence, BodyAsAnnounced
<1>2. ASSUME Responded, [Next]_vars PROVE Responded'
  <2>1. CASE UNCHANGED answers /\ (left => left')
    BY <1>2, <2>1 DEF Responded, IsSequence, BodyAsAnnounced
  <2>2. CASE answers' = <<>>
    BY <2>2 DEF Responded, IsSequence, BodyAsAnnounced
  <2>3. CASE Responds /\ UNCHANGED left
    <3>1. PICK status, length, sent : /\ Sends(status, length, sent)
                                      /\ Right(status, length, sent)
      BY <2>3 DEF Responds
    <3>2. PICK a : a = [status |-> status, version |-> Version, length |-> length,
                        body |-> sent, path |-> Path(req.url)]
      OBVIOUS
    <3>3. /\ IsSequence(answers') /\ Len(answers') = Len(answers) + 1
          /\ answers'[Len(answers) + 1] = a
          /\ \A i \in 1..Len(answers) : answers'[i] = answers[i]
      <4>1. answers' = Append(answers, a) /\ IsSequence(answers)
        BY <1>2, <3>1, <3>2 DEF Sends, Responded
      <4>2. PICK s, t : s = answers /\ t = answers'
        OBVIOUS
      <4>3. Grown(s, a, t)
        BY <4>1, <4>2, OneMore
      <4> QED BY <4>2, <4>3 DEF Grown
    <3>4. ASSUME NEW i \in DOMAIN answers'
          PROVE  Right(answers'[i].status, answers'[i].length, answers'[i].body)
      <4>1. i \in 1..Len(answers) \/ i = Len(answers) + 1
        BY <1>2, <3>3 DEF Responded, IsSequence
      <4>2. CASE i = Len(answers) + 1
        BY <3>1, <3>2, <3>3, <4>2
      <4>3. CASE i \in 1..Len(answers)
        BY <1>2, <3>3, <4>3 DEF Responded, IsSequence, BodyAsAnnounced, Right
      <4> QED BY <4>1, <4>2, <4>3
    <3> QED BY <2>3, <3>3, <3>4 DEF Responded, BodyAsAnnounced, Right, IsSequence
  <2> QED BY <1>2, <2>1, <2>2, <2>3, Answering
<1> QED BY <1>1, <1>2 DEF Init

\* What a response carries is what its Content-Length announces (load_file,
\* send_response_header, send_response_body), but for the files and directories
\* that may not be read and the clients that are gone.
THEOREM Announcements == Spec => []BodyAsAnnounced
<1>1. Responded => BodyAsAnnounced
  BY DEF Responded
<1> QED BY <1>1, RespondedInv, PTL DEF Spec

-----------------------------------------------------------------------------
(* The turns of an orderly client *)

Piece == [kind : {"head", "part", "rest"}, what : Requests] \cup [kind : {"body"}, what : STRING]
Characters == STRING \cup {"head"}
HeadOf(r) == [kind |-> "head", what |-> r]

\* How far the request r has come: it is on its way, its head first; it is being
\* read, and no more comes than its body has; its response is due.
Unread(r) ==
  /\ pc = "wait" /\ armed = "in" /\ ~closing
  /\ inbox # <<>> => inbox[1] = HeadOf(r)
  /\ inbox = <<>> /\ stream # <<>> => stream[1] = HeadOf(r)
  /\ Len(inbox) + Len(stream) <= Len(r.body) + 1

Reading(r) ==
  /\ pc \in {"query", "head", "body"}
  /\ req.method = r.method /\ req.url = r.url /\ req.lines = HeaderFields(r.lines)
  /\ pc # "body" => req.word = r.version
  /\ pc = "body" => /\ req.version = r.version /\ r.method = "POST"
                    /\ "Content-Length" \in DOMAIN req.lines
  /\ body \in Seq(Characters) /\ Len(body) + Len(inbox) + Len(stream) <= Len(r.body)

Ready(r) ==
  /\ pc = "wait" /\ armed = "out" /\ ~closing
  /\ req.url = r.url /\ req.version = r.version
  /\ inbox = <<>> /\ stream = <<>>

\* Nothing of a request is left, neither here nor on its way.
Resting ==
  /\ inbox = <<>> /\ stream = <<>>
  /\ pc = "register" \/ (pc = "wait" /\ armed = "in" /\ ~closing)

Over == pc = "wait" /\ closing
Idle == Resting \/ Over \/ pc = "endless"
Busy(r) == Unread(r) \/ Reading(r) \/ Ready(r) \/ pc \in {"crash", "endless"} \/ Over

Agree ==
  \A i \in DOMAIN answers : /\ answers[i].path = Path(asked[i].url)
                            /\ answers[i].version = asked[i].version

Arriving == inbox \in Seq(Piece) /\ stream \in Seq(Piece)
Owed == asked[Len(asked)]
Owing == Len(asked) = Len(answers) + 1
Quits == Len(answers) = Len(asked)

Turns == Orderly => /\ Arriving /\ Agree
                    /\ (Quits /\ Idle) \/ (Owing /\ Busy(Owed))

IInv == asked \in Seq(Requests) /\ Armed /\ Responded /\ Turns

LEMMA NotNext == \A n \in Nat : n # n + 1
OBVIOUS

\* The sequences have lengths; a request that is owed is whole.
LEMMA Counts ==
  ASSUME IInv
  PROVE  /\ Len(asked) \in Nat /\ Len(answers) \in Nat
         /\ DOMAIN asked = 1..Len(asked) /\ DOMAIN answers = 1..Len(answers)
         /\ Quits => ~Owing
<1>1. Len(asked) \in Nat /\ DOMAIN asked = 1..Len(asked)
  BY LenProperties DEF IInv
<1>2. Len(answers) \in Nat /\ DOMAIN answers = 1..Len(answers)
  <2>1. IsSequence(answers)
    BY DEF IInv, Responded
  <2>2. \A s : IsSequence(s) => Len(s) \in Nat /\ DOMAIN s = 1..Len(s)
    BY DEF IsSequence
  <2> QED BY <2>1, <2>2
<1>3. Quits => ~Owing
  BY <1>2, NotNext, Zenon DEF Quits, Owing
<1> QED BY <1>1, <1>2, <1>3

LEMMA OwedFacts ==
  ASSUME IInv, Orderly, Owing
  PROVE  /\ Owed \in Requests /\ Announced(Owed)
         /\ Owed.body \in Seq(STRING) /\ Len(Owed.body) \in Nat
<1>1. Len(asked) \in 1..Len(asked) /\ Len(asked) \in DOMAIN asked
  BY Counts DEF Owing
<1>2. Owed \in Requests
  BY <1>1, ElementOfSeq DEF IInv, Owed
<1>3. Owed.body \in Seq(STRING)
  BY <1>2, Site
<1> QED BY <1>1, <1>2, <1>3, LenProperties DEF Orderly, Owed

LEMMA Lengths ==
  ASSUME Arriving
  PROVE  /\ Len(inbox) \in Nat /\ Len(stream) \in Nat
         /\ inbox = <<>> <=> Len(inbox) = 0
         /\ stream = <<>> <=> Len(stream) = 0
BY LenProperties, EmptySeq DEF Arriving

\* A step that neither asks nor answers.
LEMMA SameTurn ==
  ASSUME IInv, UNCHANGED <<calm, asked, answers>>,
         Orderly => Arriving',
         Orderly /\ Quits /\ Idle => Idle',
         ASSUME NEW r, Orderly, Owing, r = Owed, Busy(r)
         PROVE  Busy(r)'
  PROVE  Turns'
<1> SUFFICES ASSUME Orderly'
             PROVE  Arriving' /\ Agree' /\ ((Quits' /\ Idle') \/ (Owing' /\ Busy(Owed)'))
  BY DEF Turns
<1>1. Orderly
  BY DEF Orderly
<1>2. Agree'
  BY <1>1 DEF IInv, Turns, Agree
<1>3. CASE Quits /\ Idle
  BY <1>1, <1>2, <1>3 DEF Quits
<1>4. CASE Owing /\ Busy(Owed)
  <2>1. PICK r : r = Owed
    OBVIOUS
  <2>2. Busy(r)'
    BY <1>1, <1>4, <2>1
  <2>3. Busy(Owed)'
    BY <2>1, <2>2 DEF Owed, Busy, Unread, Reading, Ready
  <2> QED BY <1>1, <1>2, <1>4, <2>3 DEF Owing
<1> QED BY <1>1, <1>3, <1>4 DEF IInv, Turns

\* The connection is closed, or the program ends or hangs while a request is owed.
LEMMA EndTurn ==
  ASSUME IInv, UNCHANGED <<calm, asked, answers>>, Orderly => Arriving',
         notify_close \/ (pc' \in {"crash", "endless"} /\ (Orderly => Owing))
  PROVE  Turns'
<1>1. CASE notify_close
  BY <1>1, SameTurn DEF notify_close, Idle, Over, Busy
<1>2. CASE pc' \in {"crash", "endless"} /\ (Orderly => Owing)
  BY <1>2, SameTurn, Counts DEF Busy
<1> QED BY <1>1, <1>2

\* Nothing is left of the head that had arrived.
LEMMA NoneArrives ==
  ASSUME IInv, Orderly, inbox' = <<>>, UNCHANGED stream
  PROVE  Arriving'
BY EmptySeq DEF IInv, Turns, Arriving

\* What is read first of a request that is owed is its head.
LEMMA FirstRead ==
  ASSUME IInv, Orderly, Dispatched("in"), inbox # <<>>
  PROVE  Owing /\ Unread(Owed) /\ inbox[1] = HeadOf(Owed)
<1>1. ~Idle
  BY DEF Dispatched, Idle, Resting, Over
<1>2. Owing /\ Busy(Owed)
  BY <1>1 DEF IInv, Turns
<1>3. Unread(Owed)
  BY <1>2 DEF Dispatched, Busy, Reading, Ready, Over
<1> QED BY <1>2, <1>3 DEF Unread

LEMMA ReadEndTurn ==
  ASSUME IInv, ReadEnd
  PROVE  Turns'
<1>1. UNCHANGED <<calm, asked, answers, stream>> /\ inbox' = <<>>
      /\ pc = "wait" /\ armed = "in"
      /\ ((inbox = <<>> /\ next("in")) \/ notify_close)
  BY DEF ReadEnd, Dispatched
<1>2. Orderly => Arriving'
  BY <1>1, NoneArrives
<1>3. CASE inbox = <<>> /\ next("in")
  <2>1. UNCHANGED <<pc, armed, closing, inbox>>
    BY <1>1, <1>3 DEF next
  <2>2. Idle => Idle'
    BY <1>1, <2>1 DEF Idle, Resting, Over
  <2>3. ASSUME NEW r, Busy(r) PROVE Busy(r)'
    BY <1>1, <2>1, <2>3 DEF Busy, Unread, Reading, Ready, Over
  <2> QED BY <1>1, <1>2, <2>2, <2>3, SameTurn
<1> QED BY <1>1, <1>2, <1>3, EndTurn

LEMMA HangUpTurn ==
  ASSUME IInv, HangUp
  PROVE  Turns'
<1>1. UNCHANGED <<calm, asked, answers, inbox, stream>> /\ notify_close
  BY DEF HangUp, client
<1>2. Orderly => Arriving'
  BY <1>1 DEF IInv, Turns, Arriving
<1> QED BY <1>1, <1>2, EndTurn

\* An orderly client sends no part of a head and nothing behind a body.
LEMMA NoPart ==
  ASSUME IInv, ReadPart \/ ReadRest
  PROVE  ~Orderly /\ ~Orderly'
<1>1. /\ UNCHANGED <<calm, asked>> /\ Dispatched("in") /\ inbox # <<>>
      /\ \/ \A i \in DOMAIN inbox : inbox[i].kind \in {"part", "body"}
         \/ inbox[1].kind \in {"rest", "body"}
  BY DEF ReadPart, ReadRest
<1>2. ~Orderly
  <2>1. SUFFICES ASSUME Orderly PROVE FALSE
    OBVIOUS
  <2>2. Arriving /\ inbox[1] = HeadOf(Owed)
    BY <1>1, <2>1, FirstRead DEF IInv, Turns
  <2>3. 1 \in DOMAIN inbox
    BY <1>1, <2>2, LenProperties, EmptySeq DEF Arriving
  <2> QED BY <1>1, <2>2, <2>3 DEF HeadOf
<1> QED BY <1>1, <1>2 DEF Orderly

LEMMA ReadPartTurn ==
  ASSUME IInv, ReadPart \/ ReadRest
  PROVE  Turns'
BY NoPart DEF Turns

LEMMA CharacterType ==
  ASSUME NEW piece \in Piece
  PROVE  Character(piece) \in Characters
BY DEF Piece, Character, Characters

\* The rest of what was read with the head of a request is from its body.
LEMMA ReadHeadTurn ==
  ASSUME IInv, ReadHead
  PROVE  Turns'
<1>1. /\ UNCHANGED <<calm, asked, answers, stream>> /\ inbox' = <<>>
      /\ Dispatched("in") /\ inbox # <<>>
  BY DEF ReadHead
<1>2. ASSUME NEW r, Orderly, Owing, r = Owed PROVE Reading(r)'
  <2>1. inbox[1] = HeadOf(r) /\ Unread(r) /\ Arriving
    BY <1>1, <1>2, FirstRead DEF IInv, Turns
  <2>2. PICK n : n = Len(inbox)
    OBVIOUS
  <2>3. /\ n \in Nat \ {0} /\ Len(stream) \in Nat
        /\ n + Len(stream) <= Len(r.body) + 1 /\ Len(r.body) \in Nat
    BY <1>1, <1>2, <2>1, <2>2, Lengths, OwedFacts DEF Unread
  <2>4. /\ pc' \in {"query", "head"}
        /\ req' = [Cleared EXCEPT !.method = r.method, !.url = r.url, !.word = r.version,
                                  !.lines = HeaderFields(r.lines)]
        /\ body' = [i \in 1..n - 1 |-> Character(inbox[i + 1])]
    BY <2>1, <2>2 DEF ReadHead, HeadOf
  <2>5. body' \in Seq(Characters) /\ Len(body') = n - 1
    <3>1. \A i \in 1..(n - 1) : Character(inbox[i + 1]) \in Characters
      <4>1. ASSUME NEW i \in 1..(n - 1) PROVE Character(inbox[i + 1]) \in Characters
        <5>1. inbox[i + 1] \in Piece
          BY <2>1, <2>2, <2>3, ElementOfSeq DEF Arriving
        <5> QED BY <5>1, CharacterType
      <4> QED BY <4>1
    <3>2. n - 1 \in Nat
      BY <2>3
    <3>3. body' \in Seq(Characters)
      BY <2>4, <3>1, <3>2, IsASeq
    <3> QED BY <2>4, <3>2, <3>3, LenProperties
  <2>6. Len(body') + Len(inbox') + Len(stream') <= Len(r.body)
    BY <1>1, <2>3, <2>5, EmptySeq
  <2>7. /\ req'.method = r.method /\ req'.url = r.url /\ req'.word = r.version
        /\ req'.lines = HeaderFields(r.lines)
    BY <2>4 DEF Cleared
  <2> QED BY <2>4, <2>5, <2>6, <2>7 DEF Reading
<1>3. Orderly => Owing
  BY <1>1, FirstRead
<1> QED BY <1>1, <1>2, <1>3, NoneArrives, SameTurn, Counts DEF Busy

LEMMA QueryLoopTurn ==
  ASSUME IInv, QueryLoop
  PROVE  Turns'
<1>1. /\ UNCHANGED <<calm, asked, answers, stream, inbox, body, armed, closing>>
      /\ pc = "query" /\ pc' \in {"query", "head"}
      /\ req' = [req EXCEPT !.parameters = query'.parameters]
  BY DEF QueryLoop, client
<1>2. Orderly => Arriving'
  BY <1>1 DEF IInv, Turns, Arriving
<1>3. ~Idle
  BY <1>1 DEF Idle, Resting, Over
<1>4. ASSUME NEW r, Busy(r) PROVE Busy(r)'
  <2>1. Reading(r)
    BY <1>1, <1>4 DEF Busy, Unread, Ready, Over
  <2>2. UNCHANGED <<req.method, req.url, req.word, req.lines>>
    BY <1>1
  <2> QED BY <1>1, <2>1, <2>2 DEF Reading, Busy
<1> QED BY <1>1, <1>2, <1>3, <1>4, SameTurn

\* Where the body of a request that is owed is being read.
LEMMA NowReading ==
  ASSUME IInv, Orderly, pc \in {"query", "head", "body"}
  PROVE  Owing /\ Reading(Owed) /\ ~Idle
<1>1. ~Idle
  BY DEF Idle, Resting, Over
<1>2. ~Unread(Owed) /\ ~Ready(Owed) /\ pc \notin {"crash", "endless"} /\ ~Over
  BY DEF Unread, Ready, Over
<1> QED BY <1>1, <1>2 DEF IInv, Turns, Busy

\* A request is read to its end when as many bytes of a body are there as it has.
LEMMA AllRead ==
  ASSUME IInv, Orderly, Owing, Reading(Owed), Len(body) >= Len(Owed.body)
  PROVE  inbox = <<>> /\ stream = <<>>
<1>1. Len(body) \in Nat
  BY LenProperties DEF Reading
<1>2. Arriving
  BY DEF IInv, Turns
<1>3. Len(body) + Len(inbox) + Len(stream) <= Len(Owed.body)
  BY DEF Reading
<1> QED BY <1>1, <1>2, <1>3, Lengths, OwedFacts

\* It is ready when it is read to its end, and then the event for its response
\* is registered.
LEMMA ReadyTurn ==
  ASSUME IInv, UNCHANGED <<calm, asked, answers, stream, inbox>>, next("out"), ~closing,
         pc \in {"head", "body"}, req'.url = req.url,
         Orderly => req'.version = Owed.version /\ Len(body) >= Len(Owed.body)
  PROVE  Turns'
<1>1. Orderly => Owing /\ Reading(Owed) /\ ~Idle
  BY NowReading
<1>2. Orderly => inbox = <<>> /\ stream = <<>>
  BY <1>1, AllRead
<1>3. Orderly => Arriving'
  BY DEF IInv, Turns, Arriving
<1>4. ASSUME NEW r, Orderly, r = Owed PROVE Busy(r)'
  BY <1>1, <1>2, <1>4 DEF Reading, Ready, Busy, next
<1> QED BY <1>1, <1>3, <1>4, SameTurn

LEMMA HeadReadTurn ==
  ASSUME IInv, HeadRead
  PROVE  Turns'
<1>1. UNCHANGED <<calm, asked, answers, stream, inbox, body>> /\ pc = "head" /\ ~closing
  BY DEF HeadRead, client, IInv, Armed
<1>2. Orderly => Owing /\ Reading(Owed) /\ ~Idle
  BY <1>1, NowReading
<1>3. Orderly => Arriving'
  BY <1>1 DEF IInv, Turns, Arriving
<1>4. CASE req.word \notin Versions
  BY <1>1, <1>3, <1>4, EndTurn DEF HeadRead
<1>5. CASE req.word \in Versions /\ req.method # "POST"
  <2>1. req' = [req EXCEPT !.version = req.word] /\ next("out")
    BY <1>5 DEF HeadRead, AfterHeader
  <2>2. Orderly => req'.version = Owed.version
    BY <1>1, <1>2, <2>1 DEF Reading
  <2>3. Orderly => Len(body) >= Len(Owed.body)
    <3>1. SUFFICES ASSUME Orderly PROVE Len(body) >= Len(Owed.body)
      OBVIOUS
    <3>2. Owed.method # "POST" /\ body \in Seq(Characters)
      BY <1>2, <1>5, <3>1 DEF Reading
    <3>3. Owed.body = <<>>
      BY <1>2, <3>1, <3>2, OwedFacts DEF Announced
    <3>4. Len(body) \in Nat /\ Len(Owed.body) = 0
      BY <3>2, <3>3, LenProperties, EmptySeq
    <3> QED BY <3>4
  <2> QED BY <1>1, <2>1, <2>2, <2>3, ReadyTurn
<1>6. CASE req.word \in Versions /\ req.method = "POST"
  <2>1. /\ req' = [req EXCEPT !.version = req.word]
        /\ pc' = IF "Content-Length" \in DOMAIN req.lines THEN "body" ELSE "crash"
    BY <1>6 DEF HeadRead, AfterHeader
  <2>2. CASE "Content-Length" \in DOMAIN req.lines
    <3>1. pc' = "body" /\ req'.version = req.word
          /\ UNCHANGED <<req.method, req.url, req.lines>>
      BY <2>1, <2>2
    <3>2. ASSUME NEW r, Orderly, r = Owed PROVE Busy(r)'
      BY <1>1, <1>2, <1>6, <2>2, <3>1, <3>2 DEF Reading, Busy
    <3> QED BY <1>1, <1>2, <1>3, <3>2, SameTurn
  <2>3. CASE "Content-Length" \notin DOMAIN req.lines
    BY <1>1, <1>2, <1>3, <2>1, <2>3, EndTurn
  <2> QED BY <2>2, <2>3
<1> QED BY <1>4, <1>5, <1>6

\* What is missing of a body is what its request has of it.
LEMMA MissingIs ==
  ASSUME IInv, Orderly, pc = "body"
  PROVE  /\ Missing = Len(Owed.body) - Len(body)
         /\ Len(body) \in Nat /\ Len(Owed.body) \in Nat
<1>1. Owing /\ Reading(Owed)
  BY NowReading
<1>2. ContentLength = Len(Owed.body)
  BY <1>1, OwedFacts DEF Reading, Announced, ContentLength
<1>3. Len(body) \in Nat /\ Len(Owed.body) \in Nat
  BY <1>1, OwedFacts, LenProperties DEF Reading
<1> QED BY <1>2, <1>3 DEF Missing

LEMMA BodyReadTurn ==
  ASSUME IInv, BodyRead
  PROVE  Turns'
<1>1. /\ UNCHANGED <<calm, asked, answers, stream, inbox, body, req>> /\ pc = "body" /\ ~closing
      /\ Missing <= 0
      /\ pc' = "crash" \/ next("out")
  BY DEF BodyRead, client, IInv, Armed
<1>2. Orderly => Owing /\ Reading(Owed)
  BY <1>1, NowReading
<1>3. Orderly => Arriving'
  BY <1>1 DEF IInv, Turns, Arriving
<1>4. Orderly => Len(body) >= Len(Owed.body)
  BY <1>1, MissingIs
<1>5. Orderly => req'.version = Owed.version
  BY <1>1, <1>2 DEF Reading
<1>6. CASE pc' = "crash"
  BY <1>1, <1>2, <1>3, <1>6, EndTurn
<1>7. CASE next("out")
  BY <1>1, <1>4, <1>5, <1>7, ReadyTurn
<1> QED BY <1>1, <1>6, <1>7

\* The rest of a sequence, and what is put behind one.
LEMMA Rest ==
  ASSUME NEW S, NEW s \in Seq(S), NEW k \in 1..Len(s)
  PROVE  /\ SubSeq(s, k + 1, Len(s)) \in Seq(S)
         /\ Len(SubSeq(s, k + 1, Len(s))) = Len(s) - k
<1>1. Len(s) \in Nat /\ \A i \in 1..Len(s) : s[i] \in S
  BY LenProperties, ElementOfSeq
<1>2. k + 1 \in Int /\ Len(s) \in Int /\ \A i \in (k + 1)..Len(s) : s[i] \in S
  BY <1>1
<1>3. SubSeq(s, k + 1, Len(s)) \in Seq(S)
  BY <1>2, SubSeqProperties
<1>4. Len(SubSeq(s, k + 1, Len(s))) = IF k + 1 <= Len(s) THEN Len(s) - (k + 1) + 1 ELSE 0
  BY <1>2, SubSeqProperties
<1> QED BY <1>1, <1>3, <1>4

LEMMA Longer ==
  ASSUME NEW S, NEW s \in Seq(S), NEW t \in Seq(S)
  PROVE  s \o t \in Seq(S) /\ Len(s \o t) = Len(s) + Len(t)
BY ConcatProperties

LEMMA ReadBodyTurn ==
  ASSUME IInv, ReadBody
  PROVE  Turns'
<1>1. /\ UNCHANGED <<calm, asked, answers, stream, req, pc, armed, closing>>
      /\ pc = "body" /\ Missing > 0 /\ inbox # <<>>
  BY DEF ReadBody
<1>2. PICK k : /\ k = Min({Missing, Len(inbox)})
               /\ body' = body \o [i \in 1..k |-> Character(inbox[i])]
               /\ inbox' = SubSeq(inbox, k + 1, Len(inbox))
  BY DEF ReadBody
<1>3. ASSUME Orderly
      PROVE  /\ Owing /\ ~Idle /\ Reading(Owed) /\ Arriving'
             /\ body' \in Seq(Characters) /\ Len(body') + Len(inbox') = Len(body) + Len(inbox)
  <2>1. Owing /\ ~Idle /\ Reading(Owed) /\ Arriving
    BY <1>1, <1>3, NowReading DEF IInv, Turns
  <2>2. Len(inbox) \in Nat \ {0} /\ Missing \in Nat \ {0} /\ Len(body) \in Nat
    BY <1>1, <1>3, <2>1, Lengths, MissingIs
  <2>3. k \in 1..Len(inbox)
    BY <1>2, <2>2 DEF Min
  <2>4. inbox' \in Seq(Piece) /\ Len(inbox') = Len(inbox) - k
    BY <1>2, <2>1, <2>3, Rest DEF Arriving
  <2>5. PICK t : t = [i \in 1..k |-> Character(inbox[i])]
    OBVIOUS
  <2>6. t \in Seq(Characters) /\ Len(t) = k
    <3>1. \A i \in 1..k : Character(inbox[i]) \in Characters
      <4>1. ASSUME NEW i \in 1..k PROVE Character(inbox[i]) \in Characters
        <5>1. inbox[i] \in Piece
          BY <2>1, <2>2, <2>3, ElementOfSeq DEF Arriving
        <5> QED BY <5>1, CharacterType
      <4> QED BY <4>1
    <3>2. k \in Nat
      BY <2>2, <2>3
    <3>3. t \in Seq(Characters)
      BY <2>5, <3>1, <3>2, IsASeq
    <3> QED BY <2>5, <3>2, <3>3, LenProperties
  <2>7. body' \in Seq(Characters) /\ Len(body') = Len(body) + k
    <3>1. body \in Seq(Characters) /\ body' = body \o t
      BY <1>2, <2>1, <2>5 DEF Reading
    <3> QED BY <2>6, <3>1, Longer
  <2>8. Arriving'
    BY <1>1, <2>1, <2>4 DEF Arriving
  <2> QED BY <2>1, <2>2, <2>3, <2>4, <2>7, <2>8
<1>4. ASSUME NEW r, Orderly, r = Owed PROVE Busy(r)'
  BY <1>1, <1>3, <1>4 DEF Reading, Busy
<1> QED BY <1>1, <1>3, <1>4, SameTurn

\* Where a response is due.
LEMMA NowReady ==
  ASSUME IInv, Orderly, Dispatched("out")
  PROVE  Owing /\ Ready(Owed) /\ Arriving /\ Agree
<1>1. ~Idle
  BY DEF Idle, Resting, Over, Dispatched
<1>2. Owing /\ Busy(Owed) /\ Arriving /\ Agree
  BY <1>1 DEF IInv, Turns
<1>3. Ready(Owed)
  BY <1>2 DEF Busy, Unread, Reading, Over, Dispatched
<1> QED BY <1>2, <1>3

\* The response is that of the request that is owed.
LEMMA ProcessOutTurn ==
  ASSUME IInv, ProcessOut
  PROVE  Turns'
<1>1. UNCHANGED <<calm, asked, inbox, stream, req, left>> /\ Dispatched("out")
  BY Outcome DEF client, request
<1>2. ASSUME Orderly PROVE Owing /\ Ready(Owed) /\ Arriving /\ Arriving' /\ Agree
  <2>1. Owing /\ Ready(Owed) /\ Arriving /\ Agree
    BY <1>1, <1>2, NowReady
  <2>2. Arriving'
    BY <1>1, <2>1 DEF Arriving
  <2> QED BY <2>1, <2>2
<1>3. CASE pc' \in {"crash", "endless"} /\ UNCHANGED answers
  BY <1>1, <1>2, <1>3, EndTurn
<1>4. CASE notify_close /\ UNCHANGED answers
  BY <1>1, <1>2, <1>4, EndTurn
<1>5. CASE Responds
  <2>1. SUFFICES ASSUME Orderly'
                 PROVE  Arriving' /\ Agree' /\ Quits' /\ Idle'
    BY DEF Turns
  <2>2. Orderly
    BY <1>1, <2>1 DEF Orderly
  <2>3. PICK a : /\ answers' = Append(answers, a)
                 /\ a.path = Path(req.url) /\ a.version = req.version
    BY <1>5 DEF Responds, Sends, Version
  <2>4. Grown(answers, a, answers')
    <3>1. IsSequence(answers)
      BY DEF IInv, Responded
    <3>2. PICK s, t : s = answers /\ t = answers'
      OBVIOUS
    <3>3. Grown(s, a, t)
      BY <2>3, <3>1, <3>2, OneMore
    <3> QED BY <3>2, <3>3
  <2>5. /\ Len(answers') = Len(answers) + 1 /\ answers'[Len(answers) + 1] = a
        /\ \A i \in 1..Len(answers) : answers'[i] = answers[i]
        /\ DOMAIN answers' = 1..Len(answers')
    BY <2>4 DEF Grown, IsSequence
  <2>6. Quits' /\ Len(asked) = Len(answers) + 1
    BY <1>1, <1>2, <2>2, <2>5 DEF Quits, Owing
  <2>7. a.path = Path(asked[Len(asked)].url) /\ a.version = asked[Len(asked)].version
    BY <1>2, <2>2, <2>3 DEF Ready, Owed
  <2>8. Agree'
    <3>1. ASSUME NEW i \in DOMAIN answers'
          PROVE  /\ answers'[i].path = Path(asked[i].url)
                 /\ answers'[i].version = asked[i].version
      <4>1. i \in 1..Len(answers) \/ i = Len(answers) + 1
        BY <2>5, Counts
      <4>2. CASE i \in 1..Len(answers)
        BY <1>2, <2>2, <2>5, <4>2, Counts DEF Agree
      <4>3. CASE i = Len(answers) + 1
        BY <2>5, <2>6, <2>7, <4>3
      <4> QED BY <4>1, <4>2, <4>3
    <3> QED BY <1>1, <3>1 DEF Agree
  <2>9. Idle'
    BY <1>1, <1>2, <1>5, <2>2 DEF Responds, Ready, Dispatched, next, notify_close, endless,
                                  Idle, Resting, Over
  <2> QED BY <1>2, <2>2, <2>6, <2>8, <2>9
<1> QED BY <1>3, <1>4, <1>5, Outcome

\* Piece i of the request r; its head is piece 0.
PieceOf(r, i) == IF i = 0 THEN HeadOf(r) ELSE [kind |-> "body", what |-> r.body[i]]

\* An orderly client puts its request on the wire in one piece.
LEMMA WholeStream ==
  ASSUME NEW r \in Requests, Ask(r), calm
  PROVE  /\ stream' \in Seq(Piece) /\ Len(stream') = 1 + Len(r.body)
         /\ \A i \in 1..1 + Len(r.body) : stream'[i] = PieceOf(r, i - 1)
<1>1. PICK t : /\ t = [i \in DOMAIN r.body |-> [kind |-> "body", what |-> r.body[i]]]
               /\ stream' = <<HeadOf(r)>> \o t
  BY DEF Ask, PiecesOf, HeadOf
<1>2. r.body \in Seq(STRING) /\ Len(r.body) \in Nat
  BY Site, LenProperties
<1>3. t = [i \in 1..Len(r.body) |-> [kind |-> "body", what |-> r.body[i]]]
  BY <1>1, <1>2, LenProperties
<1>4. t \in Seq(Piece) /\ Len(t) = Len(r.body)
  <2>1. \A i \in 1..Len(r.body) : [kind |-> "body", what |-> r.body[i]] \in Piece
    BY <1>2, ElementOfSeq DEF Piece
  <2>2. t \in Seq(Piece)
    BY <1>2, <1>3, <2>1, IsASeq
  <2> QED BY <1>2, <1>3, <2>2, LenProperties
<1>5. PICK h : h = <<HeadOf(r)>> /\ h \in Seq(Piece) /\ Len(h) = 1 /\ h[1] = HeadOf(r)
  <2>1. HeadOf(r) \in Piece
    BY DEF HeadOf, Piece
  <2>2. PICK h : h = <<HeadOf(r)>>
    OBVIOUS
  <2>3. h \in Seq(Piece) /\ Len(h) = 1
    BY <2>1, <2>2, OneElement
  <2>4. h[1] = HeadOf(r)
    BY <2>2
  <2> QED BY <2>2, <2>3, <2>4
<1>6. stream' = h \o t
  BY <1>1, <1>5
<1>7. h \o t \in Seq(Piece) /\ Len(h \o t) = Len(h) + Len(t)
  BY <1>4, <1>5, Longer
<1>8. ASSUME NEW i \in 1..1 + Len(r.body) PROVE stream'[i] = PieceOf(r, i - 1)
  <2>1. i \in 1..Len(h) + Len(t)
    BY <1>4, <1>5
  <2>2. stream'[i] = IF i <= Len(h) THEN h[i] ELSE t[i - Len(h)]
    BY <1>4, <1>5, <1>6, <2>1, ConcatProperties
  <2>3. CASE i = 1
    BY <1>5, <2>2, <2>3 DEF PieceOf
  <2>4. CASE i # 1
    <3>1. i - 1 \in 1..Len(r.body) /\ ~(i <= 1) /\ i - 1 # 0
      BY <1>2, <2>4
    <3> QED BY <1>3, <1>5, <2>2, <3>1 DEF PieceOf
  <2> QED BY <2>3, <2>4
<1> QED BY <1>4, <1>5, <1>6, <1>7, <1>8

LEMMA AskTurn ==
  ASSUME IInv, NEW r \in Requests, Ask(r)
  PROVE  Turns'
<1>1. /\ UNCHANGED <<calm, answers, inbox, pc, armed, closing>>
      /\ pc # "register" /\ ~closing /\ stream = <<>>
      /\ calm => Quits
      /\ asked' = Append(asked, r) /\ stream' \in PiecesOf(r)
  BY DEF Ask, Quits
<1> SUFFICES ASSUME Orderly'
             PROVE  Arriving' /\ Agree' /\ Owing' /\ Busy(Owed)'
  BY DEF Turns
<1>2. /\ Len(asked') = Len(asked) + 1 /\ asked'[Len(asked) + 1] = r
      /\ \A i \in 1..Len(asked) : asked'[i] = asked[i]
      /\ DOMAIN asked' = 1..(Len(asked) + 1)
  BY <1>1, AppendProperties, LenProperties DEF IInv
<1>3. Orderly /\ Quits /\ calm
  <2>1. \A i \in DOMAIN asked : i \in DOMAIN asked' /\ asked'[i] = asked[i]
    BY <1>2, Counts
  <2> QED BY <1>1, <2>1 DEF Orderly
<1>4. Arriving /\ Agree /\ Idle
  BY <1>3, Counts DEF IInv, Turns
<1>5. (inbox = <<>> /\ pc = "wait" /\ armed = "in") \/ pc = "endless"
  BY <1>1, <1>4 DEF Idle, Resting, Over
<1>6. Len(r.body) \in Nat
  BY Site, LenProperties
<1>7. stream' \in Seq(Piece) /\ Len(stream') = 1 + Len(r.body) /\ stream'[1] = HeadOf(r)
  <2>1. 1 \in 1..1 + Len(r.body) /\ 1 - 1 = 0
    BY <1>6
  <2> QED BY <1>3, <2>1, WholeStream DEF PieceOf
<1>8. Owing' /\ Owed' = r
  BY <1>1, <1>2, <1>3 DEF Quits, Owing, Owed
<1>9. ASSUME pc # "endless" PROVE Unread(r)'
  <2>1. Len(inbox) = 0
    BY <1>5, <1>9, EmptySeq
  <2> QED BY <1>1, <1>5, <1>6, <1>7, <1>9, <2>1 DEF Unread
<1>10. Agree'
  BY <1>1, <1>2, <1>3, <1>4, Counts DEF Agree, Quits
<1>11. Busy(Owed)'
  <2>1. CASE pc # "endless"
    <3>1. Unread(Owed)'
      BY <1>8, <1>9, <2>1 DEF Unread
    <3> QED BY <3>1 DEF Busy
  <2> QED BY <1>1, <2>1 DEF Busy
<1>12. Arriving'
  BY <1>1, <1>4, <1>7 DEF Arriving
<1> QED BY <1>8, <1>10, <1>11, <1>12

LEMMA DeliverTurn ==
  ASSUME IInv, Deliver
  PROVE  Turns'
<1>1. UNCHANGED <<calm, asked, answers, pc, armed, closing, req, body>> /\ stream # <<>>
  BY DEF Deliver, request
<1>2. PICK k \in DOMAIN stream : /\ inbox' = inbox \o SubSeq(stream, 1, k)
                                 /\ stream' = SubSeq(stream, k + 1, Len(stream))
  BY DEF Deliver
<1>3. ASSUME Orderly
      PROVE  /\ Arriving /\ Arriving' /\ Len(inbox') + Len(stream') = Len(inbox) + Len(stream)
             /\ inbox' # <<>>
             /\ inbox'[1] = IF inbox = <<>> THEN stream[1] ELSE inbox[1]
  <2>1. Arriving
    BY <1>3 DEF IInv, Turns
  <2>2. k \in 1..Len(stream) /\ Len(inbox) \in Nat /\ Len(stream) \in Nat
    BY <1>2, <2>1, LenProperties DEF Arriving
  <2>3. stream' \in Seq(Piece) /\ Len(stream') = Len(stream) - k
    BY <1>2, <2>1, <2>2, Rest DEF Arriving
  <2>4. PICK t : t = SubSeq(stream, 1, k)
    OBVIOUS
  <2>5. t \in Seq(Piece) /\ Len(t) = k /\ t[1] = stream[1]
    <3>1. 1 \in Int /\ k \in Int /\ \A i \in 1..k : stream[i] \in Piece
      BY <2>1, <2>2, ElementOfSeq DEF Arriving
    <3>2. t \in Seq(Piece)
      BY <2>4, <3>1, SubSeqProperties
    <3>3. Len(t) = IF 1 <= k THEN k - 1 + 1 ELSE 0
      BY <2>4, <3>1, SubSeqProperties
    <3>4. \A i \in 1..(k - 1 + 1) : t[i] = stream[1 + i - 1]
      BY <2>4, <3>1, SubSeqProperties
    <3>5. 1 \in 1..(k - 1 + 1) /\ 1 + 1 - 1 = 1
      BY <2>2
    <3> QED BY <2>2, <3>2, <3>3, <3>4, <3>5
  <2>6. /\ inbox' = inbox \o t /\ inbox' \in Seq(Piece)
        /\ Len(inbox') = Len(inbox) + k
    <3>1. inbox \o t \in Seq(Piece) /\ Len(inbox \o t) = Len(inbox) + Len(t)
      BY <2>1, <2>5, Longer DEF Arriving
    <3> QED BY <1>2, <2>4, <2>5, <3>1
  <2>7. inbox' # <<>>
    <3>1. Len(inbox') # 0
      BY <2>2, <2>6
    <3> QED BY <3>1, EmptySeq
  <2>8. inbox'[1] = IF 1 <= Len(inbox) THEN inbox[1] ELSE t[1 - Len(inbox)]
    <3>1. 1 \in 1..(Len(inbox) + Len(t))
      BY <2>2, <2>5
    <3>2. (inbox \o t)[1] = IF 1 <= Len(inbox) THEN inbox[1] ELSE t[1 - Len(inbox)]
      BY <2>1, <2>5, <3>1, ConcatProperties DEF Arriving
    <3> QED BY <2>6, <3>2
  <2>9. inbox'[1] = IF inbox = <<>> THEN stream[1] ELSE inbox[1]
    <3>1. inbox = <<>> <=> Len(inbox) = 0
      BY <2>1, Lengths
    <3>2. CASE Len(inbox) = 0
      BY <2>5, <2>8, <3>1, <3>2
    <3>3. CASE Len(inbox) # 0
      BY <2>2, <2>8, <3>1, <3>3
    <3> QED BY <3>2, <3>3
  <2>10. Arriving'
    BY <2>3, <2>6 DEF Arriving
  <2> QED BY <2>1, <2>2, <2>3, <2>6, <2>7, <2>9, <2>10
<1>4. ASSUME NEW r, Orderly, Owing, r = Owed, Busy(r) PROVE Busy(r)'
  <2>1. CASE Unread(r)
    BY <1>1, <1>3, <1>4, <2>1 DEF Unread, Busy
  <2>2. CASE Reading(r)
    <3>1. /\ Len(body) \in Nat /\ Len(inbox) \in Nat /\ Len(stream) \in Nat
          /\ Len(inbox') \in Nat /\ Len(stream') \in Nat
      BY <1>3, <1>4, <2>2, LenProperties DEF Reading, Arriving
    <3>2. Len(body) + Len(inbox') + Len(stream') = Len(body) + Len(inbox) + Len(stream)
      BY <1>3, <1>4, <3>1
    <3> QED BY <1>1, <2>2, <3>2 DEF Reading, Busy
  <2>3. CASE Ready(r)
    BY <1>1, <2>3 DEF Ready
  <2>4. CASE pc \in {"crash", "endless"} \/ Over
    BY <1>1, <2>4 DEF Busy, Over
  <2> QED BY <1>4, <2>1, <2>2, <2>3, <2>4 DEF Busy
<1>5. Idle => Idle'
  BY <1>1 DEF Idle, Resting, Over
<1> QED BY <1>1, <1>3, <1>4, <1>5, SameTurn

LEMMA LeaveTurn ==
  ASSUME IInv, Leave
  PROVE  Turns'
<1>1. UNCHANGED <<calm, asked, answers, inbox, pc, armed, closing, req, body>> /\ stream' = <<>>
  BY DEF Leave, request
<1>2. Orderly => Arriving'
  BY <1>1, EmptySeq DEF IInv, Turns, Arriving
<1>3. Idle => Idle'
  BY <1>1 DEF Idle, Resting, Over
<1>4. ASSUME NEW r, Orderly, Owing, r = Owed, Busy(r) PROVE Busy(r)'
  <2>1. Len(inbox) \in Nat /\ Len(stream) \in Nat /\ Len(r.body) \in Nat /\ Len(stream') = 0
    BY <1>1, <1>4, Lengths, OwedFacts, EmptySeq DEF IInv, Turns
  <2>2. CASE Unread(r)
    BY <1>1, <2>1, <2>2 DEF Unread, Busy
  <2>3. CASE Reading(r)
    <3>1. Len(body) \in Nat
      BY <2>3, LenProperties DEF Reading
    <3>2. Len(body) + Len(inbox) + Len(stream') <= Len(r.body)
      BY <2>1, <2>3, <3>1 DEF Reading
    <3> QED BY <1>1, <2>3, <3>2 DEF Reading, Busy
  <2>4. CASE Ready(r) \/ pc \in {"crash", "endless"} \/ Over
    BY <1>1, <2>4 DEF Busy, Ready, Over
  <2> QED BY <1>4, <2>2, <2>3, <2>4 DEF Busy
<1> QED BY <1>1, <1>2, <1>3, <1>4, SameTurn

\* Nothing of the client before is left.
LEMMA NextClientTurn ==
  ASSUME IInv, NextClient
  PROVE  Turns'
<1>1. /\ inbox' = <<>> /\ stream' = <<>> /\ asked' = <<>> /\ answers' = <<>>
      /\ pc' = "wait" /\ armed' = "in" /\ ~closing'
  BY DEF NextClient
<1>2. Arriving' /\ Idle'
  BY <1>1, EmptySeq DEF Arriving, Idle, Resting
<1>3. Agree' /\ Quits'
  BY <1>1 DEF Agree, Quits
<1> QED BY <1>2, <1>3 DEF Turns

\* The registration of filters, and steps of others.
LEMMA OtherTurn ==
  ASSUME IInv, (\E f \in Filters : Register(f)) \/ Started \/ UNCHANGED vars
  PROVE  Turns'
<1>1. /\ UNCHANGED <<calm, asked, answers, stream, inbox, armed, closing, req, body>>
      /\ UNCHANGED pc \/ (pc = "register" /\ pc' = "wait")
  BY DEF Register, Started, vars, request, client
<1>2. Orderly => Arriving'
  BY <1>1 DEF IInv, Turns, Arriving
<1>3. Idle => Idle'
  BY <1>1 DEF IInv, Armed, Idle, Resting, Over
<1>4. ASSUME NEW r, Busy(r) PROVE Busy(r)'
  BY <1>1, <1>4 DEF Busy, Unread, Reading, Ready, Over
<1> QED BY <1>1, <1>2, <1>3, <1>4, SameTurn

LEMMA InitInv == Init => IInv
<1> SUFFICES ASSUME Init PROVE IInv
  OBVIOUS
<1>1. asked \in Seq(Requests) /\ Arriving
  BY EmptySeq DEF Init, Arriving
<1>2. Agree /\ Quits /\ Idle
  <2>1. answers = <<>> /\ asked = <<>>
    BY DEF Init
  <2>2. DOMAIN answers = {}
    BY <2>1
  <2> QED BY <2>1, <2>2 DEF Init, Agree, Quits, Idle, Resting
<1> QED BY <1>1, <1>2, ArmedInv, RespondedInv DEF IInv, Turns

LEMMA StepInv ==
  ASSUME IInv, [Next]_vars
  PROVE  IInv'
<1>1. Armed' /\ Responded'
  BY ArmedInv, RespondedInv DEF IInv
<1>2. Turns'
  <2>1. CASE Handler
    BY <2>1, ReadEndTurn, HangUpTurn, ReadPartTurn, ReadHeadTurn,
       QueryLoopTurn, HeadReadTurn, ReadBodyTurn, BodyReadTurn, ProcessOutTurn DEF Handler
  <2>2. CASE \E r \in Requests : Ask(r)
    BY <2>2, AskTurn
  <2>3. CASE Deliver \/ Leave \/ NextClient
    BY <2>3, DeliverTurn, LeaveTurn, NextClientTurn
  <2> QED BY <2>1, <2>2, <2>3, OtherTurn DEF Next
<1>3. asked' \in Seq(Requests)
  <2>1. CASE Handler
    BY <2>1 DEF Handler, ReadEnd, HangUp, ReadPart, ReadRest, ReadHead, QueryLoop, HeadRead,
                ReadBody, BodyRead, ProcessOut, client, IInv
  <2>2. CASE \E r \in Requests : Ask(r)
    BY <2>2, AppendProperties DEF Ask, IInv
  <2>3. CASE NextClient
    BY <2>3, EmptySeq DEF NextClient
  <2>4. CASE (\E f \in Filters : Register(f)) \/ Started \/ Deliver \/ Leave \/ UNCHANGED vars
    BY <2>4 DEF Register, Started, Deliver, Leave, vars, client, IInv
  <2> QED BY <2>1, <2>2, <2>3, <2>4 DEF Next
<1> QED BY <1>1, <1>2, <1>3 DEF IInv

\* The requests of a client that sends each in full, and the next one when it has
\* its response, are answered in turn with their own url and version, although
\* clear_in keeps the method and version and init clears nothing of the client before.
THEOREM Answers == Spec => []InTurn
<1>1. ASSUME IInv PROVE InTurn
  <2>1. Orderly => Len(answers) <= Len(asked)
    BY <1>1, Counts DEF IInv, Turns, Quits, Owing
  <2>2. Orderly => Agree
    BY <1>1 DEF IInv, Turns
  <2> QED BY <2>1, <2>2 DEF InTurn, Agree
<1> QED BY <1>1, InitInv, StepInv, PTL DEF Spec

-----------------------------------------------------------------------------
(* What an orderly client has written is what is read *)

\* Piece i of those that have arrived or are on their way; they are those of the
\* request r after n.
Coming(i) == IF i <= Len(inbox) THEN inbox[i] ELSE stream[i - Len(inbox)]
Following(r, n) == \A i \in 1..Len(inbox) + Len(stream) : Coming(i) = PieceOf(r, n + i)

\* The body that has been read is the beginning of that of r.
Begun(r) == \A i \in 1..Len(body) : body[i] = r.body[i]

\* The loop over the query of r stands at one of its pairs and has those before.
Looping(r) ==
  Paired(r.url.query) =>
    \E s \in Starts(r.url.query) :
      query.start = s + 2 /\ FirstOf(r.url.query, s, query.parameters)

\* What the request r says of parameters and of a form.
Parameters(r) ==
  r.url.query # NoQuery /\ Paired(r.url.query) =>
    req.parameters = [key \in Keys(r.url.query) |->
                        ValueAt(r.url.query, Min(Keyed(r.url.query, key)))]
FormOf(r) ==
  r.method = "POST" /\ Paired(r.body) /\ HeaderFields(r.lines)["Content-Type"][1][1] = "form" =>
    form = [key \in Keys(r.body) |-> ValueAt(r.body, Max(Keyed(r.body, key)))]

\* How much of the request r has been read, and that it was read right.
ReadSoFar(r) ==
  /\ pc = "wait" /\ armed = "in" /\ ~closing => Following(r, -1)
  /\ pc \in {"query", "head", "body"} => Following(r, Len(body)) /\ Begun(r)
  /\ pc = "query" => Looping(r)
  /\ pc \in {"head", "body"} => Parameters(r)
  /\ pc = "wait" /\ armed = "out" /\ ~closing =>
       Parameters(r) /\ FormOf(r) /\ req.lines = HeaderFields(r.lines)

Held == Orderly /\ Owing => ReadSoFar(Owed)

\* The connection is closed, or the program ends or hangs, or nothing is owed.
LEMMA EndHeld ==
  ASSUME notify_close \/ pc' \in {"crash", "endless"} \/ (Orderly' => ~Owing')
  PROVE  Held'
BY DEF Held, ReadSoFar, notify_close

\* A step that touches none of what has been read.
LEMMA SameHeld ==
  ASSUME Held, UNCHANGED <<calm, asked, answers, pc, armed, closing, req, query, body, form>>,
         ASSUME NEW r, NEW n, r = Owed, Orderly, Owing, Following(r, n)
         PROVE  Following(r, n)'
  PROVE  Held'
<1> SUFFICES ASSUME Orderly', Owing' PROVE ReadSoFar(Owed)'
  BY DEF Held
<1>1. Orderly /\ Owing /\ ReadSoFar(Owed)
  BY DEF Orderly, Owing, Held
<1>2. PICK r : r = Owed
  OBVIOUS
<1>3. r = Owed'
  BY <1>2 DEF Owed
<1>4. /\ Following(r, -1) => Following(r, -1)'
      /\ Following(r, Len(body)) => Following(r, Len(body))'
  BY <1>1, <1>2
<1>5. ReadSoFar(r)'
  BY <1>1, <1>2, <1>4 DEF ReadSoFar, Following, Coming, Begun, Looping, Parameters, FormOf
<1> QED BY <1>3, <1>5 DEF ReadSoFar, Following, Coming, Begun, Looping, Parameters, FormOf

LEMMA AskHeld ==
  ASSUME IInv, NEW r \in Requests, Ask(r)
  PROVE  Held'
<1>1. /\ UNCHANGED <<calm, answers, inbox, pc, armed, closing>> /\ pc # "register" /\ ~closing
      /\ asked' = Append(asked, r)
      /\ calm => Quits
  BY DEF Ask, Quits
<1> SUFFICES ASSUME Orderly' PROVE ReadSoFar(Owed)'
  BY DEF Held
<1>2. /\ Len(asked') = Len(asked) + 1 /\ asked'[Len(asked) + 1] = r
      /\ \A i \in 1..Len(asked) : asked'[i] = asked[i]
      /\ DOMAIN asked' = 1..(Len(asked) + 1)
  BY <1>1, AppendProperties, LenProperties DEF IInv
<1>3. Orderly /\ Quits /\ calm
  <2>1. \A i \in DOMAIN asked : i \in DOMAIN asked' /\ asked'[i] = asked[i]
    BY <1>2, Counts
  <2> QED BY <1>1, <2>1 DEF Orderly, Quits
<1>4. Idle
  BY <1>3, Counts DEF IInv, Turns
<1>5. (inbox = <<>> /\ pc = "wait" /\ armed = "in") \/ pc = "endless"
  BY <1>1, <1>4 DEF Idle, Resting, Over
<1>6. Owed' = r
  BY <1>2 DEF Owed
<1>7. ASSUME pc # "endless" PROVE Following(r, -1)'
  <2>1. /\ Len(stream') = 1 + Len(r.body) /\ Len(r.body) \in Nat
        /\ \A i \in 1..1 + Len(r.body) : stream'[i] = PieceOf(r, i - 1)
    BY <1>3, WholeStream, Site, LenProperties
  <2>2. Len(inbox') = 0
    BY <1>1, <1>5, <1>7, EmptySeq
  <2>3. ASSUME NEW i \in 1..Len(inbox') + Len(stream') PROVE Coming(i)' = PieceOf(r, -1 + i)
    <3>1. i \in 1..1 + Len(r.body) /\ ~(i <= 0) /\ i - 0 = i /\ i - 1 = -1 + i
      BY <2>1, <2>2
    <3>2. Coming(i)' = stream'[i]
      BY <2>2, <3>1 DEF Coming
    <3> QED BY <2>1, <3>1, <3>2
  <2> QED BY <2>3 DEF Following
<1>8. pc # "endless" => Following(Owed, -1)'
  BY <1>6, <1>7 DEF Following
<1> QED BY <1>1, <1>5, <1>8 DEF ReadSoFar

\* What arrives comes no later and no earlier than it would have.
LEMMA DeliverHeld ==
  ASSUME IInv, Held, Deliver
  PROVE  Held'
<1>1. UNCHANGED <<calm, asked, answers, pc, armed, closing, req, query, body, form>>
  BY DEF Deliver, request
<1>2. PICK k \in DOMAIN stream : /\ inbox' = inbox \o SubSeq(stream, 1, k)
                                 /\ stream' = SubSeq(stream, k + 1, Len(stream))
  BY DEF Deliver
<1>3. ASSUME NEW r, NEW n, Orderly, Following(r, n) PROVE Following(r, n)'
  <2>1. inbox \in Seq(Piece) /\ stream \in Seq(Piece)
    BY <1>3 DEF IInv, Turns, Arriving
  <2>2. PICK K, L : K = Len(inbox) /\ L = Len(stream)
    OBVIOUS
  <2>3. k \in 1..L /\ K \in Nat /\ L \in Nat
    BY <1>2, <2>1, <2>2, LenProperties
  <2>4. PICK t : t = SubSeq(stream, 1, k)
    OBVIOUS
  <2>5. t \in Seq(Piece) /\ Len(t) = k /\ \A i \in 1..k : t[i] = stream[i]
    <3>1. 1 \in Int /\ k \in Int /\ \A i \in 1..k : stream[i] \in Piece
      BY <2>1, <2>2, <2>3, ElementOfSeq
    <3>2. /\ t \in Seq(Piece) /\ Len(t) = IF 1 <= k THEN k - 1 + 1 ELSE 0
          /\ \A i \in 1..(k - 1 + 1) : t[i] = stream[1 + i - 1]
      BY <2>4, <3>1, SubSeqProperties
    <3>3. k - 1 + 1 = k /\ \A i \in 1..k : 1 + i - 1 = i
      BY <2>3
    <3> QED BY <2>3, <3>2, <3>3
  <2>6. /\ Len(inbox') = K + k
        /\ \A i \in 1..K + k : inbox'[i] = IF i <= K THEN inbox[i] ELSE t[i - K]
    BY <1>2, <2>1, <2>2, <2>4, <2>5, ConcatProperties
  <2>7. Len(stream') = L - k /\ \A i \in 1..L - k : stream'[i] = stream[k + i]
    <3>1. k + 1 \in Int /\ L \in Int /\ \A i \in k + 1..L : stream[i] \in Piece
      BY <2>1, <2>2, <2>3, ElementOfSeq
    <3>2. /\ Len(stream') = IF k + 1 <= L THEN L - (k + 1) + 1 ELSE 0
          /\ \A i \in 1..(L - (k + 1) + 1) : stream'[i] = stream[k + 1 + i - 1]
      <4>1. PICK s, a, rest : s = stream /\ a = k + 1 /\ rest = SubSeq(s, a, L)
        OBVIOUS
      <4>2. a \in Int /\ L \in Int /\ \A i \in a..L : s[i] \in Piece
        BY <3>1, <4>1
      <4>3. Len(SubSeq(s, a, L)) = (IF a <= L THEN L - a + 1 ELSE 0)
            /\ \A i \in 1..L - a + 1 : SubSeq(s, a, L)[i] = s[a + i - 1]
        BY <4>2, SubSeqProperties
      <4> QED BY <1>2, <2>2, <4>1, <4>3
    <3>3. L - (k + 1) + 1 = L - k /\ \A i \in 1..L - k : k + 1 + i - 1 = k + i
      BY <2>3
    <3> QED BY <2>3, <3>2, <3>3
  <2>8. ASSUME NEW i \in 1..Len(inbox') + Len(stream') PROVE Coming(i)' = Coming(i)
    <3>1. i \in 1..K + L
      BY <2>3, <2>6, <2>7
    <3>2. CASE i <= K
      <4>1. i \in 1..K + k /\ i <= K + k
        BY <2>3, <3>1, <3>2
      <4> QED BY <2>2, <2>6, <3>2, <4>1 DEF Coming
    <3>3. CASE ~(i <= K) /\ i <= K + k
      <4>1. i \in 1..K + k /\ i - K \in 1..k
        BY <2>3, <3>1, <3>3
      <4> QED BY <2>2, <2>5, <2>6, <3>3, <4>1 DEF Coming
    <3>4. CASE ~(i <= K + k)
      <4>1. i - (K + k) \in 1..L - k /\ k + (i - (K + k)) = i - K /\ ~(i <= K)
        BY <2>3, <3>1, <3>4
      <4>2. Coming(i)' = stream'[i - (K + k)]
        BY <2>6, <3>4 DEF Coming
      <4>3. Coming(i) = stream[i - K]
        BY <2>2, <4>1 DEF Coming
      <4> QED BY <2>7, <4>1, <4>2, <4>3
    <3> QED BY <3>2, <3>3, <3>4
  <2>9. Len(inbox') + Len(stream') = Len(inbox) + Len(stream)
    <3>1. Len(inbox') = K + k /\ Len(stream') = L - k
      BY <2>6, <2>7
    <3>2. K + k + (L - k) = K + L
      BY <2>3
    <3> QED BY <2>2, <3>1, <3>2
  <2> QED BY <1>3, <2>8, <2>9 DEF Following
<1> QED BY <1>1, <1>3, SameHeld

LEMMA LeaveHeld ==
  ASSUME IInv, Held, Leave
  PROVE  Held'
<1>1. /\ UNCHANGED <<calm, asked, answers, pc, armed, closing, req, query, body, form, inbox>>
      /\ stream' = <<>>
  BY DEF Leave, request
<1>2. ASSUME NEW r, NEW n, Orderly, Following(r, n) PROVE Following(r, n)'
  <2>1. Len(inbox) \in Nat /\ Len(stream) \in Nat /\ Len(stream') = 0
    BY <1>1, <1>2, Lengths, EmptySeq DEF IInv, Turns
  <2>2. ASSUME NEW i \in 1..Len(inbox') + Len(stream') PROVE Coming(i)' = PieceOf(r, n + i)
    <3>1. i \in 1..Len(inbox) + Len(stream) /\ i <= Len(inbox)
      BY <1>1, <2>1
    <3> QED BY <1>1, <1>2, <3>1 DEF Following, Coming
  <2> QED BY <2>2 DEF Following
<1> QED BY <1>1, <1>2, SameHeld

LEMMA ReadEndHeld ==
  ASSUME IInv, Held, ReadEnd
  PROVE  Held'
<1>1. /\ UNCHANGED <<calm, asked, answers, stream>> /\ pc = "wait" /\ armed = "in" /\ ~closing
      /\ (UNCHANGED inbox /\ next("in")) \/ notify_close
  BY DEF ReadEnd, Dispatched
<1>2. CASE UNCHANGED inbox /\ next("in")
  <2> SUFFICES ASSUME Orderly', Owing' PROVE ReadSoFar(Owed)'
    BY DEF Held
  <2>1. Orderly /\ Owing /\ ReadSoFar(Owed)
    BY <1>1 DEF Orderly, Owing, Held
  <2>2. Following(Owed, -1)
    BY <1>1, <2>1 DEF ReadSoFar
  <2>3. Following(Owed, -1)'
    BY <1>1, <1>2, <2>2 DEF Following, Coming, Owed
  <2> QED BY <1>2, <2>3 DEF ReadSoFar, next
<1> QED BY <1>1, <1>2, EndHeld

\* An url as a text: its query begins behind the first two characters.
Letters == STRING \cup {"p", Question}

LEMMA UrlText ==
  ASSUME NEW url, url.query \in Seq(STRING)
  PROVE  /\ url.query \in Seq(Letters)
         /\ Text(url) \in Seq(Letters) /\ Behind(Text(url), url.query)
         /\ QueryStart(Text(url)).start = 2 /\ QueryStart(Text(url)).parameters = NoEntries
<1>1. PICK c, h, q, T : c = "p" /\ h = <<c, Question>> /\ q = url.query /\ T = h \o q
  OBVIOUS
<1>2. T = Text(url)
  BY <1>1 DEF Text
<1>3. c \in Letters /\ Question \in Letters /\ c # Question
  <2>1. "p" # Question
    BY DEF Question
  <2> QED BY <1>1, <2>1 DEF Letters
<1>4. h \in Seq(Letters) /\ Len(h) = 2 /\ h[1] = c /\ h[2] = Question
  <2>1. h = [i \in 1..2 |-> IF i = 1 THEN c ELSE Question]
    BY <1>1
  <2>2. \A i \in 1..2 : (IF i = 1 THEN c ELSE Question) \in Letters
    BY <1>3
  <2>3. h \in Seq(Letters)
    BY <2>1, <2>2, IsASeq
  <2> QED BY <2>1, <2>3, LenProperties
<1>5. Len(q) \in Nat /\ q \in Seq(Letters)
  <2>1. STRING \subseteq Letters
    BY DEF Letters
  <2> QED BY <1>1, <2>1, LenProperties, SeqMonotonic
<1>6. /\ T \in Seq(Letters) /\ Len(T) = 2 + Len(q)
      /\ \A i \in 1..2 + Len(q) : T[i] = IF i <= 2 THEN h[i] ELSE q[i - 2]
  BY <1>1, <1>4, <1>5, ConcatProperties
<1>7. T[1] = c /\ T[2] = Question
  <2>1. 1 \in 1..2 + Len(q) /\ 2 \in 1..2 + Len(q)
    BY <1>5
  <2> QED BY <1>4, <1>6, <2>1
<1>8. Behind(T, q)
  <2>1. \A i \in 1..Len(q) : i + 2 \in 1..2 + Len(q) /\ ~(i + 2 <= 2) /\ i + 2 - 2 = i
    BY <1>5
  <2>2. \A i \in 1..Len(q) : T[i + 2] = q[i]
    BY <1>6, <2>1
  <2> QED BY <1>5, <1>6, <2>2 DEF Behind
<1>9. FindFirstOf(T, {Question}, 0) = 1
  <2>1. \A i \in 0..1 - 1 : T[i + 1] \notin {Question}
    BY <1>3, <1>7
  <2>2. 1 \in 0..Len(T) - 1 /\ Len(T) \in Nat /\ 1 + 1 = 2
    BY <1>5, <1>6
  <2>3. Found(T, {Question}, 0, 1)
    BY <1>7, <2>1, <2>2 DEF Found
  <2> QED BY <2>2, <2>3, FirstFound
<1>10. QueryStart(T) = [start |-> 2, end |-> 0, parameters |-> NoEntries]
  <2>1. 1 + 1 = 2
    OBVIOUS
  <2> QED BY <1>9, <2>1 DEF QueryStart
<1>11. QueryStart(T).start = 2 /\ QueryStart(T).parameters = NoEntries
  BY <1>10
<1> QED BY <1>1, <1>2, <1>5, <1>6, <1>8, <1>11

LEMMA ReadHeadHeld ==
  ASSUME IInv, Held, ReadHead
  PROVE  Held'
<1> SUFFICES ASSUME Orderly', Owing' PROVE ReadSoFar(Owed)'
  BY DEF Held
<1>1. UNCHANGED <<calm, asked, answers, stream>> /\ inbox' = <<>> /\ Dispatched("in") /\ inbox # <<>>
  BY DEF ReadHead
<1>2. Orderly /\ Owing /\ ReadSoFar(Owed)
  BY <1>1 DEF Orderly, Owing, Held
<1>3. PICK r : r = Owed /\ r = Owed'
  BY <1>1 DEF Owed
<1>4. inbox[1] = HeadOf(r) /\ Following(r, -1) /\ r.body \in Seq(STRING) /\ r.url.query \in Seq(STRING)
  <2>1. Following(Owed, -1)
    BY <1>1, <1>2 DEF ReadSoFar, Dispatched
  <2> QED BY <1>1, <1>2, <1>3, <2>1, FirstRead, OwedFacts, Site
<1>5. PICK n : n = Len(inbox) /\ n \in Nat \ {0} /\ Len(stream) \in Nat
  BY <1>1, <1>2, Lengths DEF IInv, Turns
<1>6. /\ body' = [i \in 1..n - 1 |-> Character(inbox[i + 1])]
      /\ query' = QueryStart(Text(r.url))
      /\ pc' = IF r.url.query = NoQuery THEN "head" ELSE "query"
  BY <1>4, <1>5 DEF ReadHead, HeadOf
<1>7. Len(body') = n - 1
  <2>1. n - 1 \in Nat /\ body' = [i \in 1..n - 1 |-> body'[i]]
    BY <1>5, <1>6
  <2> QED BY <2>1, Listed
<1>8. Begun(r)'
  <2>1. ASSUME NEW i \in 1..n - 1 PROVE body'[i] = r.body[i]
    <3>1. i + 1 \in 1..n /\ i + 1 \in 1..n + Len(stream) /\ -1 + (i + 1) = i /\ i # 0
      BY <1>5
    <3>2. Coming(i + 1) = PieceOf(r, i)
      BY <1>4, <1>5, <3>1 DEF Following
    <3>3. inbox[i + 1] = [kind |-> "body", what |-> r.body[i]]
      BY <1>5, <3>1, <3>2 DEF Coming, PieceOf
    <3> QED BY <1>6, <3>3 DEF Character
  <2> QED BY <1>7, <2>1 DEF Begun
<1>9. Following(r, Len(body))'
  <2>1. Len(inbox') = 0 /\ stream' = stream
    BY <1>1, EmptySeq
  <2>2. ASSUME NEW i \in 1..Len(inbox') + Len(stream') PROVE Coming(i)' = PieceOf(r, Len(body') + i)
    <3>1. i \in 1..Len(stream) /\ ~(i <= 0) /\ i - 0 = i
      BY <1>5, <2>1
    <3>2. Coming(i)' = stream[i]
      BY <2>1, <3>1 DEF Coming
    <3>3. PICK j : j = n + i /\ j \in 1..n + Len(stream) /\ ~(j <= n) /\ j - n = i /\ -1 + j = n - 1 + i
      BY <1>5, <3>1
    <3>4. Coming(j) = PieceOf(r, n - 1 + i)
      BY <1>4, <1>5, <3>3 DEF Following
    <3>5. Coming(j) = stream[i]
      BY <1>5, <3>3 DEF Coming
    <3> QED BY <1>7, <3>2, <3>4, <3>5
  <2> QED BY <2>2 DEF Following
<1>10. Looping(r)'
  <2>1. query'.start = 2 /\ query'.parameters = NoEntries
    BY <1>4, <1>6, UrlText
  <2>2. PICK text : text = r.url.query
    OBVIOUS
  <2>3. 0 \in Starts(text) /\ 0 + 2 = 2
    BY DEF Starts
  <2>4. FirstOf(text, 0, NoEntries)
    <3>1. \A i \in Starts(text) : ~(i < 0)
      BY <1>4, <2>2, StartIs
    <3>2. PICK map : map = NoEntries
      OBVIOUS
    <3>3. {j \in Starts(text) : j < 0} = {} /\ map = [x \in {} |-> <<>>]
      BY <3>1, <3>2 DEF NoEntries
    <3>4. map = [key \in {KeyAt(text, i) : i \in {j \in Starts(text) : j < 0}} |-> map[key]]
      BY <3>3
    <3> QED BY <3>1, <3>2, <3>4 DEF FirstOf
  <2> QED BY <2>1, <2>2, <2>3, <2>4 DEF Looping
<1>11. ReadSoFar(r)'
  <2>1. pc' = "head" => Parameters(r)'
    BY <1>6 DEF Parameters
  <2> QED BY <1>6, <1>8, <1>9, <1>10, <2>1 DEF ReadSoFar
<1>12. ReadSoFar(Owed)' <=> ReadSoFar(r)'
  BY <1>3 DEF ReadSoFar, Following, Coming, Begun, Looping, Parameters, FormOf
<1> QED BY <1>11, <1>12

LEMMA QueryLoopHeld ==
  ASSUME IInv, Held, QueryLoop
  PROVE  Held'
<1> SUFFICES ASSUME Orderly', Owing' PROVE ReadSoFar(Owed)'
  BY DEF Held
<1>1. /\ UNCHANGED <<calm, asked, answers, inbox, stream, body>> /\ pc = "query"
      /\ query' = QueryRound(Text(req.url), query)
      /\ req' = [req EXCEPT !.parameters = query'.parameters]
      /\ pc' = IF QueryDone(query') THEN "head" ELSE "query"
  BY DEF QueryLoop, client
<1>2. Orderly /\ Owing /\ ReadSoFar(Owed)
  BY <1>1 DEF Orderly, Owing, Held
<1>3. PICK r : r = Owed /\ r = Owed'
  BY <1>1 DEF Owed
<1>4. req.url = r.url /\ Following(r, Len(body)) /\ Begun(r) /\ Looping(r)
  BY <1>1, <1>2, <1>3, NowReading DEF Reading, ReadSoFar
<1>5. r \in Requests /\ r.url.query \in Seq(STRING)
  BY <1>2, <1>3, OwedFacts, Site
<1>6. Following(r, Len(body))' /\ Begun(r)'
  BY <1>1, <1>4 DEF Following, Coming, Begun
<1>7. ASSUME Paired(r.url.query)
      PROVE  /\ pc' = "query" => Looping(r)'
             /\ pc' = "head" => Parameters(r)'
  <2>1. PICK text, url : text = r.url.query /\ url = Text(r.url)
    OBVIOUS
  <2>2. PICK s \in Starts(text) : query.start = s + 2 /\ FirstOf(text, s, query.parameters)
    BY <1>4, <1>7, <2>1 DEF Looping
  <2>3. /\ text \in Seq(Letters) /\ url \in Seq(Letters) /\ Behind(url, text)
        /\ Equal \in Range(PieceAt(text, s))
    BY <1>5, <1>7, <2>1, <2>2, UrlText DEF Paired
  <2>4. PICK e, m : PairedAt(text, s, e, m)
    BY <2>3, PairAtIs
  <2>5. PICK map : map = Emplaced(query.parameters, KeyAt(text, s), ValueAt(text, s))
    OBVIOUS
  <2>6. QueryRound(url, query) = [ start |-> IF e = npos THEN 0 ELSE e + 3,
                                   end |-> IF e = npos THEN npos ELSE e + 2, parameters |-> map ]
    BY <2>2, <2>3, <2>4, <2>5, RoundIs
  <2>7. /\ query'.start = IF e = npos THEN 0 ELSE e + 3
        /\ query'.end = IF e = npos THEN npos ELSE e + 2
        /\ query'.parameters = map
    BY <1>1, <1>4, <2>1, <2>6
  <2>8. Found(text, {Ampersand}, s, e)
    BY <2>4 DEF PairedAt
  <2>9. CASE e = npos
    <3>1. \A i \in Starts(text) : i <= s
      BY <2>3, <2>8, <2>9, NextStart
    <3>2. PICK b : b = s + 1 /\ \A i \in Starts(text) : i < b /\ (i < b <=> i <= s)
      <4>1. \A i \in Starts(text) : i \in Int
        BY <2>3, StartIs
      <4>2. \A i \in Starts(text) : i < s + 1
        BY <3>1, <4>1
      <4> QED BY <3>1, <4>2
    <3>3. FirstOf(text, b, map)
      BY <2>2, <2>3, <2>5, <3>2, FirstMore
    <3>4. map = [key \in Keys(text) |-> ValueAt(text, Min(Keyed(text, key)))]
      BY <2>3, <3>2, <3>3, FirstAll
    <3>5. req'.parameters = map
      BY <1>1, <2>7
    <3>6. pc' = "head"
      BY <1>1, <2>7, <2>9 DEF QueryDone
    <3> QED BY <2>1, <3>4, <3>5, <3>6 DEF Parameters
  <2>10. CASE e # npos
    <3>1. /\ e + 1 \in Starts(text) /\ e \in s..Len(text) - 1
          /\ \A i \in Starts(text) : i < e + 1 <=> i <= s
      BY <2>3, <2>8, <2>10, NextStart
    <3>2. FirstOf(text, e + 1, map)
      BY <2>2, <2>3, <2>5, <3>1, FirstMore
    <3>3. e + 3 = e + 1 + 2 /\ e + 2 # npos
      BY <2>2, <2>3, <3>1, StartIs DEF npos
    <3>4. pc' = "query"
      BY <1>1, <2>7, <2>10, <3>3 DEF QueryDone
    <3>5. query'.start = e + 1 + 2 /\ query'.parameters = map
      BY <2>7, <2>10, <3>3
    <3>6. Looping(r)'
      BY <2>1, <3>1, <3>2, <3>5 DEF Looping
    <3> QED BY <3>4, <3>6
  <2> QED BY <2>9, <2>10
<1>8. ReadSoFar(r)'
  <2>1. ~Paired(r.url.query) => Looping(r)' /\ Parameters(r)'
    BY DEF Looping, Parameters
  <2> QED BY <1>1, <1>6, <1>7, <2>1 DEF ReadSoFar
<1>9. ReadSoFar(Owed)' <=> ReadSoFar(r)'
  BY <1>3 DEF ReadSoFar, Following, Coming, Begun, Looping, Parameters, FormOf
<1> QED BY <1>8, <1>9

LEMMA HeadReadHeld ==
  ASSUME IInv, Held, HeadRead
  PROVE  Held'
<1>1. UNCHANGED <<calm, asked, answers, inbox, stream, body, form, query>> /\ pc = "head"
  BY DEF HeadRead, client
<1>2. CASE notify_close \/ pc' = "crash"
  BY <1>2, EndHeld
<1>3. CASE /\ req' = [req EXCEPT !.version = req.word]
           /\ (req.method # "POST" /\ next("out")) \/ (req.method = "POST" /\ pc' = "body")
  <2> SUFFICES ASSUME Orderly', Owing' PROVE ReadSoFar(Owed)'
    BY DEF Held
  <2>1. Orderly /\ Owing /\ ReadSoFar(Owed)
    BY <1>1 DEF Orderly, Owing, Held
  <2>2. PICK r : r = Owed /\ r = Owed'
    BY <1>1 DEF Owed
  <2>3. req.method = r.method /\ req.lines = HeaderFields(r.lines)
    BY <1>1, <2>1, <2>2, NowReading DEF Reading
  <2>4. Following(r, Len(body)) /\ Begun(r) /\ Parameters(r)
    BY <1>1, <2>1, <2>2 DEF ReadSoFar
  <2>5. req'.parameters = req.parameters /\ req'.lines = req.lines
    BY <1>3
  <2>6. Following(r, Len(body))' /\ Begun(r)'
    BY <1>1, <2>4 DEF Following, Coming, Begun
  <2>7. Parameters(r)'
    BY <2>4, <2>5 DEF Parameters
  <2>8. ReadSoFar(r)'
    <3>1. CASE req.method # "POST" /\ next("out")
      BY <2>3, <2>5, <2>7, <3>1 DEF ReadSoFar, FormOf, next
    <3>2. CASE pc' = "body"
      BY <2>6, <2>7, <3>2 DEF ReadSoFar
    <3> QED BY <1>3, <3>1, <3>2
  <2>9. ReadSoFar(Owed)' <=> ReadSoFar(r)'
    BY <2>2 DEF ReadSoFar, Following, Coming, Begun, Looping, Parameters, FormOf
  <2> QED BY <2>8, <2>9
<1> QED BY <1>2, <1>3 DEF HeadRead, AfterHeader

LEMMA ReadBodyHeld ==
  ASSUME IInv, Held, ReadBody
  PROVE  Held'
<1> SUFFICES ASSUME Orderly', Owing' PROVE ReadSoFar(Owed)'
  BY DEF Held
<1>1. /\ UNCHANGED <<calm, asked, answers, stream, req, pc, armed, closing, form, query>>
      /\ pc = "body" /\ Missing > 0 /\ inbox # <<>>
  BY DEF ReadBody
<1>2. PICK k : /\ k = Min({Missing, Len(inbox)})
               /\ body' = body \o [i \in 1..k |-> Character(inbox[i])]
               /\ inbox' = SubSeq(inbox, k + 1, Len(inbox))
  BY DEF ReadBody
<1>3. Orderly /\ Owing /\ ReadSoFar(Owed)
  BY <1>1 DEF Orderly, Owing, Held
<1>4. PICK r : r = Owed /\ r = Owed'
  BY <1>1 DEF Owed
<1>5. /\ Following(r, Len(body)) /\ Begun(r) /\ Parameters(r)
      /\ body \in Seq(Characters) /\ Arriving /\ Len(body) + Len(inbox) + Len(stream) <= Len(r.body)
      /\ Len(r.body) \in Nat
  BY <1>1, <1>3, <1>4, NowReading, MissingIs DEF ReadSoFar, Reading, IInv, Turns
<1>6. PICK b, n, l : /\ b = Len(body) /\ n = Len(inbox) /\ l = Len(stream)
                     /\ b \in Nat /\ n \in Nat \ {0} /\ l \in Nat
  <2>1. Len(body) \in Nat /\ Len(inbox) \in Nat \ {0} /\ Len(stream) \in Nat
    BY <1>1, <1>5, Lengths, LenProperties
  <2> QED BY <2>1
<1>7. k \in 1..n
  <2>1. Missing \in Nat \ {0}
    BY <1>1, <1>3, MissingIs
  <2> QED BY <1>2, <1>6, <2>1 DEF Min
<1>8. PICK t : /\ t = [i \in 1..k |-> Character(inbox[i])] /\ t \in Seq(Characters) /\ Len(t) = k
  <2>1. PICK t : t = [i \in 1..k |-> Character(inbox[i])]
    OBVIOUS
  <2>2. ASSUME NEW i \in 1..k PROVE Character(inbox[i]) \in Characters
    <3>1. inbox[i] \in Piece
      BY <1>5, <1>6, <1>7, ElementOfSeq DEF Arriving
    <3> QED BY <3>1, CharacterType
  <2>3. k \in Nat /\ \A i \in 1..k : Character(inbox[i]) \in Characters
    BY <1>6, <1>7, <2>2
  <2>4. t \in Seq(Characters)
    BY <2>1, <2>3, IsASeq
  <2>5. Len(t) = k
    BY <2>1, <2>3, <2>4, LenProperties
  <2> QED BY <2>1, <2>4, <2>5
<1>9. /\ Len(body') = b + k
      /\ \A i \in 1..b + k : body'[i] = IF i <= b THEN body[i] ELSE t[i - b]
  <2>1. body' = body \o t
    BY <1>2, <1>8
  <2>2. PICK s, u : s = body /\ u = s \o t
    OBVIOUS
  <2>3. /\ Len(u) = Len(s) + Len(t)
        /\ \A i \in 1..Len(s) + Len(t) : u[i] = IF i <= Len(s) THEN s[i] ELSE t[i - Len(s)]
    <3>1. s \in Seq(Characters) /\ t \in Seq(Characters)
      BY <1>5, <1>8, <2>2
    <3> QED BY <2>2, <3>1, ConcatProperties
  <2> QED BY <1>6, <1>8, <2>1, <2>2, <2>3
<1>10. Len(inbox') = n - k /\ \A i \in 1..n - k : inbox'[i] = inbox[k + i]
  <2>1. PICK s, a : s = inbox /\ a = k + 1
    OBVIOUS
  <2>2. a \in Int /\ n \in Int /\ \A i \in a..n : s[i] \in Piece
    BY <1>5, <1>6, <1>7, <2>1, ElementOfSeq DEF Arriving
  <2>3. /\ Len(SubSeq(s, a, n)) = IF a <= n THEN n - a + 1 ELSE 0
        /\ \A i \in 1..n - a + 1 : SubSeq(s, a, n)[i] = s[a + i - 1]
    BY <2>2, SubSeqProperties
  <2>4. n - a + 1 = n - k /\ (~(a <= n) => n - k = 0) /\ \A i \in 1..n - k : a + i - 1 = k + i
    BY <1>6, <1>7, <2>1
  <2>5. inbox' = SubSeq(s, a, n)
    BY <1>2, <1>6, <2>1
  <2>6. PICK rest : rest = SubSeq(s, a, n)
    OBVIOUS
  <2>7. Len(rest) = n - k /\ \A i \in 1..n - k : rest[i] = s[k + i]
    BY <1>6, <1>7, <2>1, <2>3, <2>4, <2>6
  <2> QED BY <2>1, <2>5, <2>6, <2>7
<1>11. ASSUME NEW i \in 1..k PROVE t[i] = r.body[b + i]
  <2>1. i \in 1..n + l /\ i <= n /\ b + i # 0
    BY <1>6, <1>7
  <2>2. Coming(i) = PieceOf(r, b + i)
    BY <1>5, <1>6, <2>1 DEF Following
  <2>3. inbox[i] = [kind |-> "body", what |-> r.body[b + i]]
    BY <1>6, <2>1, <2>2 DEF Coming, PieceOf
  <2> QED BY <1>8, <2>3 DEF Character
<1>12. Begun(r)'
  <2>1. ASSUME NEW i \in 1..b + k PROVE body'[i] = r.body[i]
    <3>1. CASE i <= b
      <4>1. i \in 1..b
        BY <1>6, <1>7, <3>1
      <4> QED BY <1>5, <1>6, <1>9, <3>1, <4>1 DEF Begun
    <3>2. CASE ~(i <= b)
      <4>1. i - b \in 1..k /\ b + (i - b) = i
        BY <1>6, <1>7, <3>2
      <4> QED BY <1>9, <1>11, <3>2, <4>1
    <3> QED BY <3>1, <3>2
  <2> QED BY <1>9, <2>1 DEF Begun
<1>13. Following(r, Len(body))'
  <2>1. ASSUME NEW i \in 1..Len(inbox') + Len(stream') PROVE Coming(i)' = PieceOf(r, Len(body') + i)
    <3>1. i \in 1..n - k + l /\ Len(stream') = l
      BY <1>1, <1>6, <1>10
    <3>2. PICK j : j = k + i /\ j \in 1..n + l /\ b + j = b + k + i
      BY <1>6, <1>7, <3>1
    <3>3. Coming(j) = PieceOf(r, b + k + i)
      BY <1>5, <1>6, <3>2 DEF Following
    <3>4. Coming(i)' = Coming(j)
      <4>1. CASE i <= n - k
        <5>1. i \in 1..n - k /\ j <= n
          BY <1>6, <1>7, <3>1, <3>2, <4>1
        <5> QED BY <1>6, <1>10, <3>2, <4>1, <5>1 DEF Coming
      <4>2. CASE ~(i <= n - k)
        <5>1. ~(j <= n) /\ j - n = i - (n - k)
          BY <1>6, <1>7, <3>1, <3>2, <4>2
        <5>2. Coming(i)' = stream[i - (n - k)]
          BY <1>1, <1>10, <4>2 DEF Coming
        <5>3. Coming(j) = stream[j - n]
          BY <1>6, <5>1 DEF Coming
        <5> QED BY <5>1, <5>2, <5>3
      <4> QED BY <4>1, <4>2
    <3> QED BY <1>9, <3>3, <3>4
  <2> QED BY <2>1 DEF Following
<1>14. ReadSoFar(r)'
  BY <1>1, <1>5, <1>12, <1>13 DEF ReadSoFar, Parameters
<1>15. ReadSoFar(Owed)' <=> ReadSoFar(r)'
  BY <1>4 DEF ReadSoFar, Following, Coming, Begun, Looping, Parameters, FormOf
<1> QED BY <1>14, <1>15

\* What has been read is the body of the request when none of it is missing.
LEMMA BodyReadHeld ==
  ASSUME IInv, Held, BodyRead
  PROVE  Held'
<1>1. /\ UNCHANGED <<calm, asked, answers, inbox, stream, req, query, body>>
      /\ pc = "body" /\ Missing <= 0
  BY DEF BodyRead, client
<1>2. CASE pc' = "crash"
  BY <1>2, EndHeld
<1>3. CASE pc' # "crash"
  <2> SUFFICES ASSUME Orderly', Owing' PROVE ReadSoFar(Owed)'
    BY DEF Held
  <2>1. Orderly /\ Owing /\ ReadSoFar(Owed)
    BY <1>1 DEF Orderly, Owing, Held
  <2>2. PICK r : r = Owed /\ r = Owed'
    BY <1>1 DEF Owed
  <2>3. /\ Reading(r) /\ Begun(r) /\ Parameters(r)
        /\ r.body \in Seq(STRING) /\ Len(body) \in Nat /\ Len(r.body) \in Nat
        /\ Len(body) >= Len(r.body)
    BY <1>1, <2>1, <2>2, NowReading, OwedFacts, MissingIs DEF ReadSoFar
  <2>4. body = r.body
    <3>1. inbox = <<>> /\ stream = <<>>
      BY <2>1, <2>2, <2>3, AllRead
    <3>2. Len(inbox) = 0 /\ Len(stream) = 0
      BY <3>1, EmptySeq
    <3>3. Len(body) = Len(r.body) /\ body \in Seq(Characters)
      BY <2>3, <3>2 DEF Reading
    <3>4. PICK n, b, c : n = Len(body) /\ b = body /\ c = r.body
      OBVIOUS
    <3>5. b = [i \in 1..n |-> b[i]] /\ c = [i \in 1..n |-> c[i]]
      BY <2>3, <3>3, <3>4, LenProperties
    <3>6. \A i \in 1..n : b[i] = c[i]
      BY <2>3, <3>4 DEF Begun
    <3>7. b = c
      BY <3>5, <3>6
    <3> QED BY <3>4, <3>7
  <2>5. /\ next("out")
        /\ form' = IF req.lines["Content-Type"][1][1] = "form" THEN Form(body) ELSE NoEntries
    BY <1>3 DEF BodyRead
  <2>6. FormOf(r)'
    <3> SUFFICES ASSUME Paired(r.body), HeaderFields(r.lines)["Content-Type"][1][1] = "form"
                 PROVE  form' = [key \in Keys(r.body) |-> ValueAt(r.body, Max(Keyed(r.body, key)))]
      BY DEF FormOf
    <3>1. form' = Form(r.body)
      BY <2>3, <2>4, <2>5 DEF Reading
    <3>2. Form(r.body) = [key \in Keys(r.body) |-> ValueAt(r.body, Max(Keyed(r.body, key)))]
      BY <2>3, FormsRead
    <3> QED BY <3>1, <3>2
  <2>7. Parameters(r)' /\ req'.lines = HeaderFields(r.lines)
    BY <1>1, <2>3 DEF Parameters, Reading
  <2>8. ReadSoFar(r)'
    BY <2>5, <2>6, <2>7 DEF ReadSoFar, next
  <2>9. ReadSoFar(Owed)' <=> ReadSoFar(r)'
    BY <2>2 DEF ReadSoFar, Following, Coming, Begun, Looping, Parameters, FormOf
  <2> QED BY <2>8, <2>9
<1> QED BY <1>2, <1>3

\* With a response nothing is owed.
LEMMA ProcessOutHeld ==
  ASSUME IInv, ProcessOut
  PROVE  Held'
<1>1. UNCHANGED <<calm, asked>> /\ Dispatched("out")
  BY Outcome DEF client
<1>2. CASE pc' \in {"crash", "endless"} \/ notify_close
  BY <1>2, EndHeld
<1>3. CASE Responds
  <2>1. ASSUME Orderly' PROVE ~Owing'
    <3>1. Owing
      BY <1>1, <2>1, NowReady DEF Orderly
    <3>2. PICK a, s, t : s = answers /\ t = answers' /\ t = Append(s, a)
      BY <1>3 DEF Responds, Sends
    <3>3. Grown(s, a, t)
      BY <3>2, OneMore DEF IInv, Responded
    <3>4. Len(answers') = Len(answers) + 1
      BY <3>2, <3>3 DEF Grown
    <3>5. Len(answers) \in Nat
      BY Counts
    <3> QED BY <1>1, <3>1, <3>4, <3>5 DEF Owing
  <2> QED BY <2>1, EndHeld
<1> QED BY <1>2, <1>3, Outcome

LEMMA NoneOwed ==
  ASSUME IInv, NextClient \/ Started \/ \E f \in Filters : Register(f)
  PROVE  Held'
<1>1. CASE NextClient
  <2>1. Len(asked') = 0 /\ Len(answers') = 0
    BY <1>1 DEF NextClient
  <2> QED BY <2>1, EndHeld DEF Owing
<1>2. CASE Started \/ \E f \in Filters : Register(f)
  <2>1. UNCHANGED <<calm, asked, answers>> /\ pc = "register"
    BY <1>2 DEF Started, Register, client
  <2>2. Orderly => ~Owing
    BY <2>1, Counts DEF IInv, Turns, Busy, Unread, Reading, Ready, Over
  <2>3. Orderly' => ~Owing'
    BY <2>1, <2>2 DEF Orderly, Owing
  <2> QED BY <2>3, EndHeld
<1> QED BY <1>1, <1>2

LEMMA HeldInv ==
  /\ Init => Held
  /\ IInv /\ Held /\ [Next]_vars => Held'
<1>1. ASSUME Init PROVE Held
  <2>1. Len(asked) = 0 /\ Len(answers) = 0
    BY <1>1 DEF Init
  <2> QED BY <2>1 DEF Held, Owing
<1>2. ASSUME IInv, Held, [Next]_vars PROVE Held'
  <2>1. CASE ReadPart \/ ReadRest
    BY <1>2, <2>1, NoPart DEF Held
  <2>2. CASE HangUp
    BY <2>2, EndHeld DEF HangUp
  <2>3. CASE Handler
    BY <1>2, <2>1, <2>2, <2>3, ReadEndHeld, ReadHeadHeld, QueryLoopHeld, HeadReadHeld,
       ReadBodyHeld, BodyReadHeld, ProcessOutHeld DEF Handler
  <2>4. CASE \E r \in Requests : Ask(r)
    BY <1>2, <2>4, AskHeld
  <2>5. CASE Deliver \/ Leave
    BY <1>2, <2>5, DeliverHeld, LeaveHeld
  <2>6. CASE UNCHANGED vars
    <3>1. UNCHANGED <<calm, asked, answers, pc, armed, closing, req, query, body, form, inbox, stream>>
      BY <2>6 DEF vars, request, client
    <3>2. ASSUME NEW r, NEW n, Following(r, n) PROVE Following(r, n)'
      BY <3>1, <3>2 DEF Following, Coming
    <3> QED BY <1>2, <3>1, <3>2, SameHeld
  <2> QED BY <1>2, <2>3, <2>4, <2>5, <2>6, NoneOwed DEF Next
<1> QED BY <1>1, <1>2

\* A request that is being worked on is the one that is owed.
LEMMA NowParsed ==
  ASSUME IInv, Parsed
  PROVE  /\ Orderly /\ Owing /\ Owed = Last(asked) /\ Owed \in Requests
         /\ pc \in {"head", "body"} => Reading(Owed)
<1>1. Orderly /\ (pc \in {"head", "body"} \/ Dispatched("out"))
  BY DEF Parsed
<1>2. Owing
  BY <1>1, NowReading, NowReady
<1>3. pc \in {"head", "body"} => Reading(Owed)
  BY <1>1, NowReading
<1> QED BY <1>1, <1>2, <1>3, OwedFacts DEF Owed, Last

\* The parameters and fields that parse_header makes of the head of a request are
\* what its client wrote: of a query the first value of each key, of a header the
\* last line with each name and the lines that continue it, however much of the
\* stream one read brings and whatever this object served before.
THEOREM HeadIsRead == Spec => []HeadRight
<1>1. ASSUME IInv, Held PROVE HeadRight
  <2>1. SUFFICES ASSUME Parsed PROVE HeadRight
    BY DEF HeadRight, ParametersRight, FieldsRight
  <2>2. PICK r : r = Last(asked) /\ r = Owed /\ r \in Requests
    BY <1>1, <2>1, NowParsed
  <2>3. Parameters(r) /\ req.lines = HeaderFields(r.lines)
    <3>1. ReadSoFar(r) /\ (pc \in {"head", "body"} => Reading(r))
      BY <1>1, <2>1, <2>2, NowParsed DEF Held
    <3> QED BY <2>1, <3>1 DEF Parsed, ReadSoFar, Reading, Dispatched
  <2>4. ParametersRight
    BY <2>2, <2>3 DEF Parameters, ParametersRight
  <2>5. ASSUME Placed(r.lines)
        PROVE  req.lines = [name \in Names(r.lines) |-> Values(r.lines, LastNamed(r.lines, name))]
    <3>1. Legible(r.lines)
      BY <2>2, <2>5, Site DEF Legible
    <3> QED BY <2>3, <3>1, FieldsRead
  <2>6. FieldsRight
    BY <2>2, <2>5 DEF FieldsRight
  <2> QED BY <2>4, <2>6 DEF HeadRight
<1> QED BY <1>1, InitInv, StepInv, HeldInv, PTL DEF Spec

\* A form that arrives in any number of pieces gives the last value of each key
\* (parse_body; process_in receives until Content-Length bytes are there).
THEOREM FormIsParsed == Spec => []FormRight
<1>1. ASSUME IInv, Held PROVE FormRight
  <2>1. SUFFICES ASSUME Parsed, pc = "wait" PROVE FormRight
    BY DEF FormRight
  <2>2. PICK r : r = Last(asked) /\ r = Owed
    BY <1>1, <2>1, NowParsed
  <2>3. ReadSoFar(r)
    BY <1>1, <2>1, <2>2, NowParsed DEF Held
  <2>4. FormOf(r)
    BY <2>1, <2>3 DEF Parsed, ReadSoFar, Dispatched
  <2> QED BY <2>2, <2>4 DEF FormOf, FormRight
<1> QED BY <1>1, InitInv, StepInv, HeldInv, PTL DEF Spec

-----------------------------------------------------------------------------
(* The filter that registered last *)

Places(first) == {i \in DOMAIN registered : First(registered[i].segs) = first}

LEMMA LastIs ==
  ASSUME registered \in Seq(Filters), NEW first
  PROVE  \/ LastUnder(first) = Null /\ Places(first) = {}
         \/ /\ LastUnder(first) \in Filters /\ LastUnder(first) # Null
            /\ First(LastUnder(first).segs) = first
            /\ Places(first) # {}
<1>1. CASE Places(first) = {}
  BY <1>1 DEF LastUnder, Places
<1>2. CASE Places(first) # {}
  <2>1. Len(registered) \in Nat /\ DOMAIN registered = 1..Len(registered)
    BY LenProperties
  <2>2. Places(first) \in SUBSET (0..Len(registered))
    BY <2>1 DEF Places
  <2>3. Max(Places(first)) \in Places(first)
    BY <1>2, <2>1, <2>2, MaxIs
  <2>4. LastUnder(first) = registered[Max(Places(first))]
    BY <1>2 DEF LastUnder, Places
  <2>5. LastUnder(first) \in Filters /\ First(LastUnder(first).segs) = first
    <3>1. PICK i : i = Max(Places(first))
      OBVIOUS
    <3>2. i \in 1..Len(registered) /\ First(registered[i].segs) = first
      BY <2>1, <2>3, <3>1 DEF Places
    <3> QED BY <2>4, <3>1, <3>2, ElementOfSeq
  <2> QED BY <1>2, <2>5, Site
<1> QED BY <1>1, <1>2

LEMMA LastAppended ==
  ASSUME registered \in Seq(Filters), NEW f \in Filters, registered' = Append(registered, f),
         NEW first
  PROVE  LastUnder(first)' = IF first = First(f.segs) THEN f ELSE LastUnder(first)
<1>1. PICK n : n = Len(registered)
  OBVIOUS
<1>2. /\ n \in Nat /\ DOMAIN registered = 1..n /\ DOMAIN registered' = 1..(n + 1)
      /\ registered'[n + 1] = f /\ \A i \in 1..n : registered'[i] = registered[i]
  BY <1>1, AppendProperties, LenProperties
<1>3. CASE first = First(f.segs)
  <2>1. /\ n + 1 \in Places(first)' /\ Places(first)' \in SUBSET Int
        /\ \A x \in Places(first)' : n + 1 >= x
    BY <1>2, <1>3 DEF Places
  <2>2. Max(Places(first)') = n + 1
    <3>1. PICK D, m : D = Places(first)' /\ m = n + 1
      OBVIOUS
    <3>2. D \in SUBSET Int /\ m \in D /\ \A x \in D : m >= x
      BY <2>1, <3>1
    <3>3. Max(D) = m
      BY <3>2, MaxUnique
    <3> QED BY <3>1, <3>3
  <2>3. LastUnder(first)' = registered'[Max(Places(first)')]
    BY <2>1 DEF LastUnder, Places
  <2> QED BY <1>2, <1>3, <2>2, <2>3
<1>4. CASE first # First(f.segs)
  <2>1. Places(first)' = Places(first)
    BY <1>2, <1>4 DEF Places
  <2>2. CASE Places(first) = {}
    BY <1>4, <2>1, <2>2 DEF LastUnder, Places
  <2>3. CASE Places(first) # {}
    <3>1. Places(first) \in SUBSET (0..n)
      BY <1>2 DEF Places
    <3>2. Max(Places(first)) \in Places(first)
      BY <1>2, <2>3, <3>1, MaxIs
    <3>3. Max(Places(first)) \in 1..n
      BY <1>2, <3>2 DEF Places
    <3>4. LastUnder(first) = registered[Max(Places(first))]
      BY <2>3 DEF LastUnder, Places
    <3>5. LastUnder(first)' = registered'[Max(Places(first)')]
      BY <2>1, <2>3 DEF LastUnder, Places
    <3> QED BY <1>2, <1>4, <2>1, <3>3, <3>4, <3>5
  <2> QED BY <2>2, <2>3
<1> QED BY <1>3, <1>4

-----------------------------------------------------------------------------
(* The tree *)

LEMMA Prefixed ==
  ASSUME NEW S, NEW s \in Seq(S), NEW n \in 0..Len(s)
  PROVE  /\ SubSeq(s, 1, n) \in Seq(S) /\ Len(SubSeq(s, 1, n)) = n
         /\ \A i \in 1..n : SubSeq(s, 1, n)[i] = s[i]
         /\ n = 0 <=> SubSeq(s, 1, n) = <<>>
         /\ n # 0 => First(SubSeq(s, 1, n)) = First(s) /\ First(s) # <<>>
<1>1. n \in Nat /\ Len(s) \in Nat /\ n <= Len(s) /\ \A i \in 1..n : s[i] \in S
  BY LenProperties, ElementOfSeq
<1>2. PICK p : p = SubSeq(s, 1, n)
  OBVIOUS
<1>3. p \in Seq(S) /\ Len(p) = n /\ \A i \in 1..n : p[i] = s[i]
  BY <1>1, <1>2, SubSeqProperties
<1>4. n = 0 <=> p = <<>>
  BY <1>3, EmptySeq
<1>5. ASSUME n # 0 PROVE First(p) = First(s) /\ First(s) # <<>>
  <2>1. p # <<>> /\ s # <<>> /\ p[1] = s[1]
    BY <1>1, <1>3, <1>4, <1>5, EmptySeq
  <2>2. First(p) = <<p[1]>> /\ First(s) = <<s[1]>>
    BY <2>1 DEF First
  <2> QED BY <2>1, <2>2
<1>6. /\ p \in Seq(S) /\ Len(p) = n
      /\ \A i \in 1..n : p[i] = s[i]
      /\ n = 0 <=> p = <<>>
      /\ n # 0 => First(p) = First(s) /\ First(s) # <<>>
  BY <1>3, <1>4, <1>5
<1> QED BY <1>2, <1>6

\* A node is on the way to the last filter under its first segment, and holds it
\* at the end of the way.
OnWay(p) ==
  \E f \in Filters :
    /\ f = LastUnder(First(p))
    /\ \E n \in 1..Len(f.segs) : p = SubSeq(f.segs, 1, n)
    /\ filters[p] = IF p = f.segs THEN f ELSE Null

\* The way to a last filter is there.
Led(f) == \A n \in 0..Len(f.segs) : SubSeq(f.segs, 1, n) \in DOMAIN filters

Tree ==
  /\ registered \in Seq(Filters)
  /\ <<>> \in DOMAIN filters /\ filters[<<>>] = LastUnder(<<>>)
  /\ \A p \in DOMAIN filters : p # <<>> => OnWay(p)
  /\ \A f \in Filters : f = LastUnder(First(f.segs)) => Led(f)

LEMMA TreeInit == Init => Tree
<1> SUFFICES ASSUME Init PROVE Tree
  OBVIOUS
<1>1. registered = <<>> /\ registered \in Seq(Filters) /\ DOMAIN registered = {}
  <2>1. registered = <<>>
    BY DEF Init
  <2>2. registered \in Seq(Filters)
    BY <2>1, EmptySeq
  <2>3. DOMAIN registered = {}
    BY <2>1
  <2> QED BY <2>1, <2>2, <2>3
<1>2. \A first : LastUnder(first) = Null
  BY <1>1 DEF LastUnder
<1>3. DOMAIN filters = {<<>>} /\ filters[<<>>] = Null
  BY DEF Init
<1> QED BY <1>1, <1>2, <1>3, Site DEF Tree

\* What Register does to the last filters.
LEMMA LastFilters ==
  ASSUME Tree, NEW f \in Filters, registered' = Append(registered, f)
  PROVE  /\ registered' \in Seq(Filters)
         /\ \A first : LastUnder(first)' = IF first = First(f.segs) THEN f ELSE LastUnder(first)
<1>1. registered \in Seq(Filters)
  BY DEF Tree
<1>2. registered' \in Seq(Filters)
  BY <1>1, AppendProperties
<1>3. ASSUME NEW first
      PROVE  LastUnder(first)' = IF first = First(f.segs) THEN f ELSE LastUnder(first)
  BY <1>1, LastAppended
<1> QED BY <1>2, <1>3

\* The filter for every url ("/*") leaves the other nodes as they are.
LEMMA StarTree ==
  ASSUME Tree, NEW f \in Filters, Register(f), f.segs = <<>>, f.star
  PROVE  Tree'
<1>1. /\ registered' = Append(registered, f) /\ Kept(f) = DOMAIN filters
      /\ filters' = [p \in Kept(f) \cup {SubSeq(f.segs, 1, n) : n \in 0..Len(f.segs)} |->
                       IF p = f.segs THEN f ELSE IF p \in Kept(f) THEN filters[p] ELSE Null]
  BY DEF Register, Kept
<1>2. /\ registered' \in Seq(Filters) /\ First(f.segs) = <<>>
      /\ \A first : LastUnder(first)' = IF first = <<>> THEN f ELSE LastUnder(first)
  BY <1>1, LastFilters DEF First
<1>3. <<>> \in DOMAIN filters
  BY DEF Tree
<1>4. \A n \in 0..Len(f.segs) : SubSeq(f.segs, 1, n) = <<>>
  BY Prefixed, Site
<1>5. DOMAIN filters' = DOMAIN filters
  BY <1>1, <1>3, <1>4
<1>6. filters'[<<>>] = f /\ \A p \in DOMAIN filters : p # <<>> => filters'[p] = filters[p]
  BY <1>1, <1>3
<1>7. ASSUME NEW p \in DOMAIN filters, p # <<>> PROVE OnWay(p)'
  <2>1. OnWay(p) /\ First(p) # <<>>
    BY <1>7 DEF Tree, First
  <2> QED BY <1>2, <1>6, <1>7, <2>1 DEF OnWay
<1>8. ASSUME NEW g \in Filters, g = LastUnder(First(g.segs))' PROVE Led(g)'
  <2>1. CASE First(g.segs) = <<>>
    <3>1. g = f
      BY <1>2, <1>8, <2>1
    <3> QED BY <1>3, <1>4, <1>5, <3>1 DEF Led
  <2>2. CASE First(g.segs) # <<>>
    <3>1. Led(g)
      BY <1>2, <1>8, <2>2 DEF Tree
    <3> QED BY <1>5, <3>1 DEF Led
  <2> QED BY <2>1, <2>2
<1> QED BY <1>2, <1>3, <1>5, <1>6, <1>7, <1>8 DEF Tree

\* A filter at a url makes the way to it anew: nothing is left on it, nor below it.
LEMMA WayTree ==
  ASSUME Tree, NEW f \in Filters, Register(f), f.segs # <<>>
  PROVE  Tree'
<1>1. /\ registered' = Append(registered, f)
      /\ filters' = [p \in Kept(f) \cup {SubSeq(f.segs, 1, n) : n \in 0..Len(f.segs)} |->
                       IF p = f.segs THEN f ELSE IF p \in Kept(f) THEN filters[p] ELSE Null]
  BY DEF Register
<1>2. /\ registered' \in Seq(Filters)
      /\ \A first : LastUnder(first)' = IF first = First(f.segs) THEN f ELSE LastUnder(first)
  BY <1>1, LastFilters
<1>3. First(f.segs) # <<>> /\ f.segs \in Seq(STRING) /\ First(f.segs) = <<f.segs[1]>>
  BY Site DEF First
<1>4. \A p \in DOMAIN filters : p \in Kept(f) <=> First(p) # First(f.segs)
  <2>1. ASSUME NEW p \in DOMAIN filters PROVE p \in Kept(f) <=> First(p) # First(f.segs)
    <3>1. CASE p = <<>>
      BY <1>3, <3>1 DEF Kept, First
    <3>2. CASE p # <<>>
      <4>1. First(p) = <<p[1]>>
        BY <3>2 DEF First
      <4>2. <<p[1]>>[1] = p[1] /\ <<f.segs[1]>>[1] = f.segs[1]
        OBVIOUS
      <4>3. First(p) # First(f.segs) <=> p[1] # f.segs[1]
        BY <1>3, <4>1, <4>2
      <4> QED BY <3>2, <4>3 DEF Kept
    <3> QED BY <3>1, <3>2
  <2> QED BY <2>1
<1>5. \A p \in Kept(f) : p \in DOMAIN filters /\ First(p) # First(f.segs)
  BY <1>4 DEF Kept
<1>6. <<>> \in Kept(f) /\ <<>> \in DOMAIN filters
  BY DEF Tree, Kept
<1>7. DOMAIN filters' = Kept(f) \cup {SubSeq(f.segs, 1, n) : n \in 0..Len(f.segs)}
  BY <1>1
<1>8. \A p \in Kept(f) : filters'[p] = filters[p]
  BY <1>1, <1>5
<1>9. ASSUME NEW p \in DOMAIN filters', p # <<>> PROVE OnWay(p)'
  <2>1. CASE p \in Kept(f)
    <3>1. OnWay(p) /\ First(p) # First(f.segs)
      BY <1>5, <1>9, <2>1 DEF Tree
    <3> QED BY <1>2, <1>8, <2>1, <3>1 DEF OnWay
  <2>2. CASE p \notin Kept(f)
    <3>1. PICK n \in 0..Len(f.segs) : p = SubSeq(f.segs, 1, n)
      BY <1>7, <2>2
    <3>2. n # 0 /\ First(p) = First(f.segs) /\ n \in 1..Len(f.segs)
      BY <1>3, <1>9, <3>1, Prefixed, LenProperties
    <3>3. filters'[p] = IF p = f.segs THEN f ELSE Null
      BY <1>1, <1>7, <2>2
    <3> QED BY <1>2, <3>1, <3>2, <3>3 DEF OnWay
  <2> QED BY <2>1, <2>2
<1>10. ASSUME NEW g \in Filters, g = LastUnder(First(g.segs))' PROVE Led(g)'
  <2>1. CASE First(g.segs) = First(f.segs)
    <3>1. g = f
      BY <1>2, <1>10, <2>1
    <3> QED BY <1>7, <3>1 DEF Led
  <2>2. CASE First(g.segs) # First(f.segs)
    <3>1. Led(g)
      BY <1>2, <1>10, <2>2 DEF Tree
    <3>2. ASSUME NEW n \in 0..Len(g.segs) PROVE SubSeq(g.segs, 1, n) \in Kept(f)
      <4>1. SubSeq(g.segs, 1, n) \in DOMAIN filters
        BY <3>1 DEF Led
      <4>2. SubSeq(g.segs, 1, n) = <<>> \/ First(SubSeq(g.segs, 1, n)) = First(g.segs)
        BY Prefixed, Site
      <4> QED BY <1>4, <1>6, <2>2, <4>1, <4>2
    <3> QED BY <1>7, <3>2 DEF Led
  <2> QED BY <2>1, <2>2
<1>11. filters'[<<>>] = LastUnder(<<>>)'
  <2>1. filters'[<<>>] = LastUnder(<<>>)
    BY <1>6, <1>8 DEF Tree
  <2> QED BY <1>2, <1>3, <2>1
<1> QED BY <1>2, <1>6, <1>7, <1>9, <1>10, <1>11 DEF Tree

LEMMA TreeStep ==
  ASSUME Tree, [Next]_vars
  PROVE  Tree'
<1>1. ASSUME UNCHANGED tree PROVE Tree'
  <2>1. UNCHANGED filters /\ UNCHANGED registered
    BY <1>1 DEF tree
  <2>2. \A first : LastUnder(first)' = LastUnder(first)
    BY <2>1 DEF LastUnder
  <2>3. \A p : OnWay(p) => OnWay(p)'
    BY <2>1, <2>2 DEF OnWay
  <2>4. \A f : Led(f) => Led(f)'
    BY <2>1 DEF Led
  <2> QED BY <2>1, <2>2, <2>3, <2>4 DEF Tree
<1>2. ASSUME NEW f \in Filters, Register(f) PROVE Tree'
  BY <1>1, <1>2, StarTree, WayTree DEF Register
<1>3. CASE Handler
  BY <1>1, <1>3 DEF Handler, ReadEnd, HangUp, ReadPart, ReadRest, ReadHead, QueryLoop,
                    HeadRead, ReadBody, BodyRead, ProcessOut
<1>4. CASE Started \/ NextClient \/ Deliver \/ Leave \/ (\E r \in Requests : Ask(r)) \/ UNCHANGED vars
  BY <1>1, <1>4 DEF Started, NextClient, Deliver, Leave, Ask, vars
<1> QED BY <1>2, <1>3, <1>4 DEF Next

-----------------------------------------------------------------------------
(* What an url is matched with *)

\* The segments of an url and the last one cut short.
Segments(path) == STRING \cup {Chop(path.segs[Len(path.segs)])}

LEMMA WalkedIs ==
  ASSUME NEW path, path.segs \in Seq(STRING)
  PROVE  Walked(path) \in Seq(Segments(path)) /\ Len(Walked(path)) = Len(path.segs)
<1> DEFINE s == path.segs
           S == Segments(path)
<1>1. s \in Seq(S)
  <2>1. STRING \subseteq S
    BY DEF Segments
  <2>2. \A i \in 1..Len(s) : s[i] \in S
    BY <2>1, ElementOfSeq
  <2> QED BY <2>2, IsASeq, LenProperties, SeqDef
<1>2. CASE path.slash /\ s # <<>>
  <2>1. Walked(path) = [s EXCEPT ![Len(s)] = Chop(s[Len(s)])]
    BY <1>2 DEF Walked
  <2>2. Chop(s[Len(s)]) \in S
    BY DEF Segments
  <2>3. Len(s) \in 1..Len(s)
    BY <1>2, EmptySeq, LenProperties
  <2>4. PICK t, l, c : t = s /\ l = Len(s) /\ c = Chop(s[Len(s)])
    OBVIOUS
  <2>5. t \in Seq(S) /\ l \in 1..Len(t) /\ c \in S
    BY <1>1, <2>2, <2>3, <2>4
  <2>6. [t EXCEPT ![l] = c] \in Seq(S) /\ Len([t EXCEPT ![l] = c]) = Len(t)
    BY <2>5, ExceptSeq
  <2> QED BY <2>1, <2>4, <2>6
<1>3. CASE ~(path.slash /\ s # <<>>)
  BY <1>1, <1>3 DEF Walked
<1> QED BY <1>2, <1>3

LEMMA OneSegment ==
  ASSUME NEW S, NEW s \in Seq(S), Len(s) = 1
  PROVE  s = <<s[1]>>
<1>1. s \in [1..1 -> S]
  BY LenProperties
<1> QED BY <1>1

\* What decides for the segments that an url is walked along.
LEMMA WayDecides ==
  ASSUME Tree, NEW S, NEW w \in Seq(S)
  PROVE  LET depth == Max({n \in 0..Len(w) : SubSeq(w, 1, n) \in DOMAIN filters})
             f == LastUnder(First(w))
         IN  filters[SubSeq(w, 1, depth)] =
               IF w = <<>> \/ f = Null THEN LastUnder(<<>>)
               ELSE IF IsPrefix(f.segs, w) THEN f ELSE Null
<1> DEFINE D == {n \in 0..Len(w) : SubSeq(w, 1, n) \in DOMAIN filters}
           f == LastUnder(First(w))
<1>1. Len(w) \in Nat
  BY LenProperties
<1>2. PICK depth : depth = Max(D)
  OBVIOUS
<1>3. /\ depth \in 0..Len(w) /\ SubSeq(w, 1, depth) \in DOMAIN filters
      /\ \A n \in 0..Len(w) : SubSeq(w, 1, n) \in DOMAIN filters => depth >= n
  <2>1. SubSeq(w, 1, 0) = <<>> /\ 0 \in 0..Len(w)
    BY <1>1, Prefixed
  <2>2. 0 \in D
    BY <2>1 DEF Tree
  <2>3. depth \in D /\ \A n \in D : depth >= n
    BY <1>1, <1>2, <2>2, MaxIs
  <2> QED BY <2>3
<1>4. PICK p : p = SubSeq(w, 1, depth)
  OBVIOUS
<1>5. /\ depth \in 0..Len(w) /\ p \in DOMAIN filters /\ p \in Seq(S) /\ Len(p) = depth
      /\ depth = 0 <=> p = <<>>
      /\ depth # 0 => First(p) = First(w) /\ First(w) # <<>>
  BY <1>3, <1>4, Prefixed
<1>6. filters[<<>>] = LastUnder(<<>>)
  BY DEF Tree
<1>7. depth # 0 => OnWay(p)
  BY <1>5 DEF Tree
<1>8. CASE w = <<>>
  <2>1. p = <<>>
    BY <1>1, <1>5, <1>8, EmptySeq
  <2> QED BY <1>2, <1>4, <1>6, <1>8, <2>1
<1>9. CASE f = Null
  <2>1. p = <<>>
    BY <1>5, <1>7, <1>9, Site DEF OnWay
  <2> QED BY <1>2, <1>4, <1>6, <1>9, <2>1
<1>10. CASE w # <<>> /\ f # Null
  <2>1. f \in Filters /\ First(f.segs) = First(w) /\ f.segs \in Seq(STRING)
    BY <1>10, LastIs, Site DEF Tree
  <2>2. w[1] = f.segs[1] /\ f.segs # <<>> /\ Len(f.segs) \in Nat /\ Len(f.segs) >= 1 /\ Len(w) >= 1
    <3>1. First(w) = <<w[1]>>
      BY <1>10 DEF First
    <3>2. f.segs # <<>> /\ First(f.segs) = <<f.segs[1]>>
      BY <2>1, <3>1 DEF First
    <3>3. w[1] = f.segs[1]
      BY <2>1, <3>1, <3>2
    <3> QED BY <1>1, <1>10, <2>1, <3>2, <3>3, EmptySeq, LenProperties
  <2>3. Led(f)
    BY <2>1 DEF Tree
  <2>4. depth >= 1
    <3>1. PICK q, v : q = SubSeq(f.segs, 1, 1) /\ v = SubSeq(w, 1, 1)
      OBVIOUS
    <3>2. q \in Seq(STRING) /\ Len(q) = 1 /\ q[1] = f.segs[1]
      BY <2>1, <2>2, <3>1, Prefixed
    <3>3. v \in Seq(S) /\ Len(v) = 1 /\ v[1] = w[1]
      BY <1>1, <2>2, <3>1, Prefixed
    <3>4. q = <<q[1]>> /\ v = <<v[1]>>
      BY <3>2, <3>3, OneSegment
    <3>5. q = v
      BY <2>2, <3>2, <3>3, <3>4
    <3>6. q \in DOMAIN filters
      BY <2>2, <2>3, <3>1 DEF Led
    <3>7. 1 \in 0..Len(w) /\ SubSeq(w, 1, 1) \in DOMAIN filters
      <4>1. 1 \in 0..Len(w)
        BY <1>1, <2>2
      <4>2. SubSeq(w, 1, 1) \in DOMAIN filters
        BY <3>1, <3>5, <3>6
      <4> QED BY <4>1, <4>2
    <3> QED BY <1>3, <3>7
  <2>5. PICK n \in 1..Len(f.segs) : p = SubSeq(f.segs, 1, n)
    BY <1>5, <1>7, <2>4 DEF OnWay
  <2>6. n = depth /\ filters[p] = IF p = f.segs THEN f ELSE Null
    <3>1. Len(p) = n
      BY <2>1, <2>2, <2>5, Prefixed
    <3> QED BY <1>5, <1>7, <2>4, <3>1 DEF OnWay
  <2>7. p = f.segs <=> IsPrefix(f.segs, w)
    <3>1. SubSeq(f.segs, 1, Len(f.segs)) = f.segs
      BY <2>1, SubSeqFull
    <3>2. ASSUME p = f.segs PROVE IsPrefix(f.segs, w)
      BY <1>1, <1>4, <1>5, <3>1, <3>2 DEF IsPrefix
    <3>3. ASSUME IsPrefix(f.segs, w) PROVE p = f.segs
      <4>1. Len(f.segs) <= Len(w) /\ SubSeq(w, 1, Len(f.segs)) = f.segs
        BY <3>1, <3>3 DEF IsPrefix
      <4>2. SubSeq(f.segs, 1, Len(f.segs)) \in DOMAIN filters
        BY <2>2, <2>3 DEF Led
      <4>3. Len(f.segs) \in 0..Len(w) /\ SubSeq(w, 1, Len(f.segs)) \in DOMAIN filters
        <5>1. Len(f.segs) \in 0..Len(w)
          BY <1>1, <2>2, <4>1
        <5> QED BY <3>1, <4>1, <4>2, <5>1
      <4>4. depth >= Len(f.segs)
        BY <1>3, <4>3
      <4>5. depth = Len(f.segs)
        BY <2>2, <2>5, <2>6, <4>4
      <4> QED BY <1>4, <4>1, <4>5
    <3> QED BY <3>2, <3>3
  <2> QED BY <1>2, <1>4, <1>10, <2>6, <2>7
<1> QED BY <1>8, <1>9, <1>10

\* Whatever the order in which the filters registered, of those that share their
\* first segment only the last one counts: add_filter makes every node on its way
\* anew, and match stops at the deepest node.
THEOREM LastDecides == Spec => []MatchIsLast
<1>1. ASSUME Tree PROVE MatchIsLast
  <2>1. ASSUME NEW path \in Paths
        PROVE  LET f == LastUnder(First(Walked(path)))
               IN  match(path) = IF path.segs = <<>> \/ f = Null THEN LastUnder(<<>>)
                                 ELSE IF IsPrefix(f.segs, Walked(path)) THEN f ELSE Null
    <3>1. path # Path(NoUrl) /\ path.segs \in Seq(STRING)
      BY Site
    <3>2. Walked(path) \in Seq(Segments(path)) /\ Len(Walked(path)) = Len(path.segs)
      BY <3>1, WalkedIs
    <3>3. path.segs = <<>> <=> Walked(path) = <<>>
      BY <3>1, <3>2, EmptySeq
    <3>4. match(path) = filters[SubSeq(Walked(path), 1,
                          Max({n \in 0..Len(Walked(path)) :
                                 SubSeq(Walked(path), 1, n) \in DOMAIN filters}))]
      BY <3>1, <3>2 DEF match
    <3> QED BY <1>1, <3>2, <3>3, <3>4, WayDecides
  <2> QED BY <2>1 DEF MatchIsLast
<1> QED BY <1>1, TreeInit, TreeStep, PTL DEF Spec
=============================================================================
