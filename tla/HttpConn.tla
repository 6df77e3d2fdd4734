------------------------------ MODULE HttpConn ------------------------------
(***************************************************************************)
(* http_conn: how a connection serves its requests.  Filters register      *)
(* while static objects are constructed; then clients come one after the   *)
(* other to the same (pooled) object, which init does not clear.  A client *)
(* puts the pieces of its requests on the wire; process_in reads whatever  *)
(* has arrived, process_out sends one response.                            *)
(*                                                                         *)
(* A url is a sequence of segments, with or without a / at its end and     *)
(* with or without a query, the characters behind its ?.  A send of some   *)
(* bytes always succeeds here: send_base has no way to fail (SocketIO).    *)
(***************************************************************************)
EXTENDS HttpText

CONSTANTS
  Filters,    \* the filters there are: [segs, star, denies]
  Routers,    \* what the routers do, by url: [allow, call, what]
  Files,      \* what lies below resource_path: "file", "secret", "dir"
  Shrinking,  \* the files that may become shorter while they are sent
  Requests,   \* what a client may ask
  Paths,      \* the urls without query that the properties look at
  Fresh,      \* what the method and the version of a new object may hold
  Chop(_),    \* a segment without its last character
  MaxRequests, MaxConns     \* bounds: requests (one less for each client), clients

VARIABLES
  filters,    \* the tree: the filter, or Null, of each node, by its path
  registered, \* history: the filters that registered, in that order
  req,        \* req_header
  res,        \* res_header: status, version, Content-Length
  query,      \* the loop over the parameters of an url
  body, form, \* the body read so far, req_body.form
  pc,         \* "register", "wait" for an event, within process_in "query", "head", "body"; "crash", "endless"
  armed,      \* the event registered last, "none" if it was reported
  closing,    \* notify_close was called
  calm,       \* the client waits for a response before it asks again
  stream, inbox, left,   \* what is not sent yet, not read yet; the client left
  asked, answers,        \* history: the requests and responses of this client
  conns

request  == <<req, query, body, form>>
tree     == <<filters, registered>>
client   == <<calm, stream, inbox, left, asked, conns>>
vars == <<tree, request, res, pc, armed, closing, client, answers>>

Null == [segs |-> <<"null">>, star |-> FALSE, denies |-> {}]     \* no filter
Nothing == <<>>
Methods == {"GET", "POST", "PUT"}
Versions == {"1.0", "1.1", "2.0"}
NoQuery == <<>>
Path(url) == [segs |-> url.segs, slash |-> url.slash]
NoUrl == [segs |-> <<"no url">>, slash |-> FALSE, query |-> NoQuery]

\* What is registered, asked for and looked for is made of segments and
\* characters; resource_path has files, files that may not be read, and directories.
ASSUME Site ==
  /\ Null \notin Filters /\ Path(NoUrl) \notin Paths
  /\ \A x \in Filters \cup Paths \cup DOMAIN Files : x.segs \in Seq(STRING)
  /\ \A path \in DOMAIN Files : Files[path] \in {"file", "secret", "dir"}
  /\ \A r \in Requests : /\ r.body \in Seq(STRING) /\ r.url.query \in Seq(STRING)
                         /\ IsSequence(r.lines)
                         /\ \A i \in DOMAIN r.lines : IsSequence(r.lines[i].values)

\* method and version of a new object are not initialized: they may be some, or
\* "garbage", which neither process_out nor http_version_map knows.
Init ==
  /\ filters = [path \in {<<>>} |-> Null] /\ registered = <<>>
  /\ \E fresh \in Fresh :
       req = [method |-> fresh[1], url |-> NoUrl, version |-> fresh[2], word |-> "",
              lines |-> NoEntries, parameters |-> NoEntries]
  /\ res = [status |-> "garbage", version |-> "garbage", length |-> Nothing]
  /\ query = QueryStart(<<>>) /\ body = <<>> /\ form = NoEntries
  /\ pc = "register" /\ armed = "in" /\ closing = FALSE
  /\ calm \in BOOLEAN /\ stream = <<>> /\ inbox = <<>> /\ left = FALSE
  /\ asked = <<>> /\ answers = <<>> /\ conns = 1

-----------------------------------------------------------------------------
(* Filters *)

\* Mutant: the nodes on the way to a filter are kept.
MutantKept(f) == DOMAIN filters

\* The nodes that survive a registration: it makes every node on its way anew,
\* without its filter and its other children.
Kept(f) == {p \in DOMAIN filters : f.segs = <<>> \/ p = <<>> \/ p[1] # f.segs[1]}

\* The url "/" registers nothing; "/a/*" means "/a", and "/*" every url.
Register(f) ==
  /\ pc = "register" /\ f \notin Range(registered)
  /\ IF f.segs = <<>> /\ ~f.star THEN UNCHANGED tree
     ELSE /\ filters' = [p \in Kept(f) \cup {SubSeq(f.segs, 1, n) : n \in 0..Len(f.segs)} |->
                           IF p = f.segs THEN f ELSE IF p \in Kept(f) THEN filters[p] ELSE Null]
          /\ registered' = Append(registered, f)
  /\ UNCHANGED <<request, res, pc, armed, closing, client, answers>>

\* Filters are static objects: main runs when each of them has registered.
Started ==
  /\ pc = "register" /\ pc' = "wait"
  /\ \A f \in Filters : f \in Range(registered) \/ (f.segs = <<>> /\ ~f.star)
  /\ UNCHANGED <<tree, request, res, armed, closing, client, answers>>

\* A / at the end costs the last segment its last character.
Walked(path) ==
  IF path.slash /\ path.segs # <<>>
  THEN [path.segs EXCEPT ![Len(path.segs)] = Chop(@)] ELSE path.segs

\* The deepest node on the way decides, with no filter if it has none.
match(path) ==
  LET depth == Max({n \in 0..Len(path.segs) : SubSeq(Walked(path), 1, n) \in DOMAIN filters})
  IN  IF path = Path(NoUrl) THEN Null ELSE filters[SubSeq(Walked(path), 1, depth)]

-----------------------------------------------------------------------------
(* The client *)

\* The pieces of a request; its head may be cut within the request line.
PiecesOf(r) ==
  LET text == [i \in DOMAIN r.body |-> [kind |-> "body", what |-> r.body[i]]]
      piece(kind) == <<[kind |-> kind, what |-> r]>>
  IN  {piece("head") \o text} \cup
      (IF calm THEN {} ELSE {piece("part") \o piece("rest") \o text})

Ask(r) ==
  /\ pc # "register" /\ ~left /\ ~closing /\ stream = <<>> /\ Len(asked) + conns <= MaxRequests
  /\ calm => Len(answers) = Len(asked)
  /\ asked' = Append(asked, r) /\ stream' \in PiecesOf(r)
  /\ UNCHANGED <<tree, request, res, pc, armed, closing, calm, inbox, left, conns, answers>>

Deliver ==
  /\ ~left /\ stream # <<>>
  /\ \E k \in DOMAIN stream :
       /\ inbox' = inbox \o SubSeq(stream, 1, k)
       /\ stream' = SubSeq(stream, k + 1, Len(stream))
  /\ UNCHANGED <<tree, request, res, pc, armed, closing, calm, left, asked, conns, answers>>

Leave ==
  /\ pc # "register" /\ ~left /\ left' = TRUE /\ stream' = <<>>
  /\ UNCHANGED <<tree, request, res, pc, armed, closing, calm, inbox, asked, conns, answers>>

\* The connection is closed and its object given to the next client.
NextClient ==
  /\ pc = "wait" /\ closing /\ closing' = FALSE
  /\ conns < MaxConns /\ conns' = conns + 1
  /\ calm' \in BOOLEAN /\ armed' = "in" /\ left' = FALSE
  /\ stream' = <<>> /\ inbox' = <<>> /\ asked' = <<>> /\ answers' = <<>>
  /\ UNCHANGED <<tree, request, res, pc>>

-----------------------------------------------------------------------------
(* process_in *)

Dispatched(event) == pc = "wait" /\ armed = event /\ ~closing

\* How a handler ends, or that it never does.
next(event) == armed' = event /\ pc' = "wait" /\ UNCHANGED closing
notify_close == armed' = "none" /\ pc' = "wait" /\ closing' = TRUE
endless == pc' = "endless" /\ UNCHANGED <<armed, closing>>

\* clear_in keeps the method and the version.  (word is a local of parse_header,
\* the last one of the request line.)
Cleared ==
  [req EXCEPT !.url = NoUrl, !.parameters = NoEntries, !.lines = NoEntries, !.word = ""]

\* At the end of the stream what an earlier call left in errno says whether
\* recv_all fails; it fails if the client is gone.  What it has read is dropped.
ReadEnd ==
  /\ Dispatched("in") /\ left
  /\ req' = Cleared /\ inbox' = <<>>
  /\ \/ inbox = <<>> /\ next("in")
     \/ notify_close
  /\ UNCHANGED <<tree, query, body, form, res, calm, stream, left, asked, conns, answers>>

\* process_rdhup
HangUp ==
  /\ pc = "wait" /\ left /\ ~closing
  /\ notify_close
  /\ UNCHANGED <<tree, request, res, client, answers>>

\* What follows a header: the response, or first the body of a POST, whose
\* Content-Length the program takes to be there.
AfterHeader(lines) ==
  IF req.method # "POST" THEN next("out")
  ELSE /\ pc' = IF "Content-Length" \in DOMAIN lines THEN "body" ELSE "crash"
       /\ UNCHANGED <<armed, closing>>

\* Without a blank line the header is one character, in which there is nothing
\* to parse: the method and the version of the request before are answered.
\* (A space, with which data may begin, ends a method that no one knows.)
ReadPart ==
  /\ Dispatched("in") /\ inbox # <<>> /\ inbox' = <<>>
  /\ \A i \in DOMAIN inbox : inbox[i].kind \in {"part", "body"}
  /\ req' = Cleared
  /\ \/ AfterHeader(NoEntries)
     \/ inbox[1].kind = "body" /\ notify_close
  /\ UNCHANGED <<tree, query, body, form, res, calm, stream, left, asked, conns, answers>>

\* What there is of a head in a body counts for one character.
Character(piece) == IF piece.kind = "body" THEN piece.what ELSE "head"

\* A header that begins in the middle has a method no one knows.  If the cut was
\* within the version it may have no space either: then method and version of the
\* request before are kept, and the fields and the body read.
ReadRest ==
  /\ Dispatched("in") /\ inbox # <<>> /\ inbox' = <<>>
  /\ \/ inbox[1].kind = "rest"
     \/ inbox[1].kind = "body" /\ \E i \in DOMAIN inbox : inbox[i].kind \in {"head", "rest"}
  /\ \/ req' = Cleared /\ notify_close /\ UNCHANGED body
     \/ \E i \in DOMAIN inbox :
          /\ inbox[i].kind = "rest" /\ \A j \in 1..i - 1 : inbox[j].kind = "body"
          /\ req' = [Cleared EXCEPT !.lines = HeaderFields(inbox[i].what.lines)]
          /\ body' = [j \in 1..Len(inbox) - i |-> Character(inbox[i + j])]
          /\ AfterHeader(req'.lines)
  /\ UNCHANGED <<tree, query, form, res, calm, stream, left, asked, conns, answers>>

\* The url as text: one character for its path.
Text(url) == <<"p", Question>> \o url.query

\* parse_header of a whole head; the rest of what was read is the body.
ReadHead ==
  /\ Dispatched("in") /\ inbox # <<>> /\ inbox' = <<>>
  /\ \/ inbox[1].kind = "head"
     \/ inbox[1].kind = "part" /\ Len(inbox) > 1 /\ inbox[2].kind = "rest"
  /\ LET r    == inbox[1].what
         head == IF inbox[1].kind = "head" THEN 1 ELSE 2
     IN  /\ req' = [Cleared EXCEPT !.method = r.method, !.url = r.url, !.word = r.version,
                                   !.lines = HeaderFields(r.lines)]
         /\ body' = [i \in 1..Len(inbox) - head |-> Character(inbox[i + head])]
         /\ query' = QueryStart(Text(r.url))
         /\ pc' = IF r.url.query = NoQuery THEN "head" ELSE "query"
  /\ UNCHANGED <<tree, form, res, armed, closing, calm, stream, left, asked, conns, answers>>

QueryLoop ==
  /\ pc = "query"
  /\ query' = QueryRound(Text(req.url), query)
  /\ req' = [req EXCEPT !.parameters = query'.parameters]
  /\ pc' = IF QueryDone(query') THEN "head" ELSE "query"
  /\ UNCHANGED <<tree, body, form, res, armed, closing, client, answers>>

\* An unknown version is refused.
HeadRead ==
  /\ pc = "head"
  /\ \/ req.word \notin Versions /\ notify_close /\ UNCHANGED req
     \/ /\ req.word \in Versions
        /\ req' = [req EXCEPT !.version = req.word]
        /\ AfterHeader(req.lines)
  /\ UNCHANGED <<tree, query, body, form, res, client, answers>>

\* strtoll of the first value.
ContentLength == req.lines["Content-Length"][1][1]

\* Mutant: one too many is read.
MutantMissing == ContentLength + 1 - Len(body)

Missing == ContentLength - Len(body)

\* recv(body, n): whatever of it is there; the loop goes on, also when the
\* client is gone.
ReadBody ==
  /\ pc = "body" /\ Missing > 0 /\ inbox # <<>>
  /\ LET k == Min({Missing, Len(inbox)}) IN
       /\ body' = body \o [i \in 1..k |-> Character(inbox[i])]
       /\ inbox' = SubSeq(inbox, k + 1, Len(inbox))
  /\ UNCHANGED <<tree, req, query, form, res, pc, armed, closing, calm, stream, left, asked,
                 conns, answers>>

\* parse_body: a form, or what is neither a form nor multipart.  A Content-Type
\* that is not there ends the program as well.
BodyRead ==
  /\ pc = "body" /\ Missing <= 0
  /\ IF "Content-Type" \notin DOMAIN req.lines
     THEN form' = NoEntries /\ pc' = "crash" /\ UNCHANGED <<armed, closing>>
     ELSE /\ form' = IF req.lines["Content-Type"][1][1] = "form" THEN Form(body) ELSE NoEntries
          /\ next("out")
  /\ UNCHANGED <<tree, req, query, body, res, client, answers>>

-----------------------------------------------------------------------------
(* process_out *)

\* What a response announces and carries: the text of a status, a file, a string.
StatusText(status) == <<"text", status>>
File(path) == <<"file">> \o path.segs

\* What is at a path; without a url, resource_path itself.
Kind(path) == IF path = Path(NoUrl) THEN "dir"
              ELSE IF path \in DOMAIN Files THEN Files[path] ELSE "missing"

\* Mutant: the length of a file is announced that is not there.
MutantLoaded(path) ==
  [status |-> "404", fd |-> IF Kind(path) = "missing" THEN Nothing ELSE File(path), length |-> File(path)]

\* load_file: what it does to the status, to file_fd and to Content-Length.
Loaded(path) ==
  LET status == CASE Kind(path) = "file" -> "200" [] Kind(path) = "missing" -> "404"
                  [] Kind(path) = "secret" -> "403" [] Kind(path) = "dir" -> "400"
  IN  [ status |-> status,
        fd     |-> IF Kind(path) = "missing" THEN Nothing ELSE File(path),
        length |-> IF Kind(path) = "file" THEN File(path) ELSE StatusText(status) ]

\* Mutant: the version of the response before.
MutantVersion == res.version

\* res_header.version = req_header.version
Version == req.version

\* send_response_header
SendsHeader(status, length) == res' = [status |-> status, version |-> Version, length |-> length]

\* A response: its header, then a body that is sent whole; sent is what it is.
Sends(status, length, sent) ==
  /\ SendsHeader(status, length)
  /\ answers' = Append(answers, [status |-> status, version |-> Version,
                                 length |-> length, body |-> sent, path |-> Path(req.url)])

\* Mutant: the connection is not armed again.
Mutanthttp_1_0_close ==
  IF req.version = "1.0" THEN notify_close ELSE armed' = "none" /\ pc' = "wait" /\ UNCHANGED closing

http_1_0_close == IF req.version = "1.0" THEN notify_close ELSE next("in")

\* send_status and method_not_allow
Answer(status) ==
  /\ Sends(status, StatusText(status), StatusText(status))
  /\ http_1_0_close

\* load_file, the header, and send_response_body: the file that is open or the
\* text of the status.  sendfile() fails on a directory, and may fail when the
\* client has left: the file is closed and the connection too.  At the end of a
\* file that is shorter than stat has said it sends 0 bytes, again and again.
Serve(path) ==
  LET l == Loaded(path) IN
  \/ l.fd = Nothing /\ Sends(l.status, l.length, StatusText(l.status)) /\ http_1_0_close
  \/ /\ l.fd # Nothing /\ Kind(path) # "dir"
     /\ \/ Sends(l.status, l.length, l.fd) /\ http_1_0_close
        \/ path \in Shrinking /\ SendsHeader(l.status, l.length) /\ endless /\ UNCHANGED answers
  \/ /\ l.fd # Nothing /\ (Kind(path) = "dir" \/ left)
     /\ Sends(l.status, l.length, Nothing) /\ notify_close

\* send_str.  A send() of nothing returns false: what an earlier call has left in
\* errno says whether it is tried again, and so for ever, or given up.
send_str(str) ==
  /\ Sends("200", str, str)
  /\ \/ str # Nothing /\ http_1_0_close
     \/ str = Nothing /\ (notify_close \/ endless)

\* A method of a router, as applications write them with the functions of
\* http_conn.  forward calls the method of another router.  (render puts its
\* path into req_header.url, which the next process_in clears unread.)
Routed(does) ==
  \/ does.call = "send_str" /\ send_str(does.what)
  \/ does.call = "redirect" /\ Sends("303", Nothing, Nothing) /\ http_1_0_close
  \/ does.call = "render" /\ Serve(does.what)
  \/ does.call = "method_not_allow" /\ Answer("405")

\* The target of a forward.
Target(does) == IF does.call = "forward" THEN Routers[does.what] ELSE does

Denied == LET f == match(Path(req.url)) IN f # Null /\ req.method \in f.denies

\* routers.at throws, or the router does not allow the method: a GET is looked
\* up among the files, another method is not allowed.
Unrouted == ~(Path(req.url) \in DOMAIN Routers /\ req.method \in Routers[Path(req.url)].allow)

\* A version that no request has set is not in http_version_map: the header of
\* the response throws.
ProcessOut ==
  /\ Dispatched("out")
  /\ \/ /\ req.version = "garbage" /\ (Denied \/ req.method # "garbage")
        /\ pc' = "crash" /\ UNCHANGED <<armed, closing, res, answers>>
     \/ req.version # "garbage" /\ Denied /\ Answer("403")
     \/ ~Denied /\ req.method = "garbage" /\ notify_close /\ UNCHANGED <<res, answers>>
     \/ /\ req.version # "garbage" /\ ~Denied
        /\ \/ req.method = "GET" /\ Unrouted /\ Serve(Path(req.url))
           \/ req.method \in Methods \ {"GET"} /\ Unrouted /\ Answer("405")
           \/ req.method \in Methods /\ ~Unrouted /\ Routed(Target(Routers[Path(req.url)]))
  /\ UNCHANGED <<tree, request, client>>

-----------------------------------------------------------------------------
Handler == ReadEnd \/ HangUp \/ ReadPart \/ ReadRest \/ ReadHead \/ QueryLoop \/ HeadRead
           \/ ReadBody \/ BodyRead \/ ProcessOut

Next ==
  \/ \E f \in Filters : Register(f)
  \/ Started \/ NextClient \/ Deliver \/ Leave
  \/ \E r \in Requests : Ask(r)
  \/ Handler

Spec == Init /\ [][Next]_vars

\* Events are dispatched (modules ConvSingle, ConvMulti), a handler's thread is
\* not stopped, and what a client has begun to send arrives unless it leaves.
FairSpec == Spec /\ WF_vars(Handler) /\ WF_vars(Deliver)

-----------------------------------------------------------------------------
(* Properties *)

\* The filter that registered last of those that share their first segment, or
\* of those for every url.
First(segs) == IF segs = <<>> THEN <<>> ELSE <<segs[1]>>
LastUnder(first) ==
  LET places == {i \in DOMAIN registered : First(registered[i].segs) = first}
  IN  IF places = {} THEN Null ELSE registered[Max(places)]

\* What the registrations amount to, whatever their order: among the filters
\* that share their first segment only the last one counts, for its url and all
\* below it; on the way to it there is no filter at all, not even the one for
\* every url, which decides where no filter shares the first segment.
MatchIsLast ==
  \A path \in Paths :
    LET f == LastUnder(First(Walked(path)))
    IN  match(path) = IF path.segs = <<>> \/ f = Null THEN LastUnder(<<>>)
                      ELSE IF IsPrefix(f.segs, Walked(path)) THEN f ELSE Null

\* A request has the body that its Content-Length announces, and only a POST has one.
Announced(r) ==
  IF r.method # "POST" THEN r.body = <<>>
  ELSE LET fields == HeaderFields(r.lines)
       IN  "Content-Length" \in DOMAIN fields => fields["Content-Length"][1][1] = Len(r.body)

\* The client asks for one thing at a time, and asks for it in full.
Orderly == calm /\ \A i \in DOMAIN asked : Announced(asked[i])

\* The requests of a client that sends each one whole, and the next one when it
\* has its response, are answered in turn, each with its own url and version,
\* whatever this object served before.
InTurn ==
  Orderly => /\ Len(answers) <= Len(asked)
             /\ \A i \in DOMAIN answers : /\ answers[i].path = Path(asked[i].url)
                                          /\ answers[i].version = asked[i].version

\* What a response carries is what its Content-Length announces, with three
\* exceptions: a file that may not be read is sent under the length of the text
\* of its status, a directory is not sent, nor a file to a client that is gone.
BodyAsAnnounced ==
  \A i \in DOMAIN answers :
    LET a == answers[i] IN
      \/ a.body = a.length
      \/ a.status = "403" /\ \E p \in DOMAIN Files : Files[p] = "secret" /\ a.body = File(p)
      \/ a.status = "400" /\ a.body = Nothing
      \/ a.body = Nothing /\ left

\* A handler that has returned has either registered the next event or asked
\* for its connection to be closed: with EPOLLONESHOT nothing else ever wakes it.
NotForgotten == pc = "wait" => armed \in {"in", "out"} \/ closing

\* The request of an orderly client is being worked on.
Parsed == Orderly /\ asked # <<>> /\ (pc \in {"head", "body"} \/ Dispatched("out"))

\* Of a query in which every pair has its =, the first value of each key is kept.
ParametersRight ==
  Parsed /\ Last(asked).url.query # NoQuery /\ Paired(Last(asked).url.query) =>
    LET text == Last(asked).url.query IN
      req.parameters = [key \in Keys(text) |-> ValueAt(text, Min(Keyed(text, key)))]

\* Of a form that arrives in any number of pieces, the last value of each key.
FormRight ==
  Parsed /\ pc = "wait" /\ Last(asked).method = "POST" /\ Paired(Last(asked).body)
         /\ HeaderFields(Last(asked).lines)["Content-Type"][1][1] = "form" =>
    LET text == Last(asked).body IN
      form = [key \in Keys(text) |-> ValueAt(text, Max(Keyed(text, key)))]

\* Each field has the values of the last line with its name, the last of them
\* with the lines that continue it.
FieldsRight ==
  Parsed /\ Placed(Last(asked).lines) =>
    LET lines == Last(asked).lines IN
      req.lines = [name \in Names(lines) |-> Values(lines, LastNamed(lines, name))]

\* What parse_header makes of a head is what the client wrote: the parameters of
\* its url and its fields.
HeadRight == ParametersRight /\ FieldsRight

\* (The loop over a query that ends in a key alone may go round for ever, and a
\* POST without these fields ends the program.)
LoopEnds(text) == text = NoQuery \/ Paired(text)
HasFields(r) == r.method = "POST" =>
  {"Content-Length", "Content-Type"} \subseteq {r.lines[i].name : i \in DOMAIN r.lines}

\* (send_str of an empty string and the sending of a file that becomes shorter
\* may go round for ever, and whatever the client asks for then is not read.)
Finite(r) ==
  /\ Path(r.url) \notin Shrinking
  /\ Path(r.url) \in DOMAIN Routers =>
       LET does == Target(Routers[Path(r.url)])
       IN  /\ does.call = "send_str" => does.what # Nothing
           /\ does.call = "render" => does.what \notin Shrinking

\* What the client asked for is answered after a finite time, whatever it is sent.
Completes(r) == Finite(r) /\ LoopEnds(r.url.query) /\ HasFields(r)

\* A calm client that stays, and reads what it is sent, gets its response, or its
\* connection is closed, however its body is cut into pieces, if the pairs of its
\* query have their =, a POST says how long its body is and of what type, and
\* it has asked for no response that may never end.
Answered ==
  (calm /\ Len(answers) < Len(asked) /\ \A i \in DOMAIN asked : Completes(asked[i]))
    ~> (Len(answers) = Len(asked) \/ left \/ closing)
=============================================================================
