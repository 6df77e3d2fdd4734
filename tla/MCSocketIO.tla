----------------------------- MODULE MCSocketIO -----------------------------
(* Model checking of SocketIO: the handlers of the repository. *)
EXTENDS SocketIO

Do(op, n) == [op |-> op, n |-> n]

\* http_conn: a request, its body if it is a POST, the two parts of a response
\* or a page sent by send_file; detect_conn: a question, a picture, an answer.
HttpScripts ==
  { <<Do("recv_all", 0), Do("send", 2), Do("send", 3)>>,
    <<Do("recv_all", 0), Do("recv", 4), Do("send", 3), Do("send", 0)>>,
    <<Do("recv_all", 0), Do("send", 1), Do("send_file", 3)>> }
DetectScripts ==
  { <<Do("recv_with_header", 0), Do("recv_file", 2), Do("send_with_header", 2)>>,
    <<Do("recv_with_header", 0), Do("recv_file", 0), Do("send_with_header", 0)>> }
BothHandlers == {HttpScripts, DetectScripts}

\* Header 3, three bytes of data and two of a file; and a header of size 0.
PeerStreams == { <<3, 0, 1, 2, 3, 1, 2>>, <<0, 0>>, <<2>> }
=============================================================================
