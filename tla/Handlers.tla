------------------------------ MODULE Handlers ------------------------------
(***************************************************************************)
(* What a connection handler does to the event loop.  A handler of the     *)
(* framework (process_in, process_out of a class derived from conn) reads  *)
(* and writes its socket, and the loop sees of it only three things: the   *)
(* calls of next(EPOLLIN) and next(EPOLLOUT), the calls of notify_close(), *)
(* and the value it returns.  A path through a handler is therefore a      *)
(* "program": a record with the sequence of those calls and the result.    *)
(***************************************************************************)
EXTENDS Sequences

\* One call a handler makes: next(EPOLLIN), next(EPOLLOUT), notify_close().
Call == {"in", "out", "notify"}

\* "reset" is not a call of a handler: conn::process writes status = OK in
\* the default branch of its switch.
Op == Call \cup {"reset"}

Program == [ops : Seq(Op), ret : BOOLEAN]

Path(ops, ret) == [ops |-> ops, ret |-> ret]

\* A path that fails and one that hands the error to notify_close() first.
Fails        == Path(<<>>, FALSE)
NotifyFails  == Path(<<"notify">>, FALSE)

-----------------------------------------------------------------------------
(* http_conn *)

\* recv_all or parse_header failed; nothing was readable, so wait for more;
\* a request was parsed, so wait until the socket is writable.
HttpIn == {NotifyFails, Path(<<"in">>, TRUE), Path(<<"out">>, TRUE)}

\* send_response_body_base calls next(EPOLLIN) when the body is out, and
\* http_1_0_close then calls next(EPOLLIN) again or, for HTTP/1.0, closes.
HttpBodySent == {Path(<<"in", "in">>, TRUE), Path(<<"in", "notify">>, TRUE)}

\* redirect and send_str send no body through send_response_body_base.
HttpHeaderSent == {Path(<<"in">>, TRUE), Path(<<"notify">>, TRUE)}

\* A failed send notifies; process_get returns the failure, process_post and
\* its siblings drop the result of method_not_allow and return true.
HttpSendFailed == {NotifyFails, Path(<<"notify">>, TRUE)}

\* A method that the switch of process_out does not know.
HttpNoMethod == {Fails}

HttpOut == HttpBodySent \cup HttpHeaderSent \cup HttpSendFailed \cup HttpNoMethod

-----------------------------------------------------------------------------
(* detect_conn *)

DetectIn  == {Fails, Path(<<"out">>, TRUE)}

\* send_with_header or the lookup of the detector: no call of next().
DetectOut == {Fails, Path(<<>>, TRUE)}

-----------------------------------------------------------------------------
(* A handler written as the README asks: with EPOLLONESHOT each successful *)
(* call registers exactly one next event, as its last act.                 *)

ReadmeIn  == {Fails, Path(<<"out">>, TRUE)}
ReadmeOut == {Fails, Path(<<"in">>, TRUE)}
=============================================================================
