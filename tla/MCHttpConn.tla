----------------------------- MODULE MCHttpConn -----------------------------
(* Model checking of HttpConn: a small site. *)
EXTENDS HttpConn, TLC

ab == <<"ab">>
abc == <<"ab", "c">>
abd == <<"ab", "d">>
Url(segs, slash) == [segs |-> segs, slash |-> slash]
Asked(segs, q) == [segs |-> segs, slash |-> FALSE, query |-> q]
SiteChop(seg) == IF seg = "ab" THEN "a" ELSE ""

\* One of the two happens to be a value that is known.
FreshFields == {<<"GET", "garbage">>, <<"garbage", "1.1">>}

SitePaths == [segs : {<<>>, <<"a">>, ab, abc, abd, <<"ab", "c", "d">>}, slash : BOOLEAN]

Filter(segs, star, denies) == [segs |-> segs, star |-> star, denies |-> denies]
SiteFilters == { Filter(<<>>, TRUE, {"PUT"}), Filter(ab, TRUE, {"GET"}), Filter(abc, FALSE, {"POST"}) }

Does(call, what) == [allow |-> {"GET", "POST", "PUT"}, call |-> call, what |-> what]
SiteRouters == (Url(ab, FALSE) :> Does("send_str", <<"str">>)) @@ (Url(abc, FALSE) :> Does("forward", Url(abd, FALSE)))
               @@ (Url(abd, FALSE) :> Does("render", Url(<<"x">>, FALSE)))
               @@ (Url(<<"r">>, FALSE) :> Does("redirect", Nothing)) @@ (Url(<<"n">>, FALSE) :> Does("method_not_allow", Nothing))
               @@ (Url(<<"e">>, FALSE) :> Does("send_str", Nothing))
SiteShrinking == {Url(<<"s">>, FALSE)}
SiteFiles == (Url(<<"x">>, FALSE) :> "file") @@ (Url(<<"s">>, FALSE) :> "secret")

Line(name, values) == [name |-> name, values |-> values]
Ask1(method, url, version, lines, text) ==
  [method |-> method, url |-> url, version |-> version, lines |-> lines, body |-> text]
SiteRequests ==
  { Ask1("GET", Asked(abc, <<"k", "=", "v", "&", "k", "=", "=">>), "1.1",
         <<Line("Host", <<"h">>), Line(Folded, <<"f">>), Line(UserAgent, <<"u">>), Line("Host", <<"g", "i">>), Line(Folded, <<"e">>)>>, <<>>),
    Ask1("GET", Asked(<<"s">>, NoQuery), "1.0", <<Line(UserAgent, <<"u">>), Line(Folded, <<"f">>)>>, <<>>),
    Ask1("GET", Asked(<<"x">>, <<"k", "=", "v", "&", "w">>), "1.1", <<>>, <<>>),
    Ask1("POST", Asked(ab, NoQuery), "1.1", <<Line("Content-Length", <<4>>), Line("Content-Type", <<"form">>)>>,
         <<"=", "&", "=", "w">>),
    Ask1("POST", Asked(ab, NoQuery), "1.1", <<Line("Content-Length", <<0>>)>>, <<>>),
    Ask1("GET", Asked(<<"r">>, NoQuery), "1.1", <<>>, <<>>),
    Ask1("GET", Asked(<<"m">>, NoQuery), "1.1", <<>>, <<>>),
    Ask1("GET", Asked(<<"e">>, NoQuery), "1.1", <<>>, <<>>),
    Ask1("PUT", Asked(<<"n">>, NoQuery), "3.0", <<>>, <<>>) }
=============================================================================
