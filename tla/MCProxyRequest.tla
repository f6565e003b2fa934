--------------------------- MODULE MCProxyRequest ---------------------------
(* An instance of the proxy's request handling for model checking.           *)
EXTENDS ProxyRequest

\* A page in text, an image larger than a line of the cache, an icon that would fit, a book
\* in text that is too large, and a host nobody knows.
SomeText ==
  "page" :> <<"http://", "a", "/", "p">> @@ "image" :> <<"http://", "b", ":", "81">>
  @@ "icon" :> <<"http://", "a", "/", "i">> @@ "book" :> <<"http://", "a">>
  @@ "lost" :> <<"http://", "c", "/">>

WhatTheyName ==
  "page" :> [host |-> <<"a">>, port |-> <<"80">>, path |-> <<"/", "p">>]
  @@ "image" :> [host |-> <<"b">>, port |-> <<"81">>, path |-> <<"/">>]
  @@ "icon" :> [host |-> <<"a">>, port |-> <<"80">>, path |-> <<"/", "i">>]
  @@ "book" :> [host |-> <<"a">>, port |-> <<"80">>, path |-> <<"/">>]
  @@ "lost" :> [host |-> <<"c">>, port |-> <<"80">>, path |-> <<"/">>]

SomeSite ==
  {[host |-> <<"a">>, port |-> <<"80">>, path |-> <<"/", "p">>, body |-> <<"x", "y", "z">>],
   [host |-> <<"a">>, port |-> <<"80">>, path |-> <<"/", "i">>, body |-> <<"x", Zero, "y">>],
   [host |-> <<"a">>, port |-> <<"80">>, path |-> <<"/">>, body |-> <<"x", "y", "x", "y">>],
   [host |-> <<"b">>, port |-> <<"81">>, path |-> <<"/">>, body |-> <<"x", Zero, "y", "y", "z">>]}

SomeSymbols ==
  {"cr", "lf", Zero, "404", "Only accept GET method.", "URI invalid.", "http://", "/", ":", "a",
   "b", "c", "p", "i", "t", "v", "w", "x", "y", "z", "1", "80", "81", "GET", "POST", "HTTP/1.1",
   "Host", "Cookie", "Accept", "User-Agent", "lynx", "Proxy-Connection", "keep-alive"}
  \cup DOMAIN SomeText

Get(name) == <<"GET", name, "HTTP/1.1">> \o CRLF
Cookie(rest) == <<"Cookie", ":", "v", "w">> \o rest \o CRLF
Lynx == <<"User-Agent", ":", "lynx">> \o CRLF

\* With a header the proxy replaces; with one that takes the buffer twice; with one that
\* leaves its LF, and one that leaves its CRLF, behind; with a user agent; for the other
\* uris; cut off within the headers; not a GET; not a uri.
SomeRequests ==
  {<<Get("page"), <<"Host", ":", "a">> \o CRLF, <<"Proxy-Connection", ":", "keep-alive">> \o CRLF, CRLF>>,
   <<Get("page"), Cookie(<<"t", "x", ":", "1">>), CRLF>>,
   <<Get("page"), Cookie(<<>>), CRLF>>,
   <<Get("page"), Cookie(<<"t">>), Lynx, CRLF>>,
   <<Get("image"), Lynx, CRLF>>,
   <<Get("icon"), CRLF>>, <<Get("book"), CRLF>>,
   <<Get("lost"), CRLF>>,
   <<Get("page"), <<"Host">> >>,
   << <<"POST", "page">> \o CRLF>>,
   << <<"GET">> \o CRLF, CRLF>>}
=============================================================================
