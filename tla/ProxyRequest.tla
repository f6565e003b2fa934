---------------------------- MODULE ProxyRequest ----------------------------
(* The proxy's threads on their connections: reading a request, turning it   *)
(* into one for the server, relaying and storing the answer (proxy.c, csapp.c). *)
(* The cache, whose locks and list are in ProxyCache, is a function here.     *)
(* The wrappers of csapp.c end the process when a call fails.                 *)
EXTENDS Rio, SequencesExt

CONSTANTS Threads,          \* the connections, each served by a thread
          Symbols,          \* what goes over a connection
          Requests,         \* what a client may send: sequences of lines
          Text,             \* Text[uri]: the uris clients use, as symbols
          Named,            \* Named[uri]: the [host, port, path] its text names
          Site,             \* the [host, port, path, body] that servers offer
          Faults,           \* which of "client", "server", "lookup" may fail
          MAXLINE, MAX_OBJECT_SIZE, RIO_BUFSIZE

Uris == DOMAIN Text
Zero == "zero"              \* a zero byte
CRLF == <<"cr", LF>>        \* the end of a line of HTTP

\* All that is read and sent is made of Symbols; a request is sent line after line.
ASSUME ProxyRequestAssumption ==
  /\ {MAXLINE, MAX_OBJECT_SIZE, RIO_BUFSIZE} \subseteq Nat \ {0, 1}
  /\ Faults \subseteq {"client", "server", "lookup"}
  /\ \A uri \in Uris : Text[uri] # <<>> /\ Head(Text[uri]) = "http://"
  /\ {Zero, "404", "Only accept GET method.", "URI invalid.", "http://", ":", "/", "80"} \subseteq Symbols
  /\ \A uri \in Uris : Text[uri] \in Seq(Symbols)
  /\ \A request \in Requests : FlattenSeq(request) \in Seq(Symbols)
  /\ \A site \in Site : site.body \in Seq(Symbols)

VARIABLES
  status,     \* the process: "up", "exited", "crashed" or, past its buffers, "undefined"
  pc,
  asked,      \* the request a thread was sent
  wire, buf,  \* what is still to come on the descriptor it reads; rio_buf
  got,        \* buffer of handle_request, or response of forward_request
  uri, header,
  forwarded,  \* the request written to the server
  sent,       \* all that was written to the client
  copy,       \* cache_buffer, or the object of the line found
  cache       \* the objects of the uris that are cached

vars == <<status, pc, asked, wire, buf, got, uri, header, forwarded, sent, copy, cache>>
input == <<wire, buf, got>>

None == "none"

Init ==
  /\ status = "up" /\ pc = [t \in Threads |-> "none"]
  /\ asked = [t \in Threads |-> <<>>]
  /\ wire = [t \in Threads |-> <<>>] /\ buf = [t \in Threads |-> <<>>]
  /\ got = [t \in Threads |-> <<>>]
  /\ uri = [t \in Threads |-> None] /\ header = [t \in Threads |-> <<>>]
  /\ forwarded = [t \in Threads |-> <<>>] /\ sent = [t \in Threads |-> <<>>]
  /\ copy = [t \in Threads |-> <<>>]
  /\ cache = [u \in {} |-> <<>>]

At(t, here) == status = "up" /\ pc[t] = here
Goto(t, there) == pc' = [pc EXCEPT ![t] = there]
Set(f, t, x) == [f EXCEPT ![t] = x]

\* unix_error and gai_error: the process ends, with all its threads.
Ends(how) ==
  status' = how /\ UNCHANGED <<pc, asked, wire, buf, got, uri, header, forwarded, sent, copy, cache>>
-----------------------------------------------------------------------------
(* Parsing.                                                                  *)

\* Host, port and path; the string that holds all three is cut at the path first, so the
\* port ends there - unless the colon comes behind the slash.  An empty path becomes "/".
parse_uri(text) ==
  LET h     == Tail(text)
      slash == {i \in DOMAIN h : h[i] = "/"}
      colon == {i \in DOMAIN h : h[i] = ":"}
      cut   == {i - 1 : i \in {i \in slash : i = Min(slash) /\ colon # {} /\ i > Min(colon)}}
      end   == Min(slash \cup colon \cup {Len(h) + 1})
  IN  [host |-> Taken(h, end - 1),
       path |-> IF slash = {} THEN <<"/">> ELSE Rest(h, Min(slash) - 1),
       port |-> IF colon = {} THEN <<"80">> ELSE SubSeq(h, Min(colon) + 1, Min(cut \cup {Len(h)}))]

Colons(line) == {i \in DOMAIN line : line[i] = ":"}

Key(line) == IF Colons(line) = {} THEN <<>> ELSE Taken(line, Min(Colons(line)) - 1)

Ignored == {<<"Connection">>, <<"Proxy-Connection">>, <<"Accept">>, <<"Accept-Encoding">>}

\* Mutant: the client's Proxy-Connection is passed on.
add_request_header_all(lines, line) ==
  IF Key(line) \in Ignored \ {<<"Proxy-Connection">>} THEN lines ELSE Append(lines, line)

add_request_header(lines, line) == IF Key(line) \in Ignored THEN lines ELSE Append(lines, line)

\* flags[HOST], flags[USER_AGENT]
Flag(lines, key) == \E i \in DOMAIN lines : Key(lines[i]) = <<key>>

ProxyHeaders ==
  << <<"Connection", ":", "close">> \o CRLF, <<"Proxy-Connection", ":", "close">> \o CRLF,
     <<"Accept", ":", "text/html">> \o CRLF, <<"Accept-Encoding", ":", "gzip">> \o CRLF >>

complete_request_header(lines, host) ==
  lines \o (IF Flag(lines, "Host") THEN <<>> ELSE << <<"Host", ":">> \o host \o CRLF >>)
        \o (IF Flag(lines, "User-Agent") THEN <<>> ELSE << <<"User-Agent", ":", "Mozilla">> \o CRLF >>)
        \o ProxyHeaders

generate_request(path, lines) ==
  <<"GET">> \o path \o <<"HTTP/1.0">> \o CRLF \o FlattenSeq(lines) \o CRLF
-----------------------------------------------------------------------------
(* handle_request.                                                           *)

\* accept and thread_job; the client's request is on its way.
Accept(t) ==
  /\ At(t, "none")
  /\ \E request \in Requests :
       asked' = Set(asked, t, request) /\ wire' = Set(wire, t, FlattenSeq(request))
  /\ Goto(t, "request")
  /\ UNCHANGED <<status, buf, got, uri, header, forwarded, sent, copy, cache>>

\* rio_read refills its buffer with what read returns: some of what is to come.
Refill(t) ==
  /\ status = "up" /\ pc[t] \in {"request", "header", "reply"}
  /\ buf[t] = <<>> /\ wire[t] # <<>>
  /\ \E n \in 1..RIO_BUFSIZE :
       /\ n <= Len(wire[t])
       /\ buf' = Set(buf, t, Taken(wire[t], n)) /\ wire' = Set(wire, t, Rest(wire[t], n))
  /\ UNCHANGED <<status, pc, asked, got, uri, header, forwarded, sent, copy, cache>>

\* Mutant: a read that fails ends the loop like the end of the answer.
ReadErrorEnds(t) ==
  /\ buf[t] = <<>> /\ At(t, "reply") /\ "server" \in Faults
  /\ wire' = Set(wire, t, <<>>)
  /\ UNCHANGED <<status, pc, asked, buf, got, uri, header, forwarded, sent, copy, cache>>

\* read fails: Rio_readlineb and Rio_readnb end the process.
ReadError(t) ==
  /\ buf[t] = <<>>
  /\ \/ At(t, "reply") /\ "server" \in Faults
     \/ pc[t] \in {"request", "header"} /\ status = "up" /\ "client" \in Faults
  /\ Ends("exited")

\* The request line: method and uri are checked, then the cache is asked.
HandleRequestLine(t, line) ==
  LET word(i) == IF i \in DOMAIN line THEN line[i] ELSE LF
  IN  /\ got' = Set(got, t, <<>>)
      /\ CASE word(1) # "GET" ->
                Goto(t, "refuse") /\ copy' = Set(copy, t, <<"Only accept GET method.">>) /\ UNCHANGED uri
           [] word(1) = "GET" /\ word(2) \notin Uris ->
                Goto(t, "refuse") /\ copy' = Set(copy, t, <<"URI invalid.">>) /\ UNCHANGED uri
           [] OTHER ->
                /\ uri' = Set(uri, t, word(2))
                /\ IF word(2) \in DOMAIN cache
                   THEN Goto(t, "hit") /\ copy' = Set(copy, t, cache[word(2)])
                   ELSE Goto(t, "header") /\ UNCHANGED copy
      /\ UNCHANGED <<status, header>>

\* A header line, or what is left of one that was longer than the buffer; without a colon,
\* as at the end of the input, strncpy is given the distance from the line to NULL.
HandleHeader(t, line) ==
  IF line # CRLF /\ Colons(line) = {}
  THEN status' = "crashed" /\ UNCHANGED <<pc, got, uri, header, copy>>
  ELSE /\ got' = Set(got, t, <<>>) /\ UNCHANGED <<status, uri, copy>>
       /\ IF line = CRLF THEN Goto(t, "connect") /\ UNCHANGED header
          ELSE header' = Set(header, t, add_request_header(header[t], line)) /\ UNCHANGED pc

Handle(t, line) ==
  IF pc[t] = "request" THEN HandleRequestLine(t, line) ELSE HandleHeader(t, line)

\* rio_readlineb takes from the buffer; with the line complete, handle_request goes on.
ReadLine(t) ==
  /\ status = "up" /\ pc[t] \in {"request", "header"} /\ buf[t] # <<>>
  /\ LET k    == LineTake(buf[t], got[t], MAXLINE)
         line == got[t] \o Taken(buf[t], k)
     IN  /\ buf' = Set(buf, t, Rest(buf[t], k))
         /\ IF LineDone(line, MAXLINE) THEN Handle(t, line)
            ELSE got' = Set(got, t, line) /\ UNCHANGED <<status, pc, uri, header, copy>>
  /\ UNCHANGED <<asked, wire, forwarded, sent, cache>>

\* The client has closed its side: the line ends with what there is.
ReadLineEnd(t) ==
  /\ status = "up" /\ pc[t] \in {"request", "header"} /\ buf[t] = <<>> /\ wire[t] = <<>>
  /\ Handle(t, got[t])
  /\ UNCHANGED <<asked, wire, buf, forwarded, sent, cache>>

\* The refusal, or send_from_cache: written at once, and the connection closed.
Answer(t) ==
  /\ status = "up" /\ pc[t] \in {"refuse", "hit"}
  /\ sent' = Set(sent, t, copy[t]) /\ Goto(t, "closed")
  /\ UNCHANGED <<status, asked, input, uri, header, forwarded, copy, cache>>

\* The client is gone: Rio_writen fails after a part and ends the process.
WriteError(t) ==
  /\ status = "up" /\ pc[t] \in {"refuse", "hit", "relay"} /\ "client" \in Faults
  /\ LET data == IF pc[t] = "relay" THEN got[t] ELSE copy[t]
     IN  \E n \in 0..(Len(data) - 1) : sent' = Set(sent, t, sent[t] \o Taken(data, n))
  /\ status' = "exited"
  /\ UNCHANGED <<pc, asked, input, uri, header, forwarded, copy, cache>>
-----------------------------------------------------------------------------
(* forward_request.                                                          *)

Target(t) == parse_uri(Text[uri[t]])

Offers(place) == {site \in Site : site.host = place.host /\ site.port = place.port}

\* What the server answers: the object of the path, or that there is none.
Reply(place) ==
  IF \E site \in Offers(place) : site.path = place.path
  THEN (CHOOSE site \in Offers(place) : site.path = place.path).body
  ELSE <<"404">>

\* Open_clientfd, then the request is written; the reads are from the server now.
Connect(t) ==
  /\ At(t, "connect") /\ Offers(Target(t)) # {}
  /\ forwarded' =
       Set(forwarded, t, generate_request(Target(t).path,
                                          complete_request_header(header[t], Target(t).host)))
  /\ wire' = Set(wire, t, Reply(Target(t))) /\ buf' = Set(buf, t, <<>>)
  /\ Goto(t, "reply")
  /\ UNCHANGED <<status, asked, got, uri, header, sent, copy, cache>>

\* No such host or port, nobody answers, or the write fails.
ConnectError(t) ==
  /\ At(t, "connect") /\ (Offers(Target(t)) = {} \/ "lookup" \in Faults)
  /\ Ends("exited")

\* rio_readnb collects up to MAX_OBJECT_SIZE.
ReadReply(t) ==
  /\ At(t, "reply") /\ buf[t] # <<>>
  /\ LET k     == BlockTake(buf[t], got[t], MAX_OBJECT_SIZE)
         block == got[t] \o Taken(buf[t], k)
     IN  /\ buf' = Set(buf, t, Rest(buf[t], k)) /\ got' = Set(got, t, block)
         /\ IF BlockDone(block, MAX_OBJECT_SIZE) THEN Goto(t, "relay") ELSE UNCHANGED pc
  /\ UNCHANGED <<status, asked, wire, uri, header, forwarded, sent, copy, cache>>

\* Mutant: the end of the answer is not noticed after the first block.
ReplyEndOnce(t) ==
  /\ At(t, "reply") /\ buf[t] = <<>> /\ wire[t] = <<>>
  /\ Goto(t, "relay")
  /\ UNCHANGED <<status, asked, input, uri, header, forwarded, sent, copy, cache>>

\* The server has closed: what there is goes out first, then the loop ends.
ReplyEnd(t) ==
  /\ At(t, "reply") /\ buf[t] = <<>> /\ wire[t] = <<>>
  /\ Goto(t, IF got[t] = <<>> THEN "store" ELSE "relay")
  /\ UNCHANGED <<status, asked, input, uri, header, forwarded, sent, copy, cache>>

UpToZero(s) == Taken(s, Min({i - 1 : i \in {i \in DOMAIN s : s[i] = Zero}} \cup {Len(s)}))

\* Rio_writen to the client, and strncat to cache_buffer, which ends at a zero byte and
\* adds one of its own.
Relay(t) ==
  /\ At(t, "relay")
  /\ sent' = Set(sent, t, sent[t] \o got[t]) /\ got' = Set(got, t, <<>>)
  /\ copy' = Set(copy, t, copy[t] \o UpToZero(got[t]))
  /\ status' = IF Len(copy'[t]) < MAX_OBJECT_SIZE THEN "up" ELSE "undefined"
  /\ Goto(t, "reply")
  /\ UNCHANGED <<asked, wire, buf, uri, header, forwarded, cache>>

\* strncpy in add_object: zeros up to the length.
Padded(s, length) == s \o [i \in 1..(length - Len(s)) |-> Zero]

\* buffer_size, the count of what was relayed, decides whether add_object is called; it may
\* evict other lines.
Store(t) ==
  /\ At(t, "store")
  /\ LET buffer_size == Len(sent[t])
     IN  IF buffer_size < MAX_OBJECT_SIZE
         THEN \E kept \in SUBSET DOMAIN cache :
                cache' = [u \in kept \cup {uri[t]} |->
                            IF u = uri[t] THEN Padded(copy[t], buffer_size) ELSE cache[u]]
         ELSE UNCHANGED cache
  /\ Goto(t, "closed")
  /\ UNCHANGED <<status, asked, input, uri, header, forwarded, sent, copy>>
-----------------------------------------------------------------------------
Serve(t) ==
  \/ Refill(t) \/ ReadLine(t) \/ ReadLineEnd(t) \/ Answer(t)
  \/ Connect(t) \/ ReadReply(t) \/ ReplyEnd(t) \/ Relay(t) \/ Store(t)

Fail(t) == ReadError(t) \/ WriteError(t) \/ ConnectError(t)

Next == \E t \in Threads : Accept(t) \/ Serve(t) \/ Fail(t)

Spec == Init /\ [][Next]_vars

(* The scheduler runs every thread; clients and servers that do not fail      *)
(* send what they have to.                                                   *)
FairSpec == Spec /\ \A t \in Threads : WF_vars(Serve(t) \/ Fail(t))
-----------------------------------------------------------------------------
(* Correctness.                                                              *)

\* Types, and the buffers of the reads: a line leaves room for its end, a block fits the
\* response.
TypeOK ==
  /\ status \in {"up", "exited", "crashed", "undefined"}
  /\ DOMAIN cache \subseteq Uris
  /\ \A t \in Threads :
       /\ uri[t] \in Uris \cup {None} /\ asked[t] \in Requests \cup {<<>>}
       /\ Len(buf[t]) <= RIO_BUFSIZE
       /\ Len(got[t]) <= IF pc[t] \in {"reply", "relay"} THEN MAX_OBJECT_SIZE ELSE MAXLINE - 1

\* A zero byte in an object small enough for the cache ends what is kept of it.
Clipped(object) == Zero \in Range(object) /\ Len(object) < MAX_OBJECT_SIZE

\* What a client gets for a uri is what the server it names offers there, from the
\* beginning and, when the connection is closed, to the end - fetched or cached, by one
\* thread or by another, however the answer came in, and whatever failed before.  An
\* object with a zero byte comes out of the cache with zeros from there on.
AnswersTheObject ==
  \A t \in Threads : uri[t] # None =>
    LET object == Reply(Named[uri[t]])
        kept   == Padded(UpToZero(object), Len(object))
    IN  /\ IsPrefix(sent[t], object) \/ (Clipped(object) /\ IsPrefix(sent[t], kept))
        /\ pc[t] = "closed" => Len(sent[t]) = Len(object)

\* The client's header lines, without the request line and the blank line.
Headers(request) == SubSeq(request, 2, Len(request) - 1)

Own == {"Connection", "Proxy-Connection", "Accept", "Accept-Encoding"}

Missing(request, key, line) ==
  IF \E i \in DOMAIN request : Head(request[i]) = key THEN <<>> ELSE line

\* A line as rio_readlineb hands it out: as many symbols as fit the buffer at a time.
Pieces(line) ==
  [i \in 1..((Len(line) + MAXLINE - 2) \div (MAXLINE - 1)) |->
     SubSeq(line, (i - 1) * (MAXLINE - 1) + 1, Min({i * (MAXLINE - 1), Len(line)}))]

\* A line longer than the buffer is passed on whole if the proxy drops no piece of it, and
\* takes none but the first for a line of its own.
ReadWhole(line) ==
  Len(line) > MAXLINE - 1 =>
    /\ Head(line) \notin Own
    /\ \A i \in DOMAIN Pieces(line) \ {1} :
         /\ Pieces(line)[i] # CRLF
         /\ Key(Pieces(line)[i]) \notin Ignored \cup {<<"Host">>, <<"User-Agent">>}

\* The server is asked for the path of the uri, with the client's headers in their order
\* except those the proxy sets itself, once each, however the bytes came in: when the
\* request line fits the buffer, and every header line does or is read as meant all the same.
ForwardsTheRequest ==
  \A t \in Threads :
    /\ forwarded[t] # <<>> /\ Len(asked[t][1]) < MAXLINE
    /\ \A i \in DOMAIN Headers(asked[t]) : ReadWhole(Headers(asked[t])[i])
    => LET theirs == SelectSeq(Headers(asked[t]), LAMBDA line : Head(line) \notin Own)
           named  == Named[uri[t]]
       IN  forwarded[t] =
             <<"GET">> \o named.path \o <<"HTTP/1.0">> \o CRLF \o FlattenSeq(theirs)
             \o Missing(asked[t], "Host", <<"Host", ":">> \o named.host \o CRLF)
             \o Missing(asked[t], "User-Agent", <<"User-Agent", ":", "Mozilla">> \o CRLF)
             \o FlattenSeq(ProxyHeaders) \o CRLF

\* Every connection is served to its end, unless the process ends.
Answered == \A t \in Threads : pc[t] # "none" ~> pc[t] = "closed" \/ status # "up"
=============================================================================
