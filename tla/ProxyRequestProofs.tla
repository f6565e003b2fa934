------------------------ MODULE ProxyRequestProofs ------------------------
(* What the proxy's buffers hold and what its clients get, for any number of *)
(* connections, any buffer sizes, and reads that cut a line or an object     *)
(* anywhere.                                                                 *)
EXTENDS ProxyRequest, SequenceTheorems, WellFoundedInduction, TLAPS

\* The least element of a set of numbers.
LEMMA MinInSet ==
  ASSUME NEW S \in SUBSET Nat, S # {}
  PROVE  Min(S) \in S /\ \A i \in S : Min(S) <= i
<1>1. PICK i \in S : \A j \in S : ~ (<<j, i>> \in OpToRel(<, Nat))
  <2>1. IsWellFoundedOn(OpToRel(<, Nat), Nat)
    BY NatLessThanWellFounded
  <2> QED
    BY <2>1, WFMin
<1>2. \A j \in S : ~ (j < i)
  BY <1>1 DEF OpToRel
<1>3. \A j \in S : i <= j
  BY <1>2
<1> QED
  BY <1>3 DEF Min

\* A sequence is what is taken from it and the rest.
LEMMA TakenRest ==
  ASSUME NEW S, NEW s \in Seq(S), NEW k \in 0..Len(s)
  PROVE  /\ Taken(s, k) \in Seq(S) /\ Rest(s, k) \in Seq(S)
         /\ Len(Taken(s, k)) = k /\ Len(Rest(s, k)) = Len(s) - k
         /\ Taken(s, k) \o Rest(s, k) = s
<1>1. Len(s) \in Nat /\ \A i \in 1..Len(s) : s[i] \in S
  BY LenProperties, ElementOfSeq
<1>2. Taken(s, k) \in Seq(S) /\ Len(Taken(s, k)) = k
  BY <1>1, SubSeqProperties DEF Taken
<1>3. Rest(s, k) \in Seq(S) /\ Len(Rest(s, k)) = Len(s) - k
  BY <1>1, SubSeqProperties DEF Rest
<1>4. Taken(s, k) \o Rest(s, k) = s
  <2>1. SubSeq(s, 1, k) \o SubSeq(s, k + 1, Len(s)) = SubSeq(s, 1, Len(s))
    <3>1. 1 \in 1..(Len(s) + 1) /\ k \in (1 - 1)..Len(s) /\ Len(s) \in k..Len(s)
      BY <1>1
    <3> QED
      BY <3>1, ConcatAdjacentSubSeq
  <2>2. SubSeq(s, 1, Len(s)) = s
    BY SubSeqFull
  <2> QED
    BY <2>1, <2>2 DEF Taken, Rest
<1> QED
  BY <1>2, <1>3, <1>4

\* Three parts in a row.
LEMMA Regrouped == \A a, b, c \in Seq(Symbols) : (a \o b) \o c = a \o (b \o c)
BY ConcatAssociative

\* The first part of a sequence is a prefix of it.
LEMMA PrefixOfConcat ==
  ASSUME NEW S, NEW s \in Seq(S), NEW t \in Seq(S)
  PROVE  IsPrefix(s, s \o t)
<1>1. Len(s) \in Nat /\ Len(t) \in Nat /\ Len(s \o t) = Len(s) + Len(t)
  BY LenProperties, ConcatProperties
<1>2. SubSeq(s, 1, Len(s)) = SubSeq(s \o t, 1, Len(s))
  <2>1. CASE s = <<>>
    BY <2>1, SubSeqEmpty, <1>1
  <2>2. CASE s # <<>>
    BY <2>2, <1>1, SubSeqOfConcat1, EmptySeq
  <2> QED
    BY <2>1, <2>2
<1> QED
  BY <1>1, <1>2 DEF IsPrefix

-----------------------------------------------------------------------------
(* The invariant.                                                            *)

Places ==
  {"none", "request", "header", "refuse", "hit", "connect", "reply", "relay", "store", "closed"}

Types ==
  /\ status \in {"up", "exited", "crashed", "undefined"}
  /\ pc \in [Threads -> Places] /\ asked \in [Threads -> Requests \cup {<<>>}]
  /\ wire \in [Threads -> Seq(Symbols)] /\ buf \in [Threads -> Seq(Symbols)]
  /\ got \in [Threads -> Seq(Symbols)] /\ sent \in [Threads -> Seq(Symbols)]
  /\ copy \in [Threads -> Seq(Symbols)] /\ uri \in [Threads -> Uris \cup {None}]
  /\ DOMAIN cache \subseteq Uris /\ \A u \in DOMAIN cache : cache[u] \in Seq(Symbols)

(* What fits where; and what has not been used yet, or not any more, is empty. *)
Buffers(t) ==
  /\ Len(buf[t]) <= RIO_BUFSIZE
  /\ Len(got[t]) <= IF pc[t] \in {"reply", "relay"} THEN MAX_OBJECT_SIZE ELSE MAXLINE - 1
  /\ pc[t] \in {"reply", "relay", "store"} /\ status # "undefined" => Len(copy[t]) < MAX_OBJECT_SIZE
  /\ pc[t] \in {"none", "request", "header", "connect"} => copy[t] = <<>> /\ sent[t] = <<>>
  /\ pc[t] \notin {"request", "header", "reply", "relay"} => got[t] = <<>>
  /\ pc[t] \in {"header", "hit", "connect", "reply", "relay", "store"} => uri[t] \in Uris
  /\ pc[t] \in {"none", "request", "refuse"} => uri[t] = None

RequestInv == Types /\ \A t \in Threads : Buffers(t)

Object(u) == Reply(Named[u])

(* What the cache may hold of it.                                            *)
Kept(u) == Padded(UpToZero(Object(u)), Len(Object(u)))

CacheHoldsObjects == \A u \in DOMAIN cache : cache[u] = Kept(u) /\ Len(Object(u)) < MAX_OBJECT_SIZE

(* A block that is not the last one is full, so of an object small enough for *)
(* the cache there is one block, and cache_buffer has nothing or all of it.   *)
CopiedAtOnce(t) ==
  Len(sent[t]) < MAX_OBJECT_SIZE =>
    \/ sent[t] = <<>> /\ copy[t] = <<>>
    \/ buf[t] = <<>> /\ wire[t] = <<>> /\ got[t] = <<>> /\ copy[t] = UpToZero(sent[t])

(* What the client has, what the thread holds and what is still to come make  *)
(* up the object.                                                            *)
OnItsWay(t) ==
  /\ pc[t] = "hit" => copy[t] = Kept(uri[t]) /\ sent[t] = <<>> /\ Len(Object(uri[t])) < MAX_OBJECT_SIZE
  /\ pc[t] \in {"reply", "relay"} =>
       (sent[t] \o got[t]) \o (buf[t] \o wire[t]) = Object(uri[t]) /\ CopiedAtOnce(t)
  /\ pc[t] = "relay" => Len(got[t]) = MAX_OBJECT_SIZE \/ (buf[t] = <<>> /\ wire[t] = <<>>)
  /\ pc[t] = "store" =>
       /\ sent[t] = Object(uri[t])
       /\ Len(sent[t]) < MAX_OBJECT_SIZE => copy[t] = UpToZero(sent[t])

(* AnswersTheObject for one thread.                                          *)
AnswerRight(t) ==
  uri[t] # None =>
    /\ \/ IsPrefix(sent[t], Object(uri[t]))
       \/ Clipped(Object(uri[t])) /\ IsPrefix(sent[t], Kept(uri[t]))
    /\ pc[t] = "closed" => Len(sent[t]) = Len(Object(uri[t]))

AnswerInv ==
  /\ CacheHoldsObjects
  /\ \A t \in Threads : AnswerRight(t) /\ (status = "up" => OnItsWay(t))

(* Host, port and path as a uri spells them: the port may be left out, and so *)
(* may the path.  There is no colon in the path.                              *)
Plain(s) == \A i \in DOMAIN s : s[i] \notin {":", "/"}

Spells(text, place) ==
  /\ place = [host |-> place.host, port |-> place.port, path |-> place.path]
  /\ place.host \in Seq(Symbols) /\ place.port \in Seq(Symbols) /\ place.path \in Seq(Symbols)
  /\ Plain(place.host) /\ Plain(place.port)
  /\ place.path # <<>> /\ Head(place.path) = "/" /\ \A i \in DOMAIN place.path : place.path[i] # ":"
  /\ \E port \in {<<":">> \o place.port, <<>>}, path \in {place.path, <<>>} :
       /\ text = <<"http://">> \o (place.host \o (port \o path))
       /\ port = <<>> => place.port = <<"80">>
       /\ path = <<>> => place.path = <<"/">>

(* Every uri that leads somewhere spells what it names.                       *)
UrisSpelled == \A u \in Uris : Offers(parse_uri(Text[u])) = {} \/ Spells(Text[u], Named[u])

\* The sizes of the buffers.
LEMMA Sizes ==
  /\ MAXLINE \in Nat /\ MAXLINE >= 2 /\ MAX_OBJECT_SIZE \in Nat /\ MAX_OBJECT_SIZE >= 2
  /\ RIO_BUFSIZE \in Nat /\ RIO_BUFSIZE >= 2
<1>1. MAXLINE \in Nat \ {0, 1} /\ MAX_OBJECT_SIZE \in Nat \ {0, 1} /\ RIO_BUFSIZE \in Nat \ {0, 1}
  BY ProxyRequestAssumption
<1> QED
  BY <1>1

-----------------------------------------------------------------------------
(* The operators.                                                            *)

\* What strncat copies is a first part, and all of it when there is no zero byte.
LEMMA UpToZeroIs ==
  ASSUME NEW s \in Seq(Symbols)
  PROVE  /\ UpToZero(s) \in Seq(Symbols) /\ Len(UpToZero(s)) <= Len(s)
         /\ Zero \notin Range(s) => UpToZero(s) = s
<1> DEFINE Z == {i - 1 : i \in {i \in DOMAIN s : s[i] = Zero}} \cup {Len(s)}
<1>1. Len(s) \in Nat /\ DOMAIN s = 1..Len(s)
  BY LenProperties
<1>2. Z \in SUBSET Nat /\ Z # {} /\ \A n \in Z : n \in 0..Len(s)
  BY <1>1
<1>3. UpToZero(s) = Taken(s, Min(Z))
  BY DEF UpToZero
<1>4. Zero \notin Range(s) => Z = {Len(s)}
  BY DEF Range
<1> HIDE DEF Z
<1>5. Min(Z) \in Z /\ Min(Z) \in 0..Len(s)
  BY <1>2, MinInSet
<1>6. UpToZero(s) \in Seq(Symbols) /\ Len(UpToZero(s)) <= Len(s)
  BY <1>1, <1>3, <1>5, TakenRest
<1>7. ASSUME Zero \notin Range(s) PROVE UpToZero(s) = s
  BY <1>3, <1>4, <1>5, <1>7, SubSeqFull DEF Taken
<1> QED
  BY <1>6, <1>7

\* What strncpy makes of it has the length asked for.
LEMMA PaddedIs ==
  ASSUME NEW s \in Seq(Symbols), NEW n \in Nat, Len(s) <= n
  PROVE  /\ Padded(s, n) \in Seq(Symbols) /\ Len(Padded(s, n)) = n
         /\ Len(s) = n => Padded(s, n) = s
<1> DEFINE z == [i \in 1..(n - Len(s)) |-> Zero]
<1>0. Len(s) \in Nat /\ Zero \in Symbols
  BY LenProperties, ProxyRequestAssumption
<1>1. n - Len(s) \in Nat
  BY <1>0
<1>2. z \in Seq(Symbols) /\ Len(z) = n - Len(s)
  BY <1>0, <1>1
<1>3. Len(s) = n => z = <<>>
  BY <1>2, EmptySeq
<1>4. Padded(s, n) = s \o z
  BY DEF Padded
<1> HIDE DEF z
<1> QED
  BY <1>0, <1>1, <1>2, <1>3, <1>4, ConcatProperties, ConcatEmptySeq

\* What a server answers is a sequence of symbols.
LEMMA ReplyTyped ==
  ASSUME NEW place
  PROVE  Reply(place) \in Seq(Symbols)
<1>1. CASE \E site \in Offers(place) : site.path = place.path
  BY <1>1, ProxyRequestAssumption DEF Reply, Offers
<1>2. CASE ~ \E site \in Offers(place) : site.path = place.path
  <2>1. "404" \in Symbols
    BY ProxyRequestAssumption
  <2> QED
    BY <1>2, <2>1 DEF Reply
<1> QED
  BY <1>1, <1>2

\* A line or a block is never longer than its buffer.
LEMMA TakesFit ==
  ASSUME NEW b \in Seq(Symbols), NEW g \in Seq(Symbols), NEW m \in Nat \ {0}
  PROVE  /\ Len(g) <= m - 1 =>
              LineTake(b, g, m) \in 0..Len(b) /\ Len(g) + LineTake(b, g, m) <= m - 1
         /\ Len(g) <= m => BlockTake(b, g, m) \in 0..Len(b) /\ Len(g) + BlockTake(b, g, m) <= m
<1>1. Len(b) \in Nat /\ Len(g) \in Nat /\ DOMAIN b = 1..Len(b)
  BY LenProperties
<1>2. ASSUME Len(g) <= m - 1
      PROVE  LineTake(b, g, m) \in 0..Len(b) /\ Len(g) + LineTake(b, g, m) <= m - 1
  <2> DEFINE S == {i \in DOMAIN b : b[i] = LF} \cup {Len(b), m - 1 - Len(g)}
  <2>1. S \in SUBSET Nat /\ Len(b) \in S /\ m - 1 - Len(g) \in S
    BY <1>1, <1>2
  <2>2. LineTake(b, g, m) = Min(S)
    BY DEF LineTake
  <2> HIDE DEF S
  <2>3. Min(S) \in Nat /\ Min(S) <= Len(b) /\ Min(S) <= m - 1 - Len(g)
    BY <2>1, MinInSet
  <2> QED
    BY <1>1, <2>2, <2>3
<1>3. ASSUME Len(g) <= m
      PROVE  BlockTake(b, g, m) \in 0..Len(b) /\ Len(g) + BlockTake(b, g, m) <= m
  <2> DEFINE S == {Len(b), m - Len(g)}
  <2>1. S \in SUBSET Nat /\ Len(b) \in S /\ m - Len(g) \in S
    BY <1>1, <1>3
  <2>2. BlockTake(b, g, m) = Min(S)
    BY DEF BlockTake
  <2> HIDE DEF S
  <2>3. Min(S) \in Nat /\ Min(S) <= Len(b) /\ Min(S) <= m - Len(g)
    BY <2>1, MinInSet
  <2> QED
    BY <1>1, <2>2, <2>3
<1> QED
  BY <1>2, <1>3
-----------------------------------------------------------------------------
(* Types and buffers, action by action.                                      *)

Alone(t) ==
  \A u \in Threads \ {t} :
    /\ pc'[u] = pc[u] /\ wire'[u] = wire[u] /\ buf'[u] = buf[u] /\ got'[u] = got[u]
    /\ uri'[u] = uri[u] /\ sent'[u] = sent[u] /\ copy'[u] = copy[u]

\* At the start all is empty.
LEMMA InitRequest == Init => RequestInv
<1> SUFFICES ASSUME Init PROVE RequestInv
  OBVIOUS
<1>1. <<>> \in Seq(Symbols) /\ Len(<<>>) = 0 /\ MAXLINE - 1 >= 0 /\ RIO_BUFSIZE >= 0
  BY EmptySeq, Sizes
<1>2. Types
  BY <1>1 DEF Init, Types, Places
<1>3. \A t \in Threads : Buffers(t)
  BY <1>1 DEF Init, Buffers
<1> QED
  BY <1>2, <1>3 DEF RequestInv

\* What a step of one thread has to leave in order.
LEMMA OneThread ==
  ASSUME RequestInv, NEW t \in Threads, status = "up", Alone(t), Types', Buffers(t)'
  PROVE  RequestInv'
<1>1. ASSUME NEW u \in Threads \ {t} PROVE Buffers(u)'
  <2>1. Buffers(u)
    BY DEF RequestInv
  <2>2. /\ pc'[u] = pc[u] /\ buf'[u] = buf[u] /\ got'[u] = got[u]
        /\ uri'[u] = uri[u] /\ sent'[u] = sent[u] /\ copy'[u] = copy[u]
    BY DEF Alone
  <2> QED
    BY <2>1, <2>2 DEF Buffers
<1> QED
  BY <1>1 DEF RequestInv

\* accept.
LEMMA AcceptRequest ==
  ASSUME RequestInv, NEW t \in Threads, Accept(t)
  PROVE  RequestInv' /\ Alone(t)
<1>1. Types /\ Buffers(t) /\ pc[t] = "none" /\ status = "up"
  BY DEF RequestInv, Accept, At
<1>2. PICK request \in Requests :
        asked' = Set(asked, t, request) /\ wire' = Set(wire, t, FlattenSeq(request))
  BY DEF Accept
<1>3. /\ status' = status /\ buf' = buf /\ got' = got /\ uri' = uri /\ sent' = sent
      /\ copy' = copy /\ cache' = cache /\ pc' = Set(pc, t, "request")
  BY DEF Accept, Goto, Set
<1>4. FlattenSeq(request) \in Seq(Symbols)
  BY ProxyRequestAssumption
<1>5. /\ wire' \in [Threads -> Seq(Symbols)] /\ \A u \in Threads \ {t} : wire'[u] = wire[u]
      /\ asked' \in [Threads -> Requests \cup {<<>>}]
      /\ pc' \in [Threads -> Places] /\ pc'[t] = "request"
      /\ \A u \in Threads \ {t} : pc'[u] = pc[u]
  BY <1>1, <1>2, <1>3, <1>4 DEF Types, Places, Set
<1>6. Types' /\ Alone(t)
  BY <1>1, <1>3, <1>5 DEF Types, Alone
<1>7. Buffers(t)'
  BY <1>1, <1>3, <1>5 DEF Buffers
<1> QED
  BY <1>1, <1>6, <1>7, OneThread

\* rio_read.
LEMMA RefillRequest ==
  ASSUME RequestInv, NEW t \in Threads, Refill(t)
  PROVE  /\ RequestInv' /\ Alone(t)
         /\ buf'[t] \o wire'[t] = wire[t] /\ buf[t] = <<>> /\ wire[t] # <<>>
<1>1. /\ Types /\ Buffers(t) /\ status = "up" /\ pc[t] \in {"request", "header", "reply"}
      /\ buf[t] = <<>> /\ wire[t] # <<>>
  BY DEF RequestInv, Refill
<1>2. PICK n \in 1..RIO_BUFSIZE :
        /\ n <= Len(wire[t])
        /\ buf' = Set(buf, t, Taken(wire[t], n)) /\ wire' = Set(wire, t, Rest(wire[t], n))
  BY DEF Refill
<1>3. /\ status' = status /\ pc' = pc /\ asked' = asked /\ got' = got /\ uri' = uri
      /\ sent' = sent /\ copy' = copy /\ cache' = cache
  BY DEF Refill
<1>4. /\ Taken(wire[t], n) \in Seq(Symbols) /\ Rest(wire[t], n) \in Seq(Symbols)
      /\ Len(Taken(wire[t], n)) = n /\ Taken(wire[t], n) \o Rest(wire[t], n) = wire[t]
  <2>1. wire[t] \in Seq(Symbols) /\ Len(wire[t]) \in Nat /\ RIO_BUFSIZE \in Nat
    BY <1>1, LenProperties, Sizes DEF Types
  <2>2. n \in 0..Len(wire[t])
    BY <1>2, <2>1
  <2> QED
    BY <2>1, <2>2, TakenRest
<1>5. /\ wire' \in [Threads -> Seq(Symbols)] /\ buf' \in [Threads -> Seq(Symbols)]
      /\ wire'[t] = Rest(wire[t], n) /\ buf'[t] = Taken(wire[t], n)
      /\ \A u \in Threads \ {t} : wire'[u] = wire[u]
      /\ \A u \in Threads \ {t} : buf'[u] = buf[u]
  BY <1>1, <1>2, <1>4 DEF Types, Set
<1>6. Types' /\ Alone(t)
  BY <1>1, <1>3, <1>5 DEF Types, Alone
<1>7. Len(buf'[t]) <= RIO_BUFSIZE
  BY <1>2, <1>4, <1>5, Sizes
<1>8. Buffers(t)'
  BY <1>1, <1>3, <1>7 DEF Buffers
<1> QED
  BY <1>1, <1>4, <1>5, <1>6, <1>8, OneThread
\* A call of a wrapper fails and the process ends.
LEMMA EndsRequest ==
  ASSUME RequestInv, NEW t \in Threads, status = "up", Ends("exited")
  PROVE  RequestInv' /\ Alone(t)
<1>1. /\ status' = "exited" /\ pc' = pc /\ asked' = asked /\ wire' = wire /\ buf' = buf
      /\ got' = got /\ uri' = uri /\ sent' = sent /\ copy' = copy /\ cache' = cache
  BY DEF Ends
<1>2. Types' /\ Alone(t)
  BY <1>1 DEF RequestInv, Types, Alone
<1>3. Buffers(t)'
  BY <1>1 DEF RequestInv, Buffers
<1> QED
  BY <1>2, <1>3, OneThread

\* The request line is refused, found in the cache or goes on to its headers.
LEMMA RequestLineDoes ==
  ASSUME NEW t \in Threads, NEW line, HandleRequestLine(t, line)
  PROVE  /\ got' = Set(got, t, <<>>) /\ status' = status
         /\ \/ \E says \in {"Only accept GET method.", "URI invalid."} :
                 pc' = Set(pc, t, "refuse") /\ copy' = Set(copy, t, <<says>>) /\ uri' = uri
            \/ \E u \in Uris :
                 /\ uri' = Set(uri, t, u)
                 /\ \/ u \in DOMAIN cache /\ pc' = Set(pc, t, "hit") /\ copy' = Set(copy, t, cache[u])
                    \/ pc' = Set(pc, t, "header") /\ copy' = copy
<1> DEFINE word(i) == IF i \in DOMAIN line THEN line[i] ELSE LF
<1>1. got' = Set(got, t, <<>>) /\ status' = status
  BY DEF HandleRequestLine
<1>2. CASE word(1) # "GET"
  BY <1>2 DEF HandleRequestLine, Goto, Set
<1>3. CASE word(1) = "GET" /\ word(2) \notin Uris
  BY <1>3 DEF HandleRequestLine, Goto, Set
<1>4. CASE word(1) = "GET" /\ word(2) \in Uris
  <2>1. /\ uri' = Set(uri, t, word(2))
        /\ IF word(2) \in DOMAIN cache
           THEN Goto(t, "hit") /\ copy' = Set(copy, t, cache[word(2)])
           ELSE Goto(t, "header") /\ UNCHANGED copy
    BY <1>4 DEF HandleRequestLine
  <2> HIDE DEF word
  <2> QED
    BY <1>1, <1>4, <2>1 DEF Goto, Set
<1> QED
  BY <1>1, <1>2, <1>3, <1>4

\* A header line ends the process, is kept or dropped, or is the last.
LEMMA HeaderDoes ==
  ASSUME NEW t \in Threads, NEW line, HandleHeader(t, line)
  PROVE  /\ uri' = uri /\ copy' = copy
         /\ \/ status' = "crashed" /\ pc' = pc /\ got' = got
            \/ /\ status' = status /\ got' = Set(got, t, <<>>)
               /\ (pc' = pc \/ pc' = Set(pc, t, "connect"))
BY DEF HandleHeader, Goto, Set

\* A line is complete and handle_request goes on with it.
LEMMA HandleRequest ==
  ASSUME RequestInv, NEW t \in Threads, NEW line, status = "up", pc[t] \in {"request", "header"},
         Handle(t, line), UNCHANGED <<asked, wire, sent, cache>>,
         buf' \in [Threads -> Seq(Symbols)], Len(buf'[t]) <= RIO_BUFSIZE,
         \A u \in Threads \ {t} : buf'[u] = buf[u]
  PROVE  RequestInv' /\ Alone(t)
<1>1. Types /\ Buffers(t)
  BY DEF RequestInv
<1>2. <<>> \in Seq(Symbols) /\ Len(<<>>) = 0 /\ MAXLINE \in Nat /\ MAXLINE >= 2
  BY EmptySeq, Sizes
<1>3. CASE pc[t] = "request"
  <2>1. HandleRequestLine(t, line)
    BY <1>3 DEF Handle
  <2>2. /\ got' = Set(got, t, <<>>) /\ status' = status
        /\ asked' = asked /\ wire' = wire /\ sent' = sent /\ cache' = cache
    BY <2>1, RequestLineDoes
  <2>3. CASE \E says \in {"Only accept GET method.", "URI invalid."} :
               pc' = Set(pc, t, "refuse") /\ copy' = Set(copy, t, <<says>>) /\ uri' = uri
    <3>0. PICK says \in Symbols :
            pc' = Set(pc, t, "refuse") /\ copy' = Set(copy, t, <<says>>) /\ uri' = uri
      BY <2>3, ProxyRequestAssumption
    <3>a. <<says>> \in Seq(Symbols)
      OBVIOUS
    <3>1. /\ got' \in [Threads -> Seq(Symbols)] /\ got'[t] = <<>>
          /\ copy' \in [Threads -> Seq(Symbols)]
          /\ pc' \in [Threads -> Places] /\ pc'[t] = "refuse"
          /\ \A u \in Threads \ {t} : got'[u] = got[u]
          /\ \A u \in Threads \ {t} : copy'[u] = copy[u]
          /\ \A u \in Threads \ {t} : pc'[u] = pc[u]
      BY <1>1, <1>2, <2>2, <3>0, <3>a DEF Types, Places, Set
    <3>2. Types' /\ Alone(t)
      BY <1>1, <2>2, <3>0, <3>1 DEF Types, Alone
    <3>3. Buffers(t)'
      BY <1>1, <1>2, <1>3, <3>0, <3>1 DEF Buffers
    <3> QED
      BY <3>2, <3>3, OneThread
  <2>4. CASE \E u \in Uris :
               /\ uri' = Set(uri, t, u)
               /\ \/ u \in DOMAIN cache /\ pc' = Set(pc, t, "hit") /\ copy' = Set(copy, t, cache[u])
                  \/ pc' = Set(pc, t, "header") /\ copy' = copy
    <3>1. /\ got' \in [Threads -> Seq(Symbols)] /\ got'[t] = <<>>
          /\ uri' \in [Threads -> Uris \cup {None}] /\ uri'[t] \in Uris
          /\ \A u \in Threads \ {t} : got'[u] = got[u]
          /\ \A u \in Threads \ {t} : uri'[u] = uri[u]
      BY <1>1, <1>2, <2>2, <2>4 DEF Types, Set
    <3>2. /\ copy' \in [Threads -> Seq(Symbols)]
          /\ pc' \in [Threads -> Places]
          /\ pc'[t] = "hit" \/ (pc'[t] = "header" /\ copy'[t] = copy[t])
          /\ \A u \in Threads \ {t} : copy'[u] = copy[u]
          /\ \A u \in Threads \ {t} : pc'[u] = pc[u]
      BY <1>1, <2>4 DEF Types, Places, Set
    <3>3. Types' /\ Alone(t)
      BY <1>1, <2>2, <3>1, <3>2 DEF Types, Alone
    <3>4. Buffers(t)'
      <4>1. copy[t] = <<>> /\ sent'[t] = <<>> /\ Len(got'[t]) = 0
        BY <1>1, <1>2, <1>3, <2>2, <3>1 DEF Buffers
      <4>2. CASE pc'[t] = "hit"
        BY <1>2, <3>1, <4>1, <4>2 DEF Buffers
      <4>3. CASE pc'[t] = "header" /\ copy'[t] = copy[t]
        BY <1>2, <3>1, <4>1, <4>3 DEF Buffers
      <4> QED
        BY <3>2, <4>2, <4>3
    <3> QED
      BY <3>3, <3>4, OneThread
  <2> QED
    BY <2>1, <2>3, <2>4, RequestLineDoes
<1>4. CASE pc[t] = "header"
  <2>1. /\ uri' = uri /\ copy' = copy /\ asked' = asked /\ wire' = wire /\ sent' = sent
        /\ cache' = cache
        /\ \/ status' = "crashed" /\ pc' = pc /\ got' = got
           \/ /\ status' = status /\ got' = Set(got, t, <<>>)
              /\ (pc' = pc \/ pc' = Set(pc, t, "connect"))
    BY <1>4, HeaderDoes DEF Handle
  <2>2. /\ got' \in [Threads -> Seq(Symbols)] 
        /\ got'[t] = <<>> \/ got'[t] = got[t]
        /\ status' \in {"up", "crashed"}
        /\ pc' \in [Threads -> Places]
        /\ pc'[t] = "header" \/ (pc'[t] = "connect" /\ got'[t] = <<>>)
        /\ \A u \in Threads \ {t} : got'[u] = got[u]
        /\ \A u \in Threads \ {t} : pc'[u] = pc[u]
    <3>1. /\ got \in [Threads -> Seq(Symbols)] /\ pc \in [Threads -> Places]
          /\ <<>> \in Seq(Symbols) /\ {"header", "connect"} \subseteq Places
          /\ pc[t] = "header" /\ status = "up"
      BY <1>1, <1>4 DEF Types, Places
    <3>2. CASE status' = "crashed" /\ pc' = pc /\ got' = got
      BY <3>1, <3>2, Zenon
    <3>3. CASE status' = status /\ got' = Set(got, t, <<>>) /\ (pc' = pc \/ pc' = Set(pc, t, "connect"))
      <4>1. /\ got' \in [Threads -> Seq(Symbols)] /\ got'[t] = <<>>
            /\ \A u \in Threads \ {t} : got'[u] = got[u]
        BY <3>1, <3>3 DEF Set
      <4>2. /\ pc' \in [Threads -> Places] /\ (pc'[t] = "header" \/ pc'[t] = "connect")
            /\ \A u \in Threads \ {t} : pc'[u] = pc[u]
        BY <3>1, <3>3 DEF Set
      <4> QED
        BY <3>1, <3>3, <4>1, <4>2, Zenon
    <3> QED
      BY <2>1, <3>2, <3>3, Zenon
  <2>3. Types' /\ Alone(t)
    BY <1>1, <2>1, <2>2 DEF Types, Alone
  <2>4. Buffers(t)'
    BY <1>1, <1>2, <1>4, <2>1, <2>2 DEF Buffers
  <2> QED
    BY <2>3, <2>4, OneThread
<1> QED
  BY <1>3, <1>4

\* What a read adds to what was got.
LEMMA Joined ==
  ASSUME NEW g \in Seq(Symbols), NEW s \in Seq(Symbols)
  PROVE  g \o s \in Seq(Symbols) /\ Len(g \o s) = Len(g) + Len(s)
BY ConcatProperties

\* rio_readlineb takes from the buffer.
LEMMA ReadLineRequest ==
  ASSUME RequestInv, NEW t \in Threads, ReadLine(t)
  PROVE  RequestInv' /\ Alone(t)
<1> DEFINE k == LineTake(buf[t], got[t], MAXLINE)
           line == got[t] \o Taken(buf[t], k)
<1>1. Types /\ Buffers(t) /\ status = "up" /\ pc[t] \in {"request", "header"}
  BY DEF RequestInv, ReadLine
<1>2. /\ buf[t] \in Seq(Symbols) /\ got[t] \in Seq(Symbols) /\ Len(buf[t]) \in Nat
      /\ Len(got[t]) <= MAXLINE - 1 /\ MAXLINE \in Nat \ {0} /\ RIO_BUFSIZE \in Nat
      /\ Len(buf[t]) <= RIO_BUFSIZE
  BY <1>1, Sizes, LenProperties DEF Types, Buffers
<1>3. k \in 0..Len(buf[t]) /\ Len(got[t]) + k <= MAXLINE - 1
  BY <1>2, TakesFit
<1>4. /\ buf' = Set(buf, t, Rest(buf[t], k)) /\ UNCHANGED <<asked, wire, sent, cache>>
      /\ \/ Handle(t, line)
         \/ /\ got' = Set(got, t, line) /\ status' = status /\ pc' = pc
            /\ uri' = uri /\ copy' = copy
  BY DEF ReadLine
<1> HIDE DEF k, line
<1>5. /\ Taken(buf[t], k) \in Seq(Symbols) /\ Rest(buf[t], k) \in Seq(Symbols)
      /\ Len(Taken(buf[t], k)) = k /\ Len(Rest(buf[t], k)) = Len(buf[t]) - k
  BY <1>2, <1>3, TakenRest
<1>6. line \in Seq(Symbols) /\ Len(line) = Len(got[t]) + k
  <2>1. /\ got[t] \in Seq(Symbols) /\ Taken(buf[t], k) \in Seq(Symbols)
        /\ Len(Taken(buf[t], k)) = k
    BY <1>2, <1>5
  <2> QED
    BY <2>1, Joined, Zenon DEF line
<1>7. /\ buf' \in [Threads -> Seq(Symbols)] /\ buf'[t] = Rest(buf[t], k)
      /\ \A u \in Threads \ {t} : buf'[u] = buf[u]
  BY <1>1, <1>4, <1>5 DEF Types, Set
<1>8. Len(buf'[t]) <= RIO_BUFSIZE
  BY <1>2, <1>3, <1>5, <1>7
<1>9. CASE Handle(t, line)
  BY <1>1, <1>4, <1>7, <1>8, <1>9, HandleRequest
<1>10. CASE /\ got' = Set(got, t, line) /\ status' = status /\ pc' = pc
            /\ uri' = uri /\ copy' = copy
  <2>1. /\ got' \in [Threads -> Seq(Symbols)] /\ got'[t] = line
        /\ \A u \in Threads \ {t} : got'[u] = got[u]
    BY <1>1, <1>6, <1>10 DEF Types, Set
  <2>2. asked' = asked /\ wire' = wire /\ sent' = sent /\ cache' = cache
    BY <1>4
  <2>3. Types' /\ Alone(t)
    BY <1>1, <1>7, <1>10, <2>1, <2>2 DEF Types, Alone
  <2>4. Len(got'[t]) <= MAXLINE - 1
    BY <1>3, <1>6, <2>1
  <2>5. Buffers(t)'
    BY <1>1, <1>8, <1>10, <2>2, <2>4 DEF Buffers
  <2> QED
    BY <1>1, <2>3, <2>5, OneThread
<1> QED
  BY <1>4, <1>9, <1>10

\* The client has closed its side.
LEMMA ReadLineEndRequest ==
  ASSUME RequestInv, NEW t \in Threads, ReadLineEnd(t)
  PROVE  RequestInv' /\ Alone(t)
<1>1. /\ status = "up" /\ pc[t] \in {"request", "header"} /\ Handle(t, got[t])
      /\ UNCHANGED <<asked, wire, sent, cache>> /\ buf' = buf
  BY DEF ReadLineEnd
<1>2. buf' \in [Threads -> Seq(Symbols)] /\ Len(buf'[t]) <= RIO_BUFSIZE
  BY <1>1 DEF RequestInv, Types, Buffers
<1> QED
  BY <1>1, <1>2, HandleRequest

\* A refusal or a cached object is written.
LEMMA AnswerRequest ==
  ASSUME RequestInv, NEW t \in Threads, Answer(t)
  PROVE  RequestInv' /\ Alone(t)
<1>1. Types /\ Buffers(t) /\ status = "up" /\ pc[t] \in {"refuse", "hit"}
  BY DEF RequestInv, Answer
<1>2. /\ sent' = Set(sent, t, copy[t]) /\ pc' = Set(pc, t, "closed") /\ status' = status
      /\ asked' = asked /\ wire' = wire /\ buf' = buf /\ got' = got /\ uri' = uri
      /\ copy' = copy /\ cache' = cache
  BY DEF Answer, Goto, Set, input
<1>3. /\ sent' \in [Threads -> Seq(Symbols)] /\ pc' \in [Threads -> Places] /\ pc'[t] = "closed"
      /\ \A u \in Threads \ {t} : sent'[u] = sent[u]
      /\ \A u \in Threads \ {t} : pc'[u] = pc[u]
  BY <1>1, <1>2 DEF Types, Places, Set
<1>4. Types' /\ Alone(t)
  BY <1>1, <1>2, <1>3 DEF Types, Alone
<1>5. Buffers(t)'
  BY <1>1, <1>2, <1>3 DEF Buffers
<1> QED
  BY <1>1, <1>4, <1>5, OneThread

\* The client is gone.
LEMMA WriteErrorRequest ==
  ASSUME RequestInv, NEW t \in Threads, WriteError(t)
  PROVE  RequestInv' /\ Alone(t)
<1> DEFINE data == IF pc[t] = "relay" THEN got[t] ELSE copy[t]
<1>1. Types /\ Buffers(t) /\ status = "up" /\ pc[t] \in {"refuse", "hit", "relay"}
  BY DEF RequestInv, WriteError
<1>2. PICK n \in 0..(Len(data) - 1) : sent' = Set(sent, t, sent[t] \o Taken(data, n))
  BY DEF WriteError
<1>3. /\ status' = "exited" /\ pc' = pc /\ asked' = asked /\ wire' = wire /\ buf' = buf
      /\ got' = got /\ uri' = uri /\ copy' = copy /\ cache' = cache
  BY DEF WriteError, input
<1>4. data \in Seq(Symbols) /\ sent[t] \in Seq(Symbols) /\ Len(data) \in Nat
  BY <1>1, LenProperties DEF Types
<1> HIDE DEF data
<1>5. sent[t] \o Taken(data, n) \in Seq(Symbols)
  <2>1. n \in 0..Len(data)
    BY <1>4
  <2> QED
    BY <1>4, <2>1, TakenRest, ConcatProperties
<1>6. /\ sent' \in [Threads -> Seq(Symbols)]
      /\ \A u \in Threads \ {t} : sent'[u] = sent[u]
  BY <1>1, <1>2, <1>5 DEF Types, Set
<1>7. Types' /\ Alone(t)
  BY <1>1, <1>3, <1>6 DEF Types, Alone
<1>8. Buffers(t)'
  BY <1>1, <1>3 DEF Buffers
<1> QED
  BY <1>1, <1>7, <1>8, OneThread
\* The request goes to the server, and its answer is on its way.
LEMMA ConnectRequest ==
  ASSUME RequestInv, NEW t \in Threads, Connect(t)
  PROVE  RequestInv' /\ Alone(t)
<1>1. Types /\ Buffers(t) /\ status = "up" /\ pc[t] = "connect"
  BY DEF RequestInv, Connect, At
<1>2. /\ wire' = Set(wire, t, Reply(Target(t))) /\ buf' = Set(buf, t, <<>>)
      /\ pc' = Set(pc, t, "reply") /\ status' = status /\ asked' = asked /\ got' = got
      /\ uri' = uri /\ sent' = sent /\ copy' = copy /\ cache' = cache
  BY DEF Connect, Goto, Set
<1>3. Reply(Target(t)) \in Seq(Symbols) /\ <<>> \in Seq(Symbols) /\ Len(<<>>) = 0
  BY ReplyTyped, EmptySeq
<1>4. /\ wire' \in [Threads -> Seq(Symbols)] /\ buf' \in [Threads -> Seq(Symbols)]
      /\ buf'[t] = <<>> /\ pc' \in [Threads -> Places] /\ pc'[t] = "reply"
      /\ \A u \in Threads \ {t} : wire'[u] = wire[u]
      /\ \A u \in Threads \ {t} : buf'[u] = buf[u]
      /\ \A u \in Threads \ {t} : pc'[u] = pc[u]
  BY <1>1, <1>2, <1>3 DEF Types, Places, Set
<1>5. Types' /\ Alone(t)
  BY <1>1, <1>2, <1>4 DEF Types, Alone
<1>6. got[t] = <<>> /\ copy[t] = <<>> /\ uri[t] \in Uris
  BY <1>1 DEF Buffers
<1>7. Buffers(t)'
  BY <1>2, <1>3, <1>4, <1>6, Sizes DEF Buffers
<1> QED
  BY <1>1, <1>5, <1>7, OneThread

\* rio_readnb takes from the buffer.
LEMMA ReadReplyRequest ==
  ASSUME RequestInv, NEW t \in Threads, ReadReply(t)
  PROVE  /\ RequestInv' /\ Alone(t)
         /\ got'[t] \o buf'[t] = got[t] \o buf[t] /\ got'[t] # <<>>
         /\ pc'[t] = "reply" \/ (pc'[t] = "relay" /\ Len(got'[t]) = MAX_OBJECT_SIZE)
<1> DEFINE k == BlockTake(buf[t], got[t], MAX_OBJECT_SIZE)
           block == got[t] \o Taken(buf[t], k)
<1>1. Types /\ Buffers(t) /\ status = "up" /\ pc[t] = "reply" /\ buf[t] # <<>>
  BY DEF RequestInv, ReadReply, At
<1>2. /\ buf[t] \in Seq(Symbols) /\ got[t] \in Seq(Symbols) /\ Len(buf[t]) \in Nat
      /\ Len(got[t]) <= MAX_OBJECT_SIZE /\ MAX_OBJECT_SIZE \in Nat \ {0}
      /\ RIO_BUFSIZE \in Nat /\ Len(buf[t]) <= RIO_BUFSIZE /\ Len(got[t]) \in Nat
  BY <1>1, Sizes, LenProperties DEF Types, Buffers
<1>3. k \in 0..Len(buf[t]) /\ Len(got[t]) + k <= MAX_OBJECT_SIZE
  BY <1>2, TakesFit
<1>4. /\ buf' = Set(buf, t, Rest(buf[t], k)) /\ got' = Set(got, t, block)
      /\ pc' = IF BlockDone(block, MAX_OBJECT_SIZE) THEN Set(pc, t, "relay") ELSE pc
      /\ status' = status /\ asked' = asked /\ wire' = wire /\ uri' = uri /\ sent' = sent
      /\ copy' = copy /\ cache' = cache
  BY DEF ReadReply, Goto, Set
<1>5. k = Len(buf[t]) \/ Len(got[t]) + k = MAX_OBJECT_SIZE
  <2> DEFINE S == {Len(buf[t]), MAX_OBJECT_SIZE - Len(got[t])}
  <2>1. S \in SUBSET Nat /\ S # {}
    BY <1>2
  <2>2. k \in S
    BY <2>1, MinInSet DEF BlockTake
  <2> HIDE DEF k
  <2> QED
    BY <1>2, <2>2
<1> HIDE DEF k, block
<1>6. /\ Taken(buf[t], k) \in Seq(Symbols) /\ Rest(buf[t], k) \in Seq(Symbols)
      /\ Len(Taken(buf[t], k)) = k /\ Len(Rest(buf[t], k)) = Len(buf[t]) - k
      /\ Taken(buf[t], k) \o Rest(buf[t], k) = buf[t]
  BY <1>2, <1>3, TakenRest
<1>7. block \in Seq(Symbols) /\ Len(block) = Len(got[t]) + k
  <2>1. /\ got[t] \in Seq(Symbols) /\ Taken(buf[t], k) \in Seq(Symbols)
        /\ Len(Taken(buf[t], k)) = k
    BY <1>2, <1>6
  <2> QED
    BY <2>1, Joined, Zenon DEF block
<1>8. block \o Rest(buf[t], k) = got[t] \o buf[t]
  <2>1. (got[t] \o Taken(buf[t], k)) \o Rest(buf[t], k) = got[t] \o (Taken(buf[t], k) \o Rest(buf[t], k))
    <3>1. got[t] \in Seq(Symbols) /\ Taken(buf[t], k) \in Seq(Symbols) /\ Rest(buf[t], k) \in Seq(Symbols)
      BY <1>2, <1>6
    <3> QED
      BY <3>1, Regrouped, Zenon
  <2> QED
    BY <1>6, <2>1 DEF block
<1>9. block # <<>>
  <2>1. Len(buf[t]) # 0
    BY <1>1, <1>2, EmptySeq
  <2>2. Len(block) > 0
    BY <1>2, <1>3, <1>5, <1>7, <2>1
  <2> QED
    BY <2>2
<1>10. /\ buf' \in [Threads -> Seq(Symbols)] /\ buf'[t] = Rest(buf[t], k)
       /\ got' \in [Threads -> Seq(Symbols)] /\ got'[t] = block
       /\ \A u \in Threads \ {t} : buf'[u] = buf[u]
       /\ \A u \in Threads \ {t} : got'[u] = got[u]
  BY <1>1, <1>4, <1>6, <1>7 DEF Types, Set
<1>11. /\ pc' \in [Threads -> Places]
       /\ pc'[t] = "reply" \/ (pc'[t] = "relay" /\ Len(block) = MAX_OBJECT_SIZE)
       /\ \A u \in Threads \ {t} : pc'[u] = pc[u]
  BY <1>1, <1>4 DEF Types, Places, Set, BlockDone
<1>12. Types' /\ Alone(t)
  BY <1>1, <1>4, <1>10, <1>11 DEF Types, Alone
<1>13. Len(buf'[t]) <= RIO_BUFSIZE /\ Len(got'[t]) <= MAX_OBJECT_SIZE
  BY <1>2, <1>3, <1>6, <1>7, <1>10
<1>14. Buffers(t)'
  <2>1. Len(copy[t]) < MAX_OBJECT_SIZE /\ uri[t] \in Uris
    BY <1>1 DEF Buffers
  <2> QED
    BY <1>1, <1>4, <1>11, <1>13, <2>1 DEF Buffers
<1>15. RequestInv'
  BY <1>1, <1>12, <1>14, OneThread
<1> QED
  <2>1. got'[t] \o buf'[t] = got[t] \o buf[t] /\ got'[t] # <<>>
    BY <1>8, <1>9, <1>10
  <2>2. pc'[t] = "reply" \/ (pc'[t] = "relay" /\ Len(got'[t]) = MAX_OBJECT_SIZE)
    BY <1>10, <1>11
  <2> QED
    BY <1>12, <1>15, <2>1, <2>2

\* The server has closed.
LEMMA ReplyEndRequest ==
  ASSUME RequestInv, NEW t \in Threads, ReplyEnd(t)
  PROVE  RequestInv' /\ Alone(t)
<1>1. Types /\ Buffers(t) /\ status = "up" /\ pc[t] = "reply"
  BY DEF RequestInv, ReplyEnd, At
<1>2. /\ pc' = Set(pc, t, IF got[t] = <<>> THEN "store" ELSE "relay") /\ status' = status
      /\ asked' = asked /\ wire' = wire /\ buf' = buf /\ got' = got /\ uri' = uri
      /\ sent' = sent /\ copy' = copy /\ cache' = cache
  BY DEF ReplyEnd, Goto, Set, input
<1>3. /\ pc' \in [Threads -> Places]
      /\ pc'[t] = IF got[t] = <<>> THEN "store" ELSE "relay"
      /\ \A u \in Threads \ {t} : pc'[u] = pc[u]
  BY <1>1, <1>2 DEF Types, Places, Set
<1>4. Types' /\ Alone(t)
  BY <1>1, <1>2, <1>3 DEF Types, Alone
<1>5. Buffers(t)'
  <2>1. Len(<<>>) = 0
    BY EmptySeq
  <2> QED
    BY <1>1, <1>2, <1>3, <2>1, Sizes DEF Buffers
<1> QED
  BY <1>1, <1>4, <1>5, OneThread

\* A block goes to the client and to cache_buffer.
LEMMA RelayRequest ==
  ASSUME RequestInv, NEW t \in Threads, Relay(t)
  PROVE  RequestInv' /\ Alone(t)
<1>1. Types /\ Buffers(t) /\ status = "up" /\ pc[t] = "relay"
  BY DEF RequestInv, Relay, At
<1>2. /\ sent' = Set(sent, t, sent[t] \o got[t]) /\ got' = Set(got, t, <<>>)
      /\ copy' = Set(copy, t, copy[t] \o UpToZero(got[t]))
      /\ status' = (IF Len(copy'[t]) < MAX_OBJECT_SIZE THEN "up" ELSE "undefined")
      /\ pc' = Set(pc, t, "reply") /\ asked' = asked /\ wire' = wire /\ buf' = buf
      /\ uri' = uri /\ cache' = cache
  BY DEF Relay, Goto, Set
<1>3. /\ sent[t] \o got[t] \in Seq(Symbols) /\ <<>> \in Seq(Symbols) /\ Len(<<>>) = 0
      /\ copy[t] \o UpToZero(got[t]) \in Seq(Symbols)
  <2>1. sent[t] \in Seq(Symbols) /\ got[t] \in Seq(Symbols) /\ copy[t] \in Seq(Symbols)
    BY <1>1 DEF Types
  <2>2. UpToZero(got[t]) \in Seq(Symbols)
    BY <2>1, UpToZeroIs
  <2> QED
    BY <2>1, <2>2, ConcatProperties, EmptySeq
<1>4. /\ sent' \in [Threads -> Seq(Symbols)] /\ copy' \in [Threads -> Seq(Symbols)]
      /\ got' \in [Threads -> Seq(Symbols)] /\ got'[t] = <<>>
      /\ pc' \in [Threads -> Places] /\ pc'[t] = "reply"
      /\ \A u \in Threads \ {t} : sent'[u] = sent[u]
      /\ \A u \in Threads \ {t} : copy'[u] = copy[u]
      /\ \A u \in Threads \ {t} : got'[u] = got[u]
      /\ \A u \in Threads \ {t} : pc'[u] = pc[u]
  BY <1>1, <1>2, <1>3 DEF Types, Places, Set
<1>5. Types' /\ Alone(t)
  BY <1>1, <1>2, <1>4 DEF Types, Alone
<1>6. status' # "undefined" => Len(copy'[t]) < MAX_OBJECT_SIZE
  BY <1>2
<1>7. Buffers(t)'
  BY <1>1, <1>2, <1>3, <1>4, <1>6, Sizes DEF Buffers
<1> QED
  BY <1>1, <1>5, <1>7, OneThread

\* What add_object leaves in the cache.
LEMMA StoreDoes ==
  ASSUME NEW t \in Threads, Store(t)
  PROVE  \/ cache' = cache
         \/ /\ Len(sent[t]) < MAX_OBJECT_SIZE
            /\ DOMAIN cache' \subseteq {uri[t]} \cup DOMAIN cache
            /\ \A u \in DOMAIN cache' :
                 cache'[u] = IF u = uri[t] THEN Padded(copy[t], Len(sent[t])) ELSE cache[u]
<1>1. CASE Len(sent[t]) < MAX_OBJECT_SIZE
  <2> DEFINE new == Padded(copy[t], Len(sent[t]))
  <2>1. PICK kept \in SUBSET DOMAIN cache :
          cache' = [u \in kept \cup {uri[t]} |-> IF u = uri[t] THEN new ELSE cache[u]]
    BY <1>1 DEF Store
  <2> HIDE DEF new
  <2> QED
    BY <1>1, <2>1 DEF new
<1>2. CASE ~ (Len(sent[t]) < MAX_OBJECT_SIZE)
  BY <1>2 DEF Store
<1> QED
  BY <1>1, <1>2
\* The object is stored, or it is too large.
LEMMA StoreRequest ==
  ASSUME RequestInv, NEW t \in Threads, Store(t)
  PROVE  RequestInv' /\ Alone(t)
<1>1. Types /\ Buffers(t) /\ status = "up" /\ pc[t] = "store"
  BY DEF RequestInv, Store, At
<1>2. /\ pc' = Set(pc, t, "closed") /\ status' = status /\ asked' = asked /\ wire' = wire
      /\ buf' = buf /\ got' = got /\ uri' = uri /\ sent' = sent /\ copy' = copy
  BY DEF Store, Goto, Set, input
<1>3. pc' \in [Threads -> Places] /\ pc'[t] = "closed" /\ \A u \in Threads \ {t} : pc'[u] = pc[u]
  BY <1>1, <1>2 DEF Types, Places, Set
<1>4. DOMAIN cache' \subseteq Uris /\ \A u \in DOMAIN cache' : cache'[u] \in Seq(Symbols)
  <2>1. CASE cache' = cache
    BY <1>1, <2>1 DEF Types
  <2>2. CASE /\ Len(sent[t]) < MAX_OBJECT_SIZE
             /\ DOMAIN cache' \subseteq {uri[t]} \cup DOMAIN cache
             /\ \A u \in DOMAIN cache' :
                  cache'[u] = IF u = uri[t] THEN Padded(copy[t], Len(sent[t])) ELSE cache[u]
    <3>1. uri[t] \in Uris
      BY <1>1 DEF Buffers
    <3>2. Padded(copy[t], Len(sent[t])) \in Seq(Symbols)
      <4>1. copy[t] \in Seq(Symbols) /\ Len(sent[t]) \in Nat
        BY <1>1, LenProperties DEF Types
      <4>2. CASE Len(copy[t]) <= Len(sent[t])
        BY <4>1, <4>2, PaddedIs
      <4>3. CASE Len(copy[t]) > Len(sent[t])
        <5>1. Len(copy[t]) \in Nat
          BY <4>1, LenProperties
        <5>2. 1..(Len(sent[t]) - Len(copy[t])) = {}
          <6>1. \A m, n \in Nat : n > m => 1..(m - n) = {}
            OBVIOUS
          <6> QED
            BY <4>1, <4>3, <5>1, <6>1
        <5>3. Padded(copy[t], Len(sent[t])) = copy[t] \o [i \in {} |-> Zero]
          BY <5>2 DEF Padded
        <5>4. [i \in {} |-> Zero] = <<>>
          OBVIOUS
        <5> QED
          BY <4>1, <5>3, <5>4, ConcatEmptySeq
      <4> QED
        BY <4>1, <4>2, <4>3, LenProperties
    <3> QED
      BY <1>1, <2>2, <3>1, <3>2 DEF Types
  <2> QED
    BY <2>1, <2>2, StoreDoes
<1>5. Types' /\ Alone(t)
  BY <1>1, <1>2, <1>3, <1>4 DEF Types, Alone
<1>6. Buffers(t)'
  BY <1>1, <1>2, <1>3 DEF Buffers
<1> QED
  BY <1>1, <1>5, <1>6, OneThread

\* A failure of a call, whichever it is.
LEMMA FailRequest ==
  ASSUME RequestInv, NEW t \in Threads, Fail(t)
  PROVE  RequestInv' /\ Alone(t)
<1>1. CASE ReadError(t)
  <2>1. status = "up" /\ Ends("exited")
    BY <1>1 DEF ReadError, At
  <2> QED
    BY <2>1, EndsRequest
<1>2. CASE ConnectError(t)
  <2>1. status = "up" /\ Ends("exited")
    BY <1>2 DEF ConnectError, At
  <2> QED
    BY <2>1, EndsRequest
<1>3. CASE WriteError(t)
  BY <1>3, WriteErrorRequest
<1> QED
  BY <1>1, <1>2, <1>3 DEF Fail

\* Every step.
LEMMA NextRequest == RequestInv /\ [Next]_vars => RequestInv'
<1> SUFFICES ASSUME RequestInv, [Next]_vars PROVE RequestInv'
  OBVIOUS
<1>1. ASSUME NEW t \in Threads, Accept(t) \/ Serve(t) \/ Fail(t) PROVE RequestInv'
  BY <1>1, AcceptRequest, RefillRequest, ReadLineRequest, ReadLineEndRequest, AnswerRequest,
     ConnectRequest, ReadReplyRequest, ReplyEndRequest, RelayRequest, StoreRequest, FailRequest
     DEF Serve
<1>2. CASE UNCHANGED vars
  BY <1>2 DEF vars, RequestInv, Types, Buffers
<1> QED
  BY <1>1, <1>2 DEF Next

\* The invariant of the buffers.
THEOREM RequestInvariance == Spec => []RequestInv
<1> QED
  BY InitRequest, NextRequest, PTL DEF Spec

\* Nothing is written past the end of a buffer that handle_request or forward_request
\* hands to Rio, whatever is sent to the proxy in whatever pieces (csapp.c:862, csapp.c:839).
THEOREM BuffersHold == Spec => []TypeOK
<1>1. RequestInv => TypeOK
  <2> SUFFICES ASSUME RequestInv PROVE TypeOK
    OBVIOUS
  <2>1. Types /\ \A t \in Threads : Buffers(t)
    BY DEF RequestInv
  <2> QED
    BY <2>1 DEF Types, Buffers, TypeOK
<1> QED
  BY <1>1, RequestInvariance, PTL
-----------------------------------------------------------------------------
(* parse_uri reads what is spelled.                                          *)

\* A number that is in a set and below all of it is its least.
LEMMA MinIs ==
  ASSUME NEW S \in SUBSET Nat, NEW m \in S, \A i \in S : m <= i
  PROVE  Min(S) = m
<1>1. Min(S) \in S /\ Min(S) <= m
  BY MinInSet
<1>2. Min(S) \in Nat /\ m \in Nat /\ m <= Min(S)
  BY <1>1
<1> QED
  BY <1>1, <1>2

\* The symbols of two parts in a row.
LEMMA PartsOf ==
  ASSUME NEW s \in Seq(Symbols), NEW t \in Seq(Symbols)
  PROVE  /\ s \o t \in Seq(Symbols) /\ Len(s) \in Nat /\ Len(t) \in Nat
         /\ Len(s \o t) = Len(s) + Len(t)
         /\ \A i \in 1..Len(s) : (s \o t)[i] = s[i]
         /\ \A i \in 1..Len(t) : (s \o t)[Len(s) + i] = t[i]
<1>1. /\ s \o t \in Seq(Symbols) /\ Len(s) \in Nat /\ Len(t) \in Nat
      /\ Len(s \o t) = Len(s) + Len(t)
      /\ \A i \in 1..(Len(s) + Len(t)) : (s \o t)[i] = IF i <= Len(s) THEN s[i] ELSE t[i - Len(s)]
  BY ConcatProperties, LenProperties
<1>2. ASSUME NEW i \in 1..Len(t) PROVE (s \o t)[Len(s) + i] = t[i]
  <2>1. /\ Len(s) + i \in 1..(Len(s) + Len(t)) /\ ~ (Len(s) + i <= Len(s))
        /\ (Len(s) + i) - Len(s) = i
    BY <1>1
  <2> QED
    BY <1>1, <2>1
<1>3. ASSUME NEW i \in 1..Len(s) PROVE (s \o t)[i] = s[i]
  <2>1. i \in 1..(Len(s) + Len(t)) /\ i <= Len(s)
    BY <1>1
  <2> QED
    BY <1>1, <2>1
<1> QED
  BY <1>1, <1>2, <1>3

\* A piece of a sequence, by its symbols.
LEMMA PieceIs ==
  ASSUME NEW h \in Seq(Symbols), NEW s \in Seq(Symbols), NEW n \in Nat, n + Len(s) <= Len(h),
         \A i \in 1..Len(s) : h[n + i] = s[i]
  PROVE  SubSeq(h, n + 1, n + Len(s)) = s
<1>1. Len(s) \in Nat /\ Len(h) \in Nat /\ \A i \in 1..Len(h) : h[i] \in Symbols
  BY LenProperties, ElementOfSeq
<1>2. \A i \in (n + 1)..(n + Len(s)) : h[i] \in Symbols
  BY <1>1
<1>3. /\ SubSeq(h, n + 1, n + Len(s)) \in Seq(Symbols)
      /\ Len(SubSeq(h, n + 1, n + Len(s))) = Len(s)
      /\ \A i \in 1..Len(s) : SubSeq(h, n + 1, n + Len(s))[i] = h[n + i]
  <2>1. n + 1 \in Int /\ n + Len(s) \in Int
    BY <1>1
  <2>2. /\ SubSeq(h, n + 1, n + Len(s)) \in Seq(Symbols)
        /\ Len(SubSeq(h, n + 1, n + Len(s))) =
             IF n + 1 <= n + Len(s) THEN (n + Len(s)) - (n + 1) + 1 ELSE 0
        /\ \A i \in 1..((n + Len(s)) - (n + 1) + 1) :
             SubSeq(h, n + 1, n + Len(s))[i] = h[(n + 1) + i - 1]
    BY <1>2, <2>1, SubSeqProperties
  <2>3. /\ (n + Len(s)) - (n + 1) + 1 = Len(s)
        /\ \A i \in 1..Len(s) : (n + 1) + i - 1 = n + i
    BY <1>1
  <2> QED
    BY <1>1, <2>2, <2>3
<1> QED
  BY <1>1, <1>3, SeqEqual

\* The host ends at the colon or the slash, the port at the slash, and either may miss.
LEMMA UriParts ==
  ASSUME NEW host \in Seq(Symbols), NEW port \in Seq(Symbols), NEW path \in Seq(Symbols),
         Plain(host), Plain(port), path # <<>>, Head(path) = "/",
         \A i \in DOMAIN path : path[i] # ":",
         NEW q \in {<<":">> \o port, <<>>}, NEW r \in {path, <<>>}
  PROVE  parse_uri(<<"http://">> \o (host \o (q \o r))) =
           [host |-> host, port |-> IF q = <<>> THEN <<"80">> ELSE port,
            path |-> IF r = <<>> THEN <<"/">> ELSE path]
<1> DEFINE a == Len(host)
           c == Len(q)
           d == Len(r)
           h == host \o (q \o r)
           text == <<"http://">> \o h
           slash == {i \in DOMAIN h : h[i] = "/"}
           colon == {i \in DOMAIN h : h[i] = ":"}
           cut   == {i - 1 : i \in {i \in slash : i = Min(slash) /\ colon # {} /\ i > Min(colon)}}
           end   == Min(slash \cup colon \cup {Len(h) + 1})
<1>1. /\ <<":">> \in Seq(Symbols) /\ <<"http://">> \in Seq(Symbols) /\ <<>> \in Seq(Symbols)
      /\ Len(<<>>) = 0
  <2>1. ":" \in Symbols /\ "http://" \in Symbols
    BY ProxyRequestAssumption
  <2> QED
    BY <2>1, EmptySeq
<1>2. /\ q \in Seq(Symbols) /\ r \in Seq(Symbols)
      /\ c = IF q = <<>> THEN 0 ELSE 1 + Len(port)
      /\ q # <<>> => q[1] = ":" /\ \A i \in 1..Len(port) : q[1 + i] = port[i]
      /\ a \in Nat /\ c \in Nat /\ d \in Nat /\ Len(port) \in Nat /\ Len(path) \in Nat
  <2>1. /\ <<":">> \o port \in Seq(Symbols) /\ Len(<<":">> \o port) = 1 + Len(port)
        /\ (<<":">> \o port)[1] = ":" /\ \A i \in 1..Len(port) : (<<":">> \o port)[1 + i] = port[i]
        /\ Len(port) \in Nat
    BY <1>1, ConcatProperties, LenProperties
  <2>2. q \in Seq(Symbols) /\ r \in Seq(Symbols)
    BY <1>1, <2>1
  <2>3. a \in Nat /\ c \in Nat /\ d \in Nat /\ Len(path) \in Nat
    BY <2>2, LenProperties
  <2> QED
    BY <1>1, <2>1, <2>2, <2>3
<1>3. /\ h \in Seq(Symbols) /\ Len(h) = a + c + d /\ DOMAIN h = 1..(a + c + d)
      /\ \A i \in 1..a : h[i] = host[i]
      /\ \A i \in 1..c : h[a + i] = q[i]
      /\ \A i \in 1..d : h[a + c + i] = r[i]
  <2> DEFINE w == q \o r
  <2>1. /\ w \in Seq(Symbols) /\ Len(w) = c + d
        /\ \A i \in 1..c : w[i] = q[i]
        /\ \A i \in 1..d : w[c + i] = r[i]
    <3>1. q \in Seq(Symbols) /\ r \in Seq(Symbols)
      BY <1>2
    <3> QED
      BY <3>1, PartsOf
  <2>2. h = host \o w
    OBVIOUS
  <2> HIDE DEF w, h
  <2>3. /\ h \in Seq(Symbols) /\ Len(h) = a + Len(w)
        /\ \A i \in 1..a : h[i] = host[i]
        /\ \A i \in 1..Len(w) : h[a + i] = w[i]
    <3>1. w \in Seq(Symbols)
      BY <2>1
    <3>2. /\ host \o w \in Seq(Symbols) /\ Len(host \o w) = Len(host) + Len(w)
          /\ \A i \in 1..Len(host) : (host \o w)[i] = host[i]
          /\ \A i \in 1..Len(w) : (host \o w)[Len(host) + i] = w[i]
      BY <3>1, PartsOf
    <3> QED
      BY <2>2, <3>2, Zenon DEF a
  <2>4. Len(h) = a + c + d /\ DOMAIN h = 1..(a + c + d)
    BY <1>2, <2>1, <2>3, LenProperties
  <2>5. ASSUME NEW i \in 1..c PROVE h[a + i] = q[i]
    <3>1. i \in 1..Len(w)
      BY <1>2, <2>1
    <3> QED
      BY <2>1, <2>3, <3>1
  <2>6. ASSUME NEW i \in 1..d PROVE h[a + c + i] = r[i]
    <3>1. c + i \in 1..Len(w) /\ a + c + i = a + (c + i)
      BY <1>2, <2>1
    <3> QED
      BY <2>1, <2>3, <3>1
  <2> QED
    BY <2>3, <2>4, <2>5, <2>6
<1>4. Tail(text) = h
  BY <1>1, <1>3
<1>5. parse_uri(text) =
        [host |-> Taken(h, end - 1),
         path |-> IF slash = {} THEN <<"/">> ELSE Rest(h, Min(slash) - 1),
         port |-> IF colon = {} THEN <<"80">> ELSE SubSeq(h, Min(colon) + 1, Min(cut \cup {Len(h)}))]
  <2> HIDE DEF h
  <2> QED
    BY <1>4 DEF parse_uri
<1>a. parse_uri(<<"http://">> \o (host \o (q \o r))) = parse_uri(text)
  OBVIOUS
<1> HIDE DEF h
<1>6. \A i \in 1..a : h[i] \notin {":", "/"}
  <2>1. \A i \in 1..a : host[i] \notin {":", "/"}
    BY <1>2, LenProperties DEF Plain
  <2> QED
    BY <1>3, <2>1
<1>7. q # <<>> => h[a + 1] = ":" /\ \A i \in 1..Len(port) : h[a + 1 + i] = port[i] /\ port[i] \notin {":", "/"}
  <2> SUFFICES ASSUME q # <<>>
               PROVE  h[a + 1] = ":" /\ \A i \in 1..Len(port) : h[a + 1 + i] = port[i] /\ port[i] \notin {":", "/"}
    OBVIOUS
  <2>1. \A i \in 1..Len(port) : port[i] \notin {":", "/"}
    BY LenProperties DEF Plain
  <2>2. c = 1 + Len(port) /\ 1 \in 1..c /\ q[1] = ":"
    BY <1>2
  <2>3. h[a + 1] = ":"
    BY <1>3, <2>2
  <2>4. ASSUME NEW i \in 1..Len(port) PROVE h[a + 1 + i] = port[i]
    <3>1. 1 + i \in 1..c /\ a + (1 + i) = a + 1 + i
      BY <1>2, <2>2
    <3>2. h[a + (1 + i)] = q[1 + i] /\ q[1 + i] = port[i]
      BY <1>2, <1>3, <3>1
    <3> QED
      BY <3>1, <3>2
  <2> QED
    BY <2>1, <2>3, <2>4
<1>8. r # <<>> => d > 0 /\ h[a + c + 1] = "/" /\ \A i \in 1..d : h[a + c + i] # ":"
  <2> SUFFICES ASSUME r # <<>>
               PROVE  d > 0 /\ h[a + c + 1] = "/" /\ \A i \in 1..d : h[a + c + i] # ":"
    OBVIOUS
  <2>1. r = path /\ d > 0 /\ 1 \in 1..d
    BY <1>2, EmptySeq
  <2>2. path[1] = "/"
    BY HeadTailProperties
  <2>3. \A i \in 1..d : r[i] # ":"
    BY <2>1, LenProperties
  <2> QED
    BY <1>3, <2>1, <2>2, <2>3
<1>9. r = <<>> => d = 0
  BY <1>1
<1>10. ASSUME NEW i \in 1..(a + c + d)
       PROVE  /\ h[i] = ":" <=> q # <<>> /\ i = a + 1
              /\ h[i] = "/" => r # <<>> /\ i >= a + c + 1
  <2>1. CASE i <= a
    <3>1. i \in 1..a /\ i # a + 1
      BY <1>2, <2>1
    <3> QED
      BY <1>6, <3>1
  <2>2. CASE q # <<>> /\ i = a + 1
    BY <1>7, <2>2
  <2>3. CASE q # <<>> /\ i > a + 1 /\ i <= a + c
    <3>1. c = 1 + Len(port)
      BY <1>2, <2>3
    <3>2. (i - a) - 1 \in 1..Len(port) /\ a + 1 + ((i - a) - 1) = i /\ i # a + 1
      BY <1>2, <2>3, <3>1
    <3>3. h[i] \notin {":", "/"}
      BY <1>7, <2>3, <3>2
    <3> QED
      BY <3>2, <3>3
  <2>4. CASE i > a + c
    <3>1. i - (a + c) \in 1..d /\ a + c + (i - (a + c)) = i /\ i >= a + c + 1 /\ d # 0
      BY <1>2, <2>4
    <3>2. r # <<>> /\ h[i] # ":"
      BY <1>8, <1>9, <3>1
    <3>3. q # <<>> => i # a + 1
      BY <1>2, <2>4
    <3> QED
      BY <3>1, <3>2, <3>3
  <2> QED
    BY <1>2, <2>1, <2>2, <2>3, <2>4
<1>11. colon = (IF q = <<>> THEN {} ELSE {a + 1})
  <2>1. q # <<>> => a + 1 \in 1..(a + c + d)
    BY <1>2
  <2> QED
    BY <1>3, <1>10, <2>1
<1>12. IF r = <<>> THEN slash = {}
       ELSE Min(slash) = a + c + 1 /\ slash # {} /\ \A i \in slash : i \in Nat /\ i >= a + c + 1
  <2>1. \A i \in slash : r # <<>> /\ i \in Nat /\ i >= a + c + 1
    BY <1>3, <1>10
  <2>2. ASSUME r # <<>> PROVE a + c + 1 \in slash
    <3>1. a + c + 1 \in 1..(a + c + d)
      BY <1>2, <1>8, <2>2
    <3> QED
      BY <1>3, <1>8, <2>2, <3>1
  <2> HIDE DEF slash
  <2>3. slash \in SUBSET Nat
    BY <2>1
  <2>4. ASSUME r # <<>> PROVE Min(slash) = a + c + 1
    BY <2>1, <2>2, <2>3, <2>4, MinIs
  <2> QED
    BY <2>1, <2>2, <2>4
<1> HIDE DEF slash, colon
<1>13. end - 1 = a
  <2> DEFINE E == slash \cup colon \cup {Len(h) + 1}
  <2>1. E \in SUBSET Nat /\ \A i \in E : a + 1 <= i
    <3>1. slash \in SUBSET Nat /\ \A i \in slash : a + 1 <= i
      BY <1>2, <1>12
    <3>2. colon \in SUBSET Nat /\ \A i \in colon : a + 1 <= i
      BY <1>2, <1>11
    <3>3. Len(h) + 1 \in Nat /\ a + 1 <= Len(h) + 1
      BY <1>2, <1>3
    <3> QED
      BY <3>1, <3>2, <3>3
  <2>2. a + 1 \in E
    <3>1. CASE q # <<>>
      BY <1>11, <3>1
    <3>2. CASE q = <<>> /\ r = <<>>
      <4>1. c = 0 /\ d = 0
        BY <1>2, <1>9, <3>2
      <4>2. Len(h) + 1 = a + 1
        BY <1>2, <1>3, <4>1
      <4> QED
        BY <4>2
    <3>3. CASE q = <<>> /\ r # <<>>
      <4>1. c = 0 /\ Min(slash) = a + c + 1 /\ slash \in SUBSET Nat /\ slash # {}
        BY <1>2, <1>12, <3>3
      <4>2. Min(slash) \in slash
        BY <4>1, MinInSet
      <4>3. a + 1 \in slash
        BY <1>2, <4>1, <4>2
      <4> QED
        BY <4>3
    <3> QED
      BY <3>1, <3>2, <3>3
  <2> HIDE DEF E
  <2>3. Min(E) = a + 1
    BY <2>1, <2>2, MinIs
  <2>4. end = a + 1
    BY <2>3 DEF E
  <2> QED
    BY <1>2, <2>4
<1>14. Taken(h, end - 1) = host
  <2>1. 0 + a <= Len(h) /\ 0 + a = a /\ \A i \in 1..a : 0 + i = i
    BY <1>2, <1>3
  <2>2. \A i \in 1..a : h[0 + i] = host[i]
    BY <1>3, <2>1
  <2>3. SubSeq(h, 0 + 1, 0 + a) = host
    BY <1>3, <2>1, <2>2, PieceIs
  <2>4. SubSeq(h, 1, a) = host
    BY <2>1, <2>3
  <2> QED
    BY <1>13, <2>4 DEF Taken
<1>15. ASSUME r # <<>> PROVE Rest(h, Min(slash) - 1) = path
  <2>1. Min(slash) - 1 = a + c /\ a + c \in Nat /\ r = path /\ a + c + d = Len(h)
    BY <1>2, <1>3, <1>12, <1>15
  <2>2. d = Len(path) /\ (a + c) + Len(path) <= Len(h)
        /\ \A i \in 1..Len(path) : h[(a + c) + i] = path[i]
    BY <1>2, <1>3, <2>1
  <2>3. SubSeq(h, (a + c) + 1, (a + c) + Len(path)) = path
    BY <1>3, <2>1, <2>2, PieceIs
  <2> QED
    BY <2>1, <2>2, <2>3 DEF Rest
<1>16. ASSUME q # <<>>
       PROVE  SubSeq(h, Min(colon) + 1, Min(cut \cup {Len(h)})) = port
  <2>1. colon = {a + 1} /\ Min(colon) = a + 1 /\ c = 1 + Len(port)
    <3>1. colon = {a + 1} /\ colon \in SUBSET Nat /\ a + 1 \in colon /\ \A i \in colon : a + 1 <= i
      BY <1>2, <1>11, <1>16
    <3>2. Min(colon) = a + 1
      BY <3>1, MinIs
    <3> QED
      BY <1>2, <1>16, <3>1, <3>2
  <2>2. Min(cut \cup {Len(h)}) = a + c
    <3>1. CASE r = <<>>
      <4>1. cut = {}
        BY <1>12, <3>1
      <4>2. Len(h) = a + c
        BY <1>2, <1>3, <1>9, <3>1
      <4>3. cut \cup {Len(h)} = {a + c}
        BY <4>1, <4>2
      <4>4. {a + c} \in SUBSET Nat /\ a + c \in {a + c} /\ \A i \in {a + c} : a + c <= i
        BY <1>2
      <4> QED
        BY <4>3, <4>4, MinIs
    <3>2. CASE r # <<>>
      <4>1. Min(slash) = a + c + 1 /\ slash # {} /\ slash \in SUBSET Nat
        BY <1>12, <3>2
      <4>2. Min(slash) \in slash
        BY <4>1, MinInSet
      <4>3. a + c + 1 > a + 1 /\ (a + c + 1) - 1 = a + c /\ a + c \in Nat /\ Len(h) >= a + c /\ Len(h) \in Nat
        BY <1>2, <1>3, <2>1
      <4>4. cut = {a + c}
        BY <2>1, <4>1, <4>2, <4>3
      <4>5. cut \cup {Len(h)} = {a + c, Len(h)}
        BY <4>4
      <4> HIDE DEF cut
      <4>6. {a + c, Len(h)} \in SUBSET Nat /\ \A i \in {a + c, Len(h)} : a + c <= i
        BY <4>3
      <4> QED
        BY <4>5, <4>6, MinIs
    <3> QED
      BY <3>1, <3>2
  <2>3. SubSeq(h, (a + 1) + 1, (a + 1) + Len(port)) = port
    <3>1. a + 1 \in Nat /\ (a + 1) + Len(port) <= Len(h)
      BY <1>2, <1>3, <2>1
    <3> QED
      BY <1>7, <1>16, <1>3, <3>1, PieceIs
  <2>4. (a + 1) + Len(port) = a + c
    BY <1>2, <2>1
  <2> QED
    BY <2>1, <2>2, <2>3, <2>4
<1> HIDE DEF text, end, cut
<1>17. (IF colon = {} THEN <<"80">> ELSE SubSeq(h, Min(colon) + 1, Min(cut \cup {Len(h)})))
         = IF q = <<>> THEN <<"80">> ELSE port
  BY <1>11, <1>16
<1>18. (IF slash = {} THEN <<"/">> ELSE Rest(h, Min(slash) - 1)) = IF r = <<>> THEN <<"/">> ELSE path
  BY <1>12, <1>15
<1> QED
  BY <1>a, <1>5, <1>14, <1>17, <1>18
\* So a uri that spells what it names leads to the object it names.
LEMMA SpelledIsRead ==
  ASSUME NEW text, NEW place, Spells(text, place)
  PROVE  parse_uri(text) = place
<1>1. PICK port \in {<<":">> \o place.port, <<>>}, path \in {place.path, <<>>} :
        /\ text = <<"http://">> \o (place.host \o (port \o path))
        /\ port = <<>> => place.port = <<"80">>
        /\ path = <<>> => place.path = <<"/">>
  BY DEF Spells
<1>2. /\ place = [host |-> place.host, port |-> place.port, path |-> place.path]
      /\ place.host \in Seq(Symbols) /\ place.port \in Seq(Symbols) /\ place.path \in Seq(Symbols)
      /\ Plain(place.host) /\ Plain(place.port)
      /\ place.path # <<>> /\ Head(place.path) = "/" /\ \A i \in DOMAIN place.path : place.path[i] # ":"
  BY DEF Spells
<1>3. parse_uri(text) = [host |-> place.host, port |-> IF port = <<>> THEN <<"80">> ELSE place.port,
                         path |-> IF path = <<>> THEN <<"/">> ELSE place.path]
  <2> DEFINE h == place.host
             q == place.port
             r == place.path
  <2>1. /\ h \in Seq(Symbols) /\ q \in Seq(Symbols) /\ r \in Seq(Symbols)
        /\ Plain(h) /\ Plain(q) /\ r # <<>> /\ Head(r) = "/" /\ \A i \in DOMAIN r : r[i] # ":"
        /\ port \in {<<":">> \o q, <<>>} /\ path \in {r, <<>>}
    BY <1>1, <1>2
  <2> HIDE DEF h, q, r
  <2>2. parse_uri(<<"http://">> \o (h \o (port \o path))) =
          [host |-> h, port |-> IF port = <<>> THEN <<"80">> ELSE q,
           path |-> IF path = <<>> THEN <<"/">> ELSE r]
    BY <2>1, UriParts
  <2> QED
    BY <1>1, <2>2 DEF h, q, r
<1>4. /\ (IF port = <<>> THEN <<"80">> ELSE place.port) = place.port
      /\ (IF path = <<>> THEN <<"/">> ELSE place.path) = place.path
  BY <1>1
<1> QED
  BY <1>2, <1>3, <1>4

-----------------------------------------------------------------------------
(* Answers, action by action.                                                *)

\* An object and what is kept of it are sequences of the same length, and the same when
\* there is no zero byte.
LEMMA KeptIs ==
  ASSUME NEW u
  PROVE  /\ Object(u) \in Seq(Symbols) /\ Kept(u) \in Seq(Symbols)
         /\ Len(Kept(u)) = Len(Object(u)) /\ Len(Object(u)) \in Nat
         /\ Len(Object(u)) < MAX_OBJECT_SIZE => Clipped(Object(u)) \/ Kept(u) = Object(u)
<1>1. Object(u) \in Seq(Symbols) /\ Len(Object(u)) \in Nat
  BY ReplyTyped, LenProperties DEF Object
<1>2. /\ UpToZero(Object(u)) \in Seq(Symbols) /\ Len(UpToZero(Object(u))) <= Len(Object(u))
      /\ Zero \notin Range(Object(u)) => UpToZero(Object(u)) = Object(u)
  BY <1>1, UpToZeroIs
<1>3. /\ Kept(u) \in Seq(Symbols) /\ Len(Kept(u)) = Len(Object(u))
      /\ Len(UpToZero(Object(u))) = Len(Object(u)) => Kept(u) = UpToZero(Object(u))
  BY <1>1, <1>2, PaddedIs DEF Kept
<1>4. Zero \notin Range(Object(u)) => Kept(u) = Object(u)
  BY <1>2, <1>3
<1> QED
  BY <1>1, <1>3, <1>4 DEF Clipped

\* What a step of one thread has to leave in order.
LEMMA OneThreadAnswers ==
  ASSUME AnswerInv, NEW t \in Threads, status = "up", Alone(t), CacheHoldsObjects',
         AnswerRight(t)', status' = "up" => OnItsWay(t)'
  PROVE  AnswerInv'
<1>1. ASSUME NEW u \in Threads \ {t} PROVE AnswerRight(u)' /\ OnItsWay(u)'
  <2>1. AnswerRight(u) /\ OnItsWay(u)
    BY DEF AnswerInv
  <2>2. /\ pc'[u] = pc[u] /\ wire'[u] = wire[u] /\ buf'[u] = buf[u] /\ got'[u] = got[u]
        /\ uri'[u] = uri[u] /\ sent'[u] = sent[u] /\ copy'[u] = copy[u]
    BY DEF Alone
  <2>3. AnswerRight(u)'
    BY <2>1, <2>2 DEF AnswerRight
  <2>4. OnItsWay(u)'
    BY <2>1, <2>2 DEF OnItsWay, CopiedAtOnce
  <2> QED
    BY <2>3, <2>4
<1> QED
  BY <1>1 DEF AnswerInv

\* A thread that writes nothing and stays open.
LEMMA StillRight ==
  ASSUME AnswerInv, NEW t \in Threads, uri'[t] = uri[t], sent'[t] = sent[t],
         pc'[t] = pc[t] \/ pc'[t] # "closed"
  PROVE  AnswerRight(t)'
BY DEF AnswerInv, AnswerRight

\* At the start nobody is answered.
LEMMA InitAnswers == Init => AnswerInv
BY DEF Init, AnswerInv, CacheHoldsObjects, AnswerRight, OnItsWay

\* Reading a request, and the headers.
LEMMA HandleAnswers ==
  ASSUME RequestInv, AnswerInv, NEW t \in Threads, NEW line, status = "up",
         pc[t] \in {"request", "header"}, Handle(t, line), sent' = sent, cache' = cache, Alone(t)
  PROVE  AnswerInv'
<1>1. Types /\ Buffers(t) /\ CacheHoldsObjects
  BY DEF RequestInv, AnswerInv
<1>2. sent'[t] = <<>> /\ CacheHoldsObjects'
  BY <1>1 DEF Buffers, CacheHoldsObjects
<1>3. pc'[t] \in {"refuse", "header", "connect"} \/ status' = "crashed" \/ pc'[t] = "hit"
  <2>1. CASE pc[t] = "request"
    <3>1. HandleRequestLine(t, line)
      BY <2>1 DEF Handle
    <3>2. \E place \in {"refuse", "hit", "header"} : pc' = Set(pc, t, place)
      BY <3>1, RequestLineDoes
    <3> QED
      BY <1>1, <3>2 DEF Types, Set
  <2>2. CASE pc[t] = "header"
    <3>1. status' = "crashed" \/ pc' = pc \/ pc' = Set(pc, t, "connect")
      BY <2>2, HeaderDoes DEF Handle
    <3> QED
      BY <1>1, <2>2, <3>1 DEF Types, Set
  <2> QED
    BY <2>1, <2>2
<1>4. ASSUME pc'[t] = "hit", status' = "up"
      PROVE  copy'[t] = Kept(uri'[t]) /\ Len(Object(uri'[t])) < MAX_OBJECT_SIZE
  <2>1. CASE pc[t] = "request"
    <3>1. HandleRequestLine(t, line)
      BY <2>1 DEF Handle
    <3>2. \/ \E place \in {"refuse", "header"} : pc' = Set(pc, t, place)
          \/ \E u \in Uris : /\ uri' = Set(uri, t, u) /\ u \in DOMAIN cache
                             /\ copy' = Set(copy, t, cache[u])
      BY <3>1, RequestLineDoes
    <3>3. ~ \E place \in {"refuse", "header"} : pc' = Set(pc, t, place)
      BY <1>1, <1>4 DEF Types, Set
    <3>4. PICK u \in Uris : /\ uri' = Set(uri, t, u) /\ u \in DOMAIN cache
                            /\ copy' = Set(copy, t, cache[u])
      BY <3>2, <3>3
    <3>5. uri'[t] = u /\ copy'[t] = cache[u]
      BY <1>1, <3>4 DEF Types, Set
    <3> QED
      BY <1>1, <3>4, <3>5 DEF CacheHoldsObjects
  <2>2. CASE pc[t] = "header"
    <3>1. status' = "crashed" \/ pc' = pc \/ pc' = Set(pc, t, "connect")
      BY <2>2, HeaderDoes DEF Handle
    <3> QED
      BY <1>1, <1>4, <2>2, <3>1 DEF Types, Set
  <2> QED
    BY <2>1, <2>2
<1>5. status' = "up" => OnItsWay(t)'
  BY <1>2, <1>3, <1>4 DEF OnItsWay
<1>6. AnswerRight(t)'
  <2>1. IsPrefix(<<>>, Object(uri'[t]))
    <3>1. <<>> \in Seq(Symbols) /\ <<>> \o Object(uri'[t]) = Object(uri'[t])
      BY KeptIs, EmptySeq, ConcatEmptySeq
    <3> QED
      BY <3>1, KeptIs, PrefixOfConcat
  <2>2. pc'[t] # "closed"
    <3>1. CASE status' # "crashed"
      BY <1>3, <3>1
    <3>2. CASE status' = "crashed"
      <4>1. CASE pc[t] = "request"
        BY <4>1, <3>2, RequestLineDoes DEF Handle
      <4>2. CASE pc[t] = "header"
        <5>1. pc' = pc \/ pc' = Set(pc, t, "connect")
          BY <4>2, HeaderDoes DEF Handle
        <5> QED
          BY <1>1, <4>2, <5>1 DEF Types, Set
      <4> QED
        BY <4>1, <4>2
    <3> QED
      BY <3>1, <3>2
  <2> QED
    BY <1>2, <2>1, <2>2 DEF AnswerRight
<1> QED
  BY <1>2, <1>5, <1>6, OneThreadAnswers
\* rio_read moves symbols from the wire to the buffer.
LEMMA RefillAnswers ==
  ASSUME RequestInv, AnswerInv, NEW t \in Threads, Refill(t)
  PROVE  AnswerInv'
<1>1. /\ Types /\ status = "up" /\ pc[t] \in {"request", "header", "reply"} /\ OnItsWay(t)
      /\ status' = status /\ pc' = pc /\ got' = got /\ uri' = uri /\ sent' = sent /\ copy' = copy
      /\ cache' = cache /\ CacheHoldsObjects
  BY DEF RequestInv, AnswerInv, Refill
<1>2. Alone(t) /\ buf'[t] \o wire'[t] = wire[t] /\ buf[t] = <<>> /\ wire[t] # <<>>
  BY RefillRequest
<1>3. CacheHoldsObjects' /\ AnswerRight(t)'
  BY <1>1, StillRight DEF CacheHoldsObjects
<1>4. CASE pc[t] = "reply"
  <2>1. buf[t] \o wire[t] = wire[t]
    BY <1>1, <1>2, ConcatEmptySeq DEF Types
  <2>2. (sent[t] \o got[t]) \o (buf[t] \o wire[t]) = Object(uri[t]) /\ CopiedAtOnce(t)
    BY <1>1, <1>4 DEF OnItsWay
  <2>3. (sent'[t] \o got'[t]) \o (buf'[t] \o wire'[t]) = Object(uri'[t])
    BY <1>1, <1>2, <2>1, <2>2
  <2>4. CopiedAtOnce(t)'
    BY <1>1, <1>2, <2>2 DEF CopiedAtOnce
  <2>5. OnItsWay(t)'
    BY <1>1, <1>4, <2>3, <2>4 DEF OnItsWay
  <2> QED
    BY <1>1, <1>2, <1>3, <2>5, OneThreadAnswers
<1>5. CASE pc[t] # "reply"
  <2>1. OnItsWay(t)'
    BY <1>1, <1>5 DEF OnItsWay
  <2> QED
    BY <1>1, <1>2, <1>3, <2>1, OneThreadAnswers
<1> QED
  BY <1>4, <1>5

\* rio_readlineb.
LEMMA ReadLineAnswers ==
  ASSUME RequestInv, AnswerInv, NEW t \in Threads, ReadLine(t) \/ ReadLineEnd(t)
  PROVE  AnswerInv'
<1>1. /\ status = "up" /\ pc[t] \in {"request", "header"} /\ sent' = sent /\ cache' = cache
      /\ \/ \E line : Handle(t, line)
         \/ status' = status /\ pc' = pc /\ uri' = uri
  BY DEF ReadLine, ReadLineEnd
<1>2. Alone(t)
  BY ReadLineRequest, ReadLineEndRequest
<1>3. CASE \E line : Handle(t, line)
  BY <1>1, <1>2, <1>3, HandleAnswers
<1>4. CASE status' = status /\ pc' = pc /\ uri' = uri
  <2>1. CacheHoldsObjects' /\ AnswerRight(t)'
    BY <1>1, <1>4, StillRight DEF AnswerInv, CacheHoldsObjects
  <2>2. OnItsWay(t)'
    BY <1>1, <1>4 DEF OnItsWay
  <2> QED
    BY <1>1, <1>2, <2>1, <2>2, OneThreadAnswers
<1> QED
  BY <1>1, <1>3, <1>4

\* A cached object is what the uri names, but for what comes after a zero byte.
LEMMA AnswerAnswers ==
  ASSUME RequestInv, AnswerInv, NEW t \in Threads, Answer(t)
  PROVE  AnswerInv'
<1>1. /\ Types /\ Buffers(t) /\ status = "up" /\ pc[t] \in {"refuse", "hit"} /\ OnItsWay(t)
      /\ sent' = Set(sent, t, copy[t]) /\ pc' = Set(pc, t, "closed") /\ uri' = uri /\ cache' = cache
      /\ CacheHoldsObjects
  BY DEF RequestInv, AnswerInv, Answer, Goto, Set
<1>2. sent'[t] = copy[t] /\ pc'[t] = "closed"
  BY <1>1 DEF Types, Set
<1>3. CacheHoldsObjects' /\ OnItsWay(t)'
  BY <1>1, <1>2 DEF CacheHoldsObjects, OnItsWay
<1>4. AnswerRight(t)'
  <2>1. CASE pc[t] = "refuse"
    BY <1>1, <2>1 DEF Buffers, AnswerRight
  <2>2. CASE pc[t] = "hit"
    <3>1. copy[t] = Kept(uri[t]) /\ Len(Object(uri[t])) < MAX_OBJECT_SIZE
      BY <1>1, <2>2 DEF OnItsWay
    <3>2. sent'[t] = Kept(uri'[t]) /\ Len(sent'[t]) = Len(Object(uri'[t]))
      BY <1>1, <1>2, <3>1, KeptIs
    <3>3. IsPrefix(Kept(uri'[t]), Kept(uri'[t]))
      <4>1. Kept(uri'[t]) \in Seq(Symbols) /\ <<>> \in Seq(Symbols)
            /\ Kept(uri'[t]) \o <<>> = Kept(uri'[t])
        BY KeptIs, EmptySeq, ConcatEmptySeq
      <4> QED
        BY <4>1, PrefixOfConcat
    <3>4. Clipped(Object(uri'[t])) \/ Kept(uri'[t]) = Object(uri'[t])
      BY <1>1, <3>1, KeptIs
    <3>5. \/ IsPrefix(sent'[t], Object(uri'[t]))
          \/ Clipped(Object(uri'[t])) /\ IsPrefix(sent'[t], Kept(uri'[t]))
      BY <3>2, <3>3, <3>4
    <3> QED
      BY <3>2, <3>5 DEF AnswerRight
  <2> QED
    BY <1>1, <2>1, <2>2
<1> QED
  BY <1>1, <1>3, <1>4, AnswerRequest, OneThreadAnswers

\* What three sequences begin with is a prefix of them.
LEMMA BeginsThree ==
  ASSUME NEW p \in Seq(Symbols), NEW b \in Seq(Symbols), NEW r \in Seq(Symbols)
  PROVE  IsPrefix(p, (p \o b) \o r)
<1>1. (p \o b) \o r = p \o (b \o r)
  BY Regrouped
<1>2. b \o r \in Seq(Symbols)
  BY ConcatProperties
<1>3. IsPrefix(p, p \o (b \o r))
  BY <1>2, PrefixOfConcat
<1> QED
  BY <1>1, <1>3, Zenon

\* And what four begin with.
LEMMA BeginsFour ==
  ASSUME NEW s \in Seq(Symbols), NEW a \in Seq(Symbols), NEW b \in Seq(Symbols), NEW r \in Seq(Symbols)
  PROVE  IsPrefix(s \o a, (s \o (a \o b)) \o r)
<1>1. (s \o a) \o b = s \o (a \o b)
  BY Regrouped
<1>2. PICK p \in Seq(Symbols) : p = s \o a
  BY ConcatProperties
<1>3. p \in Seq(Symbols)
  BY <1>2
<1>4. IsPrefix(p, (p \o b) \o r)
  BY <1>3, BeginsThree
<1> QED
  BY <1>1, <1>2, <1>4, Zenon

\* A part of the first part of a sequence is a prefix of it.
LEMMA PartIsPrefix ==
  ASSUME NEW s \in Seq(Symbols), NEW g \in Seq(Symbols), NEW r \in Seq(Symbols), NEW n \in 0..Len(g)
  PROVE  IsPrefix(s \o Taken(g, n), (s \o g) \o r)
<1>1. /\ Taken(g, n) \in Seq(Symbols) /\ Rest(g, n) \in Seq(Symbols)
      /\ Taken(g, n) \o Rest(g, n) = g
  BY TakenRest
<1>2. PICK a \in Seq(Symbols) : a = Taken(g, n)
  BY <1>1
<1>3. PICK b \in Seq(Symbols) : b = Rest(g, n)
  BY <1>1
<1>4. a \o b = g
  BY <1>1, <1>2, <1>3, Zenon
<1>5. IsPrefix(s \o a, (s \o (a \o b)) \o r)
  BY <1>2, <1>3, BeginsFour
<1> QED
  BY <1>2, <1>4, <1>5, Zenon

\* What has been written when the client goes away is a part of the object, too.
LEMMA WriteErrorAnswers ==
  ASSUME RequestInv, AnswerInv, NEW t \in Threads, WriteError(t)
  PROVE  AnswerInv'
<1> DEFINE data == IF pc[t] = "relay" THEN got[t] ELSE copy[t]
<1>1. /\ Types /\ Buffers(t) /\ status = "up" /\ pc[t] \in {"refuse", "hit", "relay"} /\ OnItsWay(t)
      /\ status' = "exited" /\ pc' = pc /\ uri' = uri /\ cache' = cache /\ CacheHoldsObjects
  BY DEF RequestInv, AnswerInv, WriteError
<1>2. PICK n \in 0..(Len(data) - 1) : sent' = Set(sent, t, sent[t] \o Taken(data, n))
  BY DEF WriteError
<1>3. data \in Seq(Symbols) /\ Len(data) \in Nat /\ sent[t] \in Seq(Symbols)
  BY <1>1, LenProperties DEF Types
<1>4. n \in 0..Len(data)
  <2> HIDE DEF data
  <2> QED
    BY <1>3
<1>5. sent'[t] = sent[t] \o Taken(data, n)
  BY <1>1, <1>2 DEF Types, Set
<1>6. AnswerRight(t)'
  <2>1. CASE pc[t] = "refuse"
    BY <1>1, <2>1 DEF Buffers, AnswerRight
  <2>2. CASE pc[t] = "relay"
    <3>1. (sent[t] \o got[t]) \o (buf[t] \o wire[t]) = Object(uri[t])
      BY <1>1, <2>2 DEF OnItsWay
    <3>2. got[t] \in Seq(Symbols) /\ buf[t] \o wire[t] \in Seq(Symbols) /\ data = got[t]
      BY <1>1, <2>2, ConcatProperties DEF Types
    <3>3. IsPrefix(sent[t] \o Taken(got[t], n), (sent[t] \o got[t]) \o (buf[t] \o wire[t]))
      BY <1>3, <1>4, <3>2, PartIsPrefix
    <3>4. IsPrefix(sent'[t], Object(uri'[t]))
      BY <1>1, <1>5, <3>1, <3>2, <3>3
    <3> QED
      BY <1>1, <2>2, <3>4 DEF AnswerRight
  <2>3. CASE pc[t] = "hit"
    <3>1. /\ data = Kept(uri[t]) /\ sent[t] = <<>> /\ Len(Object(uri[t])) < MAX_OBJECT_SIZE
          /\ <<>> \in Seq(Symbols)
      BY <1>1, <2>3, EmptySeq DEF OnItsWay
    <3>2. IsPrefix(sent[t] \o Taken(data, n), (sent[t] \o data) \o <<>>)
      BY <1>3, <1>4, <3>1, PartIsPrefix
    <3>3. (sent[t] \o data) \o <<>> = data
      BY <1>3, <3>1, ConcatEmptySeq
    <3>4. IsPrefix(sent'[t], Kept(uri'[t]))
      BY <1>1, <1>5, <3>1, <3>2, <3>3
    <3>5. Clipped(Object(uri'[t])) \/ Kept(uri'[t]) = Object(uri'[t])
      BY <1>1, <3>1, KeptIs
    <3>6. \/ IsPrefix(sent'[t], Object(uri'[t]))
          \/ Clipped(Object(uri'[t])) /\ IsPrefix(sent'[t], Kept(uri'[t]))
      BY <3>4, <3>5
    <3> QED
      BY <1>1, <2>3, <3>6 DEF AnswerRight
  <2> QED
    BY <1>1, <2>1, <2>2, <2>3
<1>7. CacheHoldsObjects'
  BY <1>1 DEF CacheHoldsObjects
<1> QED
  BY <1>1, <1>6, <1>7, WriteErrorRequest, OneThreadAnswers
\* The server that is asked is the one the uri names.
LEMMA ConnectAnswers ==
  ASSUME RequestInv, AnswerInv, UrisSpelled, NEW t \in Threads, Connect(t)
  PROVE  AnswerInv'
<1>1. /\ Types /\ Buffers(t) /\ status = "up" /\ pc[t] = "connect" /\ Offers(Target(t)) # {}
      /\ wire' = Set(wire, t, Reply(Target(t))) /\ buf' = Set(buf, t, <<>>)
      /\ pc' = Set(pc, t, "reply") /\ got' = got /\ uri' = uri /\ sent' = sent /\ copy' = copy
      /\ cache' = cache /\ CacheHoldsObjects
  BY DEF RequestInv, AnswerInv, Connect, At, Goto, Set
<1>2. wire'[t] = Reply(Target(t)) /\ buf'[t] = <<>> /\ pc'[t] = "reply"
  BY <1>1 DEF Types, Set
<1>3. sent[t] = <<>> /\ got[t] = <<>> /\ copy[t] = <<>> /\ uri[t] \in Uris
  BY <1>1 DEF Buffers
<1>4. Reply(Target(t)) = Object(uri[t])
  <2>1. parse_uri(Text[uri[t]]) = Named[uri[t]]
    BY <1>1, <1>3, SpelledIsRead DEF UrisSpelled, Target
  <2> QED
    BY <2>1 DEF Target, Object
<1>5. (sent'[t] \o got'[t]) \o (buf'[t] \o wire'[t]) = Object(uri'[t])
  <2>1. <<>> \in Seq(Symbols) /\ Object(uri[t]) \in Seq(Symbols) /\ <<>> \o <<>> = <<>>
    BY EmptySeq, KeptIs
  <2>2. (<<>> \o <<>>) \o (<<>> \o Object(uri[t])) = Object(uri[t])
    BY <2>1, ConcatEmptySeq
  <2> QED
    BY <1>1, <1>2, <1>3, <1>4, <2>2
<1>6. OnItsWay(t)'
  <2>1. CopiedAtOnce(t)'
    BY <1>1, <1>3 DEF CopiedAtOnce
  <2> QED
    BY <1>2, <1>5, <2>1 DEF OnItsWay
<1>7. CacheHoldsObjects' /\ AnswerRight(t)'
  BY <1>1, <1>2, StillRight DEF CacheHoldsObjects
<1> QED
  BY <1>1, <1>6, <1>7, ConnectRequest, OneThreadAnswers

\* rio_readnb moves symbols from the buffer to the block.
LEMMA ReadReplyAnswers ==
  ASSUME RequestInv, AnswerInv, NEW t \in Threads, ReadReply(t)
  PROVE  AnswerInv'
<1>1. /\ Types /\ status = "up" /\ pc[t] = "reply" /\ buf[t] # <<>> /\ OnItsWay(t)
      /\ wire' = wire /\ uri' = uri /\ sent' = sent /\ copy' = copy
      /\ cache' = cache /\ CacheHoldsObjects
  BY DEF RequestInv, AnswerInv, ReadReply, At
<1>2. /\ RequestInv' /\ Alone(t) /\ got'[t] \o buf'[t] = got[t] \o buf[t]
      /\ pc'[t] = "reply" \/ (pc'[t] = "relay" /\ Len(got'[t]) = MAX_OBJECT_SIZE)
  BY ReadReplyRequest
<1>3. (sent[t] \o got[t]) \o (buf[t] \o wire[t]) = Object(uri[t]) /\ CopiedAtOnce(t)
  BY <1>1 DEF OnItsWay
<1>4. (sent'[t] \o got'[t]) \o (buf'[t] \o wire'[t]) = Object(uri'[t])
  <2>2. /\ sent[t] \in Seq(Symbols) /\ got[t] \in Seq(Symbols) /\ buf[t] \in Seq(Symbols)
        /\ wire[t] \in Seq(Symbols) /\ got'[t] \in Seq(Symbols) /\ buf'[t] \in Seq(Symbols)
    BY <1>1, <1>2 DEF RequestInv, Types
  <2> DEFINE rest == buf[t] \o wire[t]
             newRest == buf'[t] \o wire[t]
  <2>3. rest \in Seq(Symbols) /\ newRest \in Seq(Symbols)
    BY <2>2, ConcatProperties
  <2> HIDE DEF rest, newRest
  <2>4. (sent[t] \o got[t]) \o rest = sent[t] \o (got[t] \o rest)
    <3>1. sent[t] \in Seq(Symbols) /\ got[t] \in Seq(Symbols) /\ rest \in Seq(Symbols)
      BY <2>2, <2>3
    <3> QED
      BY <3>1, Regrouped, Zenon
  <2>5. (sent[t] \o got'[t]) \o newRest = sent[t] \o (got'[t] \o newRest)
    <3>1. sent[t] \in Seq(Symbols) /\ got'[t] \in Seq(Symbols) /\ newRest \in Seq(Symbols)
      BY <2>2, <2>3
    <3> QED
      BY <3>1, Regrouped, Zenon
  <2>6. (got[t] \o buf[t]) \o wire[t] = got[t] \o (buf[t] \o wire[t])
    <3>1. got[t] \in Seq(Symbols) /\ buf[t] \in Seq(Symbols) /\ wire[t] \in Seq(Symbols)
      BY <2>2
    <3> QED
      BY <3>1, Regrouped, Zenon
  <2>7. (got'[t] \o buf'[t]) \o wire[t] = got'[t] \o (buf'[t] \o wire[t])
    <3>1. got'[t] \in Seq(Symbols) /\ buf'[t] \in Seq(Symbols) /\ wire[t] \in Seq(Symbols)
      BY <2>2
    <3> QED
      BY <3>1, Regrouped, Zenon
  <2>8. got[t] \o rest = got'[t] \o newRest
    BY <1>2, <2>6, <2>7, Zenon DEF rest, newRest
  <2> QED
    BY <1>1, <1>3, <2>4, <2>5, <2>8 DEF rest, newRest
<1>5. CopiedAtOnce(t)'
  BY <1>1, <1>3 DEF CopiedAtOnce
<1>6. OnItsWay(t)'
  BY <1>2, <1>4, <1>5 DEF OnItsWay
<1>7. CacheHoldsObjects' /\ AnswerRight(t)'
  BY <1>1, <1>2, StillRight DEF CacheHoldsObjects
<1> QED
  BY <1>1, <1>2, <1>6, <1>7, OneThreadAnswers

\* At the end of the answer the client has all but the last block.
LEMMA ReplyEndAnswers ==
  ASSUME RequestInv, AnswerInv, NEW t \in Threads, ReplyEnd(t)
  PROVE  AnswerInv'
<1>1. /\ Types /\ status = "up" /\ pc[t] = "reply" /\ buf[t] = <<>> /\ wire[t] = <<>> /\ OnItsWay(t)
      /\ pc' = Set(pc, t, IF got[t] = <<>> THEN "store" ELSE "relay")
      /\ wire' = wire /\ buf' = buf /\ got' = got /\ uri' = uri /\ sent' = sent /\ copy' = copy
      /\ cache' = cache /\ CacheHoldsObjects
  BY DEF RequestInv, AnswerInv, ReplyEnd, At, Goto, Set, input
<1>2. pc'[t] = IF got[t] = <<>> THEN "store" ELSE "relay"
  BY <1>1 DEF Types, Set
<1>3. (sent[t] \o got[t]) \o (buf[t] \o wire[t]) = Object(uri[t]) /\ CopiedAtOnce(t)
  BY <1>1 DEF OnItsWay
<1>4. CopiedAtOnce(t)'
  BY <1>1, <1>3 DEF CopiedAtOnce
<1>5. CASE got[t] = <<>>
  <2>1. sent[t] = Object(uri[t])
    <3>1. sent[t] \in Seq(Symbols) /\ <<>> \in Seq(Symbols) /\ <<>> \o <<>> = <<>>
      BY <1>1, EmptySeq DEF Types
    <3>2. (sent[t] \o <<>>) \o <<>> = sent[t]
      BY <3>1, ConcatEmptySeq
    <3> QED
      BY <1>1, <1>3, <1>5, <3>1, <3>2
  <2>2. Len(sent[t]) < MAX_OBJECT_SIZE => copy[t] = UpToZero(sent[t])
    <3>1. UpToZero(<<>>) = <<>>
      <4>1. <<>> \in Seq(Symbols) /\ Zero \notin Range(<<>>)
        BY EmptySeq DEF Range
      <4> QED
        BY <4>1, UpToZeroIs
    <3> QED
      BY <1>3, <3>1 DEF CopiedAtOnce
  <2>3. OnItsWay(t)'
    BY <1>1, <1>2, <1>5, <2>1, <2>2 DEF OnItsWay
  <2> QED
    BY <1>1, <1>2, <2>3, StillRight, ReplyEndRequest, OneThreadAnswers DEF CacheHoldsObjects
<1>6. CASE got[t] # <<>>
  <2>1. OnItsWay(t)'
    BY <1>1, <1>2, <1>3, <1>4, <1>6 DEF OnItsWay
  <2> QED
    BY <1>1, <1>2, <2>1, StillRight, ReplyEndRequest, OneThreadAnswers DEF CacheHoldsObjects
<1> QED
  BY <1>5, <1>6

\* A block that goes out takes the client further along the object; the last of a small
\* one is the first, and all there is to copy.
LEMMA RelayAnswers ==
  ASSUME RequestInv, AnswerInv, NEW t \in Threads, Relay(t)
  PROVE  AnswerInv'
<1>1. /\ Types /\ status = "up" /\ pc[t] = "relay" /\ OnItsWay(t)
      /\ sent' = Set(sent, t, sent[t] \o got[t]) /\ got' = Set(got, t, <<>>)
      /\ copy' = Set(copy, t, copy[t] \o UpToZero(got[t])) /\ pc' = Set(pc, t, "reply")
      /\ wire' = wire /\ buf' = buf /\ uri' = uri /\ cache' = cache /\ CacheHoldsObjects
  BY DEF RequestInv, AnswerInv, Relay, At, Goto, Set
<1>2. /\ sent'[t] = sent[t] \o got[t] /\ got'[t] = <<>> /\ copy'[t] = copy[t] \o UpToZero(got[t])
      /\ pc'[t] = "reply" /\ wire'[t] = wire[t] /\ buf'[t] = buf[t] /\ uri'[t] = uri[t]
  BY <1>1 DEF Types, Set
<1>3. /\ (sent[t] \o got[t]) \o (buf[t] \o wire[t]) = Object(uri[t]) /\ CopiedAtOnce(t)
      /\ Len(got[t]) = MAX_OBJECT_SIZE \/ (buf[t] = <<>> /\ wire[t] = <<>>)
  BY <1>1 DEF OnItsWay
<1>4. /\ sent[t] \in Seq(Symbols) /\ got[t] \in Seq(Symbols) /\ copy[t] \in Seq(Symbols)
      /\ buf[t] \o wire[t] \in Seq(Symbols) /\ sent[t] \o got[t] \in Seq(Symbols)
      /\ <<>> \in Seq(Symbols) /\ UpToZero(got[t]) \in Seq(Symbols)
      /\ Len(sent[t] \o got[t]) = Len(sent[t]) + Len(got[t])
      /\ Len(sent[t]) \in Nat /\ Len(got[t]) \in Nat /\ MAX_OBJECT_SIZE \in Nat
  BY <1>1, ConcatProperties, EmptySeq, UpToZeroIs, LenProperties, Sizes DEF Types
<1>5. (sent'[t] \o got'[t]) \o (buf'[t] \o wire'[t]) = Object(uri'[t])
  <2>1. (sent[t] \o got[t]) \o <<>> = sent[t] \o got[t]
    BY <1>4, ConcatEmptySeq
  <2> QED
    BY <1>2, <1>3, <2>1
<1>6. CopiedAtOnce(t)'
  <2> SUFFICES ASSUME Len(sent'[t]) < MAX_OBJECT_SIZE
               PROVE  buf'[t] = <<>> /\ wire'[t] = <<>> /\ got'[t] = <<>>
                      /\ copy'[t] = UpToZero(sent'[t])
    BY DEF CopiedAtOnce
  <2>1. Len(got[t]) < MAX_OBJECT_SIZE /\ Len(sent[t]) < MAX_OBJECT_SIZE
    <3>1. Len(sent[t]) + Len(got[t]) < MAX_OBJECT_SIZE
      BY <1>2, <1>4
    <3>2. \A m, n, k \in Nat : m + n < k => m < k /\ n < k
      OBVIOUS
    <3> QED
      BY <1>4, <3>1, <3>2
  <2>2. buf[t] = <<>> /\ wire[t] = <<>>
    BY <1>3, <1>4, <2>1
  <2>3. CASE sent[t] = <<>> /\ copy[t] = <<>>
    <3>1. <<>> \o got[t] = got[t] /\ <<>> \o UpToZero(got[t]) = UpToZero(got[t])
      BY <1>4, ConcatEmptySeq
    <3> QED
      BY <1>2, <2>2, <2>3, <3>1
  <2>4. CASE got[t] = <<>> /\ copy[t] = UpToZero(sent[t])
    <3>1. UpToZero(<<>>) = <<>>
      <4>1. Zero \notin Range(<<>>)
        BY DEF Range
      <4> QED
        BY <1>4, <4>1, UpToZeroIs
    <3>2. sent[t] \o <<>> = sent[t] /\ copy[t] \o <<>> = copy[t]
      BY <1>4, ConcatEmptySeq
    <3> QED
      BY <1>2, <2>2, <2>4, <3>1, <3>2
  <2> QED
    BY <1>3, <2>1, <2>3, <2>4 DEF CopiedAtOnce
<1>7. OnItsWay(t)'
  BY <1>2, <1>5, <1>6 DEF OnItsWay
<1>8. AnswerRight(t)'
  <2>1. IsPrefix(sent[t] \o got[t], (sent[t] \o got[t]) \o (buf[t] \o wire[t]))
    BY <1>4, PrefixOfConcat
  <2>2. IsPrefix(sent'[t], Object(uri'[t]))
    BY <1>2, <1>3, <2>1
  <2> QED
    BY <1>2, <2>2 DEF AnswerRight
<1>9. CacheHoldsObjects'
  BY <1>1 DEF CacheHoldsObjects
<1> QED
  BY <1>1, <1>7, <1>8, <1>9, RelayRequest, OneThreadAnswers

\* The client has the whole object, and the cache gets it unless it is too large.
LEMMA StoreAnswers ==
  ASSUME RequestInv, AnswerInv, NEW t \in Threads, Store(t)
  PROVE  AnswerInv'
<1>1. /\ Types /\ Buffers(t) /\ status = "up" /\ pc[t] = "store" /\ OnItsWay(t) /\ AnswerRight(t)
      /\ pc' = Set(pc, t, "closed") /\ uri' = uri /\ sent' = sent /\ CacheHoldsObjects
  BY DEF RequestInv, AnswerInv, Store, At, Goto, Set
<1>2. pc'[t] = "closed"
  BY <1>1 DEF Types, Set
<1>3. /\ sent[t] = Object(uri[t])
      /\ Len(sent[t]) < MAX_OBJECT_SIZE => copy[t] = UpToZero(sent[t])
  BY <1>1 DEF OnItsWay
<1>4. CacheHoldsObjects'
  <2>1. CASE cache' = cache
    BY <1>1, <2>1 DEF CacheHoldsObjects
  <2>2. CASE /\ Len(sent[t]) < MAX_OBJECT_SIZE
             /\ DOMAIN cache' \subseteq {uri[t]} \cup DOMAIN cache
             /\ \A u \in DOMAIN cache' :
                  cache'[u] = IF u = uri[t] THEN Padded(copy[t], Len(sent[t])) ELSE cache[u]
    <3>1. Padded(copy[t], Len(sent[t])) = Kept(uri[t]) /\ Len(Object(uri[t])) < MAX_OBJECT_SIZE
      BY <1>3, <2>2 DEF Kept
    <3> QED
      BY <1>1, <2>2, <3>1 DEF CacheHoldsObjects
  <2> QED
    BY <2>1, <2>2, StoreDoes
<1>5. AnswerRight(t)' /\ OnItsWay(t)'
  BY <1>1, <1>2, <1>3 DEF AnswerRight, OnItsWay
<1> QED
  BY <1>1, <1>4, <1>5, StoreRequest, OneThreadAnswers
\* A failure leaves the client with what it had, or a part of the object more.
LEMMA FailAnswers ==
  ASSUME RequestInv, AnswerInv, NEW t \in Threads, Fail(t)
  PROVE  AnswerInv'
<1>1. CASE WriteError(t)
  BY <1>1, WriteErrorAnswers
<1>2. CASE ReadError(t) \/ ConnectError(t)
  <2>1. /\ status = "up" /\ status' = "exited" /\ pc' = pc /\ uri' = uri /\ sent' = sent
        /\ cache' = cache
    BY <1>2 DEF ReadError, ConnectError, At, Ends
  <2>2. CacheHoldsObjects' /\ AnswerRight(t)'
    BY <2>1, StillRight DEF AnswerInv, CacheHoldsObjects
  <2> QED
    BY <2>1, <2>2, FailRequest, OneThreadAnswers
<1> QED
  BY <1>1, <1>2 DEF Fail

\* accept: nothing is asked for yet.
LEMMA AcceptAnswers ==
  ASSUME RequestInv, AnswerInv, NEW t \in Threads, Accept(t)
  PROVE  AnswerInv'
<1>1. /\ Types /\ status = "up" /\ pc' = Set(pc, t, "request") /\ uri' = uri /\ sent' = sent
      /\ cache' = cache /\ CacheHoldsObjects
  BY DEF RequestInv, AnswerInv, Accept, At, Goto, Set
<1>2. pc'[t] = "request"
  BY <1>1 DEF Types, Set
<1>3. CacheHoldsObjects' /\ AnswerRight(t)' /\ OnItsWay(t)'
  BY <1>1, <1>2, StillRight DEF CacheHoldsObjects, OnItsWay
<1> QED
  BY <1>1, <1>3, AcceptRequest, OneThreadAnswers

\* Every step.
LEMMA NextAnswers == UrisSpelled /\ RequestInv /\ AnswerInv /\ [Next]_vars => AnswerInv'
<1> SUFFICES ASSUME UrisSpelled, RequestInv, AnswerInv, [Next]_vars PROVE AnswerInv'
  OBVIOUS
<1>1. ASSUME NEW t \in Threads, Accept(t) \/ Serve(t) \/ Fail(t) PROVE AnswerInv'
  BY <1>1, AcceptAnswers, RefillAnswers, ReadLineAnswers, AnswerAnswers, ConnectAnswers,
     ReadReplyAnswers, ReplyEndAnswers, RelayAnswers, StoreAnswers, FailAnswers DEF Serve
<1>2. CASE UNCHANGED vars
  BY <1>2 DEF vars, AnswerInv, CacheHoldsObjects, AnswerRight, OnItsWay, CopiedAtOnce
<1> QED
  BY <1>1, <1>2 DEF Next

\* Whatever the sizes, however many clients ask for the same or for other objects at a time,
\* and however their answers are cut into reads: a client gets the object that its uri
\* names, from the server or from the cache - with zeros behind a zero byte, if cached.
\* The uris spell what they name; one with a colon in its path does not for parse_uri, and
\* may lead nowhere at most.
THEOREM ClientsGetTheirObjects ==
  ASSUME UrisSpelled
  PROVE  Spec => []AnswersTheObject
<1>1. AnswerInv => AnswersTheObject
  BY DEF AnswerInv, AnswerRight, AnswersTheObject, Object, Kept
<1>2. RequestInv /\ AnswerInv /\ [Next]_vars => AnswerInv'
  BY NextAnswers
<1>3. Spec => []AnswerInv
  BY <1>2, InitAnswers, RequestInvariance, PTL DEF Spec
<1> QED
  BY <1>1, <1>3, PTL
=============================================================================
