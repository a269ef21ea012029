----------------------------- MODULE HttpProofs -----------------------------
(***************************************************************************)
(* Proofs about HttpServer: whatever is asked for, however it arrives and  *)
(* whoever leaves, nobody takes a cut body for the whole, and the body is  *)
(* of another file only when a request line was read in part.              *)
(***************************************************************************)
EXTENDS HttpServer, FiniteSetTheorems, TLAPS

-----------------------------------------------------------------------------
(***************************************************************************)
(* What is printed.                                                        *)
(***************************************************************************)

\* Numbers have a smallest among them: the ranges 1..n have by inclusion.
LEMMA Smallest ==
  ASSUME NEW S \in SUBSET Nat, S # {}
  PROVE  Min(S) \in S
<1> DEFINE T == {1..n : n \in S}
           R == StrictSubsetOrdering(Nat)
<1>1. IsWellFoundedOn(R, FiniteSubsetsOf(Nat))
  BY FS_StrictSubsetOrderingWellFounded
<1>2. T \subseteq FiniteSubsetsOf(Nat) /\ T # {}
  <2>1. \A n \in S : IsFiniteSet(1..n) /\ 1..n \in SUBSET Nat
    BY FS_Interval
  <2> QED BY <2>1 DEF FiniteSubsetsOf
<1>3. \E x \in T : \A y \in T : ~(<<y, x>> \in R)
  <2> HIDE DEF T, R
  <2> QED BY <1>1, <1>2, WFMin
<1>4. PICK n \in S : \A m \in S : ~(<<1..m, 1..n>> \in R)
  BY <1>3
<1>5. \A m \in S : ~(1..m \subseteq 1..n /\ 1..m # 1..n)
  <2>1. \A m \in S : 1..m \in SUBSET Nat
    OBVIOUS
  <2>2. \A A, B \in SUBSET Nat : A \subseteq B /\ A # B => <<A, B>> \in R
    BY DEF StrictSubsetOrdering
  <2> HIDE DEF R
  <2> QED BY <1>4, <2>1, <2>2
<1>6. ASSUME NEW m \in S PROVE n <= m
  <2> SUFFICES ASSUME m < n PROVE FALSE
    BY <1>4, <1>6
  <2>1. 1..m \subseteq 1..n
    OBVIOUS
  <2>2. n \in 1..n /\ n \notin 1..m
    OBVIOUS
  <2> QED BY <1>5, <1>6, <2>1, <2>2
<1> QED BY <1>4, <1>6 DEF Min

\* What fits and holds no NUL is printed as it is; anything else gets shorter.
LEMMA PrintedWhole ==
  ASSUME NEW s \in Seq(Byte), NEW room \in Nat
  PROVE  /\ Len(Printed(s, room)) = Len(s) => Printed(s, room) = s
         /\ Len(s) <= room /\ (\A i \in DOMAIN s : s[i] # Nul) => Printed(s, room) = s
<1> DEFINE stop == {i \in 1..Len(s) : s[i] = Nul \/ i > room}
<1>1. CASE stop = {}
  BY <1>1 DEF Printed
<1>2. CASE stop # {}
  <2>1. Min(stop) \in stop
    <3>1. stop \in SUBSET Nat
      OBVIOUS
    <3> HIDE DEF stop
    <3> QED BY <1>2, <3>1, Smallest
  <2>2. Min(stop) \in 1..Len(s) /\ Len(s) \in Nat
    BY <2>1
  <2>3. Printed(s, room) = SubSeq(s, 1, Min(stop) - 1)
    BY <1>2 DEF Printed
  <2>4. Len(Printed(s, room)) < Len(s)
    <3> HIDE DEF stop
    <3>1. \A n \in 1..Len(s) : Len(SubSeq(s, 1, n - 1)) = n - 1
      OBVIOUS
    <3> QED BY <2>2, <2>3, <3>1
  <2>5. ~(Len(s) <= room /\ \A i \in DOMAIN s : s[i] # Nul)
    BY <2>1, <2>2
  <2> QED BY <2>2, <2>4, <2>5
<1> QED BY <1>1, <1>2

-----------------------------------------------------------------------------
(***************************************************************************)
(* What is responded.                                                      *)
(***************************************************************************)

\* The answer of AnswerRight, for one request and one reply.
Right(req, a) ==
  a.status \in {200, 206} =>
    /\ Found(req)
    /\ LET bytes == IF a.status = 200 THEN Content[req.uri] ELSE Wanted(req)
       IN  /\ a.length = Len(a.body) => a.body = bytes
           /\ Len(bytes) <= Room[a.status] /\ (\A i \in DOMAIN bytes : bytes[i] # Nul)
                => a.length = Len(a.body)

LEMMA AnnouncedRight ==
  ASSUME NEW status \in {200, 206}, NEW bytes \in Seq(Byte)
  PROVE  LET a == Announced(status, bytes)
         IN  /\ a.status = status
             /\ a.length = Len(a.body) => a.body = bytes
             /\ Len(bytes) <= Room[status] /\ (\A i \in DOMAIN bytes : bytes[i] # Nul)
                  => a.length = Len(a.body)
<1>1. Room[status] \in Nat
  BY HttpAssumption
<1> QED BY <1>1, PrintedWhole DEF Announced

\* However much is looked at of what is taken for a request, what is answered is
\* right about that, unless it ends the process.
LEMMA RespondRight ==
  ASSUME NEW req \in AnyRequest, NEW part \in Part, ~Crashes(req, part)
  PROVE  Right(req, Respond(req, part))
<1> DEFINE a == Respond(req, part)
           content == Content[req.uri]
<1> SUFFICES ASSUME a.status \in {200, 206} PROVE Right(req, a)
  BY DEF Right
<1>1. Found(req)
  BY DEF Respond, Status
<1>2. content \in Seq(Byte) /\ Len(content) \in Nat
  BY <1>1, HttpAssumption DEF Found
<1>3. req.range \in {NoRange, OtherUnit} \cup [start : Bound, end : Bound]
  BY DEF AnyRequest
<1>4. CASE req.range = NoRange \/ part <= Line
  <2>1. a = Announced(200, content)
    BY <1>1, <1>4 DEF Respond, Found
  <2> HIDE DEF a, content
  <2> QED BY <1>1, <1>2, <2>1, AnnouncedRight DEF Right, content
<1>5. CASE ~(req.range = NoRange \/ part <= Line)
  <2>1. req.range # OtherUnit /\ part # Name /\ a = Ranged(req.range, content)
    BY <1>1, <1>5 DEF Respond, Found, Status
  <2>2. req.range \in [start : Bound, end : Bound]
    BY <1>3, <1>5, <2>1
  <2> DEFINE start == req.range.start
             end == req.range.end
             last == Last(req.range, Len(content))
  <2>3. /\ start # Empty /\ ~Unsatisfiable(req.range, Len(content))
        /\ a = Announced(206, SubSeq(content, start + 1, last + 1))
    BY <2>1 DEF Ranged, Status
  <2>4. start \in Nat /\ end \in Nat \cup {Empty}
    BY <2>2, <2>3 DEF Bound
  <2>5. start < Len(content) /\ last < Len(content) /\ last >= start
    BY <1>2, <2>3, <2>4 DEF Unsatisfiable, Last
  <2>6. Wanted(req) = SubSeq(content, start + 1, last + 1)
    <3>1. last + 1 = IF end = Empty THEN Len(content) ELSE end + 1
      BY <1>2 DEF Last
    <3> QED BY <1>5, <3>1 DEF Wanted
  <2>7. Wanted(req) \in Seq(Byte)
    <3>1. last \in Nat
      BY <1>2, <2>4, <2>5 DEF Last
    <3>2. \A i, j \in Nat : i < Len(content) /\ j < Len(content)
                              => SubSeq(content, i + 1, j + 1) \in Seq(Byte)
      <4> HIDE DEF content
      <4> QED BY <1>2
    <3> HIDE DEF content, start, last
    <3> QED BY <2>4, <2>5, <2>6, <3>1, <3>2
  <2>8. a = Announced(206, Wanted(req))
    BY <2>3, <2>6
  <2> DEFINE bytes == Wanted(req)
  <2> HIDE DEF a, bytes
  <2>9. /\ a.status = 206
        /\ a.length = Len(a.body) => a.body = bytes
        /\ Len(bytes) <= Room[206] /\ (\A i \in DOMAIN bytes : bytes[i] # Nul)
              => a.length = Len(a.body)
    BY <2>7, <2>8, AnnouncedRight DEF bytes
  <2> QED BY <1>1, <2>9 DEF Right, bytes
<1> QED BY <1>4, <1>5

-----------------------------------------------------------------------------
(***************************************************************************)
(* The invariant.                                                          *)
(***************************************************************************)
MaybeRequest == AnyRequest \cup {NoReply}

Reply == {NoReply, Status(301)} \cup {Respond(r, part) : r \in AnyRequest, part \in Part}

ClientState == [stage : {"new", "open", "redirected", "left", "done"}, port : Port,
                asked : MaybeRequest, req : MaybeRequest, sent : Part, cut : BOOLEAN,
                answer : Reply]

ThreadState == [step : {"accept", "handshake", "read", "write"},
                who : Client \cup {NoClient}, read : Part, seen : MaybeRequest,
                reply : Reply]

HttpTypeOK ==
  /\ client \in [Client -> ClientState]
  /\ backlog \in [Port -> Seq(Client)]
  /\ thread \in [Port -> ThreadState]

Connected(cl, p) == cl.stage \in {"open", "left"} /\ cl.port = p

\* Every connection is in one place: it waits once, or it is served.
Once(queue) == \A i, j \in DOMAIN queue : queue[i] = queue[j] => i = j

Waiting(queue, th, clients, p) ==
  \A i \in DOMAIN queue : /\ Connected(clients[queue[i]], p)
                          /\ th.step # "accept" => queue[i] # th.who

Serving(th, clients, p) ==
  th.step # "accept" => th.who \in Client /\ Connected(clients[th.who], p)

PlacedAt(p) ==
  /\ Once(backlog[p])
  /\ Waiting(backlog[p], thread[p], client, p)
  /\ Serving(thread[p], client, p)

Placed == \A p \in Port : PlacedAt(p)

\* A reply answers some part of a request that does not end the process.
Answers(req, a) == \E part \in Part : ~Crashes(req, part) /\ a = Respond(req, part)

\* What is requested is what was asked for until a request line is read in part.
RequestRight(cl) ==
  /\ cl.stage # "new" => cl.req \in AnyRequest /\ (~cl.cut => cl.req = cl.asked)
  /\ cl.stage = "done" => Answers(cl.req, cl.answer)

\* A thread replies about what it has seen, which is the request when the whole
\* request line was read.
ReplyRight(p, th, clients) ==
  th.step = "write" =>
    /\ th.seen \in AnyRequest
    /\ ~(th.read < Line) => th.seen = clients[th.who].req
    /\ IF p = 80 THEN th.reply = Status(301) ELSE Answers(th.seen, th.reply)

RepliesRight ==
  /\ \A c \in Client : RequestRight(client[c])
  /\ \A p \in Port : ReplyRight(p, thread[p], client)

HttpInv == HttpTypeOK /\ Placed /\ RepliesRight

LEMMA HttpInvInit == HttpInit => HttpInv
<1> SUFFICES ASSUME HttpInit PROVE HttpInv
  OBVIOUS
<1>1. Nothing \in Part /\ 80 \in Port
  BY DEF Nothing, Part, Port
<1>2. HttpTypeOK
  BY <1>1 DEF HttpInit, HttpTypeOK, ClientState, ThreadState, IdleThread, Reply, MaybeRequest
<1>3. Placed /\ RepliesRight
  BY DEF HttpInit, Placed, PlacedAt, Once, Waiting, Serving, RepliesRight, RequestRight,
         ReplyRight, IdleThread, Port
<1> QED BY <1>2, <1>3 DEF HttpInv

\* A client that is nowhere yet joins a queue.
LEMMA DialStep ==
  ASSUME HttpInv, NEW c \in Client, client[c].stage \in {"new", "redirected"},
         NEW new \in ClientState, new.stage = "open", RequestRight(new), Dial(c, new)
  PROVE  HttpInv'
<1> DEFINE p == new.port
<1>1. /\ client' = [client EXCEPT ![c] = new]
      /\ backlog' = [backlog EXCEPT ![p] = Append(@, c)]
      /\ thread' = thread
  BY DEF Dial
<1>2. p \in Port
  BY DEF ClientState
<1>3. /\ client' \in [Client -> ClientState]
      /\ \A d \in Client \ {c} : client'[d] = client[d]
      /\ client'[c] = new
  BY <1>1 DEF HttpInv, HttpTypeOK
<1> HIDE DEF p
<1>4. \A q \in Port : backlog[q] \in Seq(Client)
  BY DEF HttpInv, HttpTypeOK
<1>5. /\ backlog' \in [Port -> Seq(Client)]
      /\ \A q \in Port \ {p} : backlog'[q] = backlog[q]
      /\ DOMAIN backlog'[p] = 1..Len(backlog[p]) + 1
      /\ DOMAIN backlog[p] = 1..Len(backlog[p]) /\ Len(backlog[p]) \in Nat
      /\ \A i \in DOMAIN backlog[p] : backlog'[p][i] = backlog[p][i]
      /\ backlog'[p][Len(backlog[p]) + 1] = c
  <2>1. Append(backlog[p], c) \in Seq(Client)
    BY <1>2, <1>4
  <2>2. backlog'[p] = Append(backlog[p], c)
    BY <1>1, <1>2 DEF HttpInv, HttpTypeOK
  <2> QED BY <1>1, <1>2, <1>4, <2>1, <2>2 DEF HttpInv, HttpTypeOK
<1>6. HttpTypeOK'
  BY <1>1, <1>3, <1>5 DEF HttpInv, HttpTypeOK
<1>7. \A q \in Port : /\ \A i \in DOMAIN backlog[q] : backlog[q][i] # c
                      /\ thread[q].step # "accept" => thread[q].who # c
  <2> SUFFICES ASSUME NEW q \in Port
               PROVE  /\ \A i \in DOMAIN backlog[q] : backlog[q][i] # c
                      /\ thread[q].step # "accept" => thread[q].who # c
    OBVIOUS
  <2>1. Waiting(backlog[q], thread[q], client, q) /\ Serving(thread[q], client, q)
    BY DEF HttpInv, Placed, PlacedAt
  <2> QED BY <2>1 DEF Waiting, Serving, Connected
<1>8. \A q \in Port, d \in Client \ {c} : Connected(client'[d], q) <=> Connected(client[d], q)
  BY <1>3 DEF Connected
<1>9. Placed'
  <2> SUFFICES ASSUME NEW q \in Port PROVE PlacedAt(q)'
    BY DEF Placed
  <2>1. Once(backlog[q]) /\ Waiting(backlog[q], thread[q], client, q)
                         /\ Serving(thread[q], client, q)
    BY DEF HttpInv, Placed, PlacedAt, Once, Waiting, Serving
  <2>2. Serving(thread[q], client', q)
    BY <1>7, <1>8, <2>1 DEF Serving
  <2>3. \A i \in DOMAIN backlog[q] : backlog[q][i] \in Client \ {c}
    BY <1>4, <1>7
  <2>4. Waiting(backlog[q], thread[q], client', q)
    BY <1>8, <2>1, <2>3 DEF Waiting
  <2>5. CASE q # p
    BY <1>1, <1>5, <2>1, <2>2, <2>4, <2>5 DEF PlacedAt, Once, Waiting, Serving
  <2>6. CASE q = p
    <3>1. Connected(client'[c], p) /\ (thread[p].step # "accept" => c # thread[p].who)
      BY <1>2, <1>3, <1>7 DEF Connected, p
    <3> DEFINE n == Len(backlog[p])
               queue == backlog'[p]
    <3>2. /\ n \in Nat /\ DOMAIN queue = 1..n + 1 /\ DOMAIN backlog[p] = 1..n
          /\ queue[n + 1] = c
          /\ \A i \in 1..n : queue[i] = backlog[p][i] /\ backlog[p][i] # c
          /\ \A i, j \in 1..n : backlog[p][i] = backlog[p][j] => i = j
      BY <1>5, <2>1, <2>3, <2>6 DEF Once
    <3> HIDE DEF n, queue
    <3>3. Once(queue)
      BY <3>2 DEF Once
    <3>4. Waiting(queue, thread[p], client', p)
      BY <2>4, <2>6, <3>1, <3>2 DEF Waiting
    <3> QED BY <1>1, <2>2, <2>6, <3>3, <3>4 DEF PlacedAt, queue
  <2> QED BY <2>5, <2>6
<1>10. RepliesRight'
  <2>1. \A q \in Port : thread[q].step = "write" => thread[q].who \in Client \ {c}
    BY <1>7 DEF HttpInv, Placed, PlacedAt, Once, Waiting, Serving
  <2> QED BY <1>1, <1>3, <2>1 DEF HttpInv, RepliesRight, ReplyRight
<1> QED BY <1>6, <1>9, <1>10 DEF HttpInv

\* A client changes, but for its connection and its request.
LEMMA SameRequestStep ==
  ASSUME HttpInv, NEW c \in Client, client[c].stage = "open",
         NEW new \in ClientState, new.stage \in {"open", "left"},
         new.port = client[c].port, new.req = client[c].req,
         new.asked = client[c].asked, new.cut = client[c].cut,
         client' = [client EXCEPT ![c] = new], UNCHANGED <<backlog, thread>>
  PROVE  HttpInv'
<1>1. /\ client' \in [Client -> ClientState]
      /\ client'[c] = new /\ \A d \in Client \ {c} : client'[d] = client[d]
  BY DEF HttpInv, HttpTypeOK
<1>2. HttpTypeOK'
  BY <1>1 DEF HttpInv, HttpTypeOK
<1>3. \A q \in Port, d \in Client : Connected(client'[d], q) <=> Connected(client[d], q)
  BY <1>1 DEF Connected
<1>4. Placed'
  <2>1. \A q \in Port : \A i \in DOMAIN backlog[q] : backlog[q][i] \in Client
    BY DEF HttpInv, HttpTypeOK
  <2> QED BY <1>3, <2>1 DEF HttpInv, Placed, PlacedAt, Waiting, Serving
<1>5. RepliesRight'
  <2>1. RequestRight(new)
    <3>1. RequestRight(client[c])
      BY DEF HttpInv, RepliesRight
    <3> QED BY <3>1 DEF RequestRight
  <2>2. \A d \in Client : client'[d].req = client[d].req
    BY <1>1
  <2>3. \A q \in Port : thread[q].step = "write" => thread[q].who \in Client
    BY DEF HttpInv, Placed, PlacedAt, Serving
  <2> QED BY <1>1, <2>1, <2>2, <2>3 DEF HttpInv, RepliesRight, ReplyRight
<1> QED BY <1>2, <1>4, <1>5 DEF HttpInv

LEMMA SendStep ==
  ASSUME HttpInv, NEW c \in Client, Send(c)
  PROVE  HttpInv'
<1>1. PICK part \in Part : client' = [client EXCEPT ![c].sent = part]
  BY DEF Send
<1> DEFINE new == [client[c] EXCEPT !.sent = part]
<1>2. client[c] \in ClientState
  BY DEF HttpInv, HttpTypeOK
<1>3. /\ new \in ClientState /\ new.stage = client[c].stage
      /\ new.port = client[c].port /\ new.req = client[c].req
      /\ new.asked = client[c].asked /\ new.cut = client[c].cut
  BY <1>2 DEF ClientState
<1>4. client' = [client EXCEPT ![c] = new]
  BY <1>1
<1>5. client[c].stage = "open" /\ UNCHANGED <<backlog, thread>>
  BY DEF Send
<1> HIDE DEF new
<1> QED BY <1>3, <1>4, <1>5, SameRequestStep

LEMMA LeaveStep ==
  ASSUME HttpInv, NEW c \in Client, Leave(c)
  PROVE  HttpInv'
<1> DEFINE new == [client[c] EXCEPT !.stage = "left"]
<1>1. client[c] \in ClientState
  BY DEF HttpInv, HttpTypeOK
<1>2. /\ new \in ClientState /\ new.stage = "left"
      /\ new.port = client[c].port /\ new.req = client[c].req
      /\ new.asked = client[c].asked /\ new.cut = client[c].cut
  BY <1>1 DEF ClientState
<1>3. client' = [client EXCEPT ![c] = new]
  BY DEF Leave
<1> HIDE DEF new
<1> QED BY <1>2, <1>3, SameRequestStep DEF Leave

\* The first connection of a queue is served by a thread that serves none.
LEMMA AcceptStep ==
  ASSUME HttpInv, NEW p \in Port, Accept(p)
  PROVE  HttpInv'
<1> DEFINE c == Head(backlog[p])
           new == [thread[p] EXCEPT !.step = IF p = 443 THEN "handshake" ELSE "read", !.who = c]
<1>1. /\ thread' = [thread EXCEPT ![p] = new]
      /\ backlog' = [backlog EXCEPT ![p] = Tail(@)]
      /\ thread[p].step = "accept" /\ backlog[p] # <<>> /\ client' = client
  BY DEF Accept
<1>2. backlog[p] \in Seq(Client)
  BY DEF HttpInv, HttpTypeOK
<1>3. /\ c = backlog[p][1] /\ c \in Client /\ 1 \in DOMAIN backlog[p]
      /\ Tail(backlog[p]) \in Seq(Client)
      /\ \A i \in DOMAIN Tail(backlog[p]) :
           i + 1 \in DOMAIN backlog[p] /\ i + 1 # 1 /\ Tail(backlog[p])[i] = backlog[p][i + 1]
  BY <1>1, <1>2
<1> HIDE DEF c
<1>4. new \in ThreadState /\ new.step \in {"handshake", "read"} /\ new.who = c
  <2>1. thread[p] \in ThreadState
    BY DEF HttpInv, HttpTypeOK
  <2> QED BY <1>3, <2>1 DEF ThreadState
<1> HIDE DEF new
<1>5. /\ thread' \in [Port -> ThreadState] /\ thread'[p] = new
      /\ \A q \in Port \ {p} : thread'[q] = thread[q]
      /\ backlog' \in [Port -> Seq(Client)] /\ backlog'[p] = Tail(backlog[p])
      /\ \A q \in Port \ {p} : backlog'[q] = backlog[q]
  BY <1>1, <1>3, <1>4 DEF HttpInv, HttpTypeOK
<1>6. HttpTypeOK'
  BY <1>1, <1>5 DEF HttpInv, HttpTypeOK
<1>8. Placed'
  <2> SUFFICES ASSUME NEW q \in Port PROVE PlacedAt(q)'
    BY DEF Placed
  <2>1. Once(backlog[q]) /\ Waiting(backlog[q], thread[q], client, q)
                         /\ Serving(thread[q], client, q)
    BY DEF HttpInv, Placed, PlacedAt, Once, Waiting, Serving
  <2>2. CASE q # p
    BY <1>1, <1>5, <2>1, <2>2 DEF PlacedAt
  <2>3. CASE q = p
    <3> DEFINE queue == Tail(backlog[p])
    <3>1. /\ \A i, j \in DOMAIN backlog[p] : backlog[p][i] = backlog[p][j] => i = j
          /\ \A i \in DOMAIN backlog[p] : Connected(client[backlog[p][i]], p)
      <4>1. Once(backlog[p]) /\ Waiting(backlog[p], thread[p], client, p)
        BY <2>1, <2>3
      <4> QED BY <4>1 DEF Once, Waiting
    <3>2. \A i \in DOMAIN queue : i \in Int
      BY <1>2, <1>3
    <3>3. \A i \in DOMAIN queue : /\ i + 1 \in DOMAIN backlog[p] /\ i + 1 # 1
                                  /\ queue[i] = backlog[p][i + 1]
      BY <1>3
    <3> HIDE DEF queue
    <3>4. Once(queue)
      BY <3>1, <3>2, <3>3 DEF Once
    <3>5. Waiting(queue, new, client, p) /\ Serving(new, client, p)
      BY <1>3, <1>4, <3>1, <3>3 DEF Waiting, Serving
    <3> QED BY <1>1, <1>5, <2>3, <3>4, <3>5 DEF PlacedAt, queue
  <2> QED BY <2>2, <2>3
<1>9. RepliesRight'
  BY <1>1, <1>4, <1>5 DEF HttpInv, RepliesRight, ReplyRight
<1> QED BY <1>6, <1>8, <1>9 DEF HttpInv

\* A thread goes on with the client it serves.
LEMMA SameClientStep ==
  ASSUME HttpInv, NEW p \in Port, thread[p].step # "accept",
         NEW new \in ThreadState, new.step # "accept", new.who = thread[p].who,
         ReplyRight(p, new, client),
         thread' = [thread EXCEPT ![p] = new], UNCHANGED <<client, backlog>>
  PROVE  HttpInv'
<1>1. /\ thread' \in [Port -> ThreadState] /\ thread'[p] = new
      /\ \A q \in Port \ {p} : thread'[q] = thread[q]
  BY DEF HttpInv, HttpTypeOK
<1>2. HttpTypeOK'
  BY <1>1 DEF HttpInv, HttpTypeOK
<1>4. Placed'
  BY <1>1 DEF HttpInv, Placed, PlacedAt, Once, Waiting, Serving
<1>5. RepliesRight'
  BY <1>1 DEF HttpInv, RepliesRight
<1> QED BY <1>2, <1>4, <1>5 DEF HttpInv

\* No connection is anywhere once the process has ended.
LEMMA ExitStep ==
  ASSUME HttpInv, Exit
  PROVE  HttpInv'
<1>1. IdleThread \in ThreadState /\ IdleThread.step = "accept"
  BY DEF IdleThread, ThreadState, Nothing, Part, Reply, MaybeRequest
<1>2. /\ client' = client
      /\ \A p \in Port : backlog'[p] = <<>> /\ thread'[p].step = "accept"
  BY <1>1 DEF Exit
<1>3. HttpTypeOK'
  BY <1>1 DEF Exit, HttpInv, HttpTypeOK
<1>4. Placed' /\ RepliesRight'
  BY <1>2 DEF HttpInv, Placed, PlacedAt, Once, Waiting, Serving, RepliesRight, ReplyRight
<1> QED BY <1>3, <1>4 DEF HttpInv

LEMMA HandshakeStep ==
  ASSUME HttpInv, Handshake
  PROVE  HttpInv'
<1>1. CASE Gone(443)
  BY <1>1, ExitStep DEF Handshake
<1>2. CASE ~Gone(443)
  <2> DEFINE new == [thread[443] EXCEPT !.step = "read"]
  <2>1. 443 \in Port /\ thread[443].step = "handshake"
    BY DEF Port, Handshake
  <2>2. thread[443] \in ThreadState
    BY <2>1 DEF HttpInv, HttpTypeOK
  <2>3. new \in ThreadState /\ new.step = "read" /\ new.who = thread[443].who
    BY <2>2 DEF ThreadState
  <2>4. thread' = [thread EXCEPT ![443] = new] /\ UNCHANGED <<client, backlog>>
    BY <1>2 DEF Handshake
  <2> HIDE DEF new
  <2> QED BY <2>1, <2>3, <2>4, SameClientStep DEF ReplyRight
<1> QED BY <1>1, <1>2

LEMMA ReadStep ==
  ASSUME HttpInv, NEW p \in Port, Read(p)
  PROVE  HttpInv'
<1> DEFINE c    == Served(p)
           req  == client[c].req
           part == client[c].sent
<1>1. CASE Exit
  BY <1>1, ExitStep
<1>2. CASE ~Exit
  <2>1. thread[p].step = "read" /\ UNCHANGED <<client, backlog>>
    BY <1>2 DEF Read
  <2> DEFINE rep(seen) == IF p = 80 THEN Status(301) ELSE Respond(seen, part)
  <2>2. PICK method \in SeenMethod(req, part), uri \in SeenUri(req, part) :
          LET seen == [req EXCEPT !.method = method, !.uri = uri]
          IN  /\ ~(p = 443 /\ Crashes(seen, part))
              /\ thread' = [thread EXCEPT ![p] = [@ EXCEPT !.step = "write", !.read = part,
                                                          !.seen = seen, !.reply = rep(seen)]]
    BY <1>2 DEF Read
  <2> DEFINE seen == [req EXCEPT !.method = method, !.uri = uri]
  <2>3. /\ ~(p = 443 /\ Crashes(seen, part))
        /\ thread' = [thread EXCEPT ![p] = [@ EXCEPT !.step = "write", !.read = part,
                                                    !.seen = seen, !.reply = rep(seen)]]
    BY <2>2
  <2>4. thread[p] \in ThreadState
    BY DEF HttpInv, HttpTypeOK
  <2>5. c \in Client /\ Connected(client[c], p)
    BY <2>1 DEF HttpInv, Placed, PlacedAt, Serving, Served
  <2>6. req \in AnyRequest /\ part \in Part
    <3>1. RequestRight(client[c]) /\ client[c] \in ClientState
      BY <2>5 DEF HttpInv, RepliesRight, HttpTypeOK
    <3> QED BY <2>5, <3>1 DEF RequestRight, Connected, ClientState
  <2>7. seen \in AnyRequest /\ (~(part < Line) => seen = req)
    <3> HIDE DEF req, part
    <3>1. method \in Method
      BY <2>2, <2>6 DEF SeenMethod, AnyRequest, Method
    <3>2. uri \in Uri
      BY <2>2, <2>6, HttpAssumption DEF SeenUri, AnyRequest
    <3>3. ~(part < Line) => method = req.method /\ uri = req.uri
      BY <2>2, <2>6 DEF SeenMethod, SeenUri, Part, Nothing, Verb, Path, Line
    <3> QED BY <2>6, <3>1, <3>2, <3>3 DEF AnyRequest
  <2> HIDE DEF seen
  <2>8. rep(seen) \in Reply
    BY <2>6, <2>7 DEF Reply
  <2>9. p # 80 => Answers(seen, rep(seen))
    <3>1. p # 80 => p = 443
      BY DEF Port
    <3> QED BY <2>3, <2>6, <3>1 DEF Answers
  <2> DEFINE reply == rep(seen)
  <2>10. p = 80 => reply = Status(301)
    OBVIOUS
  <2>11. thread' = [thread EXCEPT ![p] = [@ EXCEPT !.step = "write", !.read = part,
                                                  !.seen = seen, !.reply = reply]]
    BY <2>3
  <2>12. reply \in Reply /\ (p # 80 => Answers(seen, reply))
    BY <2>8, <2>9
  <2> HIDE DEF reply, rep
  <2> DEFINE new == [thread[p] EXCEPT !.step = "write", !.read = part,
                                      !.seen = seen, !.reply = reply]
  <2>13. /\ new \in ThreadState /\ new.step = "write" /\ new.who = c
         /\ new.read = part /\ new.seen = seen /\ new.reply = reply
    BY <2>4, <2>6, <2>7, <2>12 DEF ThreadState, MaybeRequest, Served
  <2>14. thread' = [thread EXCEPT ![p] = new]
    BY <2>11
  <2> HIDE DEF new
  <2>15. ReplyRight(p, new, client)
    BY <2>7, <2>10, <2>12, <2>13 DEF ReplyRight
  <2> QED BY <2>1, <2>13, <2>14, <2>15, SameClientStep DEF Served
<1> QED BY <1>1, <1>2

\* The connection of the client that was served is closed.
LEMMA ClosedStep ==
  ASSUME HttpInv, NEW p \in Port, thread[p].step = "write",
         NEW new \in ClientState, new.stage # "new", RequestRight(new),
         client' = [client EXCEPT ![thread[p].who] = new],
         thread' = [thread EXCEPT ![p] = IdleThread], backlog' = backlog
  PROVE  HttpInv'
<1> DEFINE c == thread[p].who
<1>1. c \in Client /\ Connected(client[c], p)
  BY DEF HttpInv, Placed, PlacedAt, Once, Waiting, Serving
<1> HIDE DEF c
<1>2. /\ client' \in [Client -> ClientState] /\ client'[c] = new
      /\ \A d \in Client \ {c} : client'[d] = client[d]
  BY <1>1 DEF HttpInv, HttpTypeOK, c
<1>3. IdleThread \in ThreadState /\ IdleThread.step = "accept"
  BY DEF IdleThread, ThreadState, Nothing, Part, Reply, MaybeRequest
<1>4. /\ thread' \in [Port -> ThreadState] /\ thread'[p].step = "accept"
      /\ \A q \in Port \ {p} : thread'[q] = thread[q]
  BY <1>3 DEF HttpInv, HttpTypeOK
<1>5. HttpTypeOK'
  BY <1>2, <1>4 DEF HttpInv, HttpTypeOK
<1>6. \A q \in Port : /\ \A i \in DOMAIN backlog[q] : backlog[q][i] \in Client \ {c}
                      /\ thread'[q].step # "accept" => thread'[q].who \in Client \ {c}
  <2> SUFFICES ASSUME NEW q \in Port
               PROVE  /\ \A i \in DOMAIN backlog[q] : backlog[q][i] \in Client \ {c}
                      /\ thread'[q].step # "accept" => thread'[q].who \in Client \ {c}
    OBVIOUS
  <2>1. \A i \in DOMAIN backlog[q] : backlog[q][i] \in Client
    BY DEF HttpInv, HttpTypeOK
  <2>2. Waiting(backlog[q], thread[q], client, q) /\ Serving(thread[q], client, q)
    BY DEF HttpInv, Placed, PlacedAt
  <2>3. CASE q = p
    BY <1>4, <2>1, <2>2, <2>3 DEF Waiting, c
  <2>4. CASE q # p
    BY <1>1, <1>4, <2>1, <2>2, <2>4 DEF Waiting, Serving, Connected
  <2> QED BY <2>3, <2>4
<1>7. \A d \in Client \ {c}, q \in Port : Connected(client[d], q)' <=> Connected(client[d], q)
  BY <1>2 DEF Connected
<1>8. Placed'
  BY <1>4, <1>6, <1>7 DEF HttpInv, Placed, PlacedAt, Once, Waiting, Serving
<1>9. RepliesRight'
  <2>1. \A q \in Port : thread'[q].step = "write" =>
          q # p /\ thread'[q] = thread[q] /\ thread[q].who \in Client \ {c}
    BY <1>4, <1>6
  <2> QED BY <1>2, <2>1 DEF HttpInv, RepliesRight, ReplyRight
<1> QED BY <1>5, <1>8, <1>9 DEF HttpInv

\* The client has a reply about what was seen, or asks for the name that was seen.
LEMMA AnsweredRight ==
  ASSUME HttpInv, NEW p \in Port, thread[p].step = "write"
  PROVE  LET new == Answered(client[thread[p].who], thread[p])
         IN  new \in ClientState /\ new.stage # "new" /\ RequestRight(new)
<1> DEFINE cl == client[thread[p].who]
           t  == thread[p]
<1>1. thread[p].who \in Client /\ cl.stage # "new"
  BY DEF HttpInv, Placed, PlacedAt, Serving, Connected
<1>2. /\ cl \in ClientState /\ t \in ThreadState
      /\ RequestRight(cl) /\ ReplyRight(p, t, client)
  BY <1>1 DEF HttpInv, HttpTypeOK, RepliesRight
<1>3. /\ t.seen \in AnyRequest /\ (~(t.read < Line) => t.seen = cl.req)
      /\ t.reply.status # 301 => Answers(t.seen, t.reply)
  BY <1>2 DEF ReplyRight, Status
<1>4. cl.req \in AnyRequest /\ (~cl.cut => cl.req = cl.asked)
  BY <1>1, <1>2 DEF RequestRight
<1> HIDE DEF cl, t
<1> DEFINE cut == cl.cut \/ t.read < Line
<1>5. CASE t.reply.status = 301
  <2> DEFINE req == [cl.req EXCEPT !.uri = t.seen.uri]
             new == [cl EXCEPT !.stage = "redirected", !.sent = Nothing, !.cut = cut, !.req = req]
  <2>1. Answered(cl, t) = new
    BY <1>2, <1>5 DEF Answered, Closed, ClientState
  <2>2. req \in AnyRequest /\ (~cut => req = cl.asked)
    BY <1>3, <1>4 DEF AnyRequest
  <2>3. /\ new \in ClientState /\ new.stage = "redirected"
        /\ new.cut = cut /\ new.req = req /\ new.asked = cl.asked
    <3> HIDE DEF req
    <3>1. cut \in BOOLEAN /\ Nothing \in Part
      BY <1>2 DEF ClientState, Nothing, Part
    <3> QED BY <1>2, <2>2, <3>1 DEF ClientState, MaybeRequest
  <2> HIDE DEF new, req, cut
  <2>4. RequestRight(new)
    BY <2>2, <2>3 DEF RequestRight
  <2> QED BY <2>1, <2>3, <2>4 DEF cl, t
<1>6. CASE t.reply.status # 301
  <2> DEFINE new == [cl EXCEPT !.stage = "done", !.sent = Nothing, !.cut = cut,
                              !.req = t.seen, !.answer = t.reply]
  <2>1. Answered(cl, t) = new
    BY <1>2, <1>6 DEF Answered, Closed, ClientState
  <2>2. ~cut => t.seen = cl.asked
    BY <1>3, <1>4
  <2>3. /\ new \in ClientState /\ new.stage = "done" /\ new.cut = cut
        /\ new.req = t.seen /\ new.asked = cl.asked /\ new.answer = t.reply
    <3>1. cut \in BOOLEAN /\ Nothing \in Part
      BY <1>2 DEF ClientState, Nothing, Part
    <3> QED BY <1>2, <1>3, <3>1 DEF ClientState, ThreadState, MaybeRequest
  <2> HIDE DEF new, cut
  <2>4. RequestRight(new)
    BY <1>3, <1>6, <2>2, <2>3 DEF RequestRight
  <2> QED BY <2>1, <2>3, <2>4 DEF cl, t
<1> QED BY <1>5, <1>6

LEMMA WriteStep ==
  ASSUME HttpInv, NEW p \in Port, Write(p)
  PROVE  HttpInv'
<1> DEFINE c == thread[p].who
<1>1. CASE Exit
  BY <1>1, ExitStep
<1>2. CASE ~Exit
  <2>1. /\ thread[p].step = "write" /\ backlog' = backlog
        /\ thread' = [thread EXCEPT ![p] = IdleThread]
        /\ \/ client' = [client EXCEPT ![c] = Answered(@, thread[p])]
           \/ client' = [client EXCEPT ![c].stage = "left", ![c].sent = Nothing]
    BY <1>2 DEF Write, Served
  <2>2. c \in Client /\ Connected(client[c], p)
    BY <2>1 DEF HttpInv, Placed, PlacedAt, Serving
  <2>3. client[c] \in ClientState /\ RequestRight(client[c])
    BY <2>2 DEF HttpInv, HttpTypeOK, RepliesRight
  <2>4. CASE client' = [client EXCEPT ![c] = Answered(@, thread[p])]
    <3> DEFINE new == Answered(client[c], thread[p])
    <3>1. client' = [client EXCEPT ![c] = new]
      BY <2>4
    <3>2. new \in ClientState /\ new.stage # "new" /\ RequestRight(new)
      BY <2>1, AnsweredRight
    <3> HIDE DEF new
    <3> QED BY <2>1, <3>1, <3>2, ClosedStep
  <2>5. CASE client' = [client EXCEPT ![c].stage = "left", ![c].sent = Nothing]
    <3> DEFINE new == [client[c] EXCEPT !.stage = "left", !.sent = Nothing]
    <3>1. client' = [client EXCEPT ![c] = new]
      BY <2>2, <2>5 DEF HttpInv, HttpTypeOK
    <3>2. new \in ClientState /\ new.stage = "left" /\ RequestRight(new)
      <4>1. client[c].stage # "new" /\ Nothing \in Part
        BY <2>2 DEF Connected, Nothing, Part
      <4> QED BY <2>3, <4>1 DEF ClientState, RequestRight
    <3> HIDE DEF new
    <3> QED BY <2>1, <3>1, <3>2, ClosedStep
  <2> QED BY <2>1, <2>4, <2>5
<1> QED BY <1>1, <1>2

LEMMA HttpInvNext == HttpInv /\ [HttpNext]_vars => HttpInv'
<1> SUFFICES ASSUME HttpInv, [HttpNext]_vars PROVE HttpInv'
  OBVIOUS
<1>1. ASSUME NEW c \in Client, NEW p \in Port, NEW r \in Request[c], Connect(c, p, r)
      PROVE  HttpInv'
  <2> DEFINE new == [client[c] EXCEPT !.stage = "open", !.port = p, !.asked = r, !.req = r]
  <2>1. r \in AnyRequest /\ client[c] \in ClientState
    BY HttpAssumption DEF HttpInv, HttpTypeOK
  <2>2. new \in ClientState /\ new.stage = "open" /\ RequestRight(new)
    BY <2>1 DEF ClientState, MaybeRequest, RequestRight
  <2>3. client[c].stage \in {"new", "redirected"} /\ Dial(c, new)
    BY <1>1 DEF Connect
  <2> HIDE DEF new
  <2> QED BY <2>2, <2>3, DialStep
<1>2. ASSUME NEW c \in Client, Follow(c) PROVE HttpInv'
  <2> DEFINE new == [client[c] EXCEPT !.stage = "open", !.port = 443]
  <2>1. client[c].stage = "redirected" /\ Dial(c, new)
    BY <1>2 DEF Follow
  <2>2. client[c] \in ClientState /\ RequestRight(client[c])
    BY DEF HttpInv, HttpTypeOK, RepliesRight
  <2>3. /\ new \in ClientState /\ new.stage = "open" /\ new.req = client[c].req
        /\ new.cut = client[c].cut /\ new.asked = client[c].asked
    <3>1. 443 \in Port
      BY DEF Port
    <3> QED BY <2>2, <3>1 DEF ClientState
  <2> HIDE DEF new
  <2>4. RequestRight(new)
    BY <2>1, <2>2, <2>3 DEF RequestRight
  <2> QED BY <2>1, <2>3, <2>4, DialStep
<1>3. CASE UNCHANGED vars
  BY <1>3 DEF vars, HttpInv, HttpTypeOK, Placed, PlacedAt, Once, Waiting, Serving, Connected,
              RepliesRight, RequestRight, ReplyRight
<1> QED
  BY <1>1, <1>2, <1>3, SendStep, LeaveStep, AcceptStep, ReadStep, WriteStep, HandshakeStep
  DEF HttpNext

\* HttpInv holds throughout.
THEOREM HttpInvariant == HttpSpec => []HttpInv
<1> QED BY HttpInvInit, HttpInvNext, PTL DEF HttpSpec

\* A client that has as many bytes as were announced has one whole file or exactly
\* the range it asked for, and it has as many when they fit and none is NUL; and
\* they are of the file it asked for unless a request line of its was read in
\* part, here or at port 80: for all files, requests and buffer sizes, and however
\* much of a request the one SSL_read returns (handle_https_request).
THEOREM AnswersAreRight == HttpSpec => []AnswerRight
<1>1. HttpInv => AnswerRight
  <2> SUFFICES ASSUME HttpInv, NEW c \in Client, client[c].stage = "done"
               PROVE  /\ Right(client[c].req, client[c].answer)
                      /\ ~client[c].cut => client[c].req = client[c].asked
    BY DEF AnswerRight, Right
  <2>1. RequestRight(client[c])
    BY DEF HttpInv, RepliesRight
  <2>2. PICK part \in Part : /\ ~Crashes(client[c].req, part)
                             /\ client[c].answer = Respond(client[c].req, part)
    BY <2>1 DEF RequestRight, Answers
  <2> QED BY <2>1, <2>2, RespondRight DEF RequestRight
<1> QED BY <1>1, HttpInvariant, PTL

=============================================================================
