----------------------------- MODULE HttpServer -----------------------------
(***************************************************************************)
(* The HTTP/HTTPS server (03-socket): one process with two threads, each   *)
(* serving the connections of its port one after the other.  Port 80       *)
(* redirects to port 443, which serves files and ranges of files.          *)
(***************************************************************************)
EXTENDS Naturals, Sequences, FiniteSetsExt

CONSTANTS
  Client,
  Request,     \* what each client may ask: [method, uri, range]
  Uri,         \* names, of files and of none
  Cut,         \* the names that each name is taken for when its end is missing
  Byte,
  Content,     \* the files, a sequence of bytes for each name
  Room,        \* bytes of the response buffer left after the head of a 200, a 206
  Nul,         \* the byte that ends a C string
  NoRange,     \* a request without a Range header
  OtherUnit,   \* a Range header whose unit is not bytes
  Empty,       \* a bound that is not given
  NoClient, NoReply

Port == {80, 443}

\* How much of a request has arrived: nothing; none of the uri; some of it; the
\* request line; the Range header's name; its unit; its start and the dash; all.
Part == 0..7
Nothing == 0
Verb == 1
Path == 2
Line == 3
Name == 4
Unit == 5
Dash == 6
Whole == 7

\* The bounds of a range.
Bound == Nat \cup {Empty}

Method == {"GET", "other"}

AnyRequest == [method : Method, uri : Uri,
               range : {NoRange, OtherUnit} \cup [start : Bound, end : Bound]]

ASSUME HttpAssumption ==
  /\ Content \in [DOMAIN Content -> Seq(Byte)]
  /\ DOMAIN Content \subseteq Uri
  /\ Cut \in [Uri -> SUBSET Uri]
  /\ \A c \in Client : Request[c] \subseteq AnyRequest
  /\ NoRange # OtherUnit /\ {NoRange, OtherUnit} \cap [start : Bound, end : Bound] = {}
  /\ Empty \notin Nat
  /\ DOMAIN Room = {200, 206} /\ \A s \in {200, 206} : Room[s] \in Nat
  /\ NoClient \notin Client

VARIABLES
  alive,       \* whether the process runs
  client,      \* what each client is doing: what it asked for; what it requests
               \* now, or what it was answered about; how much of it it has sent;
               \* the answer; and whether, as history, a request line was cut
  backlog,     \* connections of each port that wait for accept
  thread,      \* what the thread of each port is doing: whom it serves, how much
               \* it has read, as what it has seen that, and its reply
  trouble      \* history: a client left, or a header cut short ended the process

vars == <<alive, client, backlog, thread, trouble>>

IdleThread == [step |-> "accept", who |-> NoClient, read |-> Nothing,
               seen |-> NoReply, reply |-> NoReply]

HttpInit ==
  /\ alive = TRUE
  /\ client = [c \in Client |->
                [stage |-> "new", port |-> 80, asked |-> NoReply, req |-> NoReply,
                 sent |-> Nothing, cut |-> FALSE, answer |-> NoReply]]
  /\ backlog = [p \in Port |-> <<>>]
  /\ thread = [p \in Port |-> IdleThread]
  /\ trouble = FALSE

-----------------------------------------------------------------------------
(***************************************************************************)
(* Responses.                                                              *)
(***************************************************************************)

\* What snprintf prints of a string with %s: up to a NUL and the buffer's end.
Printed(s, room) ==
  LET stop == {i \in 1..Len(s) : s[i] = Nul \/ i > room}
  IN  IF stop = {} THEN s ELSE SubSeq(s, 1, Min(stop) - 1)

Status(n) == [status |-> n, length |-> 0, body |-> <<>>]

\* Mutated form: the length announced is what was printed.
AnnouncedPrinted(status, bytes) ==
  LET body == Printed(bytes, Room[status])
  IN  [status |-> status, length |-> Len(body), body |-> body]

\* Content-Length and the body of a 200 or a 206
Announced(status, bytes) ==
  [status |-> status, length |-> Len(bytes), body |-> Printed(bytes, Room[status])]

Last(range, size) == IF range.end = Empty THEN size - 1 ELSE range.end

\* The branches that lead to a 416.
Unsatisfiable(range, size) ==
  \/ range.start >= size
  \/ Last(range, size) >= size
  \/ Last(range, size) < range.start

Ranged(range, content) ==
  IF range.start = Empty THEN Status(501)
  ELSE IF Unsatisfiable(range, Len(content)) THEN Status(416)
  ELSE Announced(206,
         SubSeq(content, range.start + 1, Last(range, Len(content)) + 1))

Found(req) == req.method = "GET" /\ req.uri \in DOMAIN Content

\* sscanf takes what has arrived of the two words.  An array for which nothing
\* has arrived was never written: it holds any name, such as an earlier one.
SeenMethod(req, part) ==
  IF part = Nothing THEN Method
  ELSE IF part = Verb THEN {req.method, "other"} ELSE {req.method}

SeenUri(req, part) ==
  IF part <= Verb THEN Uri ELSE IF part = Path THEN Cut[req.uri] ELSE {req.uri}

\* handle_https_request, for a request of which one SSL_read returned this much
Respond(req, part) ==
  IF req.method # "GET" THEN Status(501)
  ELSE IF ~Found(req) THEN Status(404)
  ELSE IF req.range = NoRange \/ part <= Line THEN Announced(200, Content[req.uri])
  ELSE IF req.range = OtherUnit \/ part = Name THEN Status(400)
  ELSE Ranged(req.range, Content[req.uri])

\* strchr finds no dash, or no end of the line, and the pointer is used.
Crashes(req, part) ==
  /\ Found(req) /\ req.range \notin {NoRange, OtherUnit}
  /\ \/ part = Unit
     \/ part = Dash /\ req.range.start # Empty
                    /\ req.range.start < Len(Content[req.uri])

-----------------------------------------------------------------------------
(***************************************************************************)
(* Clients (test.py).                                                      *)
(***************************************************************************)
Dial(c, caller) ==
  /\ alive
  /\ client' = [client EXCEPT ![c] = caller]
  /\ backlog' = [backlog EXCEPT ![caller.port] = Append(@, c)]
  /\ UNCHANGED <<alive, thread, trouble>>

Connect(c, p, r) ==
  /\ client[c].stage = "new"
  /\ Dial(c, [client[c] EXCEPT !.stage = "open", !.port = p, !.asked = r, !.req = r])

\* It follows a 301 to the name it is given, with its other headers unchanged.
Follow(c) ==
  /\ client[c].stage = "redirected"
  /\ Dial(c, [client[c] EXCEPT !.stage = "open", !.port = 443])

\* After the handshake, if there is one, the request goes in one or more pieces.
\* What comes after the one read is never looked at, nor a Range header at port 80.
Send(c) ==
  /\ alive /\ client[c].stage = "open"
  /\ client[c].port = 443 => thread[443].who = c /\ thread[443].step = "read"
  /\ client[c].port = 80 => ~(thread[80].who = c /\ thread[80].step = "write")
  /\ \E part \in Part :
       /\ part > client[c].sent
       /\ part \in {Name, Unit, Dash} => client[c].port = 443 /\ client[c].req.range # NoRange
       /\ client' = [client EXCEPT ![c].sent = part]
  /\ UNCHANGED <<alive, backlog, thread, trouble>>

\* It gives up, and its connection is closed or reset.
Leave(c) ==
  /\ alive /\ client[c].stage = "open"
  /\ client' = [client EXCEPT ![c].stage = "left"]
  /\ trouble' = TRUE
  /\ UNCHANGED <<alive, backlog, thread>>

-----------------------------------------------------------------------------
(***************************************************************************)
(* The threads.                                                            *)
(***************************************************************************)
Served(p) == thread[p].who

Gone(p) == client[Served(p)].stage = "left"

\* accept in http_thread_func and https_thread_func
Accept(p) ==
  /\ alive /\ thread[p].step = "accept" /\ backlog[p] # <<>>
  /\ thread' = [thread EXCEPT ![p] =
                  [@ EXCEPT !.step = IF p = 443 THEN "handshake" ELSE "read",
                            !.who = Head(backlog[p])]]
  /\ backlog' = [backlog EXCEPT ![p] = Tail(@)]
  /\ UNCHANGED <<alive, client, trouble>>

\* exit(1), or a signal, ends both threads and with them every connection.
Exit ==
  /\ alive' = FALSE
  /\ backlog' = [p \in Port |-> <<>>]
  /\ thread' = [p \in Port |-> IdleThread]
  /\ UNCHANGED client

\* SSL_accept, which needs the client
Handshake ==
  /\ alive /\ thread[443].step = "handshake"
  /\ IF Gone(443) THEN Exit /\ UNCHANGED trouble
     ELSE /\ thread' = [thread EXCEPT ![443].step = "read"]
          /\ UNCHANGED <<alive, client, backlog, trouble>>

\* The one read or SSL_read of a request: it fails, or returns what has arrived.
Read(p) ==
  LET req  == client[Served(p)].req
      part == client[Served(p)].sent
  IN  /\ alive /\ thread[p].step = "read"
      /\ part > Nothing \/ Gone(p)
      /\ \/ Gone(p) /\ Exit /\ UNCHANGED trouble
         \/ \E method \in SeenMethod(req, part), uri \in SeenUri(req, part) :
              LET seen == [req EXCEPT !.method = method, !.uri = uri]
              IN  IF p = 443 /\ Crashes(seen, part)
                  THEN Exit /\ trouble' = TRUE
                  ELSE /\ thread' = [thread EXCEPT ![p] =
                           [@ EXCEPT !.step = "write", !.read = part, !.seen = seen,
                              !.reply = IF p = 80 THEN Status(301) ELSE Respond(seen, part)]]
                       /\ UNCHANGED <<alive, client, backlog, trouble>>

\* The connection is closed; whether its request line was read in part stays known.
Closed(cl, t) == [cl EXCEPT !.sent = Nothing, !.cut = @ \/ t.read < Line]

\* Mutated form: the connection stays open when the head announces no length.
AnsweredOpen(cl, t) ==
  IF t.reply.status = 301
  THEN [Closed(cl, t) EXCEPT !.stage = "redirected", !.req.uri = t.seen.uri]
  ELSE IF t.reply.status \in {200, 206}
  THEN [Closed(cl, t) EXCEPT !.stage = "done", !.req = t.seen, !.answer = t.reply]
  ELSE cl

\* What a client has once its connection is closed: a reply, or the name that
\* the server has taken from its request, to ask for at port 443.
Answered(cl, t) ==
  IF t.reply.status = 301
  THEN [Closed(cl, t) EXCEPT !.stage = "redirected", !.req.uri = t.seen.uri]
  ELSE [Closed(cl, t) EXCEPT !.stage = "done", !.req = t.seen, !.answer = t.reply]

\* write or SSL_write, and close.  A client that has left may cost the process a
\* SIGPIPE; what was sent and not read makes the close a reset, which may take
\* the answer with it, and a Host header that was read in part sends the client
\* to another server.
Write(p) ==
  LET c == Served(p)
  IN  /\ alive /\ thread[p].step = "write"
      /\ \/ Gone(p) /\ Exit
         \/ /\ \/ /\ ~Gone(p)
                  /\ client' = [client EXCEPT ![c] = Answered(@, thread[p])]
               \/ /\ Gone(p) \/ thread[p].read # Whole
                  /\ client' = [client EXCEPT ![c].stage = "left", ![c].sent = Nothing]
            /\ thread' = [thread EXCEPT ![p] = IdleThread]
            /\ UNCHANGED <<alive, backlog>>
      /\ UNCHANGED trouble

-----------------------------------------------------------------------------
HttpNext ==
  \/ \E c \in Client, p \in Port : \E r \in Request[c] : Connect(c, p, r)
  \/ \E c \in Client : Follow(c) \/ Send(c) \/ Leave(c)
  \/ \E p \in Port : Accept(p) \/ Read(p) \/ Write(p)
  \/ Handshake

HttpSpec == HttpInit /\ [][HttpNext]_vars

\* The threads are scheduled, and clients go on until they leave.
HttpFairSpec ==
  /\ HttpSpec
  /\ \A p \in Port : WF_vars(Accept(p) \/ (p = 443 /\ Handshake) \/ Read(p) \/ Write(p))
  /\ \A c \in Client : WF_vars(Follow(c) \/ Send(c))

-----------------------------------------------------------------------------
(***************************************************************************)
(* Properties.                                                             *)
(***************************************************************************)

\* The bytes a request is about, when the file has them.
Wanted(req) ==
  LET content == Content[req.uri]
  IN  IF req.range = NoRange THEN content
      ELSE SubSeq(content, req.range.start + 1,
                  IF req.range.end = Empty THEN Len(content) ELSE req.range.end + 1)

\* A body is cut at a NUL byte and at the end of the buffer, and part of a
\* request may be all that is looked at.  A client that has as many bytes as were
\* announced has all of one file, or the range it asked for, and it has as many
\* as were announced when they fit and none is NUL.  Unless its request line was
\* read in part, there or before the redirection, they are of the file it asked for.
AnswerRight ==
  \A c \in Client :
    LET a == client[c].answer
        seen == client[c].req
    IN  client[c].stage = "done" /\ a.status \in {200, 206} =>
          /\ Found(seen)
          /\ LET bytes == IF a.status = 200 THEN Content[seen.uri] ELSE Wanted(seen)
             IN  /\ a.length = Len(a.body) => a.body = bytes
                 /\ Len(bytes) <= Room[a.status] /\ (\A i \in DOMAIN bytes : bytes[i] # Nul)
                      => a.length = Len(a.body)
          /\ ~client[c].cut => seen = client[c].asked

\* One thread serves a port and one exit ends both, yet every client gets its
\* answer, through the redirection too, or loses it with a request read in part,
\* as long as no client leaves and no Range header is cut where it crashes.
EveryClientServed ==
  \A c \in Client :
    client[c].stage \in {"open", "redirected"} ~> client[c].stage \in {"done", "left"} \/ trouble

=============================================================================
