---------------------------- MODULE BoaRequests ----------------------------
(***************************************************************************)
(* The one loop in which boa serves every page and every CGI of the        *)
(* monitor: select.c, queue.c, request.c, with the handlers of read.c,     *)
(* get.c, cgi.c and pipe.c as far as they read, write, block and end.      *)
(*                                                                         *)
(* File descriptors are numbers, given out lowest first, because the sets  *)
(* of select outlive what their bits stood for.  A client's bytes come in  *)
(* units: the first line of a request (the kind of answer it asks for),    *)
(* the rest of its header ("end", or "keep" with Connection: Keep-Alive)   *)
(* and a body.  A header may also not come to its end: at an "odd" line,   *)
(* without a colon or one too many for the environment of a CGI, or when   *)
(* it is "long" and fills client_stream.  What is said to a client is up   *)
(* to two pieces at a time, in the buffer, in the rest of a file, or on    *)
(* its way from a CGI's pipe.                                              *)
(* Time is the age of a request since its time_last: 1 past ka_timeout,    *)
(* 2 past REQUEST_TIMEOUT.                                                 *)
(***************************************************************************)
EXTENDS Integers, SequencesExt

CONSTANTS
    Conn,     \* the connections of the clients
    Scripts,  \* what a client may have to send, sequences of units
    MaxFd,    \* the descriptors of the process, 2 and up are free at first
    Limit,    \* max_connections - 10
    KaMax,    \* KeepAliveMax
    MaxOut,   \* bound on the pieces of output of a CGI
    MaxTerms, \* bound on the SIGTERMs, 1 at most: see Term
    MaxHups   \* bound on the SIGHUPs

\* "huge" is a redirection to a directory with a name too long for the buffer.
Answer == {"page", "file", "cgi", "post", "bad", "huge"}
Unit == Answer \cup {"end", "keep", "odd", "long", "body"}
Fd == 1..MaxFd
server_s == 1

ASSUME BoaAssumption ==
    /\ MaxFd \in Nat \ {0}
    /\ {Limit, KaMax, MaxOut, MaxHups} \subseteq Nat
    /\ MaxTerms \in 0..1
    /\ Scripts \subseteq Seq(Unit)

VARIABLES
    pc,       \* place in select_loop
    ready,    \* request_ready
    block,    \* request_block
    todo,     \* what is left of the queue in this pass of fdset_update or process_requests
    retval,   \* what the handler returned
    fds,      \* block_read_fdset and block_write_fdset
    max_fd,
    pending,  \* pending_requests
    sigterm,  \* sigterm_flag
    sighup,   \* sighup_flag
    hups,     \* SIGHUPs so far
    req,      \* the request of each connection
    peer,     \* the client of each connection
    script, sent,   \* what the client sends, and how much of it is in the socket
    room,     \* whether the socket takes more output
    cgi, said, pipe, \* the CGI process, its pieces so far, whether one is in the pipe
    children  \* CGI processes whose SIGCHLD is to come

loopVars == <<pc, ready, block, todo, retval, fds, max_fd, pending>>
signalVars == <<sigterm, sighup, hups>>
clientVars == <<peer, script, sent, room>>
cgiVars == <<cgi, said, pipe, children>>
vars == <<loopVars, signalVars, req, clientVars, cgiVars>>

NoFds == [read |-> {}, write |-> {}]

\* new_request for the socket f; parsed and taken count units of the client's stream.
\* overruled is history: boa has answered in place of the CGI.
NewRequest(f, kept, parsed, taken) ==
    [fd |-> f, data_fd |-> 0, post_data_fd |-> 0, status |-> "READ",
     logline |-> FALSE, keepalive |-> "inactive", kept |-> kept,
     parsed |-> parsed, taken |-> taken,
     buffered |-> 0, left |-> 0, piece |-> 0, cgi_status |-> "none",
     overruled |-> FALSE, age |-> 0]

Closed == NewRequest(0, 0, 0, 0)

Init ==
    /\ pc = "signals"
    /\ ready = <<>> /\ block = <<>> /\ todo = <<>>
    /\ retval = 0
    /\ fds = NoFds
    /\ max_fd = -1
    /\ pending = FALSE
    /\ sigterm = 0
    /\ sighup = FALSE
    /\ hups = 0
    /\ req = [c \in Conn |-> Closed]
    /\ peer = [c \in Conn |-> "new"]
    /\ script = [c \in Conn |-> <<>>]
    /\ sent = [c \in Conn |-> 0]
    /\ room = [c \in Conn |-> TRUE]
    /\ cgi = [c \in Conn |-> "none"]
    /\ said = [c \in Conn |-> 0]
    /\ pipe = [c \in Conn |-> FALSE]
    /\ children = 0

Up == pc # "down"
Listening == sigterm # 2 /\ Up
Queued == ToSet(ready) \cup ToSet(block)
total_connections == Len(ready) + Len(block)
OpenFds ==
    (IF Listening THEN {server_s} ELSE {})
        \cup ((UNION {{req[c].fd, req[c].data_fd, req[c].post_data_fd} : c \in Queued}) \ {0})
FreeFds == Fd \ OpenFds
Lowest(S) == CHOOSE f \in S : \A g \in S : f <= g
Higher(f, g) == IF f < g THEN g ELSE f
CurrentConn == Head(todo)

\* The queue q without its element c.
Dequeue(q, c) == RemoveAt(q, CHOOSE i \in DOMAIN q : q[i] = c)

----------------------------------------------------------------------------
(* What a request waits for *)

AwaitedFd(r) ==
    CASE r.buffered = 0 /\ r.status = "PIPE_READ" -> r.data_fd
      [] r.buffered = 0 /\ r.status = "BODY_WRITE" -> r.post_data_fd
      [] OTHER -> r.fd

AwaitedSet(r) ==
    IF r.buffered > 0 \/ r.status \in {"WRITE", "PIPE_WRITE", "BODY_WRITE", "DONE"}
    THEN "write" ELSE "read"

Awaits(r, side) == IF AwaitedSet(r) = side THEN {AwaitedFd(r)} ELSE {}

Readable(f) ==
    \/ f = server_s /\ Listening /\ \E c \in Conn : peer[c] = "backlog"
    \/ \E c \in Queued :
         \/ f = req[c].fd /\ (sent[c] > req[c].taken \/ peer[c] = "gone")
         \/ f = req[c].data_fd /\ (pipe[c] \/ cgi[c] = "ended")

Writable(f) ==
    \E c \in Queued :
        \/ f = req[c].fd /\ (room[c] \/ peer[c] = "gone")
        \/ f = req[c].post_data_fd

\* Mutant of FdSet: max_fd is not brought up to date.
FdSetLow(c) ==
    /\ fds' = [side \in {"read", "write"} |-> fds[side] \cup Awaits(req'[c], side)]
    /\ UNCHANGED max_fd

\* BOA_FD_SET for what the request of c waits for.
FdSet(c) ==
    /\ fds' = [side \in {"read", "write"} |-> fds[side] \cup Awaits(req'[c], side)]
    /\ max_fd' = Higher(max_fd, AwaitedFd(req'[c]))

----------------------------------------------------------------------------
(* The head of select_loop: signals, then fdset_update *)

\* sighup_run clears both sets; sigterm_stage1_run closes the server's socket, and the
\* kernel resets who was still waiting there; stage2 ends the program.
Signals ==
    /\ pc = "signals"
    /\ sighup' = FALSE
    /\ IF sigterm = 1
       THEN /\ sigterm' = 2
            /\ fds' = IF sighup THEN NoFds ELSE [fds EXCEPT !.read = @ \ {server_s}]
            /\ peer' = [c \in Conn |-> IF peer[c] = "backlog" THEN "gone" ELSE peer[c]]
       ELSE /\ fds' = IF sighup THEN NoFds ELSE fds
            /\ UNCHANGED <<sigterm, peer>>
    /\ pc' = IF sigterm' = 2 /\ total_connections = 0 THEN "down"
             ELSE IF block = <<>> THEN "first" ELSE "update"
    /\ max_fd' = -1
    /\ todo' = block
    /\ UNCHANGED <<ready, block, retval, pending, hups, req, script, sent, room, cgiVars>>

TimedOut(r) == r.age = 2 \/ (r.kept > 0 /\ r.age >= 1 /\ ~r.logline)

\* Mutant of Expired: only a kept connection times out.
ExpiredOnlyKept(r) == IF TimedOut(r) /\ r.kept > 0 THEN [r EXCEPT !.status = "DEAD"] ELSE r
Expired(r) == IF TimedOut(r) THEN [r EXCEPT !.status = "DEAD"] ELSE r

IsDue(r) == r.status = "DEAD" \/ AwaitedFd(r) \in fds[AwaitedSet(r)]

\* fdset_update: each blocked request in turn.  One that timed out or whose descriptor is
\* ready goes to the head of the ready queue, and its bit is cleared; the others' bits
\* are set.
Update ==
    /\ pc = "update"
    /\ LET c == CurrentConn
       IN /\ req' = [req EXCEPT ![c] = Expired(@)]
          /\ \/ /\ IsDue(req'[c])
                /\ ready' = <<c>> \o ready
                /\ block' = Dequeue(block, c)
                /\ fds' = [side \in {"read", "write"} |-> fds[side] \ Awaits(req'[c], side)]
                /\ UNCHANGED max_fd
             \/ /\ ~IsDue(req'[c])
                /\ FdSet(c)
                /\ UNCHANGED <<ready, block>>
    /\ todo' = Tail(todo)
    /\ pc' = IF todo' = <<>> THEN "first" ELSE "update"
    /\ UNCHANGED <<retval, pending, signalVars, clientVars, cgiVars>>

----------------------------------------------------------------------------
(* process_requests: a pass over the requests that were ready at its start *)

\* get_request.  Without a client in the backlog accept says EAGAIN; without a free
\* descriptor, or once the server's socket is closed, it fails and pending_requests stays.
GetRequest ==
    \/ /\ pending /\ Listening /\ FreeFds # {}
       /\ \E c \in Conn :
            /\ peer[c] = "backlog"
            /\ peer' = [peer EXCEPT ![c] = "open"]
            /\ req' = [req EXCEPT ![c] = NewRequest(Lowest(FreeFds), 0, 0, 0)]
            /\ ready' = <<c>> \o ready
       /\ UNCHANGED pending
    \/ /\ pending /\ Listening /\ FreeFds # {}
       /\ \A c \in Conn : peer[c] # "backlog"
       /\ pending' = FALSE
       /\ UNCHANGED <<ready, req, peer>>
    \/ /\ pending => ~Listening \/ FreeFds = {}
       /\ UNCHANGED <<ready, req, peer, pending>>

FirstAccept ==
    /\ pc = "first"
    /\ GetRequest
    /\ todo' = ready'
    /\ pc' = IF ready' = <<>> THEN "arm" ELSE "handle"
    /\ UNCHANGED <<block, retval, fds, max_fd, signalVars, script, sent, room, cgiVars>>

Accept ==
    /\ pc = "accept"
    /\ GetRequest
    /\ pc' = "settle"
    /\ UNCHANGED <<block, todo, retval, fds, max_fd, signalVars, script, sent, room, cgiVars>>

\* The handler of the current request leaves r behind and returns v.
Handled(r, v) ==
    /\ req' = [req EXCEPT ![CurrentConn] =
                 IF sigterm # 0 THEN [r EXCEPT !.keepalive = "stopped"] ELSE r]
    /\ retval' = v
    /\ pc' = "accept"
    /\ UNCHANGED <<ready, block, todo, fds, max_fd, pending, signalVars,
                   peer, script, sent>>

Squash(r) == [r EXCEPT !.keepalive = "stopped"]
Dead(r) == [r EXCEPT !.status = "DEAD", !.buffered = 0]
Flushed(r, m) == IF m = -1 THEN Dead(r) ELSE [r EXCEPT !.buffered = m]

\* A write of n pieces to the socket of c leaves m of them, or fails (-1); the first ones
\* after the client left succeed.
Write(c, n, m) ==
    \/ peer[c] # "gone" /\ room[c] /\ m = 0 /\ \E b \in BOOLEAN : room' = [room EXCEPT ![c] = b]
    \/ peer[c] # "gone" /\ room[c] /\ m \in 1..n - 1 /\ room' = [room EXCEPT ![c] = FALSE]
    \/ peer[c] # "gone" /\ ~room[c] /\ m = n /\ UNCHANGED room
    \/ peer[c] = "gone" /\ m \in {0, -1} /\ UNCHANGED room

Left == -1..2

\* What a handler that wrote returns, if it returns v when it has written all.
Returns(n, m, v) ==
    CASE m = -1 -> 0
      [] m = n -> -1
      [] m = 0 -> v
      [] OTHER -> 1

\* send_r_bad_request and its like: the answer is buffered, flushed as far as it goes,
\* and the request is over.
Refuse(c, r) ==
    /\ \E m \in Left : Write(c, 2, m) /\ Handled(Squash(Flushed(r, m)), 0)
    /\ UNCHANGED cgiVars

\* init_cgi: a pipe takes two descriptors, of which the lower is read from and kept.
InitCgi(c, r) ==
    \/ /\ Cardinality(FreeFds) >= 2
       /\ Handled([Squash(r) EXCEPT !.status = "PIPE_READ", !.cgi_status = "parse",
                      !.data_fd = Lowest(FreeFds), !.post_data_fd = 0], 1)
       /\ cgi' = [cgi EXCEPT ![c] = "runs"]
       /\ UNCHANGED <<room, said, pipe, children>>
    \/ /\ Cardinality(FreeFds) < 2
       /\ Handled(Squash(r), 0)
       /\ UNCHANGED <<room, cgiVars>>

\* process_header_end, for a header that ends with unit n of the client's stream.
ProcessHeaderEnd(c, n, r) ==
    LET kind == script[c][n - 1]
        post == [r EXCEPT !.status = "BODY_WRITE", !.post_data_fd = Lowest(FreeFds)]
    IN \/ /\ kind = "page"
          /\ \E m \in Left :
                Write(c, 2, m) /\ Handled([Flushed(r, m) EXCEPT !.status = "DONE"], 1)
          /\ UNCHANGED cgiVars
       \/ /\ kind = "file"
          /\ Handled([r EXCEPT !.status = "WRITE", !.buffered = 2, !.left = 2], 1)
          /\ UNCHANGED <<room, cgiVars>>
       \/ kind = "cgi" /\ InitCgi(c, r)
       \/ /\ kind = "post" /\ FreeFds = {}
          /\ Handled(r, 0)
          /\ UNCHANGED <<room, cgiVars>>
       \/ /\ kind = "post" /\ FreeFds # {}
          /\ Handled([post EXCEPT !.left = 1, !.piece = IF r.taken > n THEN 1 ELSE 0], 1)
          /\ UNCHANGED <<room, cgiVars>>
       \/ kind = "post" /\ FreeFds # {} /\ Refuse(c, post)
       \/ kind = "bad" /\ Refuse(c, r)
       \/ /\ kind = "huge"
          /\ Handled([Squash(r) EXCEPT !.status = "DEAD", !.buffered = 1], 0)
          /\ UNCHANGED <<room, cgiVars>>

\* The header is over with unit n of the client's stream: at its end, or at a first line
\* that is none, which is refused at once.  An odd line is not answered, nor is what fills
\* client_stream, whether or not the header asked before for the connection to be kept.
ProcessHeader(c, n) ==
    LET unit == script[c][n]
        r == [req[c] EXCEPT !.parsed = n, !.logline = TRUE]
        first == ~req[c].logline /\ n = req[c].parsed + 1
    IN \/ ~first /\ unit = "end" /\ ProcessHeaderEnd(c, n, r)
       \/ ~first /\ unit = "keep" /\ ProcessHeaderEnd(c, n, [r EXCEPT !.keepalive = "active"])
       \/ first /\ unit # "long" /\ Refuse(c, r)
       \/ /\ ~first /\ unit \notin {"end", "keep", "long"}
          /\ \E ka \in {r.keepalive, "active"} : Handled([r EXCEPT !.keepalive = ka], 0)
          /\ UNCHANGED <<room, cgiVars>>
       \/ /\ unit = "long"
          /\ \E ka \in {r.keepalive, "active"} :
                Handled([r EXCEPT !.keepalive = ka, !.status = "DEAD"], 0)
          /\ UNCHANGED <<room, cgiVars>>

\* What read_header has before it: the unit with which the header it is parsing is over.
HeaderEnd(c) ==
    LET first == req[c].parsed + 1
    IN IF req[c].logline \/ (first <= req[c].taken /\ script[c][first] \notin Answer)
       THEN first ELSE first + 1

\* The current request, in a state and with or without data for its client.
At(statuses, buffered) ==
    /\ pc = "handle"
    /\ req[CurrentConn].status \in statuses
    /\ (req[CurrentConn].buffered > 0) = buffered

\* Whether read finds something, finds the end of the stream, or has to wait.
ReadFinds(c, result) ==
    \/ result = "data" /\ sent[c] > req[c].taken
    \/ result = "eof" /\ sent[c] = req[c].taken /\ peer[c] = "gone"
    \/ result = "nothing" /\ sent[c] = req[c].taken /\ peer[c] # "gone"

\* read_header: parses what is there, and reads if that does not end the header.
ReadHeader ==
    /\ At({"READ"}, FALSE)
    /\ LET c == CurrentConn
           r == [req[c] EXCEPT !.parsed = req[c].taken,
                               !.logline = @ \/ req[c].taken > req[c].parsed]
       IN \/ HeaderEnd(c) <= req[c].taken /\ ProcessHeader(c, HeaderEnd(c))
          \/ /\ HeaderEnd(c) > req[c].taken
             /\ \/ ReadFinds(c, "data") /\ Handled([r EXCEPT !.taken = sent[c]], 1)
                \/ ReadFinds(c, "eof") /\ Handled(r, 0)
                \/ ReadFinds(c, "nothing") /\ Handled(r, -1)
             /\ UNCHANGED <<room, cgiVars>>

ReadBody ==
    /\ At({"BODY_READ"}, FALSE)
    /\ LET c == CurrentConn
           r == req[c]
       IN \/ /\ ReadFinds(c, "data")
             /\ Handled([r EXCEPT !.taken = sent[c], !.piece = 1, !.status = "BODY_WRITE"], 1)
             /\ UNCHANGED <<room, cgiVars>>
          \/ ReadFinds(c, "eof") /\ Refuse(c, r)
          \/ /\ ReadFinds(c, "nothing")
             /\ Handled(r, -1)
             /\ UNCHANGED <<room, cgiVars>>

\* write_body: into a temporary file, which takes everything.
WriteBody ==
    /\ At({"BODY_WRITE"}, FALSE)
    /\ LET c == CurrentConn
           r == req[c]
       IN \/ /\ r.piece > 0
             /\ Handled([r EXCEPT !.piece = 0, !.left = 0], 1)
             /\ UNCHANGED <<room, cgiVars>>
          \/ /\ r.piece = 0 /\ r.left > 0
             /\ Handled([r EXCEPT !.status = "BODY_READ"], 1)
             /\ UNCHANGED <<room, cgiVars>>
          \/ r.piece = 0 /\ r.left = 0 /\ InitCgi(c, r)

\* process_get: the rest of a file that the buffer did not hold.
ProcessGet ==
    /\ At({"WRITE"}, FALSE)
    /\ LET c == CurrentConn
           r == req[c]
       IN \E m \in Left :
            /\ Write(c, r.left, m)
            /\ Handled(IF m = -1 THEN Dead(r) ELSE [r EXCEPT !.left = m], Returns(r.left, m, 0))
    /\ UNCHANGED cgiVars

\* process_cgi_header: header and first output are merged in the buffer and flushed; or the
\* output is left to be written as it is, when it begins with a Status line; or it is
\* dropped for an answer of boa: without a blank line, or for a Location, whose answer
\* may not fit in the buffer; the request is then DONE, whatever became of the answer.
ProcessCgiHeader(c, r) ==
    LET overruled == [r EXCEPT !.overruled = TRUE]
    IN \/ /\ \E m \in Left : Write(c, 2, m) /\ Handled(Flushed([r EXCEPT !.piece = 0], m), 1)
          /\ UNCHANGED cgiVars
       \/ Handled(r, 1) /\ UNCHANGED <<room, cgiVars>>
       \/ Refuse(c, overruled)
       \/ /\ \E m \in Left :
                Write(c, 2, m) /\ Handled([Flushed(overruled, m) EXCEPT !.status = "DONE"], 1)
          /\ UNCHANGED cgiVars
       \/ /\ Handled([overruled EXCEPT !.status = "DONE", !.buffered = 1], 1)
          /\ UNCHANGED <<room, cgiVars>>

\* read_from_pipe: a full buffer, a piece of output, the end of the output, or nothing yet.
ReadFromPipe ==
    /\ At({"PIPE_READ"}, FALSE)
    /\ LET c == CurrentConn
           r == req[c]
           first == r.cgi_status = "parse"
       IN \/ /\ r.piece = 2 /\ first
             /\ ProcessCgiHeader(c, [r EXCEPT !.cgi_status = "buffer"])
          \/ /\ r.piece = 2 /\ ~first
             /\ Handled([r EXCEPT !.status = "PIPE_WRITE"], 1)
             /\ UNCHANGED <<room, cgiVars>>
          \/ /\ r.piece < 2 /\ pipe[c]
             /\ pipe' = [pipe EXCEPT ![c] = FALSE]
             /\ \E p \in 1..2 : Handled([r EXCEPT !.piece = p], 1)
             /\ UNCHANGED <<room, cgi, said, children>>
          \/ /\ r.piece < 2 /\ ~pipe[c] /\ cgi[c] = "ended"
             /\ LET done == [r EXCEPT !.status = "PIPE_WRITE", !.cgi_status = "done"]
                IN \/ first /\ r.piece = 0 /\ Refuse(c, done)
                   \/ first /\ r.piece = 1 /\ ProcessCgiHeader(c, done)
                   \/ ~first /\ Handled(done, 1) /\ UNCHANGED <<room, cgiVars>>
          \/ /\ r.piece < 2 /\ ~pipe[c] /\ cgi[c] = "runs"
             /\ Handled(r, -1)
             /\ UNCHANGED <<room, cgiVars>>

WriteFromPipe ==
    /\ At({"PIPE_WRITE"}, FALSE)
    /\ LET c == CurrentConn
           r == req[c]
       IN \/ /\ r.piece = 0
             /\ IF r.cgi_status = "done" THEN Handled(r, 0)
                ELSE Handled([r EXCEPT !.status = "PIPE_READ"], 1)
             /\ UNCHANGED room
          \/ \E m \in Left :
               /\ r.piece > 0
               /\ Write(c, r.piece, m)
               /\ Handled(IF m = -1 THEN Dead(r) ELSE [r EXCEPT !.piece = m], Returns(r.piece, m, 1))
    /\ UNCHANGED cgiVars

\* Data for the client goes first, whatever the request is at; a DONE one is then over.
Flush ==
    /\ At({"READ", "BODY_READ", "BODY_WRITE", "WRITE", "PIPE_READ", "PIPE_WRITE", "DONE"}, TRUE)
    /\ LET c == CurrentConn
           r == req[c]
       IN \E m \in Left :
            /\ Write(c, r.buffered, m)
            /\ Handled(Flushed(r, m), Returns(r.buffered, m, IF r.status = "DONE" THEN 0 ELSE 1))
    /\ UNCHANGED cgiVars

\* A request that is done and flushed, or dead, is over.
End ==
    /\ \/ At({"DONE"}, FALSE) /\ Handled(req[CurrentConn], 0)
       \/ \E b \in BOOLEAN : At({"DEAD"}, b) /\ Handled(Squash(Dead(req[CurrentConn])), 0)
    /\ UNCHANGED <<room, cgiVars>>

Handle ==
    \/ ReadHeader \/ ReadBody \/ WriteBody \/ ProcessGet
    \/ ReadFromPipe \/ WriteFromPipe \/ Flush \/ End

----------------------------------------------------------------------------
(* What becomes of the request: block_request, free_request, or it stays *)

\* Mutant of BlockRequest: the request stays in the ready queue.
BlockTwice(c) ==
    /\ block' = <<c>> \o block
    /\ UNCHANGED <<ready, req, clientVars, cgiVars>>
    /\ FdSet(c)

BlockRequest(c) ==
    /\ ready' = Dequeue(ready, c)
    /\ block' = <<c>> \o block
    /\ UNCHANGED <<req, clientVars, cgiVars>>
    /\ FdSet(c)

\* Mutant of FreeRequest: a finished request goes although its client has not got it all.
FreeAtOnce(c) ==
    /\ ready' = Dequeue(ready, c)
    /\ req' = [req EXCEPT ![c] = Closed]
    /\ peer' = [peer EXCEPT ![c] = "closed"]
    /\ UNCHANGED <<block, fds, max_fd, script, sent, room, cgiVars>>

\* A request with data for its client becomes DONE and stays; a connection that is kept
\* gets a new request with what was read beyond this one, and waits for more; else the
\* descriptors are closed, their bits left as they are.
FreeRequest(c) ==
    LET r == req[c]
        kept == r.keepalive = "active" /\ r.kept < KaMax
    IN \/ /\ r.buffered > 0 /\ r.status # "DEAD"
          /\ req' = [req EXCEPT ![c].status = "DONE", ![c].age = 0]
          /\ UNCHANGED <<ready, block, fds, max_fd, clientVars, cgiVars>>
       \/ /\ ~(r.buffered > 0 /\ r.status # "DEAD")
          /\ kept
          /\ req' = [req EXCEPT ![c] = NewRequest(r.fd, r.kept + 1, r.parsed, r.taken)]
          /\ ready' = Dequeue(ready, c)
          /\ block' = <<c>> \o block
          /\ UNCHANGED <<clientVars, cgiVars>>
          /\ FdSet(c)
       \/ /\ ~(r.buffered > 0 /\ r.status # "DEAD")
          /\ ~kept
          /\ req' = [req EXCEPT ![c] = Closed]
          /\ ready' = Dequeue(ready, c)
          /\ peer' = [peer EXCEPT ![c] = "closed"]
          /\ script' = [script EXCEPT ![c] = <<>>]
          /\ sent' = [sent EXCEPT ![c] = 0]
          /\ room' = [room EXCEPT ![c] = TRUE]
          /\ cgi' = [cgi EXCEPT ![c] = "none"]
          /\ said' = [said EXCEPT ![c] = 0]
          /\ pipe' = [pipe EXCEPT ![c] = FALSE]
          /\ children' = children + (IF cgi[c] = "runs" THEN 1 ELSE 0)
          /\ UNCHANGED <<block, fds, max_fd>>

Settle ==
    /\ pc = "settle"
    /\ LET c == CurrentConn
       IN \/ retval = -1 /\ BlockRequest(c)
          \/ retval = 0 /\ FreeRequest(c)
          \/ /\ retval = 1
             /\ req' = [req EXCEPT ![c].age = 0]
             /\ UNCHANGED <<ready, block, fds, max_fd, clientVars, cgiVars>>
    /\ todo' = Tail(todo)
    /\ retval' = 0
    /\ pc' = IF todo' = <<>> THEN "arm" ELSE "handle"
    /\ UNCHANGED <<pending, signalVars>>

----------------------------------------------------------------------------
(* The foot of select_loop *)

\* The server's bit is set, below the limit, and select is called.
Arm ==
    /\ pc = "arm"
    /\ IF sigterm = 0 /\ total_connections < Limit
       THEN /\ fds' = [fds EXCEPT !.read = @ \cup {server_s}]
            /\ max_fd' = Higher(max_fd, server_s)
       ELSE UNCHANGED <<fds, max_fd>>
    /\ pc' = "select"
    /\ UNCHANGED <<ready, block, todo, retval, pending, signalVars, req, clientVars, cgiVars>>

Below(S) == {f \in S : f <= max_fd}
IsStale == \E f \in Below(fds.read \cup fds.write) : f \notin OpenFds
ReadyFds == [read |-> {f \in Below(fds.read) : Readable(f)},
             write |-> {f \in Below(fds.write) : Writable(f)}]

Selected(result) ==
    /\ fds' = result
    /\ pending' = (pending \/ server_s \in result.read)
    /\ pc' = "signals"
    /\ UNCHANGED <<ready, block, todo, retval, max_fd, signalVars, req, clientVars, cgiVars>>

\* With a request in the ready queue the timeout is 0.
SelectReturns ==
    /\ pc = "select"
    /\ ~IsStale
    /\ ReadyFds # NoFds \/ ready # <<>>
    /\ Selected(ReadyFds)

\* EBADF is passed over; the sets are as they were.
SelectFails ==
    /\ pc = "select"
    /\ IsStale
    /\ Selected(fds)

\* After ka_timeout, if any request is blocked; without one there is no timeout.
SelectTimesOut ==
    /\ pc = "select"
    /\ ~IsStale
    /\ ReadyFds = NoFds /\ ready = <<>> /\ block # <<>>
    /\ \A c \in ToSet(block) : req[c].age >= 1
    /\ Selected(NoFds)

----------------------------------------------------------------------------
(* The environment: signals, time, clients and CGI processes *)

\* A signal ends a select that sleeps (EINTR: on to the next round, the sets as they were);
\* otherwise the flag waits for the head of the loop.
Interrupt ==
    /\ pc' = IF pc = "select" THEN "signals" ELSE pc
    /\ UNCHANGED <<ready, block, todo, retval, fds, max_fd, pending, req, clientVars>>

\* A second SIGTERM would close the number of the server's socket again, whoever has it.
Term ==
    /\ Up
    /\ sigterm = 0 /\ MaxTerms = 1
    /\ sigterm' = 1
    /\ UNCHANGED <<sighup, hups, cgiVars>>
    /\ Interrupt

Hup ==
    /\ Up
    /\ hups < MaxHups
    /\ hups' = hups + 1
    /\ sighup' = TRUE
    /\ UNCHANGED <<sigterm, cgiVars>>
    /\ Interrupt

\* sigchld_run reaps the process, and changes nothing else.
SigChld ==
    /\ Up
    /\ children > 0
    /\ children' = children - 1
    /\ UNCHANGED <<signalVars, cgi, said, pipe>>
    /\ Interrupt

Elapse(c) ==
    /\ pc = "select"
    /\ c \in Queued
    /\ req[c].age < 2
    /\ req' = [req EXCEPT ![c].age = @ + 1]
    /\ UNCHANGED <<loopVars, signalVars, clientVars, cgiVars>>

\* Clients and processes act at any time; only at these places does the loop look at them.
Looking == pc \in {"handle", "select"}

Connect(c) ==
    /\ Listening /\ pc \in {"first", "accept", "select"}
    /\ peer[c] = "new"
    /\ peer' = [peer EXCEPT ![c] = "backlog"]
    /\ \E s \in Scripts : script' = [script EXCEPT ![c] = s]
    /\ UNCHANGED <<loopVars, signalVars, req, sent, room, cgiVars>>

Send(c) ==
    /\ Looking
    /\ peer[c] \in {"backlog", "open"}
    /\ sent[c] < Len(script[c])
    /\ sent' = [sent EXCEPT ![c] = @ + 1]
    /\ UNCHANGED <<loopVars, signalVars, req, peer, script, room, cgiVars>>

Receive(c) ==
    /\ Looking
    /\ peer[c] = "open"
    /\ ~room[c]
    /\ room' = [room EXCEPT ![c] = TRUE]
    /\ UNCHANGED <<loopVars, signalVars, req, peer, script, sent, cgiVars>>

Leave(c) ==
    /\ Looking
    /\ peer[c] = "open"
    /\ peer' = [peer EXCEPT ![c] = "gone"]
    /\ UNCHANGED <<loopVars, signalVars, req, script, sent, room, cgiVars>>

CgiSays(c) ==
    /\ Looking
    /\ cgi[c] = "runs"
    /\ ~pipe[c]
    /\ said[c] < MaxOut
    /\ pipe' = [pipe EXCEPT ![c] = TRUE]
    /\ said' = [said EXCEPT ![c] = @ + 1]
    /\ UNCHANGED <<loopVars, signalVars, req, clientVars, cgi, children>>

CgiExits(c) ==
    /\ Looking
    /\ cgi[c] = "runs"
    /\ cgi' = [cgi EXCEPT ![c] = "ended"]
    /\ children' = children + 1
    /\ UNCHANGED <<loopVars, signalVars, req, clientVars, said, pipe>>

----------------------------------------------------------------------------

Loop ==
    \/ Signals \/ Update \/ FirstAccept \/ Handle \/ Accept \/ Settle \/ Arm
    \/ SelectReturns \/ SelectFails \/ SelectTimesOut

Next ==
    \/ Loop
    \/ Term \/ Hup \/ SigChld
    \/ \E c \in Conn : \/ Elapse(c) \/ Connect(c) \/ Send(c) \/ Receive(c) \/ Leave(c)
                       \/ CgiSays(c) \/ CgiExits(c)

Spec == Init /\ [][Next]_vars

\* The process runs, and time passes.
Fairness == WF_vars(Loop) /\ \A c \in Conn : SF_vars(Elapse(c))

FairSpec == Spec /\ Fairness

----------------------------------------------------------------------------

TypeOK ==
    /\ pc \in {"signals", "update", "first", "handle", "accept", "settle", "arm", "select", "down"}
    /\ \A q \in {ready, block, todo} : q \in Seq(Conn)
    /\ retval \in -1..1
    /\ fds \in [{"read", "write"} -> SUBSET Fd]
    /\ max_fd \in Fd \cup {-1}
    /\ pending \in BOOLEAN
    /\ sigterm \in 0..2
    /\ sighup \in BOOLEAN
    /\ hups \in 0..MaxHups
    /\ children \in Nat
    /\ \A c \in Conn : /\ peer[c] \in {"new", "backlog", "open", "gone", "closed"}
                       /\ req[c].parsed <= req[c].taken /\ req[c].taken <= sent[c]
                       /\ c \in Queued <=> req[c].fd # 0

\* A request sleeps only while select watches for what it waits for, and max_fd reaches
\* that far: whatever was readied in vain, timed out, kept alive, or swept from the sets
\* by SIGHUP (select.c:111-182, queue.c:36-93, signals.c:167-168).
Watched ==
    pc = "select" =>
        \A c \in ToSet(block) :
            /\ AwaitedFd(req[c]) \in fds[AwaitedSet(req[c])]
            /\ AwaitedFd(req[c]) <= max_fd

\* s is the end of the queue q.
EndOf(s, q) ==
    /\ Len(s) <= Len(q)
    /\ \A i \in 1..Len(s) : s[i] = q[Len(q) - Len(s) + i]

\* The traversals of the two queues, from which requests go while others come
\* (select.c:111-182, request.c:391-498), lose none and meet none twice.
QueuesSound ==
    /\ IsInjective(ready \o block)
    /\ EndOf(todo, IF pc = "update" THEN block ELSE ready)
    /\ pc \in {"update", "handle", "accept", "settle"} <=> todo # <<>>

FdsOf(r) == {r.fd, r.data_fd, r.post_data_fd} \ {0}

\* However often the numbers of sockets, pipes and temporary files are given out again,
\* no two requests hold the same one (request.c:272-361, cgi.c:383-534).
OneOwner == \A c \in Conn : \A d \in Conn \ {c} : FdsOf(req[c]) \cap FdsOf(req[d]) = {}

\* The header that read_header is at fills client_stream, or the answer to it the buffer.
Overfull(c) ==
    script[c][HeaderEnd(c)] = "long" \/ script[c][HeaderEnd(c) - 1] = "huge"

\* What boa has begun to say to a client it says in full (request.c:238-243, 272-361),
\* unless the client left or was late, the request or the answer did not fit
\* (read.c:202-208, buffer.c:46-50), or boa answered in place of the CGI
\* (cgi_header.c:61-73, 85-135); and a request is given up only for one of the first three.
\* A request that ends at an odd line, or without a descriptor, is not answered at all.
AnsweredInFull ==
    [][\A c \in Conn :
         /\ /\ req[c].fd # 0
            /\ req'[c].fd = 0 \/ req'[c].kept > req[c].kept
            => \/ req[c].buffered = 0 /\ req[c].piece = 0 /\ req[c].left = 0
               \/ peer[c] = "gone" \/ req[c].status = "DEAD" \/ req[c].overruled
         /\ req'[c].status = "DEAD" /\ req[c].status # "DEAD"
            => peer[c] = "gone" \/ TimedOut(req[c]) \/ Overfull(c)]_vars

BoaInv == TypeOK /\ QueuesSound /\ OneOwner

\* Every connection comes to its end, whatever its client and its CGI leave undone, and
\* with stale bits in the sets too: the timeouts see to it (select.c:117-130).
EveryConnectionEnds == \A c \in Conn : c \in Queued ~> c \notin Queued

=============================================================================
