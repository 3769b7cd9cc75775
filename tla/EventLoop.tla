------------------------------ MODULE EventLoop ------------------------------
(***************************************************************************)
(* The event loop of the server: Server::main_loop with handle_accept,     *)
(* handle_read, try_one_request, handle_write, conn_destroy, process_timers *)
(* and next_timer_ms, the connections' intrusive idle list, the poll set,  *)
(* the kernel's socket queues and the clients on the other side.           *)
(*                                                                         *)
(* A byte stream is a sequence of units.  A request is the unit "frag" (a  *)
(* part that does not complete it) followed by its kind; "bad" completes a *)
(* request that parse_req refuses and "huge" is a length above MAX_MSG.    *)
(* The store is one key with a deadline: "set" writes it, "get" reads it.  *)
(*                                                                         *)
(* The server is one thread.  Its steps are the system calls and the       *)
(* rounds of its loops; clients and the clock move between any two.  What  *)
(* dereferences a Conn that was deleted sets status to "ub" and the model  *)
(* goes no further.                                                        *)
(***************************************************************************)
EXTENDS Integers, Sequences, FiniteSetsExt, DList

CONSTANTS
  MaxConn,          \* bound: connections ever made
  MaxFd,            \* bound: descriptors the process may have open
  MaxReq,           \* bound: complete requests a client sends
  MaxTime,          \* bound on the clock
  SndBuf,           \* responses the socket buffers of a connection hold
  IDLE_TIMEOUT_MS,
  DEFAULT_TTL_MS,
  Kinds,            \* what clients send: subset of set, get, sdie, bad, huge
  Faults            \* what goes wrong: subset of fin, rst, eintr, enomem

ASSUME BoundAssumption ==
  /\ MaxConn \in Nat \ {0} /\ MaxFd \in Nat \ {0} /\ MaxReq \in Nat
  /\ MaxTime \in Nat /\ SndBuf \in Nat \ {0}
ASSUME TimeAssumption == IDLE_TIMEOUT_MS \in Nat /\ DEFAULT_TTL_MS \in Nat
ASSUME KindAssumption == Kinds \subseteq {"set", "get", "sdie", "bad", "huge"}
ASSUME FaultAssumption == Faults \subseteq {"fin", "rst", "eintr", "enomem"}

Conn == 1 .. MaxConn     \* Conn objects, in the order they are allocated
Fd == 1 .. MaxFd
Null == 0                \* nullptr, and the idle_list node in the links
IdleList == 0
Never == -1              \* the poll timeout -1; an entry that does not exist

VARIABLES
  now,           \* get_monotonic_msec()
  status,        \* "run", "stopped", "null" (end_run), "dead" (die), "killed"
                 \* (SIGPIPE), "ub"
  is_running,
  pc,            \* where main_loop is
  cur,           \* the descriptor main_loop works on
  events,        \* poll_args: what poll is asked for, {} if not polled
  revents,       \* what poll reported and the loop has not dealt with
  wake,          \* when poll times out
  tnow,          \* now_ms of process_timers
  fd2conn,       \* the Conn of a descriptor, or Null
  conn,          \* the Conn objects
  links,         \* their idle_nodes and idle_list
  errno,         \* "none" (0), or the last failed system call's
  deadline,      \* of the one key: its item in ttl_heap, or Never
  backlog,       \* connections to accept
  used,          \* connections accepted so far
  sock           \* the sockets, and what the clients sent and received

server == <<status, is_running, pc, cur, events, revents, wake, tnow, fd2conn,
            conn, links, errno, deadline, used>>
vars == <<now, server, backlog, sock>>

Mut_NewConn(f) ==
  [live |-> TRUE, fd |-> f, want_read |-> TRUE, want_write |-> FALSE,
   want_close |-> FALSE, incoming |-> <<>>, outgoing |-> <<>>,
   last |-> now + IDLE_TIMEOUT_MS]

\* A Conn as `new Conn()` in handle_accept leaves it.
NewConn(f) ==
  [live |-> TRUE, fd |-> f, want_read |-> TRUE, want_write |-> FALSE,
   want_close |-> FALSE, incoming |-> <<>>, outgoing |-> <<>>, last |-> now]

Deleted ==
  [live |-> FALSE, fd |-> 0, want_read |-> FALSE, want_write |-> FALSE,
   want_close |-> FALSE, incoming |-> <<>>, outgoing |-> <<>>, last |-> 0]

NewSock ==
  [rx |-> <<>>, tx |-> <<>>, peer |-> "open", half |-> FALSE,
   asked |-> <<>>, got |-> <<>>]

Live == {c \in Conn : conn[c].live}

\* The list nodes whose memory is valid.
Valid == Live \cup {IdleList}

\* status after a step that dereferences these list nodes.  Nothing is
\* claimed of the other variables once it is "ub".
Dereference(nodes) == status' = IF nodes \subseteq Valid THEN status ELSE "ub"

-----------------------------------------------------------------------------
(* The top of the loop: the poll set and the timeout. *)

\* next_timer_ms, as the moment poll wakes up.
next_timer_ms ==
  LET idle == conn[links.next[IdleList]].last + IDLE_TIMEOUT_MS
      next == IF deadline # Never /\ deadline < idle THEN deadline ELSE idle
  IN  IF Empty(links, IdleList) THEN Never
      ELSE IF next <= now THEN now ELSE next

Mut_Events(c) == {"ERR"} \cup (IF conn[c].want_read THEN {"IN"} ELSE {})

Events(c) ==
  {"ERR"} \cup (IF conn[c].want_read THEN {"IN"} ELSE {})
          \cup (IF conn[c].want_write THEN {"OUT"} ELSE {})

PollBegin ==
  /\ status = "run" /\ pc = "top" /\ is_running
  /\ events' = [f \in Fd |-> IF fd2conn[f] = Null THEN {} ELSE Events(fd2conn[f])]
  /\ wake' = next_timer_ms
  /\ Dereference({links.next[IdleList]})
  /\ pc' = "polling"
  /\ UNCHANGED <<now, is_running, cur, revents, tnow, fd2conn, conn, links, errno,
                 deadline, used, backlog, sock>>

\* What poll reports of descriptor f.
Ready(f) ==
  LET s == sock[fd2conn[f]]
  IN  {e \in events[f] :
         \/ e = "IN" /\ (s.rx # <<>> \/ s.peer # "open")
         \/ e = "OUT" /\ (Len(s.tx) < SndBuf \/ s.peer = "rst")
         \/ e = "ERR" /\ s.peer = "rst"}

\* poll reports what is ready, or that the time is up.
PollReturn ==
  LET r == [f \in Fd |-> IF events[f] = {} THEN {} ELSE Ready(f)]
  IN  /\ status = "run" /\ pc = "polling"
      /\ \/ backlog > 0
         \/ \E f \in Fd : r[f] # {}
         \/ wake # Never /\ now >= wake
      /\ revents' = r
      /\ pc' = IF backlog > 0 THEN "accept" ELSE "conns"
      /\ UNCHANGED <<now, status, is_running, cur, events, wake, tnow, fd2conn,
                     conn, links, errno, deadline, used, backlog, sock>>

\* poll is interrupted by a signal: `continue`.
PollEintr ==
  /\ status = "run" /\ pc = "polling"
  /\ "eintr" \in Faults
  /\ errno' = "EINTR"
  /\ pc' = "top"
  /\ UNCHANGED <<now, status, is_running, cur, events, revents, wake, tnow,
                 fd2conn, conn, links, deadline, used, backlog, sock>>

\* poll fails for another reason: the loop calls die.
PollFails ==
  /\ status = "run" /\ pc = "polling"
  /\ "enomem" \in Faults
  /\ errno' = "ENOMEM"
  /\ status' = "dead"
  /\ UNCHANGED <<now, is_running, pc, cur, events, revents, wake, tnow, fd2conn,
                 conn, links, deadline, used, backlog, sock>>

-----------------------------------------------------------------------------
(* handle_accept, and the entry in fd2conn. *)

FreeFd == {f \in Fd : fd2conn[f] = Null}

\* fd_set_nb looks at errno after an fcntl that succeeded, which leaves errno
\* as the last failed call set it.
fd_set_nb_dies == errno # "none"

Accept ==
  LET f == Min(FreeFd)
      c == used + 1
  IN  /\ status = "run" /\ pc = "accept"
      /\ \/ /\ FreeFd = {}
            /\ errno' = "EMFILE"
            /\ pc' = "conns"
            /\ UNCHANGED <<status, fd2conn, conn, links, used, backlog, sock>>
         \/ /\ FreeFd # {} /\ fd_set_nb_dies
            /\ status' = "dead"
            /\ UNCHANGED <<errno, pc, fd2conn, conn, links, used, backlog, sock>>
         \/ /\ FreeFd # {} /\ ~ fd_set_nb_dies
            /\ used' = c
            /\ backlog' = backlog - 1
            /\ conn' = [conn EXCEPT ![c] = NewConn(f)]
            /\ fd2conn' = [fd2conn EXCEPT ![f] = c]
            /\ sock' = [sock EXCEPT ![c] = NewSock]
            /\ pc' = "conns"
            /\ links' = insert_before(links, c, IdleList)
            /\ Dereference(InsertTouches(links, c, IdleList) \ {c})
            /\ UNCHANGED errno
      /\ UNCHANGED <<now, is_running, cur, events, revents, wake, tnow, deadline>>

-----------------------------------------------------------------------------
(* The loop over the ready connections, in the order of their descriptors. *)

Pending == {f \in Fd : revents[f] # {}}

\* After handle_read, after handle_write, and at the end of the loop.
AfterStart(f) ==
  IF "IN" \in revents[f] THEN "read"
  ELSE IF "OUT" \in revents[f] THEN "write" ELSE "close"

AfterRead(f) == IF "OUT" \in revents[f] THEN "write" ELSE "close"

\* The two calls that should move the connection to the end of idle_list.
\* The second one has its arguments the other way round than handle_accept.
MoveIdle(c) == insert_before(detach(links, c), IdleList, c)

MoveTouches(c) ==
  DetachTouches(links, c) \cup InsertTouches(detach(links, c), IdleList, c)

StartConn ==
  LET f == Min(Pending)
      c == fd2conn[f]
  IN  /\ status = "run" /\ pc = "conns" /\ Pending # {}
      /\ conn' = [conn EXCEPT ![c].last = now]
      /\ links' = MoveIdle(c)
      /\ Dereference(MoveTouches(c))
      /\ cur' = f
      /\ pc' = AfterStart(f)
      /\ UNCHANGED <<now, is_running, events, revents, wake, tnow, fd2conn, errno,
                     deadline, used, backlog, sock>>

ConnsDone ==
  /\ status = "run" /\ pc = "conns" /\ Pending = {}
  /\ tnow' = now
  /\ pc' = "idle"
  /\ UNCHANGED <<now, status, is_running, cur, events, revents, wake, fd2conn,
                 conn, links, errno, deadline, used, backlog, sock>>

\* read, with its three outcomes.
HandleRead ==
  LET c == fd2conn[cur]
      s == sock[c]
  IN  /\ status = "run" /\ pc = "read"
      /\ \/ /\ s.rx # <<>>
            /\ conn' = [conn EXCEPT ![c].incoming = @ \o s.rx]
            /\ sock' = [sock EXCEPT ![c].rx = <<>>]
            /\ pc' = "requests"
            /\ UNCHANGED errno
         \/ /\ s.rx = <<>>
            /\ conn' = [conn EXCEPT ![c].want_close = TRUE]
            /\ errno' = IF s.peer = "rst" THEN "ECONNRESET" ELSE errno
            /\ pc' = AfterRead(cur)
            /\ UNCHANGED sock
      /\ UNCHANGED <<now, status, is_running, cur, events, revents, wake, tnow,
                     fd2conn, links, deadline, used, backlog>>

\* What try_one_request finds at the front of incoming.
Complete(in) == Len(in) >= 2 /\ in[1] = "frag" /\ in[2] # "bad"
Refused(in) == in # <<>> /\ (in[1] = "huge" \/ (Len(in) >= 2 /\ in[2] = "bad"))

\* do_request on the one key: GET answers "val" or "err".
Response(kind) ==
  IF kind # "get" THEN kind ELSE IF deadline = Never THEN "err" ELSE "val"

\* A round of `while (try_one_request(conn));` that answers a request.
TryOneRequest ==
  LET c == fd2conn[cur]
      k == conn[c].incoming[2]
  IN  /\ status = "run" /\ pc = "requests" /\ Complete(conn[c].incoming)
      /\ conn' = [conn EXCEPT ![c].outgoing = Append(@, Response(k)),
                              ![c].incoming = SubSeq(@, 3, Len(@))]
      /\ deadline' = IF k = "set" THEN now + DEFAULT_TTL_MS ELSE deadline
      /\ is_running' = (is_running /\ k # "sdie")
      /\ UNCHANGED <<now, status, pc, cur, events, revents, wake, tnow, fd2conn,
                     links, errno, used, backlog, sock>>

Mut_handle_write(c, r) ==
  LET s == sock[c]
      k == Min({Len(r.outgoing), SndBuf - Len(s.tx)})
      out == SubSeq(r.outgoing, k + 1, Len(r.outgoing))
  IN  /\ sock' = [sock EXCEPT ![c].tx = @ \o SubSeq(r.outgoing, 1, k)]
      /\ conn' = [conn EXCEPT ![c] = [r EXCEPT !.outgoing = out]]
      /\ UNCHANGED <<errno, status>>

Mut_handle_write_resend(c, r) ==
  LET s == sock[c]
      k == Min({Len(r.outgoing), SndBuf - Len(s.tx)})
      out == IF k = Len(r.outgoing) THEN <<>> ELSE r.outgoing
  IN  \/ /\ s.peer = "rst"
         /\ conn' = [conn EXCEPT ![c] = r]
         /\ \/ errno' = "EPIPE" /\ UNCHANGED status
            \/ status' = "killed" /\ UNCHANGED errno
         /\ UNCHANGED sock
      \/ /\ s.peer # "rst" /\ k = 0
         /\ conn' = [conn EXCEPT ![c] = [r EXCEPT !.want_close = TRUE]]
         /\ errno' = "EAGAIN"
         /\ UNCHANGED <<status, sock>>
      \/ /\ s.peer # "rst" /\ k > 0
         /\ sock' = [sock EXCEPT ![c].tx = @ \o SubSeq(r.outgoing, 1, k)]
         /\ conn' = [conn EXCEPT ![c] =
                       IF out # <<>> THEN [r EXCEPT !.outgoing = out]
                       ELSE [r EXCEPT !.outgoing = <<>>, !.want_read = TRUE,
                                      !.want_write = FALSE]]
         /\ UNCHANGED <<errno, status>>

\* handle_write of the connection c in the state r.  The test of errno is the
\* wrong way round: EAGAIN closes the connection, other errors are ignored.
\* Writing to a connection that was reset may also raise SIGPIPE.
handle_write(c, r) ==
  LET s == sock[c]
      k == Min({Len(r.outgoing), SndBuf - Len(s.tx)})
      out == SubSeq(r.outgoing, k + 1, Len(r.outgoing))
  IN  \/ /\ s.peer = "rst"
         /\ conn' = [conn EXCEPT ![c] = r]
         /\ \/ errno' = "EPIPE" /\ UNCHANGED status
            \/ status' = "killed" /\ UNCHANGED errno
         /\ UNCHANGED sock
      \/ /\ s.peer # "rst" /\ k = 0
         /\ conn' = [conn EXCEPT ![c] = [r EXCEPT !.want_close = TRUE]]
         /\ errno' = "EAGAIN"
         /\ UNCHANGED <<status, sock>>
      \/ /\ s.peer # "rst" /\ k > 0
         /\ sock' = [sock EXCEPT ![c].tx = @ \o SubSeq(r.outgoing, 1, k)]
         /\ conn' = [conn EXCEPT ![c] =
                       IF out # <<>> THEN [r EXCEPT !.outgoing = out]
                       ELSE [r EXCEPT !.outgoing = <<>>, !.want_read = TRUE,
                                      !.want_write = FALSE]]
         /\ UNCHANGED <<errno, status>>

Mut_RequestsDone ==
  LET c == fd2conn[cur]
      r == [conn[c] EXCEPT !.want_close = @ \/ Refused(conn[c].incoming)]
  IN  /\ status = "run" /\ pc = "requests"
      /\ \/ /\ r.outgoing # <<>>
            /\ handle_write(c, [r EXCEPT !.want_read = FALSE, !.want_write = TRUE])
         \/ /\ r.outgoing = <<>>
            /\ conn' = [conn EXCEPT ![c] = r]
            /\ UNCHANGED <<status, errno, sock>>
      /\ pc' = AfterRead(cur)
      /\ UNCHANGED <<now, is_running, cur, events, revents, wake, tnow, fd2conn,
                     links, deadline, used, backlog>>

\* The rest of handle_read, once no complete request is left.
RequestsDone ==
  LET c == fd2conn[cur]
      r == [conn[c] EXCEPT !.want_close = @ \/ Refused(conn[c].incoming)]
  IN  /\ status = "run" /\ pc = "requests" /\ ~ Complete(conn[c].incoming)
      /\ \/ /\ r.outgoing # <<>>
            /\ handle_write(c, [r EXCEPT !.want_read = FALSE, !.want_write = TRUE])
         \/ /\ r.outgoing = <<>>
            /\ conn' = [conn EXCEPT ![c] = r]
            /\ UNCHANGED <<status, errno, sock>>
      /\ pc' = AfterRead(cur)
      /\ UNCHANGED <<now, is_running, cur, events, revents, wake, tnow, fd2conn,
                     links, deadline, used, backlog>>

HandleWrite ==
  LET c == fd2conn[cur]
  IN  /\ status = "run" /\ pc = "write"
      /\ handle_write(c, conn[c])
      /\ pc' = "close"
      /\ UNCHANGED <<now, is_running, cur, events, revents, wake, tnow, fd2conn,
                     links, deadline, used, backlog>>

Mut_conn_destroy(c) ==
  /\ links' = detach(links, c)
  /\ conn' = [conn EXCEPT ![c] = Deleted]
  /\ UNCHANGED <<status, fd2conn>>

Mut_conn_destroy_linked(c) ==
  /\ fd2conn' = [fd2conn EXCEPT ![conn[c].fd] = Null]
  /\ conn' = [conn EXCEPT ![c] = Deleted]
  /\ UNCHANGED <<status, links>>

\* conn_destroy.  detach goes through the neighbours' memory.
conn_destroy(c) ==
  /\ fd2conn' = [fd2conn EXCEPT ![conn[c].fd] = Null]
  /\ links' = detach(links, c)
  /\ Dereference(DetachTouches(links, c))
  /\ conn' = [conn EXCEPT ![c] = Deleted]

EndConn ==
  LET c == fd2conn[cur]
  IN  /\ status = "run" /\ pc = "close"
      /\ \/ /\ "ERR" \in revents[cur] \/ conn[c].want_close
            /\ conn_destroy(c)
         \/ /\ "ERR" \notin revents[cur] /\ ~ conn[c].want_close
            /\ UNCHANGED <<status, fd2conn, links, conn>>
      /\ revents' = [revents EXCEPT ![cur] = {}]
      /\ pc' = "conns"
      /\ UNCHANGED <<now, is_running, cur, events, wake, tnow, errno, deadline,
                     used, backlog, sock>>

-----------------------------------------------------------------------------
(* process_timers. *)

\* A round of the first loop: the connection at the front of idle_list.
IdleTimer ==
  LET c == links.next[IdleList]
  IN  /\ status = "run" /\ pc = "idle"
      /\ \/ /\ c # IdleList /\ conn[c].last + IDLE_TIMEOUT_MS < tnow
            /\ conn_destroy(c)
            /\ UNCHANGED pc
         \/ /\ c # IdleList => conn[c].last + IDLE_TIMEOUT_MS >= tnow
            /\ Dereference({c})
            /\ pc' = "ttl"
            /\ UNCHANGED <<fd2conn, links, conn>>
      /\ UNCHANGED <<now, is_running, cur, events, revents, wake, tnow, errno,
                     deadline, used, backlog, sock>>

\* The second loop, on the one key.
TtlTimer ==
  /\ status = "run" /\ pc = "ttl"
  /\ deadline' = IF deadline # Never /\ deadline < tnow THEN Never ELSE deadline
  /\ pc' = "top"
  /\ UNCHANGED <<now, status, is_running, cur, events, revents, wake, tnow, fd2conn,
                 conn, links, errno, used, backlog, sock>>

\* SDIE ends the loop; end_run dereferences the last node of the store even
\* if there is none ("null").
EndRun ==
  /\ status = "run" /\ pc = "top" /\ ~ is_running
  /\ status' = IF deadline = Never THEN "null" ELSE "stopped"
  /\ UNCHANGED <<now, is_running, pc, cur, events, revents, wake, tnow, fd2conn,
                 conn, links, errno, deadline, used, backlog, sock>>

-----------------------------------------------------------------------------
(* The clients and the clock. *)

Connect ==
  /\ used + backlog < MaxConn
  /\ backlog' = backlog + 1
  /\ UNCHANGED <<now, server, sock>>

\* The next unit of a request reaches the socket of c.
Send(c) ==
  LET s == sock[c]
      Put(u, complete) ==
        sock' = [sock EXCEPT ![c] =
                   [s EXCEPT !.rx = Append(@, u), !.half = (u = "frag"),
                             !.asked = IF complete THEN Append(@, u) ELSE @]]
  IN  /\ conn[c].live /\ s.peer = "open" /\ Len(s.asked) < MaxReq
      /\ \/ ~ s.half /\ Put("frag", FALSE)
         \/ ~ s.half /\ "huge" \in Kinds /\ Put("huge", TRUE)
         \/ s.half /\ \E k \in Kinds \ {"huge"} : Put(k, TRUE)
      /\ UNCHANGED <<now, server, backlog>>

\* The client takes a response from its socket.
Receive(c) ==
  /\ sock[c].tx # <<>>
  /\ sock' = [sock EXCEPT ![c].tx = Tail(@), ![c].got = Append(@, Head(sock[c].tx))]
  /\ UNCHANGED <<now, server, backlog>>

\* The client closes, or the connection is reset.
Close(c, how) ==
  /\ conn[c].live /\ how \in Faults
  /\ sock[c].peer = "open" \/ (sock[c].peer = "fin" /\ how = "rst")
  /\ sock' = [sock EXCEPT ![c].peer = how, ![c].tx = IF how = "rst" THEN <<>> ELSE @]
  /\ UNCHANGED <<now, server, backlog>>

Tick ==
  /\ now < MaxTime
  /\ now' = now + 1
  /\ UNCHANGED <<server, backlog, sock>>

-----------------------------------------------------------------------------
Init ==
  /\ now = 0 /\ status = "run" /\ is_running = TRUE /\ pc = "top" /\ cur = 1
  /\ events = [f \in Fd |-> {}] /\ revents = [f \in Fd |-> {}]
  /\ wake = Never /\ tnow = 0
  /\ fd2conn = [f \in Fd |-> Null]
  /\ conn = [c \in Conn |-> Deleted]
  /\ links = Alone(Conn \cup {IdleList})
  /\ errno = "none" /\ deadline = Never /\ backlog = 0 /\ used = 0
  /\ sock = [c \in Conn |-> NewSock]

ServerStep ==
  \/ PollBegin \/ PollReturn \/ Accept \/ StartConn \/ ConnsDone \/ HandleRead
  \/ TryOneRequest \/ RequestsDone \/ HandleWrite \/ EndConn \/ IdleTimer
  \/ TtlTimer \/ EndRun

Environment ==
  /\ status = "run"
  /\ \/ Connect \/ Tick
     \/ \E c \in Conn : \/ Send(c) \/ Receive(c)
                        \/ \E how \in {"fin", "rst"} : Close(c, how)

Next == ServerStep \/ PollEintr \/ PollFails \/ Environment

Spec == Init /\ [][Next]_vars

\* The server's thread runs, signals do not interrupt every poll that has
\* something to report, and the clients read what they are sent.
FairSpec ==
  /\ Spec
  /\ WF_vars(ServerStep)
  /\ SF_vars(PollReturn)
  /\ \A c \in Conn : WF_vars(status = "run" /\ Receive(c))

-----------------------------------------------------------------------------
(* Properties. *)

Unit == {"frag", "set", "get", "sdie", "bad", "huge"}
Reply == Unit \cup {"val", "err"}

ConnRecord ==
  [live : BOOLEAN, fd : Fd \cup {0}, want_read : BOOLEAN, want_write : BOOLEAN,
   want_close : BOOLEAN, incoming : Seq(Unit), outgoing : Seq(Reply), last : Nat]

SockRecord ==
  [rx : Seq(Unit), tx : Seq(Reply), peer : {"open", "fin", "rst"}, half : BOOLEAN,
   asked : Seq(Unit), got : Seq(Reply)]

Node == Conn \cup {IdleList}

\* Every variable has its declared type; no time is later than the clock, and
\* the kernel's queue of responses is within its bound.
TypeOK ==
  /\ now \in 0 .. MaxTime /\ tnow \in 0 .. now
  /\ status \in {"run", "stopped", "null", "dead", "killed", "ub"}
  /\ is_running \in BOOLEAN
  /\ pc \in {"top", "polling", "accept", "conns", "read", "requests", "write",
             "close", "idle", "ttl"}
  /\ cur \in Fd
  /\ events \in [Fd -> SUBSET {"IN", "OUT", "ERR"}]
  /\ revents \in [Fd -> SUBSET {"IN", "OUT", "ERR"}]
  /\ wake \in Nat \cup {Never} /\ deadline \in Nat \cup {Never}
  /\ fd2conn \in [Fd -> Conn \cup {Null}]
  /\ conn \in [Conn -> ConnRecord] /\ sock \in [Conn -> SockRecord]
  /\ links \in [next : [Node -> Node], prev : [Node -> Node]]
  /\ \A c \in Conn : conn[c].last <= now /\ Len(sock[c].tx) <= SndBuf
  /\ used \in 0 .. MaxConn /\ backlog \in 0 .. MaxConn - used

\* The connection the loop is in the middle of.
Busy == IF pc \in {"read", "requests", "write", "close"} THEN {fd2conn[cur]} ELSE {}

\* A connection the loop is done with waits for exactly one thing: to send if
\* it has something to send, to receive otherwise.  (One that waited for
\* neither would never be looked at again; for both, its responses could
\* pile up.)
WaitsForOneThing ==
  \A c \in Live \ Busy :
    /\ conn[c].want_read # conn[c].want_write
    /\ conn[c].want_write <=> conn[c].outgoing # <<>>
    /\ ~ conn[c].want_close

\* No complete request, good or bad, stays in a buffer when the loop goes on
\* to poll: the bytes are out of the socket, so poll would not report them.
NoRequestLeftBehind ==
  \A c \in Live \ Busy :
    ~ Complete(conn[c].incoming) /\ ~ Refused(conn[c].incoming)

\* fd2conn and the live Conns are inverse to each other, and what poll
\* reported still belongs to the connection it was asked about, although
\* connections are accepted and destroyed in between and descriptors reused.
FdTableSound ==
  status = "run" =>
    /\ \A c \in Live : fd2conn[conn[c].fd] = c
    /\ \A f \in Fd :
         /\ fd2conn[f] # Null => fd2conn[f] \in Live /\ conn[fd2conn[f]].fd = f
         /\ revents[f] # {} => fd2conn[f] # Null

\* What a client received answers what it asked, one response per request
\* and in the order of the requests, however reads and writes were cut.
AnswersInOrder ==
  \A c \in Conn :
    LET got == sock[c].got \o sock[c].tx
        asked == sock[c].asked
    IN  /\ Len(got) <= Len(asked)
        /\ \A i \in 1 .. Len(got) :
             got[i] = asked[i] \/ (asked[i] = "get" /\ got[i] \in {"val", "err"})

\* The requests that reached the server are answered, unless the connection
\* is closed or the server ends.  (Clients send finitely many, so all of them
\* must have their response in the end.)
RequestsAnswered ==
  \A c \in Conn :
    Len(sock[c].asked) > Len(sock[c].got) ~>
      (Len(sock[c].asked) = Len(sock[c].got) \/ ~ conn[c].live \/ status # "run")

-----------------------------------------------------------------------------
(* What the idle list and the timers are for.  The next three do not hold   *)
(* once two clients are connected: main_loop calls insert_before with its   *)
(* arguments swapped (MoveIdle).  The README gives an instance for each;    *)
(* with the arguments the right way round they hold there.                  *)

\* The k-th node after the head of idle_list.
NodeAt(k) ==
  LET at[i \in 0 .. MaxConn] == IF i = 0 THEN IdleList ELSE links.next[at[i - 1]]
  IN  at[k]

\* Between two iterations, every connection can be reached from the head of
\* idle_list: process_timers and next_timer_ms see no others.  main_loop
\* takes each connection that has events out of the list and is to insert it
\* again; nothing but conn_destroy removes one for good.
IdleListComplete ==
  status = "run" /\ pc \in {"top", "polling"} =>
    Live \subseteq {NodeAt(k) : k \in 1 .. MaxConn}

\* After the first loop of process_timers no connection is left that has been
\* idle for longer than IDLE_TIMEOUT_MS.
IdleConnsClosed ==
  status = "run" /\ pc = "ttl" =>
    \A c \in Live : conn[c].last + IDLE_TIMEOUT_MS >= tnow

\* While a client is connected, poll never sleeps past the deadline of an
\* entry: otherwise a client gets the value of an entry long expired.
WakesForTtl ==
  status = "run" /\ pc = "polling" /\ Live # {} /\ deadline # Never =>
    wake # Never /\ (wake <= deadline \/ wake <= now)

-----------------------------------------------------------------------------
(* Properties of memory and service. *)

\* The idle list never leads the loop to a Conn that was deleted or does not
\* exist.
MemorySafe == status # "ub"

\* The server does not give up a client that has sent nothing but well-formed
\* requests, is connected and has not been idle.
KeepsGoodClients ==
  status = "run" =>
    \A c \in 1 .. used :
      \/ conn[c].live
      \/ sock[c].peer # "open"
      \/ \E i \in 1 .. Len(sock[c].asked) : sock[c].asked[i] \in {"bad", "huge"}
      \/ now > IDLE_TIMEOUT_MS
=============================================================================
