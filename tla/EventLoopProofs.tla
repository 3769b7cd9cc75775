-------------------------- MODULE EventLoopProofs --------------------------
(***************************************************************************)
(* Proofs about EventLoop, for any number of connections, descriptors,     *)
(* requests and faults: fd2conn and the Conns stay consistent, connections *)
(* wait for the right event with no request forgotten in their buffers,    *)
(* and every client gets its answers in order.  The idle list is not sound *)
(* with more than one connection (see the runs), and nothing of what is    *)
(* proved here depends on it.                                              *)
(***************************************************************************)
EXTENDS EventLoop, SequenceLemmas

\* The points of the loop at which it works on the connection of cur.
Serving == {"read", "requests", "write", "close"}

\* What holds of the table of connections besides FdTableSound.
TableInv ==
  /\ pc = "accept" => backlog > 0
  /\ \A c \in Live : c <= used
  /\ FdTableSound
  /\ status = "run" =>
       /\ \A c \in Live : conn[c].fd \in Fd
       /\ pc \in Serving => revents[cur] # {}
       /\ pc \in {"top", "polling", "idle", "ttl"} => \A f \in Fd : revents[f] = {}
       /\ pc = "polling" => \A f \in Fd : events[f] # {} => fd2conn[f] # Null

\* The connection waits for one thing, or is about to be closed.
Flags(r) == r.want_read # r.want_write /\ (r.want_write <=> r.outgoing # <<>>)

\* What WaitsForOneThing and NoRequestLeftBehind say of one connection.
Settled(r) ==
  Flags(r) /\ ~ r.want_close /\ ~ Complete(r.incoming) /\ ~ Refused(r.incoming)

\* A connection that is being served, at the point p of the loop.
ServedAt(p, r) ==
  /\ p = "read" => Settled(r)
  /\ p = "requests" =>
       ~ r.want_close /\ (r.outgoing = <<>> => r.want_read /\ ~ r.want_write)
  /\ p \in {"write", "close"} =>
       Flags(r) /\ ~ Complete(r.incoming) /\ (Refused(r.incoming) => r.want_close)

WaitInv ==
  /\ WaitsForOneThing /\ NoRequestLeftBehind
  /\ status = "run" /\ pc \in Serving => ServedAt(pc, conn[fd2conn[cur]])

\* The answers a are right for the first Len(a) of the requests q.
Matches(a, q) ==
  /\ Len(a) <= Len(q)
  /\ \A i \in 1 .. Len(a) : a[i] = q[i] \/ (q[i] = "get" /\ a[i] \in {"val", "err"})

NoHuge(s, j) == \A i \in 1 .. j : s[i] # "huge"

\* The units s hold the requests q after the first m, up to the first "huge".
Streams(s, q, m, half) ==
  /\ \A j \in 1 .. Len(s) : NoHuge(s, j) =>
       IF j % 2 = 1 THEN s[j] = "frag"
       ELSE m + j \div 2 <= Len(q) /\ s[j] = q[m + j \div 2]
  /\ \A j \in 1 .. Len(s) : NoHuge(s, j - 1) /\ s[j] = "huge" => j % 2 = 1
  /\ NoHuge(s, Len(s)) =>
       /\ half <=> Len(s) % 2 = 1
       /\ Len(q) = m + Len(s) \div 2

\* All the answers to the client of a connection r with the socket s: received,
\* in the socket, and still to be written.
Answers(r, s) == s.got \o s.tx \o r.outgoing

\* The client has received answers to its first requests.  While the connection
\* lives, all answers are right and its units hold the requests that follow.
\* (After a reset the units and answers in the kernel are gone.)
StreamOK(r, s) ==
  /\ Matches(s.got \o s.tx, s.asked)
  /\ r.live /\ s.peer # "rst" =>
       /\ Matches(Answers(r, s), s.asked)
       /\ Streams(r.incoming \o s.rx, s.asked, Len(Answers(r, s)), s.half)

StreamInv == \A c \in Conn : StreamOK(conn[c], sock[c])

IInv == TypeOK /\ TableInv /\ WaitInv /\ StreamInv

-----------------------------------------------------------------------------
(* Helpers. *)

\* The least of a set of naturals.
LEMMA MinFacts ==
  ASSUME NEW T \in SUBSET Nat, T # {}
  PROVE  Min(T) \in T /\ \A y \in T : Min(T) <= y
<1>1. \E x \in T : \A y \in T : x <= y
  BY LeastNat
<1> QED BY <1>1 DEF Min

\* The smaller of two numbers.
LEMMA MinPair ==
  ASSUME NEW a \in Int, NEW b \in Int
  PROVE  Min({a, b}) = IF a <= b THEN a ELSE b
  BY DEF Min

\* Descriptors and connections are numbers above 0, and there is a descriptor.
LEMMA FdFacts ==
  /\ Fd \in SUBSET Nat /\ Conn \in SUBSET Nat /\ 0 \notin Fd /\ 0 \notin Conn
  /\ MaxConn \in Nat /\ MaxFd \in Nat /\ 1 \in Fd
  BY BoundAssumption DEF Fd, Conn

\* detach and insert_before lead from links to links.
LEMMA LinkTypes ==
  ASSUME NEW l \in [next : [Node -> Node], prev : [Node -> Node]],
         NEW n \in Node, NEW m \in Node
  PROVE  /\ detach(l, n) \in [next : [Node -> Node], prev : [Node -> Node]]
         /\ insert_before(l, n, m) \in [next : [Node -> Node], prev : [Node -> Node]]
  BY DEF detach, insert_before

\* A new connection, a deleted one and a new socket are what TypeOK calls so.
LEMMA RecordTypes ==
  /\ \A f \in Fd, t \in Nat : now = t => NewConn(f) \in ConnRecord
  /\ Deleted \in ConnRecord /\ NewSock \in SockRecord
<1>1. <<>> \in Seq(Unit) /\ <<>> \in Seq(Reply)
  OBVIOUS
<1> QED BY <1>1 DEF NewConn, Deleted, NewSock, ConnRecord, SockRecord

\* What handle_write does to the connection c in the state r and to its
\* socket: they become q and t.
Written(c, r, q, t) ==
  /\ conn' = [conn EXCEPT ![c] = q] /\ sock' = [sock EXCEPT ![c] = t]
  /\ q.live = r.live /\ q.fd = r.fd /\ q.incoming = r.incoming
  /\ q.last = r.last /\ (r.want_close => q.want_close)
  /\ Flags(r) => Flags(q)
  /\ t.rx = sock[c].rx /\ t.peer = sock[c].peer /\ t.half = sock[c].half
  /\ t.asked = sock[c].asked /\ t.got = sock[c].got
  /\ Len(t.tx) <= SndBuf
  /\ status' \in {status, "killed"}
  /\ sock[c].peer = "rst" => t.tx = sock[c].tx
  /\ sock[c].peer # "rst" => t.tx \o q.outgoing = sock[c].tx \o r.outgoing

\* handle_write changes the connection and its socket as Written says,
\* whichever of its error paths it takes.
LEMMA HandleWriteFacts ==
  ASSUME TypeOK, NEW c \in Conn, NEW r \in ConnRecord, handle_write(c, r)
  PROVE  \E q \in ConnRecord, t \in SockRecord : Written(c, r, q, t)
<1> DEFINE s == sock[c]
           k == Min({Len(r.outgoing), SndBuf - Len(s.tx)})
           out == SubSeq(r.outgoing, k + 1, Len(r.outgoing))
<1>1. /\ s \in SockRecord /\ Len(s.tx) <= SndBuf /\ Len(s.tx) \in Nat
      /\ r.outgoing \in Seq(Reply) /\ Len(r.outgoing) \in Nat /\ SndBuf \in Nat
      /\ s.tx \in Seq(Reply) /\ sock = [sock EXCEPT ![c] = s]
  BY BoundAssumption DEF TypeOK, SockRecord, ConnRecord
<1>2. /\ k \in Nat /\ k <= Len(r.outgoing) /\ k <= SndBuf - Len(s.tx)
  <2>1. Len(r.outgoing) \in Int /\ SndBuf - Len(s.tx) \in Int
    BY <1>1
  <2>2. k = IF Len(r.outgoing) <= SndBuf - Len(s.tx) THEN Len(r.outgoing)
            ELSE SndBuf - Len(s.tx)
    BY <2>1, MinPair
  <2> HIDE DEF k
  <2> QED BY <1>1, <2>2
<1>3. \/ /\ s.peer = "rst"
         /\ conn' = [conn EXCEPT ![c] = r]
         /\ status' \in {status, "killed"}
         /\ sock' = sock
      \/ /\ s.peer # "rst" /\ k = 0
         /\ conn' = [conn EXCEPT ![c] = [r EXCEPT !.want_close = TRUE]]
         /\ status' = status /\ sock' = sock
      \/ /\ s.peer # "rst" /\ k > 0
         /\ sock' = [sock EXCEPT ![c].tx = @ \o SubSeq(r.outgoing, 1, k)]
         /\ conn' = [conn EXCEPT ![c] =
                       IF out # <<>> THEN [r EXCEPT !.outgoing = out]
                       ELSE [r EXCEPT !.outgoing = <<>>, !.want_read = TRUE,
                                      !.want_write = FALSE]]
         /\ status' = status
  BY DEF handle_write
<1> HIDE DEF k
<1>4. CASE s.peer = "rst"
  BY <1>1, <1>3, <1>4 DEF Written
<1>5. CASE s.peer # "rst" /\ k = 0
  <2> DEFINE q == [r EXCEPT !.want_close = TRUE]
  <2>1. /\ q \in ConnRecord /\ q.live = r.live /\ q.fd = r.fd
        /\ q.incoming = r.incoming /\ q.last = r.last /\ q.want_close
        /\ q.outgoing = r.outgoing
        /\ q.want_read = r.want_read /\ q.want_write = r.want_write
    BY DEF ConnRecord
  <2>2. conn' = [conn EXCEPT ![c] = q] /\ sock' = sock /\ status' = status
    BY <1>3, <1>5
  <2> HIDE DEF q
  <2> QED BY <1>1, <1>5, <2>1, <2>2 DEF Flags, Written
<1>6. CASE s.peer # "rst" /\ k > 0
  <2> DEFINE q == IF out # <<>> THEN [r EXCEPT !.outgoing = out]
                  ELSE [r EXCEPT !.outgoing = <<>>, !.want_read = TRUE,
                                 !.want_write = FALSE]
             sent == SubSeq(r.outgoing, 1, k)
             t == [s EXCEPT !.tx = s.tx \o sent]
  <2>1. /\ sent \in Seq(Reply) /\ Len(sent) = k
        /\ out \in Seq(Reply) /\ r.outgoing = sent \o out /\ r.outgoing # <<>>
    <3>1. r.outgoing \in Seq(Reply) /\ k \in Nat /\ k <= Len(r.outgoing)
      BY <1>1, <1>2
    <3> DEFINE o == r.outgoing
    <3>2. o \in Seq(Reply) /\ k <= Len(o)
      BY <3>1
    <3> HIDE DEF o
    <3>3. /\ SubSeq(o, 1, k) \in Seq(Reply) /\ Len(SubSeq(o, 1, k)) = k
          /\ SubSeq(o, k + 1, Len(o)) \in Seq(Reply)
          /\ o = SubSeq(o, 1, k) \o SubSeq(o, k + 1, Len(o))
      BY <3>1, <3>2, SplitSeq, ZenonT(30)
    <3>4. o # <<>>
      BY <1>6, <3>1, <3>2
    <3> QED BY <3>3, <3>4 DEF o
  <2>2. /\ s.tx \o sent \in Seq(Reply) /\ Len(s.tx \o sent) <= SndBuf
    BY <1>1, <1>2, <2>1
  <2> HIDE DEF sent, out
  <2>3. /\ t \in SockRecord /\ t.tx = s.tx \o sent /\ t.rx = s.rx
        /\ t.peer = s.peer /\ t.half = s.half /\ t.asked = s.asked /\ t.got = s.got
    BY <1>1, <2>2 DEF SockRecord
  <2>4. /\ q \in ConnRecord /\ q.live = r.live /\ q.fd = r.fd
        /\ q.incoming = r.incoming /\ q.last = r.last /\ q.want_close = r.want_close
        /\ q.outgoing = out
        /\ out = <<>> => q.want_read = TRUE /\ q.want_write = FALSE
        /\ out # <<>> => q.want_read = r.want_read /\ q.want_write = r.want_write
    BY <2>1 DEF ConnRecord
  <2>5. /\ conn' = [conn EXCEPT ![c] = q] /\ status' = status
        /\ sock' = [sock EXCEPT ![c] = t]
    <3>1. sock' = [sock EXCEPT ![c].tx = @ \o sent]
      <4>1. s.peer # "rst" /\ k # 0
        BY <1>2, <1>6
      <4> QED BY <1>3, <4>1, Zenon DEF sent
    <3>2. sock' = [sock EXCEPT ![c] = t]
      BY <3>1
    <3> QED BY <1>3, <1>6, <3>2
  <2> HIDE DEF q, t
  <2>6. Flags(r) => Flags(q)
    BY <2>1, <2>4 DEF Flags
  <2>7. t.tx \o q.outgoing = s.tx \o r.outgoing
    <3>1. (s.tx \o sent) \o out = s.tx \o (sent \o out)
      <4> DEFINE x == s.tx
      <4>1. x \in Seq(Reply)
        BY <1>1
      <4> HIDE DEF x
      <4>2. (x \o sent) \o out = x \o (sent \o out)
        BY <2>1, <4>1, ConcatAssociative
      <4> QED BY <4>2 DEF x
    <3> QED BY <2>1, <2>3, <2>4, <3>1
  <2> QED BY <1>6, <2>2, <2>3, <2>4, <2>5, <2>6, <2>7 DEF Written
<1>7. k = 0 \/ k > 0
  BY <1>2
<1> QED BY <1>4, <1>5, <1>6, <1>7

\* What the client's steps do to its socket.
LEMMA SendFacts ==
  ASSUME TypeOK, NEW c \in Conn, Send(c)
  PROVE  \E t \in SockRecord, u \in Unit :
           /\ sock' = [sock EXCEPT ![c] = t]
           /\ t.rx = Append(sock[c].rx, u) /\ t.tx = sock[c].tx /\ t.got = sock[c].got
           /\ t.peer = sock[c].peer /\ sock[c].peer = "open" /\ t.half = (u = "frag")
           /\ Len(t.tx) <= SndBuf
           /\ \/ ~ sock[c].half /\ u = "frag" /\ t.asked = sock[c].asked
              \/ ~ sock[c].half /\ u = "huge" /\ t.asked = Append(sock[c].asked, u)
              \/ /\ sock[c].half /\ u # "frag" /\ u # "huge"
                 /\ t.asked = Append(sock[c].asked, u)
<1> DEFINE s == sock[c]
           T(u, complete) ==
             [s EXCEPT !.rx = Append(@, u), !.half = (u = "frag"),
                       !.asked = IF complete THEN Append(@, u) ELSE @]
<1>1. /\ s \in SockRecord /\ Len(s.tx) <= SndBuf
      /\ s.rx \in Seq(Unit) /\ s.asked \in Seq(Unit)
  BY DEF TypeOK, SockRecord
<1>2. PICK u \in Unit, complete \in BOOLEAN :
        /\ sock' = [sock EXCEPT ![c] = T(u, complete)]
        /\ s.peer = "open"
        /\ \/ ~ s.half /\ u = "frag" /\ ~ complete
           \/ ~ s.half /\ u = "huge" /\ complete
           \/ s.half /\ u # "frag" /\ u # "huge" /\ complete
  <2>1. \A k \in Kinds : k \in Unit /\ k # "frag"
    BY KindAssumption DEF Unit
  <2>2. "frag" \in Unit /\ "huge" \in Unit
    BY DEF Unit
  <2> QED BY <2>1, <2>2 DEF Send
<1> HIDE DEF s
<1>3. Append(s.rx, u) \in Seq(Unit) /\ Append(s.asked, u) \in Seq(Unit)
  BY <1>1
<1> DEFINE t == T(u, complete)
<1>4. /\ t \in SockRecord /\ t.rx = Append(s.rx, u) /\ t.tx = s.tx /\ t.got = s.got
      /\ t.peer = s.peer /\ t.half = (u = "frag")
      /\ t.asked = IF complete THEN Append(s.asked, u) ELSE s.asked
  BY <1>1, <1>3 DEF SockRecord
<1> HIDE DEF t
<1>5. sock' = [sock EXCEPT ![c] = t]
  BY <1>2 DEF t
<1> QED BY <1>1, <1>2, <1>4, <1>5 DEF s

\* A client that receives moves answers from the socket to what it got.
LEMMA ReceiveFacts ==
  ASSUME TypeOK, NEW c \in Conn, Receive(c)
  PROVE  \E t \in SockRecord :
           /\ sock' = [sock EXCEPT ![c] = t]
           /\ t.rx = sock[c].rx /\ t.asked = sock[c].asked /\ t.half = sock[c].half
           /\ t.peer = sock[c].peer /\ Len(t.tx) <= SndBuf
           /\ t.got \o t.tx = sock[c].got \o sock[c].tx
<1> DEFINE s == sock[c]
           x == s.tx
           g == s.got
           t == [s EXCEPT !.tx = Tail(x), !.got = Append(g, Head(x))]
<1>1. /\ s \in SockRecord /\ x \in Seq(Reply) /\ g \in Seq(Reply) /\ Len(x) <= SndBuf
      /\ x # <<>> /\ sock' = [sock EXCEPT ![c] = t]
  <2>1. c \in DOMAIN sock
    BY DEF TypeOK
  <2> QED BY <2>1 DEF TypeOK, SockRecord, Receive
<1>2. /\ Tail(x) \in Seq(Reply) /\ Head(x) \in Reply /\ Len(Tail(x)) = Len(x) - 1
      /\ Len(x) \in Nat /\ SndBuf \in Nat
  BY <1>1, BoundAssumption
<1> HIDE DEF s, x, g
<1>3. Append(g, Head(x)) \in Seq(Reply) /\ Len(Tail(x)) <= SndBuf
  BY <1>1, <1>2
<1>4. /\ t \in SockRecord /\ t.rx = s.rx /\ t.asked = s.asked /\ t.half = s.half
      /\ t.peer = s.peer /\ t.tx = Tail(x) /\ t.got = Append(g, Head(x))
  BY <1>1, <1>2, <1>3 DEF SockRecord
<1>5. Append(g, Head(x)) \o Tail(x) = g \o x
  <2> DEFINE l == Append(g, Head(x)) \o Tail(x)
             m == g \o x
  <2>1. /\ l \in Seq(Reply) /\ Len(l) = Len(g) + Len(x)
        /\ m \in Seq(Reply) /\ Len(m) = Len(g) + Len(x)
    BY <1>1, <1>2, <1>3
  <2>2. ASSUME NEW i \in 1 .. Len(l) PROVE l[i] = m[i]
    BY <1>1, <1>2, <1>3, <2>1
  <2> HIDE DEF l, m
  <2>3. l = m
    BY <2>1, <2>2, SeqEqual
  <2> QED BY <2>3 DEF l, m
<1> HIDE DEF t
<1> QED BY <1>1, <1>3, <1>4, <1>5 DEF s, x, g

\* A client that closes its end keeps what it got; a reset drops what was on
\* its way.
LEMMA CloseFacts ==
  ASSUME TypeOK, NEW c \in Conn, NEW how \in {"fin", "rst"}, Close(c, how)
  PROVE  \E t \in SockRecord :
           /\ sock' = [sock EXCEPT ![c] = t]
           /\ t.rx = sock[c].rx /\ t.asked = sock[c].asked /\ t.half = sock[c].half
           /\ t.peer = how /\ t.got = sock[c].got /\ Len(t.tx) <= SndBuf
           /\ t.tx = IF how = "rst" THEN <<>> ELSE sock[c].tx
           /\ sock[c].peer # "rst"
<1> DEFINE s == sock[c]
           x == IF how = "rst" THEN <<>> ELSE s.tx
           t == [s EXCEPT !.peer = how, !.tx = x]
<1>1. /\ s \in SockRecord /\ s.tx \in Seq(Reply) /\ Len(s.tx) <= SndBuf
      /\ sock' = [sock EXCEPT ![c] = t] /\ s.peer # "rst"
  <2>1. c \in DOMAIN sock
    BY DEF TypeOK
  <2> QED BY <2>1 DEF TypeOK, SockRecord, Close
<1>2. x \in Seq(Reply) /\ Len(x) <= SndBuf
  BY <1>1, BoundAssumption
<1> HIDE DEF s, x
<1>3. /\ t \in SockRecord /\ t.rx = s.rx /\ t.asked = s.asked /\ t.half = s.half
      /\ t.peer = how /\ t.got = s.got /\ t.tx = x
  BY <1>1, <1>2 DEF SockRecord
<1> HIDE DEF t
<1> QED BY <1>1, <1>2, <1>3 DEF s, x

-----------------------------------------------------------------------------
(* Types. *)

\* A step that replaces the record of one connection keeps the types.
LEMMA ConnTypes ==
  ASSUME TypeOK, NEW c \in Conn, NEW q \in ConnRecord, q.last <= now,
         conn' = [conn EXCEPT ![c] = q]
  PROVE  conn' \in [Conn -> ConnRecord] /\ \A d \in Conn : conn'[d].last <= now
  BY DEF TypeOK

\* One socket replaced by another.
LEMMA SockTypes ==
  ASSUME TypeOK, NEW c \in Conn, NEW t \in SockRecord, Len(t.tx) <= SndBuf,
         sock' = [sock EXCEPT ![c] = t]
  PROVE  sock' \in [Conn -> SockRecord] /\ \A d \in Conn : Len(sock'[d].tx) <= SndBuf
  BY DEF TypeOK

\* handle_write keeps the types of connections and sockets.
LEMMA WriteTypes ==
  ASSUME TypeOK, NEW c \in Conn, NEW r \in ConnRecord, r.last <= now, handle_write(c, r)
  PROVE  /\ conn' \in [Conn -> ConnRecord] /\ \A d \in Conn : conn'[d].last <= now
         /\ sock' \in [Conn -> SockRecord] /\ \A d \in Conn : Len(sock'[d].tx) <= SndBuf
         /\ status' \in {status, "killed"}
<1>1. PICK q \in ConnRecord, t \in SockRecord : Written(c, r, q, t)
  BY HandleWriteFacts
<1>2. q.last <= now /\ Len(t.tx) <= SndBuf /\ status' \in {status, "killed"}
  BY <1>1 DEF Written
<1>3. conn' = [conn EXCEPT ![c] = q] /\ sock' = [sock EXCEPT ![c] = t]
  BY <1>1 DEF Written
<1> QED BY <1>2, <1>3, ConnTypes, SockTypes

\* handle_read's last steps: a connection whose bytes are refused is to be
\* closed, one with responses waits to send them.
Refusing(r) == [r EXCEPT !.want_close = @ \/ Refused(r.incoming)]
Sending(r) == [r EXCEPT !.want_read = FALSE, !.want_write = TRUE]

\* What the end of handle_read makes of the flags of a connection.
LEMMA RefusingFacts ==
  ASSUME NEW r \in ConnRecord
  PROVE  LET q == Refusing(r)
             w == Sending(q)
         IN  /\ q \in ConnRecord /\ w \in ConnRecord
             /\ q.live = r.live /\ q.fd = r.fd /\ q.last = r.last
             /\ q.incoming = r.incoming /\ q.outgoing = r.outgoing
             /\ q.want_close = (r.want_close \/ Refused(r.incoming))
             /\ q.want_read = r.want_read /\ q.want_write = r.want_write
             /\ w.live = r.live /\ w.fd = r.fd /\ w.last = r.last
             /\ w.incoming = r.incoming /\ w.outgoing = r.outgoing
             /\ w.want_close = q.want_close /\ w.want_read = FALSE /\ w.want_write = TRUE
<1>1. Refused(r.incoming) \in BOOLEAN
  BY DEF Refused
<1> QED BY <1>1 DEF ConnRecord, Refusing, Sending

\* conn_destroy, of a Conn that may already have been deleted.
LEMMA DestroyTypes ==
  ASSUME TypeOK, NEW c \in Conn, conn_destroy(c)
  PROVE  /\ conn' \in [Conn -> ConnRecord] /\ \A d \in Conn : conn'[d].last <= now
         /\ fd2conn' \in [Fd -> Conn \cup {Null}]
         /\ links' \in [next : [Node -> Node], prev : [Node -> Node]]
         /\ status' \in {status, "ub"}
<1>1. Deleted \in ConnRecord /\ Deleted.last <= now
  <2>1. Deleted.last = 0
    BY DEF Deleted
  <2> QED BY <2>1, RecordTypes DEF TypeOK
<1>2. /\ conn' = [conn EXCEPT ![c] = Deleted]
      /\ fd2conn' = [fd2conn EXCEPT ![conn[c].fd] = Null]
      /\ links' = detach(links, c) /\ status' \in {status, "ub"}
  BY DEF conn_destroy, Dereference
<1>3. conn' \in [Conn -> ConnRecord] /\ \A d \in Conn : conn'[d].last <= now
  BY <1>1, <1>2, ConnTypes
<1>4. fd2conn' \in [Fd -> Conn \cup {Null}]
  BY <1>2 DEF TypeOK
<1>5. links' \in [next : [Node -> Node], prev : [Node -> Node]]
  BY <1>2, LinkTypes DEF TypeOK, Node
<1> QED BY <1>2, <1>3, <1>4, <1>5

\* The connection that the loop works on, and the one it takes up next.
LEMMA ServedConn ==
  ASSUME TypeOK, TableInv, status = "run", pc \in Serving
  PROVE  fd2conn[cur] \in Conn /\ conn[fd2conn[cur]].live /\ conn[fd2conn[cur]].fd = cur
  BY FdFacts DEF TypeOK, TableInv, FdTableSound, Live, Null

\* The first descriptor with an event belongs to a live connection.
LEMMA NextConn ==
  ASSUME TypeOK, TableInv, status = "run", Pending # {}
  PROVE  LET f == Min(Pending)
         IN  /\ f \in Fd /\ revents[f] # {} /\ fd2conn[f] \in Conn
             /\ conn[fd2conn[f]].live /\ conn[fd2conn[f]].fd = f
<1> DEFINE f == Min(Pending)
<1>1. Pending \in SUBSET Nat
  BY FdFacts DEF Pending
<1>2. f \in Fd /\ revents[f] # {}
  <2>1. f \in Pending
    BY <1>1, MinFacts
  <2> QED BY <2>1 DEF Pending
<1> HIDE DEF f
<1>3. /\ f \in Fd /\ revents[f] # {} /\ fd2conn[f] \in Conn
      /\ conn[fd2conn[f]].live /\ conn[fd2conn[f]].fd = f
  BY <1>2 DEF TypeOK, TableInv, FdTableSound, Live, Null
<1> QED BY <1>3 DEF f

\* The descriptor and the Conn of an accepted connection.
LEMMA NewFd ==
  ASSUME TypeOK, TableInv, pc = "accept", FreeFd # {}
  PROVE  /\ Min(FreeFd) \in Fd /\ fd2conn[Min(FreeFd)] = Null
         /\ used + 1 \in Conn /\ used + 1 \in 0 .. MaxConn
         /\ backlog - 1 \in 0 .. MaxConn - (used + 1)
         /\ ~ conn[used + 1].live
<1>1. FreeFd \in SUBSET Nat
  BY FdFacts DEF FreeFd
<1>2. Min(FreeFd) \in FreeFd
  BY <1>1, MinFacts
<1>3. /\ used + 1 \in Conn /\ used + 1 \in 0 .. MaxConn
      /\ backlog - 1 \in 0 .. MaxConn - (used + 1)
  BY FdFacts DEF TypeOK, TableInv, Conn
<1>4. ~ (used + 1 <= used)
  BY DEF TypeOK
<1>5. ~ conn[used + 1].live
  BY <1>3, <1>4 DEF TableInv, Live
<1> QED BY <1>2, <1>3, <1>5 DEF FreeFd

\* The types hold at first.
LEMMA TypeInit == Init => TypeOK
<1> SUFFICES ASSUME Init PROVE TypeOK
  OBVIOUS
<1>1. Deleted \in ConnRecord /\ Deleted.last = 0 /\ NewSock \in SockRecord
  BY RecordTypes DEF Deleted
<1>2. NewSock.tx = <<>> /\ Len(<<>>) = 0
  BY DEF NewSock
<1>3. links \in [next : [Node -> Node], prev : [Node -> Node]]
  BY DEF Init, Alone, Node
<1>4. conn \in [Conn -> ConnRecord] /\ \A c \in Conn : conn[c].last = 0
  BY <1>1 DEF Init
<1>5. sock \in [Conn -> SockRecord] /\ \A c \in Conn : Len(sock[c].tx) = 0
  BY <1>1, <1>2 DEF Init
<1> HIDE DEF Init
<1>6. /\ now \in 0 .. MaxTime /\ tnow \in 0 .. now /\ now = 0
      /\ used \in 0 .. MaxConn /\ backlog \in 0 .. MaxConn - used /\ cur \in Fd
  BY BoundAssumption, FdFacts DEF Init
<1>7. \A c \in Conn : conn[c].last <= now /\ Len(sock[c].tx) <= SndBuf
  BY <1>4, <1>5, <1>6, BoundAssumption
<1> QED BY <1>3, <1>4, <1>5, <1>6, <1>7 DEF Init, TypeOK, Never, Null

\* Every step of the loop, the clients and the clock keeps the types.
LEMMA TypeStep == TypeOK /\ TableInv /\ [Next]_vars => TypeOK'
<1> SUFFICES ASSUME TypeOK, TableInv, [Next]_vars PROVE TypeOK'
  OBVIOUS
<1> USE FdFacts
<1>0. \A f \in Fd : AfterStart(f) \in {"read", "write", "close"}
                    /\ AfterRead(f) \in {"write", "close"}
  BY DEF AfterStart, AfterRead
<1>1. CASE PollBegin
  <2>1. events' \in [Fd -> SUBSET {"IN", "OUT", "ERR"}]
    BY <1>1 DEF PollBegin, Events
  <2>2. wake' \in Nat \cup {Never}
    BY <1>1, TimeAssumption DEF PollBegin, next_timer_ms, TypeOK, Empty, Node, ConnRecord, IdleList, Never
  <2> QED BY <1>1, <2>1, <2>2 DEF PollBegin, Dereference, TypeOK
<1>2. CASE PollReturn
  <2>1. revents' \in [Fd -> SUBSET {"IN", "OUT", "ERR"}]
    BY <1>2 DEF PollReturn, Ready, TypeOK
  <2> QED BY <1>2, <2>1 DEF PollReturn, TypeOK
<1>3. CASE Accept
  <2>1. CASE FreeFd = {}
    BY <1>3, <2>1 DEF Accept, TypeOK
  <2>2. CASE FreeFd # {} /\ fd_set_nb_dies
    BY <1>3, <2>2 DEF Accept, TypeOK
  <2>3. CASE FreeFd # {} /\ ~ fd_set_nb_dies
    <3> DEFINE f == Min(FreeFd)
               c == used + 1
    <3>1. /\ used' = c /\ backlog' = backlog - 1
          /\ conn' = [conn EXCEPT ![c] = NewConn(f)]
          /\ fd2conn' = [fd2conn EXCEPT ![f] = c]
          /\ sock' = [sock EXCEPT ![c] = NewSock]
          /\ pc' = "conns" /\ links' = insert_before(links, c, IdleList)
          /\ status' \in {status, "ub"} /\ pc = "accept"
      BY <1>3, <2>3 DEF Accept, Dereference
    <3>2. /\ f \in Fd /\ c \in Conn /\ used' \in 0 .. MaxConn
          /\ backlog' \in 0 .. MaxConn - used'
      BY <2>3, <3>1, NewFd
    <3> HIDE DEF f, c
    <3>3. conn' \in [Conn -> ConnRecord] /\ \A d \in Conn : conn'[d].last <= now
      <4>1. now \in Nat /\ NewConn(f).last = now
        BY DEF NewConn, TypeOK
      <4>2. NewConn(f) \in ConnRecord /\ NewConn(f).last <= now
        BY <3>2, <4>1, RecordTypes
      <4> QED BY <3>1, <3>2, <4>2, ConnTypes
    <3>4. sock' \in [Conn -> SockRecord] /\ \A d \in Conn : Len(sock'[d].tx) <= SndBuf
      <4>1. NewSock.tx = <<>> /\ Len(<<>>) = 0
        BY DEF NewSock
      <4>2. NewSock \in SockRecord /\ Len(NewSock.tx) <= SndBuf
        BY <4>1, RecordTypes, BoundAssumption
      <4> QED BY <3>1, <3>2, <4>2, SockTypes
    <3>5. links' \in [next : [Node -> Node], prev : [Node -> Node]]
      BY <3>1, <3>2, LinkTypes DEF Node, TypeOK
    <3>6. fd2conn' \in [Fd -> Conn \cup {Null}]
      BY <3>1, <3>2 DEF TypeOK
    <3> QED BY <1>3, <2>3, <3>1, <3>2, <3>3, <3>4, <3>5, <3>6 DEF Accept, TypeOK
  <2> QED BY <2>1, <2>2, <2>3
<1>4. CASE StartConn
  <2> DEFINE f == Min(Pending)
             c == fd2conn[f]
             q == [conn[c] EXCEPT !.last = now]
  <2>1. f \in Fd /\ c \in Conn
    BY <1>4, NextConn DEF StartConn
  <2>2. /\ conn' = [conn EXCEPT ![c] = q] /\ links' = MoveIdle(c)
        /\ status' \in {status, "ub"} /\ cur' = f /\ pc' = AfterStart(f)
    BY <1>4 DEF StartConn, Dereference
  <2> HIDE DEF f, c
  <2>3. q \in ConnRecord /\ q.last <= now
    <3>1. conn[c] \in ConnRecord /\ now \in Nat
      BY <2>1 DEF TypeOK
    <3> QED BY <3>1, SMTT(30) DEF ConnRecord
  <2> HIDE DEF q
  <2>4. conn' \in [Conn -> ConnRecord] /\ \A d \in Conn : conn'[d].last <= now
    BY <2>1, <2>2, <2>3, ConnTypes
  <2>5. links' \in [next : [Node -> Node], prev : [Node -> Node]]
    <3>1. c \in Node /\ IdleList \in Node
      BY <2>1 DEF Node
    <3>2. detach(links, c) \in [next : [Node -> Node], prev : [Node -> Node]]
      BY <3>1, LinkTypes DEF TypeOK
    <3> QED BY <2>2, <3>1, <3>2, LinkTypes DEF MoveIdle
  <2> QED BY <1>0, <1>4, <2>1, <2>2, <2>4, <2>5 DEF StartConn, TypeOK
<1>5. CASE ConnsDone
  BY <1>5 DEF ConnsDone, TypeOK
<1>6. CASE HandleRead
  <2> DEFINE c == fd2conn[cur]
             s == sock[c]
  <2>1. c \in Conn
    BY <1>6, ServedConn DEF HandleRead, Serving
  <2>2. pc' \in {"requests", "write", "close"} /\ cur \in Fd
    BY <1>0, <1>6 DEF HandleRead, TypeOK
  <2>3. \E q \in ConnRecord, t \in SockRecord :
          /\ conn' = [conn EXCEPT ![c] = q] /\ sock' = [sock EXCEPT ![c] = t]
          /\ q.last <= now /\ Len(t.tx) <= SndBuf
    <3>1. CASE s.rx # <<>>
      <4>1. /\ conn' = [conn EXCEPT ![c].incoming = @ \o s.rx]
            /\ sock' = [sock EXCEPT ![c].rx = <<>>]
        BY <1>6, <3>1 DEF HandleRead
      <4> DEFINE q == [conn[c] EXCEPT !.incoming = @ \o s.rx]
                 t == [s EXCEPT !.rx = <<>>]
      <4>2. conn' = [conn EXCEPT ![c] = q] /\ sock' = [sock EXCEPT ![c] = t]
        BY <4>1
      <4>3. /\ conn[c].incoming \in Seq(Unit) /\ s.rx \in Seq(Unit)
            /\ conn[c] \in ConnRecord /\ s \in SockRecord
            /\ conn[c].last <= now /\ Len(s.tx) <= SndBuf
        BY <2>1 DEF TypeOK, ConnRecord, SockRecord
      <4>4. conn[c].incoming \o s.rx \in Seq(Unit) /\ <<>> \in Seq(Unit)
        BY <4>3
      <4> HIDE DEF c, s
      <4>5. q \in ConnRecord /\ t \in SockRecord /\ q.last <= now /\ Len(t.tx) <= SndBuf
        BY <4>3, <4>4 DEF ConnRecord, SockRecord
      <4> QED BY <4>2, <4>5
    <3>2. CASE s.rx = <<>>
      <4> DEFINE q == [conn[c] EXCEPT !.want_close = TRUE]
      <4>1. conn' = [conn EXCEPT ![c] = q] /\ sock' = [sock EXCEPT ![c] = s]
        BY <1>6, <3>2 DEF HandleRead, TypeOK
      <4>2. /\ q \in ConnRecord /\ s \in SockRecord /\ q.last <= now
            /\ Len(s.tx) <= SndBuf
        <5>1. /\ conn[c] \in ConnRecord /\ s \in SockRecord /\ conn[c].last <= now
              /\ Len(s.tx) <= SndBuf
          BY <2>1 DEF TypeOK
        <5> HIDE DEF c, s
        <5> QED BY <5>1 DEF ConnRecord
      <4> QED BY <4>1, <4>2
    <3> QED BY <3>1, <3>2
  <2> HIDE DEF c, s
  <2>4. conn' \in [Conn -> ConnRecord] /\ \A d \in Conn : conn'[d].last <= now
    BY <2>1, <2>3, ConnTypes
  <2>5. sock' \in [Conn -> SockRecord] /\ \A d \in Conn : Len(sock'[d].tx) <= SndBuf
    BY <2>1, <2>3, SockTypes
  <2> QED BY <1>6, <2>2, <2>4, <2>5 DEF HandleRead, TypeOK
<1>7. CASE TryOneRequest
  <2> DEFINE c == fd2conn[cur]
             k == conn[c].incoming[2]
             q == [conn[c] EXCEPT !.outgoing = Append(@, Response(k)),
                                  !.incoming = SubSeq(@, 3, Len(@))]
  <2>1. c \in Conn
    BY <1>7, ServedConn DEF TryOneRequest, Serving
  <2>2. /\ conn' = [conn EXCEPT ![c] = q] /\ Complete(conn[c].incoming)
        /\ deadline' = IF k = "set" THEN now + DEFAULT_TTL_MS ELSE deadline
        /\ is_running' = (is_running /\ k # "sdie")
    <3>1. c \in DOMAIN conn
      BY <2>1 DEF TypeOK
    <3> QED BY <1>7, <3>1 DEF TryOneRequest
  <2>3. /\ conn[c] \in ConnRecord /\ conn[c].incoming \in Seq(Unit)
        /\ conn[c].outgoing \in Seq(Reply) /\ conn[c].last <= now
    BY <2>1 DEF TypeOK, ConnRecord
  <2>4. deadline' \in Nat \cup {Never} /\ is_running' \in BOOLEAN
    BY <2>2, TimeAssumption DEF TypeOK
  <2> HIDE DEF c
  <2>5. q \in ConnRecord /\ q.last <= now
    <3>1. k \in Unit
      BY <2>2, <2>3 DEF Complete
    <3>2. Response(k) \in Reply
      BY <3>1 DEF Response, Reply
    <3> HIDE DEF k
    <3>3. Append(conn[c].outgoing, Response(k)) \in Seq(Reply)
      BY <2>3, <3>2
    <3>4. SubSeq(conn[c].incoming, 3, Len(conn[c].incoming)) \in Seq(Unit)
      BY <2>2, <2>3 DEF Complete
    <3> QED BY <2>3, <3>3, <3>4 DEF ConnRecord
  <2> HIDE DEF q, k
  <2>6. conn' \in [Conn -> ConnRecord] /\ \A d \in Conn : conn'[d].last <= now
    BY <2>1, <2>2, <2>5, ConnTypes
  <2> QED BY <1>7, <2>4, <2>6 DEF TryOneRequest, TypeOK
<1>8. CASE RequestsDone
  <2> DEFINE c == fd2conn[cur]
  <2>1. c \in Conn
    BY <1>8, ServedConn DEF RequestsDone, Serving
  <2>2. pc' \in {"write", "close"}
    BY <1>0, <1>8 DEF RequestsDone, TypeOK
  <2>3. \/ conn' = [conn EXCEPT ![c] = Refusing(conn[c])] /\ UNCHANGED <<status, sock>>
        \/ handle_write(c, Sending(Refusing(conn[c])))
    BY <1>8 DEF RequestsDone, Refusing, Sending
  <2>4. /\ conn[c] \in ConnRecord /\ conn[c].last <= now
        /\ sock \in [Conn -> SockRecord] /\ \A d \in Conn : Len(sock[d].tx) <= SndBuf
    BY <2>1 DEF TypeOK
  <2> HIDE DEF c
  <2>5. /\ Refusing(conn[c]) \in ConnRecord /\ Sending(Refusing(conn[c])) \in ConnRecord
        /\ Refusing(conn[c]).last <= now /\ Sending(Refusing(conn[c])).last <= now
    BY <2>4, RefusingFacts
  <2>6. /\ conn' \in [Conn -> ConnRecord] /\ \A d \in Conn : conn'[d].last <= now
        /\ sock' \in [Conn -> SockRecord] /\ \A d \in Conn : Len(sock'[d].tx) <= SndBuf
        /\ status' \in {status, "killed"}
    <3>1. CASE conn' = [conn EXCEPT ![c] = Refusing(conn[c])] /\ UNCHANGED <<status, sock>>
      BY <2>1, <2>4, <2>5, <3>1, ConnTypes
    <3>2. CASE handle_write(c, Sending(Refusing(conn[c])))
      BY <2>1, <2>5, <3>2, WriteTypes
    <3> QED BY <2>3, <3>1, <3>2
  <2> QED BY <1>8, <2>2, <2>6 DEF RequestsDone, TypeOK
<1>9. CASE HandleWrite
  <2> DEFINE c == fd2conn[cur]
  <2>1. c \in Conn
    BY <1>9, ServedConn DEF HandleWrite, Serving
  <2>2. conn[c] \in ConnRecord /\ conn[c].last <= now /\ handle_write(c, conn[c])
    BY <1>9, <2>1 DEF HandleWrite, TypeOK
  <2> HIDE DEF c
  <2>3. /\ conn' \in [Conn -> ConnRecord] /\ \A d \in Conn : conn'[d].last <= now
        /\ sock' \in [Conn -> SockRecord] /\ \A d \in Conn : Len(sock'[d].tx) <= SndBuf
        /\ status' \in {status, "killed"}
    BY <2>1, <2>2, WriteTypes
  <2> QED BY <1>9, <2>3 DEF HandleWrite, TypeOK
<1>10. CASE EndConn
  <2> DEFINE c == fd2conn[cur]
  <2>1. c \in Conn /\ cur \in Fd
    BY <1>10, ServedConn DEF EndConn, Serving, TypeOK
  <2>2. revents' \in [Fd -> SUBSET {"IN", "OUT", "ERR"}]
    BY <1>10, <2>1 DEF EndConn, TypeOK
  <2>3. CASE conn_destroy(c)
    BY <1>10, <2>1, <2>2, <2>3, DestroyTypes DEF EndConn, TypeOK
  <2>4. CASE UNCHANGED <<status, fd2conn, links, conn>>
    BY <1>10, <2>2, <2>4 DEF EndConn, TypeOK
  <2> QED BY <1>10, <2>3, <2>4 DEF EndConn
<1>11. CASE IdleTimer
  <2> DEFINE c == links.next[IdleList]
  <2>1. c \in Conn \cup {IdleList}
    BY DEF TypeOK, Node
  <2>2. CASE c # IdleList /\ conn_destroy(c)
    <3>1. c \in Conn
      BY <2>1, <2>2
    <3> QED BY <1>11, <2>2, <3>1, DestroyTypes DEF IdleTimer, TypeOK
  <2>3. CASE pc' = "ttl" /\ Dereference({c}) /\ UNCHANGED <<fd2conn, links, conn>>
    BY <1>11, <2>3 DEF IdleTimer, TypeOK, Dereference
  <2> QED BY <1>11, <2>2, <2>3 DEF IdleTimer
<1>12. CASE TtlTimer
  BY <1>12 DEF TtlTimer, TypeOK
<1>13. CASE EndRun
  BY <1>13 DEF EndRun, TypeOK
<1>14. CASE PollEintr \/ PollFails
  <2>1. CASE PollEintr
    BY <2>1 DEF PollEintr, TypeOK
  <2>2. CASE PollFails
    BY <2>2 DEF PollFails, TypeOK
  <2> QED BY <1>14, <2>1, <2>2
<1>15. CASE Connect
  BY <1>15 DEF Connect, TypeOK, server
<1>16. CASE Tick
  <2>1. now \in Nat /\ now' = now + 1 /\ now' \in 0 .. MaxTime /\ tnow \in 0 .. now'
    BY <1>16, BoundAssumption DEF Tick, TypeOK
  <2>2. \A c \in Conn : conn[c].last <= now'
    <3>1. \A c \in Conn : conn[c].last \in Nat /\ conn[c].last <= now
      BY DEF TypeOK, ConnRecord
    <3> QED BY <2>1, <3>1
  <2> QED BY <1>16, <2>1, <2>2 DEF Tick, TypeOK, server
<1>17. ASSUME NEW c \in Conn, Send(c) PROVE TypeOK'
  <2>1. PICK t \in SockRecord : Len(t.tx) <= SndBuf /\ sock' = [sock EXCEPT ![c] = t]
    BY <1>17, SendFacts
  <2>2. sock' \in [Conn -> SockRecord] /\ \A d \in Conn : Len(sock'[d].tx) <= SndBuf
    BY <2>1, SockTypes
  <2> QED BY <1>17, <2>2 DEF Send, TypeOK, server
<1>18. ASSUME NEW c \in Conn, Receive(c) PROVE TypeOK'
  <2>1. PICK t \in SockRecord : Len(t.tx) <= SndBuf /\ sock' = [sock EXCEPT ![c] = t]
    BY <1>18, ReceiveFacts
  <2>2. sock' \in [Conn -> SockRecord] /\ \A d \in Conn : Len(sock'[d].tx) <= SndBuf
    BY <2>1, SockTypes
  <2> QED BY <1>18, <2>2 DEF Receive, TypeOK, server
<1>19. ASSUME NEW c \in Conn, NEW how \in {"fin", "rst"}, Close(c, how)
       PROVE  TypeOK'
  <2>1. PICK t \in SockRecord : Len(t.tx) <= SndBuf /\ sock' = [sock EXCEPT ![c] = t]
    BY <1>19, CloseFacts
  <2>2. sock' \in [Conn -> SockRecord] /\ \A d \in Conn : Len(sock'[d].tx) <= SndBuf
    BY <2>1, SockTypes
  <2> QED BY <1>19, <2>2 DEF Close, TypeOK, server
<1>20. CASE UNCHANGED vars
  BY <1>20 DEF TypeOK, vars, server
<1> QED
  BY <1>1, <1>2, <1>3, <1>4, <1>5, <1>6, <1>7, <1>8, <1>9, <1>10, <1>11, <1>12,
     <1>13, <1>14, <1>15, <1>16, <1>17, <1>18, <1>19, <1>20
  DEF Next, ServerStep, Environment

-----------------------------------------------------------------------------
(* The table of connections. *)

\* A step that keeps the descriptor and the life of every Conn.
LEMMA SameConns ==
  ASSUME TypeOK, NEW c \in Conn, NEW q, conn' = [conn EXCEPT ![c] = q],
         q.live = conn[c].live, q.fd = conn[c].fd
  PROVE  Live' = Live /\ \A d \in Conn : conn'[d].fd = conn[d].fd
<1>1. \A d \in Conn : conn'[d].fd = conn[d].fd /\ conn'[d].live = conn[d].live
  BY DEF TypeOK
<1> QED BY <1>1 DEF Live

\* A step that creates and deletes no connection keeps the table of them.
LEMMA TableSame ==
  ASSUME TypeOK, TableInv, status = "run", Live' = Live,
         \A d \in Conn : conn'[d].fd = conn[d].fd,
         UNCHANGED <<fd2conn, used, revents>>
  PROVE  /\ FdTableSound' /\ \A c \in Live' : c <= used'
         /\ \A c \in Live' : conn'[c].fd \in Fd
  BY DEF TypeOK, TableInv, FdTableSound, Live

\* conn_destroy, once nothing is pending for the descriptor.
LEMMA TableDestroy ==
  ASSUME TypeOK, TableInv, NEW c \in Conn, conn_destroy(c), status = "run",
         used' = used,
         \A f \in Fd : revents'[f] # {} => revents[f] # {} /\ f # conn[c].fd
  PROVE  /\ FdTableSound' /\ \A d \in Live' : d <= used'
         /\ status' = "run" => \A d \in Live' : conn'[d].fd \in Fd
<1>1. /\ conn' = [conn EXCEPT ![c] = Deleted]
      /\ fd2conn' = [fd2conn EXCEPT ![conn[c].fd] = Null]
      /\ status' = IF {c, links.prev[c], links.next[c]} \subseteq Valid
                   THEN status ELSE "ub"
  BY DEF conn_destroy, Dereference, DetachTouches
<1>2. Live' = Live \ {c} /\ \A d \in Live' : conn'[d] = conn[d]
  <2>1. ~ Deleted.live
    BY DEF Deleted
  <2> QED BY <1>1, <2>1 DEF Live, TypeOK
<1>3. \A d \in Live' : d <= used' /\ conn'[d].fd \in Fd
  BY <1>2 DEF TableInv
<1>4. ASSUME status' = "run"
      PROVE  /\ \A d \in Live' : fd2conn'[conn'[d].fd] = d
             /\ \A f \in Fd :
                  /\ fd2conn'[f] # Null => fd2conn'[f] \in Live' /\ conn'[fd2conn'[f]].fd = f
                  /\ revents'[f] # {} => fd2conn'[f] # Null
  <2>1. c \in Live
    BY <1>1, <1>4, FdFacts DEF Valid, IdleList
  <2>2. /\ \A d \in Live : conn[d].fd \in Fd /\ fd2conn[conn[d].fd] = d
        /\ \A f \in Fd :
             /\ fd2conn[f] # Null => fd2conn[f] \in Live /\ conn[fd2conn[f]].fd = f
             /\ revents[f] # {} => fd2conn[f] # Null
    BY DEF TableInv, FdTableSound
  <2>3. \A f \in Fd : fd2conn'[f] = IF f = conn[c].fd THEN Null ELSE fd2conn[f]
    BY <1>1 DEF TypeOK
  <2>4. ASSUME NEW d \in Live' PROVE fd2conn'[conn'[d].fd] = d
    <3>1. d \in Live /\ d # c /\ conn'[d] = conn[d]
      BY <1>2
    <3>2. conn[d].fd # conn[c].fd /\ conn[d].fd \in Fd
      BY <2>1, <2>2, <3>1
    <3> QED BY <2>2, <2>3, <3>1, <3>2
  <2>5. ASSUME NEW f \in Fd
        PROVE  /\ fd2conn'[f] # Null => fd2conn'[f] \in Live' /\ conn'[fd2conn'[f]].fd = f
               /\ revents'[f] # {} => fd2conn'[f] # Null
    <3>1. CASE f = conn[c].fd
      BY <2>3, <3>1
    <3>2. CASE f # conn[c].fd
      <4>1. fd2conn'[f] = fd2conn[f]
        BY <2>3, <3>2
      <4>2. fd2conn[f] # Null => fd2conn[f] \in Live' /\ conn'[fd2conn[f]].fd = f
        BY <1>2, <2>2, <3>2
      <4> QED BY <2>2, <4>1, <4>2
    <3> QED BY <3>1, <3>2
  <2> QED BY <2>4, <2>5
<1> QED BY <1>3, <1>4 DEF FdTableSound

\* A step in the middle of serving a connection.
LEMMA TableServe ==
  ASSUME TypeOK, TableInv, status = "run", pc \in Serving, pc' \in Serving,
         NEW c \in Conn, NEW q, conn' = [conn EXCEPT ![c] = q],
         q.live = conn[c].live, q.fd = conn[c].fd,
         UNCHANGED <<fd2conn, used, revents, cur>>
  PROVE  TableInv'
<1>1. Live' = Live /\ \A d \in Conn : conn'[d].fd = conn[d].fd
  BY SameConns
<1>2. FdTableSound' /\ \A d \in Live' : d <= used' /\ conn'[d].fd \in Fd
  BY <1>1, TableSame
<1>3. revents'[cur'] # {}
  BY DEF TableInv
<1> QED BY <1>2, <1>3 DEF TableInv, Serving

\* The environment's steps.
LEMMA TableSameServer ==
  ASSUME TableInv, UNCHANGED server, backlog' >= backlog, TypeOK, TypeOK'
  PROVE  TableInv'
<1>1. /\ UNCHANGED <<conn, fd2conn, used, revents, events, pc, cur, status>>
      /\ Live' = Live
  BY DEF server, Live
<1>2. pc' = "accept" => backlog' > 0
  BY <1>1 DEF TableInv, TypeOK
<1>3. FdTableSound' = FdTableSound
  BY <1>1 DEF FdTableSound
<1> QED BY <1>1, <1>2, <1>3 DEF TableInv

\* The table is empty at first.
LEMMA TableInit == Init => TableInv
<1> SUFFICES ASSUME Init PROVE TableInv
  OBVIOUS
<1>1. Live = {}
  BY DEF Init, Live, Deleted
<1> QED BY <1>1 DEF Init, TableInv, FdTableSound, Null, Serving

\* Every step keeps fd2conn and the live connections inverse to each other.
LEMMA TableStep == TypeOK /\ TypeOK' /\ TableInv /\ [Next]_vars => TableInv'
<1> SUFFICES ASSUME TypeOK, TypeOK', TableInv, [Next]_vars PROVE TableInv'
  OBVIOUS
<1>0. \A f \in Fd : /\ AfterStart(f) \in {"read", "write", "close"}
                    /\ AfterRead(f) \in {"write", "close"}
  BY DEF AfterStart, AfterRead
<1>1. CASE PollBegin
  <2>1. status = "run" /\ UNCHANGED <<conn, fd2conn, used, revents, backlog>>
        /\ pc = "top" /\ pc' = "polling"
    BY <1>1 DEF PollBegin
  <2>2. Live' = Live
    BY <2>1 DEF Live
  <2>3. \A f \in Fd : events'[f] # {} => fd2conn'[f] # Null
    BY <1>1 DEF PollBegin
  <2>4. FdTableSound' /\ \A c \in Live' : c <= used' /\ conn'[c].fd \in Fd
    BY <2>1, <2>2, TableSame
  <2>5. \A f \in Fd : revents'[f] = {}
    BY <2>1 DEF TableInv
  <2> QED BY <2>1, <2>3, <2>4, <2>5 DEF TableInv, Serving
<1>2. CASE PollReturn
  <2>1. /\ status = "run" /\ UNCHANGED <<conn, fd2conn, used, backlog>>
        /\ pc = "polling" /\ pc' = IF backlog > 0 THEN "accept" ELSE "conns"
    BY <1>2 DEF PollReturn
  <2>2. Live' = Live
    BY <2>1 DEF Live
  <2>3. \A f \in Fd : revents'[f] # {} => events[f] # {}
    BY <1>2 DEF PollReturn
  <2>4. \A f \in Fd : revents'[f] # {} => fd2conn'[f] # Null
    BY <2>1, <2>3 DEF TableInv
  <2> QED BY <2>1, <2>2, <2>4 DEF TableInv, FdTableSound, Serving
<1>3. CASE Accept
  <2>1. CASE FreeFd = {} \/ fd_set_nb_dies
    <3>1. /\ status = "run" /\ UNCHANGED <<conn, fd2conn, used, backlog, revents>>
          /\ \/ pc' = "conns"
             \/ pc' = pc /\ status' = "dead"
          /\ pc = "accept"
      BY <1>3, <2>1 DEF Accept
    <3>2. Live' = Live
      BY <3>1 DEF Live
    <3>3. FdTableSound' /\ \A c \in Live' : c <= used' /\ conn'[c].fd \in Fd
      BY <3>1, <3>2, TableSame
    <3>4. pc' = "accept" => backlog' > 0
      BY <3>1 DEF TableInv
    <3> QED BY <3>1, <3>3, <3>4 DEF TableInv, Serving
  <2>2. CASE FreeFd # {} /\ ~ fd_set_nb_dies
    <3> DEFINE f == Min(FreeFd)
               c == used + 1
    <3>1. /\ used' = c /\ conn' = [conn EXCEPT ![c] = NewConn(f)]
          /\ fd2conn' = [fd2conn EXCEPT ![f] = c]
          /\ pc' = "conns" /\ pc = "accept" /\ status = "run" /\ revents' = revents
      BY <1>3, <2>2 DEF Accept
    <3>2. f \in Fd /\ fd2conn[f] = Null /\ c \in Conn /\ ~ conn[c].live
      BY <2>2, <3>1, NewFd
    <3>3. \A d \in Live : d <= c
      BY DEF TableInv, TypeOK, Live, Conn
    <3>4. c <= c
      BY DEF TypeOK
    <3> HIDE DEF f, c
    <3>5. NewConn(f).live /\ NewConn(f).fd = f
      BY DEF NewConn
    <3>6. /\ Live' = Live \cup {c} /\ \A d \in Live : conn'[d] = conn[d]
          /\ conn'[c].fd = f /\ c \notin Live
      BY <3>1, <3>2, <3>5 DEF Live, TypeOK
    <3>7. /\ \A d \in Live : conn[d].fd \in Fd /\ fd2conn[conn[d].fd] = d
          /\ \A g \in Fd :
               /\ fd2conn[g] # Null => fd2conn[g] \in Live /\ conn[fd2conn[g]].fd = g
               /\ revents[g] # {} => fd2conn[g] # Null
      BY <3>1 DEF TableInv, FdTableSound
    <3>8. \A g \in Fd : fd2conn'[g] = IF g = f THEN c ELSE fd2conn[g]
      BY <3>1 DEF TypeOK
    <3>9. c # Null
      BY <3>2, FdFacts DEF Null
    <3>10. \A d \in Live' : fd2conn'[conn'[d].fd] = d /\ conn'[d].fd \in Fd
      <4>1. \A d \in Live : d # Null
        BY FdFacts DEF Live, Null
      <4> QED BY <3>2, <3>6, <3>7, <3>8, <4>1
    <3>11. ASSUME NEW g \in Fd
           PROVE  /\ fd2conn'[g] # Null =>
                       fd2conn'[g] \in Live' /\ conn'[fd2conn'[g]].fd = g
                  /\ revents'[g] # {} => fd2conn'[g] # Null
      <4>1. CASE g = f
        BY <3>6, <3>8, <3>9, <4>1
      <4>2. CASE g # f
        BY <3>1, <3>6, <3>7, <3>8, <4>2
      <4> QED BY <4>1, <4>2
    <3>12. \A d \in Live' : d <= used'
      BY <3>1, <3>3, <3>4, <3>6
    <3> QED BY <3>1, <3>10, <3>11, <3>12 DEF TableInv, FdTableSound, Serving
  <2> QED BY <2>1, <2>2
<1>4. CASE StartConn
  <2> DEFINE f == Min(Pending)
             c == fd2conn[f]
             q == [conn[c] EXCEPT !.last = now]
  <2>1. f \in Fd /\ c \in Conn /\ revents[f] # {}
    BY <1>4, NextConn DEF StartConn
  <2>2. /\ conn' = [conn EXCEPT ![c] = q] /\ status = "run" /\ cur' = f
        /\ pc' = AfterStart(f) /\ UNCHANGED <<fd2conn, used, backlog, revents>>
    BY <1>4 DEF StartConn
  <2> HIDE DEF f, c
  <2>3. q.live = conn[c].live /\ q.fd = conn[c].fd
    BY <2>1 DEF TypeOK, ConnRecord
  <2> HIDE DEF q
  <2>4. Live' = Live /\ \A d \in Conn : conn'[d].fd = conn[d].fd
    BY <2>1, <2>2, <2>3, SameConns
  <2>5. FdTableSound' /\ \A d \in Live' : d <= used' /\ conn'[d].fd \in Fd
    BY <2>2, <2>4, TableSame
  <2> QED BY <1>0, <2>1, <2>2, <2>5 DEF TableInv, Serving
<1>5. CASE ConnsDone
  <2>1. /\ status = "run" /\ UNCHANGED <<conn, fd2conn, used, backlog, revents>>
        /\ pc' = "idle" /\ \A f \in Fd : revents[f] = {}
    BY <1>5 DEF ConnsDone, Pending
  <2>2. Live' = Live
    BY <2>1 DEF Live
  <2>3. FdTableSound' /\ \A c \in Live' : c <= used' /\ conn'[c].fd \in Fd
    BY <2>1, <2>2, TableSame
  <2> QED BY <2>1, <2>3 DEF TableInv, Serving

<1>6. CASE HandleRead
  <2> DEFINE c == fd2conn[cur]
             q == IF sock[c].rx # <<>>
                  THEN [conn[c] EXCEPT !.incoming = @ \o sock[c].rx]
                  ELSE [conn[c] EXCEPT !.want_close = TRUE]
  <2>1. c \in Conn
    BY <1>6, ServedConn DEF HandleRead, Serving
  <2>2. /\ status = "run" /\ UNCHANGED <<fd2conn, used, revents, cur>>
        /\ pc \in Serving /\ pc' \in Serving
    BY <1>0, <1>6 DEF HandleRead, Serving, TypeOK
  <2>3. conn' = [conn EXCEPT ![c] = q]
    BY <1>6 DEF HandleRead
  <2>4. q.live = conn[c].live /\ q.fd = conn[c].fd
    <3>1. conn[c] \in ConnRecord
      BY <2>1 DEF TypeOK
    <3> HIDE DEF c
    <3> QED BY <3>1 DEF ConnRecord
  <2> HIDE DEF c, q
  <2> QED BY <2>1, <2>2, <2>3, <2>4, TableServe
<1>7. CASE TryOneRequest
  <2> DEFINE c == fd2conn[cur]
             q == [conn[c] EXCEPT !.outgoing = Append(@, Response(conn[c].incoming[2])),
                                  !.incoming = SubSeq(@, 3, Len(@))]
  <2>1. c \in Conn
    BY <1>7, ServedConn DEF TryOneRequest, Serving
  <2>2. /\ status = "run" /\ UNCHANGED <<fd2conn, used, revents, cur>>
        /\ pc \in Serving /\ pc' \in Serving
    BY <1>7 DEF TryOneRequest, Serving
  <2>3. conn' = [conn EXCEPT ![c] = q]
    <3>1. c \in DOMAIN conn
      BY <2>1 DEF TypeOK
    <3> QED BY <1>7, <3>1 DEF TryOneRequest
  <2>4. q.live = conn[c].live /\ q.fd = conn[c].fd
    <3>1. conn[c] \in ConnRecord
      BY <2>1 DEF TypeOK
    <3> HIDE DEF c
    <3> QED BY <3>1 DEF ConnRecord
  <2> HIDE DEF c, q
  <2> QED BY <2>1, <2>2, <2>3, <2>4, TableServe
<1>8. CASE RequestsDone
  <2> DEFINE c == fd2conn[cur]
             r == Refusing(conn[c])
  <2>1. c \in Conn
    BY <1>8, ServedConn DEF RequestsDone, Serving
  <2>2. /\ status = "run" /\ UNCHANGED <<fd2conn, used, revents, cur>>
        /\ pc \in Serving /\ pc' \in Serving
    BY <1>0, <1>8 DEF RequestsDone, Serving, TypeOK
  <2>3. conn' = [conn EXCEPT ![c] = r] \/ handle_write(c, Sending(r))
    BY <1>8 DEF RequestsDone, Refusing, Sending
  <2>4. /\ r.live = conn[c].live /\ r.fd = conn[c].fd
        /\ Sending(r).live = conn[c].live /\ Sending(r).fd = conn[c].fd
        /\ Sending(r) \in ConnRecord
    <3>1. conn[c] \in ConnRecord
      BY <2>1 DEF TypeOK
    <3> HIDE DEF c
    <3> QED BY <3>1, RefusingFacts
  <2> HIDE DEF c, r
  <2>5. CASE conn' = [conn EXCEPT ![c] = r]
    BY <2>1, <2>2, <2>4, <2>5, TableServe
  <2>6. CASE handle_write(c, Sending(r))
    <3>1. PICK q \in ConnRecord, t \in SockRecord : Written(c, Sending(r), q, t)
      BY <2>1, <2>4, <2>6, HandleWriteFacts
    <3>2. conn' = [conn EXCEPT ![c] = q] /\ q.live = conn[c].live /\ q.fd = conn[c].fd
      BY <2>4, <3>1 DEF Written
    <3> QED BY <2>1, <2>2, <3>2, TableServe
  <2> QED BY <2>3, <2>5, <2>6
<1>9. CASE HandleWrite
  <2> DEFINE c == fd2conn[cur]
  <2>1. c \in Conn
    BY <1>9, ServedConn DEF HandleWrite, Serving
  <2>2. /\ status = "run" /\ UNCHANGED <<fd2conn, used, revents, cur>>
        /\ pc \in Serving /\ pc' \in Serving
    BY <1>9 DEF HandleWrite, Serving
  <2>3. handle_write(c, conn[c]) /\ conn[c] \in ConnRecord
    BY <1>9, <2>1 DEF HandleWrite, TypeOK
  <2> HIDE DEF c
  <2>4. PICK q \in ConnRecord, t \in SockRecord : Written(c, conn[c], q, t)
    BY <2>1, <2>3, HandleWriteFacts
  <2>5. conn' = [conn EXCEPT ![c] = q] /\ q.live = conn[c].live /\ q.fd = conn[c].fd
    BY <2>4 DEF Written
  <2> QED BY <2>1, <2>2, <2>5, TableServe
<1>10. CASE EndConn
  <2> DEFINE c == fd2conn[cur]
  <2>1. c \in Conn /\ conn[c].fd = cur
    BY <1>10, ServedConn DEF EndConn, Serving
  <2>2. /\ status = "run" /\ used' = used /\ pc' = "conns"
        /\ \A f \in Fd : revents'[f] # {} => revents[f] # {} /\ f # cur
    BY <1>10 DEF EndConn, TypeOK
  <2>3. CASE conn_destroy(c)
    <3> HIDE DEF c
    <3>1. \A f \in Fd : revents'[f] # {} => revents[f] # {} /\ f # conn[c].fd
      BY <2>1, <2>2
    <3>2. /\ FdTableSound' /\ \A d \in Live' : d <= used'
          /\ status' = "run" => \A d \in Live' : conn'[d].fd \in Fd
      BY <2>1, <2>2, <2>3, <3>1, TableDestroy
    <3> QED BY <2>2, <3>2 DEF TableInv, Serving
  <2>4. CASE UNCHANGED <<status, fd2conn, links, conn>>
    <3>1. Live' = Live
      BY <2>4 DEF Live
    <3>2. FdTableSound' /\ \A d \in Live' : d <= used' /\ (status' = "run" => conn'[d].fd \in Fd)
      BY <2>2, <2>4, <3>1 DEF TableInv, FdTableSound
    <3> QED BY <2>2, <3>2 DEF TableInv, Serving
  <2> QED BY <1>10, <2>3, <2>4 DEF EndConn
<1>11. CASE IdleTimer
  <2> DEFINE c == links.next[IdleList]
  <2>1. /\ status = "run" /\ UNCHANGED <<used, revents>> /\ pc' \in {"idle", "ttl"}
        /\ \A f \in Fd : revents[f] = {}
    BY <1>11 DEF IdleTimer, TableInv
  <2>2. CASE c # IdleList /\ conn_destroy(c)
    <3>1. c \in Conn
      BY <2>2 DEF TypeOK, Node
    <3> HIDE DEF c
    <3>2. /\ FdTableSound' /\ \A d \in Live' : d <= used'
          /\ status' = "run" => \A d \in Live' : conn'[d].fd \in Fd
      BY <2>1, <2>2, <3>1, TableDestroy
    <3> QED BY <2>1, <3>2 DEF TableInv, Serving
  <2>3. CASE UNCHANGED <<fd2conn, links, conn>>
    <3>1. Live' = Live
      BY <2>3 DEF Live
    <3>2. FdTableSound' /\ \A d \in Live' : d <= used' /\ conn'[d].fd \in Fd
      BY <2>1, <2>3, <3>1, TableSame
    <3> QED BY <2>1, <3>2 DEF TableInv, Serving
  <2> QED BY <1>11, <2>2, <2>3 DEF IdleTimer
<1>12. CASE TtlTimer
  <2>1. /\ status = "run" /\ UNCHANGED <<conn, fd2conn, used, revents>>
        /\ pc' = "top" /\ \A f \in Fd : revents[f] = {}
    BY <1>12 DEF TtlTimer, TableInv
  <2>2. Live' = Live
    BY <2>1 DEF Live
  <2>3. FdTableSound' /\ \A c \in Live' : c <= used' /\ conn'[c].fd \in Fd
    BY <2>1, <2>2, TableSame
  <2> QED BY <2>1, <2>3 DEF TableInv, Serving
<1>13. CASE EndRun \/ PollFails
  <2>1. /\ status = "run" /\ status' # "run" /\ UNCHANGED <<conn, used, pc>>
        /\ pc # "accept"
    BY <1>13 DEF EndRun, PollFails
  <2>2. Live' = Live
    BY <2>1 DEF Live
  <2> QED BY <2>1, <2>2 DEF TableInv, FdTableSound
<1>14. CASE PollEintr
  <2>1. /\ status = "run" /\ UNCHANGED <<conn, fd2conn, used, revents>>
        /\ pc' = "top" /\ \A f \in Fd : revents[f] = {}
    BY <1>14 DEF PollEintr, TableInv
  <2>2. Live' = Live
    BY <2>1 DEF Live
  <2>3. FdTableSound' /\ \A c \in Live' : c <= used' /\ conn'[c].fd \in Fd
    BY <2>1, <2>2, TableSame
  <2> QED BY <2>1, <2>3 DEF TableInv, Serving
<1>15. CASE Environment \/ UNCHANGED vars
  <2>1. UNCHANGED server /\ backlog' >= backlog
    <3>1. UNCHANGED server /\ (backlog' = backlog \/ backlog' = backlog + 1)
      BY <1>15, Zenon DEF Environment, Connect, Tick, Send, Receive, Close, vars
    <3> QED BY <3>1 DEF TypeOK
  <2> QED BY <2>1, TableSameServer
<1> QED
  BY <1>1, <1>2, <1>3, <1>4, <1>5, <1>6, <1>7, <1>8, <1>9, <1>10, <1>11, <1>12,
     <1>13, <1>14, <1>15 DEF Next, ServerStep

-----------------------------------------------------------------------------
(* What connections wait for. *)

\* The two properties of the connections that wait, for one connection.
LEMMA WaitForm ==
  WaitsForOneThing /\ NoRequestLeftBehind <=> \A c \in Live \ Busy : Settled(conn[c])
  BY DEF WaitsForOneThing, NoRequestLeftBehind, Settled, Flags

\* The same in the next state.
LEMMA WaitFormNext ==
  WaitsForOneThing' /\ NoRequestLeftBehind' <=>
    \A c \in Live' \ Busy' : Settled(conn'[c])
  BY DEF WaitsForOneThing, NoRequestLeftBehind, Settled, Flags, Complete, Refused

\* A step between connections: the ones it leaves are as before, or settled.
LEMMA WaitBetween ==
  ASSUME WaitInv, pc \notin Serving, pc' \notin Serving,
         \A c \in Live' : (c \in Live /\ conn'[c] = conn[c]) \/ Settled(conn'[c])
  PROVE  WaitInv'
<1>1. Busy = {} /\ Busy' = {}
  BY DEF Busy, Serving
<1>2. \A c \in Live : Settled(conn[c])
  BY <1>1, WaitForm DEF WaitInv
<1>3. WaitsForOneThing' /\ NoRequestLeftBehind'
  BY <1>1, <1>2, WaitFormNext
<1> QED BY <1>3 DEF WaitInv

\* A step that changes the connection being served.
LEMMA WaitServe ==
  ASSUME TypeOK, WaitInv, pc \in Serving, pc' \in Serving, UNCHANGED <<fd2conn, cur>>,
         NEW q, fd2conn[cur] \in Conn, q.live = conn[fd2conn[cur]].live,
         conn' = [conn EXCEPT ![fd2conn[cur]] = q], ServedAt(pc', q)
  PROVE  WaitInv'
<1> DEFINE c == fd2conn[cur]
<1>1. Busy = {c} /\ Busy' = {c}
  BY DEF Busy, Serving
<1>2. conn'[c] = q /\ \A d \in Conn \ {c} : conn'[d] = conn[d]
  BY DEF TypeOK
<1>3. Live' \ {c} \subseteq Live
  BY <1>2 DEF Live
<1>4. \A d \in Live' \ Busy' : Settled(conn'[d])
  BY <1>1, <1>2, <1>3, WaitForm DEF WaitInv, Live
<1>5. WaitsForOneThing' /\ NoRequestLeftBehind'
  BY <1>4, WaitFormNext
<1> QED BY <1>2, <1>5 DEF WaitInv

\* Nothing waits at first.
LEMMA WaitInit == Init => WaitInv
<1> SUFFICES ASSUME Init PROVE WaitInv
  OBVIOUS
<1>1. Live = {}
  BY DEF Init, Live, Deleted
<1> QED BY <1>1 DEF Init, WaitInv, WaitsForOneThing, NoRequestLeftBehind, Serving

\* Every step leaves the connections it does not serve settled.
LEMMA WaitStep ==
  TypeOK /\ TypeOK' /\ TableInv /\ WaitInv /\ [Next]_vars => WaitInv'
<1> SUFFICES ASSUME TypeOK, TypeOK', TableInv, WaitInv, [Next]_vars PROVE WaitInv'
  OBVIOUS
<1>0. \A f \in Fd : /\ AfterStart(f) \in {"read", "write", "close"}
                    /\ AfterRead(f) \in {"write", "close"}
  BY DEF AfterStart, AfterRead
<1>1. CASE PollBegin \/ PollReturn \/ ConnsDone \/ TtlTimer \/ EndRun \/ PollEintr \/ PollFails
  <2>1. conn' = conn /\ pc \notin Serving /\ pc' \notin Serving
    BY <1>1 DEF PollBegin, PollReturn, ConnsDone, TtlTimer, EndRun, PollEintr, PollFails, Serving
  <2>2. Live' = Live
    BY <2>1 DEF Live
  <2> QED BY <2>1, <2>2, WaitBetween
<1>2. CASE Accept
  <2>1. pc \notin Serving /\ pc' \notin Serving
    BY <1>2 DEF Accept, Serving
  <2>2. CASE conn' = conn
    <3>1. Live' = Live
      BY <2>2 DEF Live
    <3> QED BY <2>1, <2>2, <3>1, WaitBetween
  <2>3. CASE /\ FreeFd # {}
             /\ conn' = [conn EXCEPT ![used + 1] = NewConn(Min(FreeFd))]
    <3> DEFINE c == used + 1
               q == NewConn(Min(FreeFd))
    <3>1. c \in Conn
      BY <1>2, <2>3, NewFd DEF Accept
    <3>2. Settled(q)
      BY DEF NewConn, Settled, Flags, Complete, Refused
    <3>3. conn' = [conn EXCEPT ![c] = q]
      BY <2>3
    <3> HIDE DEF c, q
    <3>4. conn'[c] = q /\ \A d \in Conn \ {c} : conn'[d] = conn[d]
      BY <3>1, <3>3 DEF TypeOK
    <3>5. \A d \in Live' : (d \in Live /\ conn'[d] = conn[d]) \/ Settled(conn'[d])
      BY <3>2, <3>4 DEF Live
    <3> QED BY <2>1, <3>5, WaitBetween
  <2> QED BY <1>2, <2>2, <2>3 DEF Accept
<1>3. CASE StartConn
  <2> DEFINE f == Min(Pending)
             c == fd2conn[f]
             q == [conn[c] EXCEPT !.last = now]
  <2>1. f \in Fd /\ c \in Conn /\ c \in Live
    BY <1>3, NextConn DEF StartConn, Live
  <2>2. /\ conn' = [conn EXCEPT ![c] = q] /\ cur' = f /\ fd2conn' = fd2conn
        /\ pc' = AfterStart(f) /\ pc = "conns"
    BY <1>3 DEF StartConn
  <2> HIDE DEF f
  <2>3. pc' \in {"read", "write", "close"} /\ fd2conn'[cur'] = c
    BY <1>0, <2>1, <2>2
  <2> HIDE DEF c
  <2>4. Busy = {} /\ Busy' = {c}
    BY <2>2, <2>3 DEF Busy
  <2>5. Settled(conn[c])
    BY <2>1, <2>4, WaitForm DEF WaitInv
  <2>6. Settled(q) /\ q.live
    <3>1. conn[c] \in ConnRecord /\ conn[c].live
      BY <2>1 DEF TypeOK, Live
    <3>2. /\ q.want_read = conn[c].want_read /\ q.want_write = conn[c].want_write
          /\ q.want_close = conn[c].want_close /\ q.incoming = conn[c].incoming
          /\ q.outgoing = conn[c].outgoing /\ q.live = conn[c].live
      BY <3>1 DEF ConnRecord
    <3> QED BY <2>5, <3>1, <3>2 DEF Settled, Flags
  <2> HIDE DEF q
  <2>7. conn'[c] = q /\ \A d \in Conn \ {c} : conn'[d] = conn[d]
    BY <2>1, <2>2 DEF TypeOK
  <2>8. \A d \in Live' \ Busy' : Settled(conn'[d])
    BY <2>4, <2>7, WaitForm DEF WaitInv, Live
  <2>9. ServedAt(pc', conn'[fd2conn'[cur']])
    BY <2>3, <2>6, <2>7 DEF ServedAt, Settled
  <2> QED BY <2>8, <2>9, WaitFormNext DEF WaitInv
<1>4. CASE HandleRead
  <2> DEFINE c == fd2conn[cur]
             r == conn[c]
             q == IF sock[c].rx # <<>> THEN [r EXCEPT !.incoming = @ \o sock[c].rx]
                  ELSE [r EXCEPT !.want_close = TRUE]
  <2>1. /\ c \in Conn /\ pc = "read" /\ status = "run" /\ pc \in Serving
        /\ UNCHANGED <<fd2conn, cur>>
    BY <1>4, ServedConn DEF HandleRead, Serving
  <2>2. pc' \in Serving /\ pc' # "read" /\ (pc' = "requests" <=> sock[c].rx # <<>>)
    BY <1>0, <1>4 DEF HandleRead, Serving, TypeOK
  <2>3. conn' = [conn EXCEPT ![c] = q]
    BY <1>4 DEF HandleRead
  <2>4. Settled(r) /\ r \in ConnRecord
    BY <2>1 DEF WaitInv, ServedAt, TypeOK
  <2>5. q.live = r.live /\ ServedAt(pc', q)
    <3> HIDE DEF c, r
    <3>1. CASE sock[c].rx # <<>>
      <4>1. /\ q.live = r.live /\ q.outgoing = r.outgoing /\ q.want_close = r.want_close
            /\ q.want_read = r.want_read /\ q.want_write = r.want_write
        BY <2>4, <3>1 DEF ConnRecord
      <4> HIDE DEF q
      <4>2. pc' = "requests"
        BY <2>2, <3>1
      <4>3. r.want_read \in BOOLEAN /\ r.want_write \in BOOLEAN
        BY <2>4 DEF ConnRecord
      <4>4. r.outgoing = <<>> => r.want_read /\ ~ r.want_write
        BY <2>4, <4>3 DEF Settled, Flags
      <4>5. ~ q.want_close /\ (q.outgoing = <<>> => q.want_read /\ ~ q.want_write)
        BY <2>4, <4>1, <4>4 DEF Settled
      <4> QED BY <4>1, <4>2, <4>5 DEF ServedAt
    <3>2. CASE sock[c].rx = <<>>
      <4>1. /\ q.live = r.live /\ q.outgoing = r.outgoing /\ q.want_close
            /\ q.want_read = r.want_read /\ q.want_write = r.want_write
            /\ q.incoming = r.incoming
        BY <2>4, <3>2 DEF ConnRecord
      <4> HIDE DEF q
      <4>2. pc' # "requests" /\ pc' # "read"
        BY <2>2, <3>2
      <4> QED BY <2>4, <4>1, <4>2 DEF ServedAt, Settled, Flags
    <3> QED BY <3>1, <3>2
  <2> HIDE DEF q
  <2> QED BY <2>1, <2>2, <2>3, <2>5, WaitServe
<1>5. CASE TryOneRequest
  <2> DEFINE c == fd2conn[cur]
             r == conn[c]
             q == [r EXCEPT !.outgoing = Append(@, Response(r.incoming[2])),
                            !.incoming = SubSeq(@, 3, Len(@))]
  <2>1. /\ c \in Conn /\ pc = "requests" /\ status = "run" /\ pc \in Serving
        /\ UNCHANGED <<fd2conn, cur, pc>>
    BY <1>5, ServedConn DEF TryOneRequest, Serving
  <2>2. conn' = [conn EXCEPT ![c] = q]
    <3>1. c \in DOMAIN conn
      BY <2>1 DEF TypeOK
    <3> QED BY <1>5, <3>1 DEF TryOneRequest
  <2>3. ServedAt("requests", r) /\ r \in ConnRecord
    BY <2>1 DEF WaitInv, TypeOK
  <2>4. q.live = r.live /\ ServedAt(pc', q)
    <3> HIDE DEF r
    <3>1. /\ q.live = r.live /\ q.want_close = r.want_close
          /\ q.outgoing = Append(r.outgoing, Response(r.incoming[2]))
      BY <2>3 DEF ConnRecord
    <3> HIDE DEF q
    <3>2. q.outgoing # <<>>
      BY <2>3, <3>1 DEF ConnRecord
    <3> QED BY <2>1, <2>3, <3>1, <3>2 DEF ServedAt
  <2> HIDE DEF q
  <2> QED BY <2>1, <2>2, <2>4, WaitServe
<1>6. CASE RequestsDone
  <2> DEFINE c == fd2conn[cur]
             r == Refusing(conn[c])
  <2>1. /\ c \in Conn /\ pc = "requests" /\ status = "run" /\ pc \in Serving
        /\ UNCHANGED <<fd2conn, cur>> /\ ~ Complete(conn[c].incoming)
    BY <1>6, ServedConn DEF RequestsDone, Serving
  <2>2. pc' \in Serving /\ pc' \in {"write", "close"}
    BY <1>0, <1>6 DEF RequestsDone, Serving, TypeOK
  <2>3. \/ conn' = [conn EXCEPT ![c] = r] /\ r.outgoing = <<>>
        \/ handle_write(c, Sending(r)) /\ r.outgoing # <<>>
    BY <1>6 DEF RequestsDone, Refusing, Sending
  <2>4. ServedAt("requests", conn[c]) /\ conn[c] \in ConnRecord
    BY <2>1 DEF WaitInv, TypeOK
  <2>5. /\ r.live = conn[c].live /\ r.outgoing = conn[c].outgoing
        /\ r.incoming = conn[c].incoming /\ (Refused(r.incoming) => r.want_close)
        /\ r.want_read = conn[c].want_read /\ r.want_write = conn[c].want_write
    <3> HIDE DEF c
    <3> QED BY <2>4, RefusingFacts
  <2>6. LET w == Sending(r)
        IN  /\ w \in ConnRecord /\ w.live = r.live /\ w.outgoing = r.outgoing
            /\ w.incoming = r.incoming /\ w.want_close = r.want_close
            /\ w.want_read = FALSE /\ w.want_write = TRUE
    <3> HIDE DEF c
    <3> DEFINE b == conn[c]
    <3>1. b \in ConnRecord
      BY <2>4
    <3> HIDE DEF b
    <3>2. LET w == Sending(Refusing(b))
          IN  /\ w \in ConnRecord /\ w.live = b.live /\ w.outgoing = b.outgoing
              /\ w.incoming = b.incoming /\ w.want_close = Refusing(b).want_close
              /\ w.want_read = FALSE /\ w.want_write = TRUE
      BY <3>1, RefusingFacts
    <3> QED BY <2>5, <3>2 DEF b
  <2>7. CASE conn' = [conn EXCEPT ![c] = r] /\ r.outgoing = <<>>
    <3> HIDE DEF r
    <3>1. ServedAt(pc', r)
      BY <2>1, <2>2, <2>4, <2>5, <2>7 DEF ServedAt, Flags
    <3> QED BY <2>1, <2>2, <2>5, <2>7, <3>1, WaitServe
  <2>8. CASE handle_write(c, Sending(r)) /\ r.outgoing # <<>>
    <3> HIDE DEF c, r
    <3>1. PICK q \in ConnRecord, t \in SockRecord : Written(c, Sending(r), q, t)
      BY <2>1, <2>6, <2>8, HandleWriteFacts
    <3>2. Flags(Sending(r))
      BY <2>6, <2>8 DEF Flags
    <3>3. /\ conn' = [conn EXCEPT ![c] = q] /\ q.live = conn[c].live
          /\ Flags(q) /\ q.incoming = r.incoming /\ (r.want_close => q.want_close)
      BY <2>5, <2>6, <3>1, <3>2 DEF Written
    <3>4. ServedAt(pc', q)
      BY <2>1, <2>2, <2>5, <3>3 DEF ServedAt
    <3> QED BY <2>1, <2>2, <3>3, <3>4, WaitServe DEF c
  <2> QED BY <2>3, <2>7, <2>8
<1>7. CASE HandleWrite
  <2> DEFINE c == fd2conn[cur]
  <2>1. /\ c \in Conn /\ pc = "write" /\ status = "run" /\ pc \in Serving
        /\ UNCHANGED <<fd2conn, cur>> /\ pc' = "close" /\ pc' \in Serving
    BY <1>7, ServedConn DEF HandleWrite, Serving
  <2>2. /\ handle_write(c, conn[c]) /\ conn[c] \in ConnRecord
        /\ ServedAt("write", conn[c])
    BY <1>7, <2>1 DEF HandleWrite, TypeOK, WaitInv
  <2> HIDE DEF c
  <2>3. PICK q \in ConnRecord, t \in SockRecord : Written(c, conn[c], q, t)
    BY <2>1, <2>2, HandleWriteFacts
  <2>4. /\ conn' = [conn EXCEPT ![c] = q] /\ q.live = conn[c].live
        /\ Flags(q) /\ q.incoming = conn[c].incoming
        /\ conn[c].want_close => q.want_close
    BY <2>2, <2>3 DEF Written, ServedAt
  <2>5. ServedAt(pc', q)
    BY <2>1, <2>2, <2>4 DEF ServedAt
  <2> QED BY <2>1, <2>4, <2>5, WaitServe DEF c
<1>8. CASE EndConn
  <2> DEFINE c == fd2conn[cur]
  <2>1. /\ c \in Conn /\ pc = "close" /\ status = "run" /\ pc \in Serving
        /\ pc' = "conns"
    BY <1>8, ServedConn DEF EndConn, Serving
  <2>2. ServedAt("close", conn[c])
    BY <2>1 DEF WaitInv
  <2>3. Busy = {c} /\ Busy' = {}
    BY <2>1 DEF Busy
  <2>4. CASE conn_destroy(c)
    <3>1. conn' = [conn EXCEPT ![c] = Deleted] /\ ~ Deleted.live
      BY <2>4 DEF conn_destroy, Deleted
    <3> HIDE DEF c
    <3>2. \A d \in Live' : d \in Live \ {c} /\ conn'[d] = conn[d]
      BY <2>1, <3>1 DEF Live, TypeOK
    <3>3. \A d \in Live' \ Busy' : Settled(conn'[d])
      BY <2>3, <3>2, WaitForm DEF WaitInv
    <3> QED BY <2>1, <3>3, WaitFormNext DEF WaitInv, Serving
  <2>5. CASE ~ conn[c].want_close /\ conn' = conn
    <3>1. Settled(conn[c])
      BY <2>2, <2>5 DEF ServedAt, Settled
    <3>2. Live' = Live
      BY <2>5 DEF Live
    <3> HIDE DEF c
    <3>3. \A d \in Live' \ Busy' : Settled(conn'[d])
      BY <2>3, <2>5, <3>1, <3>2, WaitForm DEF WaitInv
    <3> QED BY <2>1, <3>3, WaitFormNext DEF WaitInv, Serving
  <2> QED BY <1>8, <2>4, <2>5 DEF EndConn
<1>9. CASE IdleTimer
  <2> DEFINE c == links.next[IdleList]
  <2>1. pc \notin Serving /\ pc' \notin Serving
    BY <1>9 DEF IdleTimer, Serving
  <2>2. CASE c # IdleList /\ conn_destroy(c)
    <3>1. c \in Conn
      BY <2>2 DEF TypeOK, Node
    <3>2. conn' = [conn EXCEPT ![c] = Deleted] /\ ~ Deleted.live
      BY <2>2 DEF conn_destroy, Deleted
    <3> HIDE DEF c
    <3>3. \A d \in Live' : d \in Live /\ conn'[d] = conn[d]
      BY <3>1, <3>2 DEF Live, TypeOK
    <3> QED BY <2>1, <3>3, WaitBetween
  <2>3. CASE conn' = conn
    <3>1. Live' = Live
      BY <2>3 DEF Live
    <3> QED BY <2>1, <2>3, <3>1, WaitBetween
  <2> QED BY <1>9, <2>2, <2>3 DEF IdleTimer
<1>10. CASE Environment \/ UNCHANGED vars
  <2>1. UNCHANGED server
    BY <1>10, Zenon DEF Environment, Connect, Tick, Send, Receive, Close, vars
  <2>2. UNCHANGED <<conn, pc, cur, fd2conn, status>>
    BY <2>1 DEF server
  <2>3. Live' = Live /\ Busy' = Busy
    BY <2>2 DEF Live, Busy
  <2>4. WaitsForOneThing' /\ NoRequestLeftBehind'
    BY <2>2, <2>3, WaitForm, WaitFormNext DEF WaitInv
  <2> QED BY <2>2, <2>4 DEF WaitInv
<1> QED
  BY <1>1, <1>2, <1>3, <1>4, <1>5, <1>6, <1>7, <1>8, <1>9, <1>10 DEF Next, ServerStep

-----------------------------------------------------------------------------
(* Requests and answers. *)

\* Halves and remainders of a number and of its successors.
LEMMA HalfFacts ==
  ASSUME NEW j \in Nat
  PROVE  /\ j % 2 \in {0, 1} /\ (j + 2) % 2 = j % 2 /\ (j + 2) \div 2 = (j \div 2) + 1
         /\ j % 2 = 0 => (j + 1) % 2 = 1 /\ (j + 1) \div 2 = j \div 2
         /\ j % 2 = 1 => (j + 1) % 2 = 0 /\ (j + 1) \div 2 = (j \div 2) + 1
         /\ j \div 2 \in Nat
  OBVIOUS

\* If all the answers are right, so are the first ones.
LEMMA MatchesPrefix ==
  ASSUME NEW a \in Seq(Reply), NEW b \in Seq(Reply), NEW q \in Seq(Unit),
         Matches(a \o b, q)
  PROVE  Matches(a, q)
<1>1. /\ Len(a \o b) = Len(a) + Len(b) /\ Len(a) \in Nat /\ Len(b) \in Nat
      /\ \A i \in 1 .. Len(a) : (a \o b)[i] = a[i]
  OBVIOUS
<1>2. Len(q) \in Nat
  OBVIOUS
<1> QED BY <1>1, <1>2 DEF Matches

\* One more right answer.
LEMMA MatchesAnswer ==
  ASSUME NEW a \in Seq(Reply), NEW q \in Seq(Unit), NEW x \in Reply, Matches(a, q),
         Len(a) + 1 <= Len(q),
         x = q[Len(a) + 1] \/ (q[Len(a) + 1] = "get" /\ x \in {"val", "err"})
  PROVE  Matches(Append(a, x), q)
<1> DEFINE b == Append(a, x)
<1>1. /\ Len(b) = Len(a) + 1 /\ Len(a) \in Nat
      /\ \A i \in 1 .. Len(a) : b[i] = a[i] /\ b[Len(a) + 1] = x
  OBVIOUS
<1>2. b[Len(a) + 1] = x
  OBVIOUS
<1> HIDE DEF b
<1>3. \A i \in 1 .. Len(b) : i \in 1 .. Len(a) \/ i = Len(a) + 1
  BY <1>1
<1>4. Matches(b, q)
  BY <1>1, <1>2, <1>3 DEF Matches
<1> QED BY <1>4 DEF b

\* One more request, not answered yet.
LEMMA MatchesAsk ==
  ASSUME NEW a \in Seq(Reply), NEW q \in Seq(Unit), NEW u \in Unit, Matches(a, q)
  PROVE  Matches(a, Append(q, u))
<1> DEFINE p == Append(q, u)
<1>1. /\ Len(p) = Len(q) + 1 /\ Len(q) \in Nat /\ Len(a) \in Nat
      /\ \A i \in 1 .. Len(q) : p[i] = q[i]
  OBVIOUS
<1> HIDE DEF p
<1>2. Matches(a, p)
  BY <1>1 DEF Matches
<1> QED BY <1>2 DEF p

\* The first request of a stream is the first that is not answered; the rest
\* of the stream holds the requests after it.
LEMMA StreamsConsume ==
  ASSUME NEW s \in Seq(Unit), NEW q \in Seq(Unit), NEW m \in Nat, NEW half \in BOOLEAN,
         Streams(s, q, m, half), Len(s) >= 2, s[1] = "frag"
  PROVE  /\ m + 1 <= Len(q) /\ s[2] = q[m + 1]
         /\ Streams(SubSeq(s, 3, Len(s)), q, m + 1, half)
<1> DEFINE r == SubSeq(s, 3, Len(s))
<1>1. /\ r \in Seq(Unit) /\ Len(r) = Len(s) - 2 /\ Len(s) \in Nat /\ Len(r) \in Nat
      /\ \A i \in 1 .. Len(r) : r[i] = s[i + 2]
  <2>1. Len(s) \in Nat /\ 3 \in Int /\ Len(s) \in Int /\ \A i \in 3 .. Len(s) : s[i] \in Unit
    OBVIOUS
  <2>2. /\ r \in Seq(Unit) /\ Len(r) = IF 3 <= Len(s) THEN Len(s) - 3 + 1 ELSE 0
        /\ \A i \in 1 .. Len(s) - 3 + 1 : r[i] = s[3 + i - 1]
    BY <2>1, SubSeqProperties
  <2> HIDE DEF r
  <2>3. Len(r) = Len(s) - 2
    <3>1. Len(r) = IF 3 <= Len(s) THEN Len(s) - 3 + 1 ELSE 0
      BY <2>2
    <3> DEFINE n == Len(s)
    <3>2. n \in Nat /\ n >= 2
      BY <2>1
    <3> HIDE DEF n
    <3>3. (IF 3 <= n THEN n - 3 + 1 ELSE 0) = n - 2
      BY <3>2
    <3> QED BY <3>1, <3>3 DEF n
  <2>4. ASSUME NEW i \in 1 .. Len(r) PROVE r[i] = s[i + 2]
    <3>1. i \in 1 .. Len(s) - 3 + 1 /\ 3 + i - 1 = i + 2
      BY <2>1, <2>3
    <3> QED BY <2>2, <3>1
  <2> QED BY <2>1, <2>2, <2>3, <2>4
<1> HIDE DEF r
<1>2. /\ \A j \in 1 .. Len(s) : NoHuge(s, j) =>
           IF j % 2 = 1 THEN s[j] = "frag"
           ELSE m + j \div 2 <= Len(q) /\ s[j] = q[m + j \div 2]
      /\ \A j \in 1 .. Len(s) : NoHuge(s, j - 1) /\ s[j] = "huge" => j % 2 = 1
      /\ NoHuge(s, Len(s)) => (half <=> Len(s) % 2 = 1) /\ Len(q) = m + Len(s) \div 2
  BY DEF Streams
<1>3. s[2] # "huge" /\ 2 \in 1 .. Len(s) /\ 2 % 2 = 0 /\ 2 \div 2 = 1
  <2>1. NoHuge(s, 2 - 1) /\ 2 % 2 = 0 /\ 2 \div 2 = 1
    BY DEF NoHuge
  <2>2. 2 \in 1 .. Len(s)
    BY <1>1
  <2> QED BY <1>2, <2>1, <2>2
<1>4. m + 1 <= Len(q) /\ s[2] = q[m + 1]
  <2>1. NoHuge(s, 2)
    BY <1>3 DEF NoHuge
  <2> QED BY <1>2, <1>3, <2>1
<1>5. ASSUME NEW j \in 0 .. Len(r), NoHuge(r, j) PROVE NoHuge(s, j + 2)
  <2> SUFFICES ASSUME NEW i \in 1 .. j + 2 PROVE s[i] # "huge"
    BY DEF NoHuge
  <2>1. CASE i > 2
    <3>1. i - 2 \in 1 .. j /\ i - 2 \in 1 .. Len(r) /\ (i - 2) + 2 = i
      BY <1>1, <2>1
    <3> QED BY <1>1, <1>5, <3>1 DEF NoHuge
  <2>2. CASE i = 1 \/ i = 2
    BY <1>3, <2>2
  <2> QED BY <2>1, <2>2
<1>6. ASSUME NEW j \in 1 .. Len(r), NoHuge(r, j)
      PROVE  IF j % 2 = 1 THEN r[j] = "frag"
             ELSE (m + 1) + j \div 2 <= Len(q) /\ r[j] = q[(m + 1) + j \div 2]
  <2>1. /\ j + 2 \in 1 .. Len(s) /\ NoHuge(s, j + 2) /\ r[j] = s[j + 2]
    BY <1>1, <1>5, <1>6
  <2>2. /\ (j + 2) % 2 = j % 2 /\ m + ((j + 2) \div 2) = (m + 1) + j \div 2
    <3>1. j \in Nat
      BY <1>1
    <3> QED BY <3>1, HalfFacts
  <2>3. IF (j + 2) % 2 = 1 THEN s[j + 2] = "frag"
        ELSE m + ((j + 2) \div 2) <= Len(q) /\ s[j + 2] = q[m + ((j + 2) \div 2)]
    BY <1>2, <2>1
  <2> QED BY <2>1, <2>2, <2>3
<1>7. ASSUME NEW j \in 1 .. Len(r), NoHuge(r, j - 1), r[j] = "huge" PROVE j % 2 = 1
  <2>1. j - 1 \in 0 .. Len(r) /\ (j - 1) + 2 = (j + 2) - 1 /\ j \in Nat
    BY <1>1
  <2>2. NoHuge(s, (j + 2) - 1)
    BY <1>5, <1>7, <2>1
  <2>3. j + 2 \in 1 .. Len(s) /\ s[j + 2] = "huge"
    BY <1>1, <1>7
  <2>4. (j + 2) % 2 = 1
    BY <1>2, <2>2, <2>3
  <2> QED BY <2>1, <2>4, HalfFacts
<1>8. ASSUME NoHuge(r, Len(r))
      PROVE  (half <=> Len(r) % 2 = 1) /\ Len(q) = (m + 1) + Len(r) \div 2
  <2>1. Len(r) + 2 = Len(s) /\ Len(r) \in 0 .. Len(r)
    BY <1>1
  <2>2. NoHuge(s, Len(s))
    BY <1>5, <1>8, <2>1
  <2>3. Len(s) % 2 = Len(r) % 2 /\ Len(s) \div 2 = (Len(r) \div 2) + 1
        /\ Len(r) \div 2 \in Nat
    BY <1>1, <2>1, HalfFacts
  <2> QED BY <1>2, <2>2, <2>3
<1>9. Streams(r, q, m + 1, half)
  BY <1>6, <1>7, <1>8 DEF Streams
<1> QED BY <1>4, <1>9 DEF r

\* A client adds a unit to its stream.
LEMMA StreamsExtend ==
  ASSUME NEW s \in Seq(Unit), NEW q \in Seq(Unit), NEW m \in Nat, NEW half \in BOOLEAN,
         NEW u \in Unit, NEW p \in Seq(Unit), Streams(s, q, m, half),
         \/ ~ half /\ u = "frag" /\ p = q
         \/ ~ half /\ u = "huge" /\ p = Append(q, u)
         \/ half /\ u # "frag" /\ u # "huge" /\ p = Append(q, u)
  PROVE  Streams(Append(s, u), p, m, u = "frag")
<1> DEFINE r == Append(s, u)
           n == Len(s)
<1>1. /\ r \in Seq(Unit) /\ Len(r) = n + 1 /\ n \in Nat
      /\ \A i \in 1 .. n : r[i] = s[i]
      /\ r[n + 1] = u
  OBVIOUS
<1>2. /\ Len(q) \in Nat /\ Len(p) \in Nat /\ Len(q) <= Len(p)
      /\ \A i \in 1 .. Len(q) : p[i] = q[i]
      /\ p # q => p[Len(q) + 1] = u /\ Len(p) = Len(q) + 1
  OBVIOUS
<1>3. /\ \A j \in 1 .. n : NoHuge(s, j) =>
           IF j % 2 = 1 THEN s[j] = "frag"
           ELSE m + j \div 2 <= Len(q) /\ s[j] = q[m + j \div 2]
      /\ \A j \in 1 .. n : NoHuge(s, j - 1) /\ s[j] = "huge" => j % 2 = 1
      /\ NoHuge(s, n) => (half <=> n % 2 = 1) /\ Len(q) = m + n \div 2
  BY DEF Streams
<1> HIDE DEF r, n
<1>4. ASSUME NEW j \in Int, j <= n PROVE NoHuge(r, j) <=> NoHuge(s, j)
  BY <1>1, <1>4, SMTT(30) DEF NoHuge
<1>5. NoHuge(r, n + 1) <=> NoHuge(s, n) /\ u # "huge"
  <2>1. \A i \in 1 .. n + 1 : i \in 1 .. n \/ i = n + 1
    BY <1>1
  <2>2. 1 .. n \subseteq 1 .. n + 1 /\ n + 1 \in 1 .. n + 1
    BY <1>1
  <2> QED BY <1>1, <2>1, <2>2 DEF NoHuge
<1>6. NoHuge(s, n) =>
        /\ u = "frag" => (n + 1) % 2 = 1 /\ Len(p) = m + ((n + 1) \div 2)
        /\ u = "huge" => (n + 1) % 2 = 1
        /\ u # "frag" /\ u # "huge" =>
             (n + 1) % 2 = 0 /\ Len(p) = m + ((n + 1) \div 2) /\ Len(p) = Len(q) + 1
             /\ p[Len(p)] = u
  <2> SUFFICES ASSUME NoHuge(s, n)
               PROVE  /\ u = "frag" => (n + 1) % 2 = 1 /\ Len(p) = m + ((n + 1) \div 2)
                      /\ u = "huge" => (n + 1) % 2 = 1
                      /\ u # "frag" /\ u # "huge" =>
                           (n + 1) % 2 = 0 /\ Len(p) = m + ((n + 1) \div 2)
                           /\ Len(p) = Len(q) + 1 /\ p[Len(p)] = u
    OBVIOUS
  <2>1. (half <=> n % 2 = 1) /\ Len(q) = m + n \div 2
    BY <1>3
  <2>2. /\ n % 2 \in {0, 1} /\ n \div 2 \in Nat
        /\ n % 2 = 0 => (n + 1) % 2 = 1 /\ (n + 1) \div 2 = n \div 2
        /\ n % 2 = 1 => (n + 1) % 2 = 0 /\ (n + 1) \div 2 = (n \div 2) + 1
    BY <1>1, HalfFacts
  <2>3. CASE ~ half
    BY <1>2, <2>1, <2>2, <2>3
  <2>4. CASE half
    <3>1. p = Append(q, u) /\ u # "frag" /\ u # "huge"
      BY <2>4
    <3>2. Len(p) = Len(q) + 1 /\ p[Len(p)] = u
      BY <3>1
    <3>3. (n + 1) % 2 = 0 /\ (n + 1) \div 2 = (n \div 2) + 1
      BY <2>1, <2>2, <2>4
    <3>4. Len(p) = m + ((n + 1) \div 2)
      BY <2>1, <2>2, <3>2, <3>3
    <3> QED BY <3>1, <3>2, <3>3, <3>4
  <2> QED BY <2>3, <2>4
<1>7. ASSUME NEW j \in 1 .. n + 1, NoHuge(r, j)
      PROVE  IF j % 2 = 1 THEN r[j] = "frag"
             ELSE m + j \div 2 <= Len(p) /\ r[j] = p[m + j \div 2]
  <2>1. CASE j <= n
    <3>1. j \in 1 .. n /\ NoHuge(s, j) /\ r[j] = s[j]
      BY <1>1, <1>4, <1>7, <2>1
    <3>2. IF j % 2 = 1 THEN s[j] = "frag"
          ELSE m + j \div 2 <= Len(q) /\ s[j] = q[m + j \div 2]
      BY <1>3, <3>1
    <3>3. CASE j % 2 = 1
      BY <3>1, <3>2, <3>3
    <3>4. CASE j % 2 # 1
      <4>1. j \div 2 \in Nat /\ j \in Nat /\ j % 2 = 0
        BY <1>1, <3>4
      <4>2. m + j \div 2 \in 1 .. Len(q)
        BY <1>1, <3>1, <3>2, <3>4, <4>1
      <4>3. p[m + j \div 2] = q[m + j \div 2] /\ m + j \div 2 <= Len(p)
        BY <1>2, <4>2
      <4> QED BY <3>1, <3>2, <3>4, <4>3
    <3> QED BY <3>3, <3>4
  <2>2. CASE j = n + 1
    <3>1. NoHuge(s, n) /\ u # "huge" /\ r[j] = u
      BY <1>1, <1>5, <1>7, <2>2
    <3>2. CASE u = "frag"
      BY <1>6, <2>2, <3>1, <3>2
    <3>3. CASE u # "frag"
      <4>1. j % 2 = 0 /\ Len(p) = m + j \div 2 /\ p[Len(p)] = u
        BY <1>6, <2>2, <3>1, <3>3
      <4> QED BY <1>2, <3>1, <4>1
    <3> QED BY <3>2, <3>3
  <2> QED BY <1>1, <2>1, <2>2
<1>8. ASSUME NEW j \in 1 .. n + 1, NoHuge(r, j - 1), r[j] = "huge" PROVE j % 2 = 1
  <2>1. j - 1 \in Int /\ j - 1 <= n
    BY <1>1
  <2>2. NoHuge(s, j - 1)
    BY <1>4, <1>8, <2>1
  <2>3. CASE j <= n
    <3>1. j \in 1 .. n /\ s[j] = "huge"
      BY <1>1, <1>8, <2>3
    <3> QED BY <1>3, <2>2, <3>1
  <2>4. CASE j = n + 1
    <3>1. NoHuge(s, n) /\ u = "huge"
      BY <1>1, <1>8, <2>2, <2>4
    <3> QED BY <1>6, <2>4, <3>1
  <2> QED BY <1>1, <2>3, <2>4
<1>9. ASSUME NoHuge(r, n + 1)
      PROVE  /\ (u = "frag") <=> (n + 1) % 2 = 1
             /\ Len(p) = m + ((n + 1) \div 2)
  <2>1. NoHuge(s, n) /\ u # "huge"
    BY <1>5, <1>9
  <2> QED BY <1>6, <2>1
<1>10. Streams(r, p, m, u = "frag")
  BY <1>1, <1>7, <1>8, <1>9 DEF Streams
<1> QED BY <1>10 DEF r

\* The parts of a StreamOK connection.
LEMMA RecordParts ==
  ASSUME NEW r \in ConnRecord, NEW s \in SockRecord
  PROVE  /\ s.got \in Seq(Reply) /\ s.tx \in Seq(Reply) /\ r.outgoing \in Seq(Reply)
         /\ s.got \o s.tx \in Seq(Reply) /\ Answers(r, s) \in Seq(Reply)
         /\ Len(Answers(r, s)) \in Nat /\ s.asked \in Seq(Unit) /\ s.half \in BOOLEAN
         /\ r.incoming \in Seq(Unit) /\ s.rx \in Seq(Unit)
         /\ r.incoming \o s.rx \in Seq(Unit)
<1> DEFINE g == s.got
           x == s.tx
           o == r.outgoing
           i == r.incoming
           y == s.rx
<1>1. /\ g \in Seq(Reply) /\ x \in Seq(Reply) /\ o \in Seq(Reply)
      /\ s.asked \in Seq(Unit) /\ s.half \in BOOLEAN /\ i \in Seq(Unit) /\ y \in Seq(Unit)
  BY DEF ConnRecord, SockRecord
<1> HIDE DEF g, x, o, i, y
<1>2. g \o x \in Seq(Reply) /\ (g \o x) \o o \in Seq(Reply) /\ i \o y \in Seq(Unit)
  BY <1>1
<1>3. Len((g \o x) \o o) \in Nat
  BY <1>2
<1> QED BY <1>1, <1>2, <1>3 DEF Answers, g, x, o, i, y

\* If all the answers are right, so are those that have left the server.
LEMMA AnswersPrefix ==
  ASSUME NEW r \in ConnRecord, NEW s \in SockRecord, Matches(Answers(r, s), s.asked)
  PROVE  Matches(s.got \o s.tx, s.asked) /\ Matches(s.got, s.asked)
<1> DEFINE g == s.got
           x == s.tx
           a == g \o x
           o == r.outgoing
<1>1. /\ g \in Seq(Reply) /\ x \in Seq(Reply) /\ a \in Seq(Reply) /\ o \in Seq(Reply)
      /\ s.asked \in Seq(Unit)
  BY RecordParts
<1>2. Matches(a \o o, s.asked)
  BY DEF Answers
<1> HIDE DEF a, o
<1>3. Matches(a, s.asked)
  BY <1>1, <1>2, MatchesPrefix
<1> HIDE DEF g, x
<1>4. Matches(g, s.asked)
  BY <1>1, <1>3, MatchesPrefix DEF a
<1> QED BY <1>3, <1>4 DEF a, g, x

\* A step on one connection and its socket.
LEMMA StreamOne ==
  ASSUME TypeOK, StreamInv, NEW c \in Conn, NEW q \in ConnRecord, NEW t \in SockRecord,
         conn' = [conn EXCEPT ![c] = q], sock' = [sock EXCEPT ![c] = t], StreamOK(q, t)
  PROVE  StreamInv'
<1>1. ASSUME NEW d \in Conn PROVE StreamOK(conn'[d], sock'[d])
  <2>1. CASE d = c
    <3>1. conn'[d] = q /\ sock'[d] = t
      BY <2>1 DEF TypeOK
    <3> QED BY <3>1
  <2>2. CASE d # c
    <3>1. conn'[d] = conn[d] /\ sock'[d] = sock[d]
      BY <2>2 DEF TypeOK
    <3> QED BY <3>1 DEF StreamInv
  <2> QED BY <2>1, <2>2
<1> QED
  BY <1>1, Zenon DEF StreamInv, StreamOK, Answers, Matches, Streams, NoHuge

\* A step that changes no connection and no socket.
LEMMA StreamSame ==
  ASSUME StreamInv, UNCHANGED <<conn, sock>>
  PROVE  StreamInv'
<1>1. \A d \in Conn : StreamOK(conn'[d], sock'[d])
  BY DEF StreamInv
<1> QED
  BY <1>1, Zenon DEF StreamInv, StreamOK, Answers, Matches, Streams, NoHuge

\* The connection after handle_write.
LEMMA StreamWritten ==
  ASSUME TypeOK, StreamInv, NEW c \in Conn, NEW r \in ConnRecord,
         conn[c].live, r.live = conn[c].live, r.incoming = conn[c].incoming,
         r.outgoing = conn[c].outgoing, handle_write(c, r)
  PROVE  StreamInv'
<1>1. PICK q \in ConnRecord, t \in SockRecord : Written(c, r, q, t)
  BY HandleWriteFacts
<1> DEFINE s == sock[c]
           b == conn[c]
<1>2. s \in SockRecord /\ b \in ConnRecord /\ StreamOK(b, s)
  BY DEF TypeOK, StreamInv
<1>3. /\ conn' = [conn EXCEPT ![c] = q] /\ sock' = [sock EXCEPT ![c] = t]
      /\ q.live = b.live /\ q.incoming = b.incoming
      /\ t.rx = s.rx /\ t.peer = s.peer /\ t.half = s.half
      /\ t.asked = s.asked /\ t.got = s.got
      /\ s.peer = "rst" => t.tx = s.tx
      /\ s.peer # "rst" => t.tx \o q.outgoing = s.tx \o b.outgoing
  BY <1>1 DEF Written
<1> HIDE DEF s, b
<1>4. CASE s.peer = "rst"
  <2>1. StreamOK(q, t)
    BY <1>2, <1>3, <1>4 DEF StreamOK
  <2> QED BY <1>3, <2>1, StreamOne
<1>5. CASE s.peer # "rst"
  <2>1. Answers(q, t) = Answers(b, s)
    <3> DEFINE g == s.got
               x == s.tx
               o == b.outgoing
               y == t.tx
               w == q.outgoing
    <3>1. /\ g \in Seq(Reply) /\ x \in Seq(Reply) /\ o \in Seq(Reply)
          /\ y \in Seq(Reply) /\ w \in Seq(Reply)
      BY <1>2, RecordParts
    <3>2. y \o w = x \o o /\ t.got = g
      BY <1>3, <1>5
    <3> HIDE DEF g, x, o, y, w
    <3>3. (g \o y) \o w = (g \o x) \o o
      <4>1. (g \o y) \o w = g \o (y \o w)
        BY <3>1, ConcatAssociative, SMTT(30)
      <4>2. (g \o x) \o o = g \o (x \o o)
        BY <3>1, ConcatAssociative, SMTT(30)
      <4> QED BY <3>2, <4>1, <4>2
    <3> QED BY <3>2, <3>3 DEF Answers, g, x, o, y, w
  <2>2. StreamOK(q, t)
    <3>1. /\ Matches(Answers(q, t), t.asked)
          /\ Streams(q.incoming \o t.rx, t.asked, Len(Answers(q, t)), t.half)
      BY <1>2, <1>3, <1>5, <2>1 DEF StreamOK, b
    <3>2. Matches(t.got \o t.tx, t.asked)
      BY <3>1, AnswersPrefix
    <3> QED BY <3>1, <3>2 DEF StreamOK
  <2> QED BY <1>3, <2>2, StreamOne
<1> QED BY <1>4, <1>5

\* Nothing has been asked at first.
LEMMA StreamInit == Init => StreamInv
<1> SUFFICES ASSUME Init, NEW c \in Conn PROVE StreamOK(conn[c], sock[c])
  BY DEF StreamInv
<1>1. conn[c] = Deleted /\ sock[c] = NewSock
  BY DEF Init
<1>2. ~ Deleted.live /\ NewSock.got = <<>> /\ NewSock.tx = <<>> /\ NewSock.asked = <<>>
  BY DEF Deleted, NewSock
<1>3. Matches(<<>> \o <<>>, <<>>)
  BY DEF Matches
<1> QED BY <1>1, <1>2, <1>3 DEF StreamOK

\* Every step keeps the bytes on their way, the requests and the answers in
\* agreement.
LEMMA StreamStep ==
  TypeOK /\ TypeOK' /\ TableInv /\ StreamInv /\ [Next]_vars => StreamInv'
<1> SUFFICES ASSUME TypeOK, TypeOK', TableInv, StreamInv, [Next]_vars PROVE StreamInv'
  OBVIOUS
<1>1. CASE PollBegin \/ PollReturn \/ ConnsDone \/ TtlTimer \/ EndRun \/ PollEintr \/ PollFails
           \/ Connect \/ Tick \/ UNCHANGED vars
  <2>1. UNCHANGED <<conn, sock>>
    BY <1>1, Zenon DEF PollBegin, PollReturn, ConnsDone, TtlTimer, EndRun, PollEintr, PollFails,
         Connect, Tick, server, vars
  <2> QED BY <2>1, StreamSame
<1>2. CASE Accept
  <2>1. CASE UNCHANGED <<conn, sock>>
    BY <2>1, StreamSame
  <2>2. CASE /\ FreeFd # {}
             /\ conn' = [conn EXCEPT ![used + 1] = NewConn(Min(FreeFd))]
             /\ sock' = [sock EXCEPT ![used + 1] = NewSock]
    <3> DEFINE c == used + 1
               q == NewConn(Min(FreeFd))
    <3>1. c \in Conn /\ Min(FreeFd) \in Fd
      BY <1>2, <2>2, NewFd DEF Accept
    <3>2. q \in ConnRecord /\ NewSock \in SockRecord
      <4>1. now \in Nat
        BY DEF TypeOK
      <4> QED BY <3>1, <4>1, RecordTypes
    <3>3. /\ q.incoming = <<>> /\ q.outgoing = <<>> /\ NewSock.got = <<>>
          /\ NewSock.tx = <<>> /\ NewSock.asked = <<>> /\ NewSock.rx = <<>>
          /\ NewSock.half = FALSE
      BY DEF NewConn, NewSock
    <3>4. Matches(<<>> \o <<>>, <<>>) /\ Matches(<<>> \o <<>> \o <<>>, <<>>)
      BY DEF Matches
    <3>5. Streams(<<>> \o <<>>, <<>>, Len(<<>> \o <<>> \o <<>>), FALSE)
      <4>1. <<>> \o <<>> = <<>> /\ Len(<<>>) = 0 /\ <<>> \o <<>> \o <<>> = <<>>
        OBVIOUS
      <4>2. Streams(<<>>, <<>>, 0, FALSE)
        <5>1. 0 % 2 = 0 /\ 0 \div 2 = 0 /\ 1 .. 0 = {}
          OBVIOUS
        <5> QED BY <4>1, <5>1 DEF Streams
      <4> QED BY <4>1, <4>2
    <3>6. StreamOK(q, NewSock)
      BY <3>3, <3>4, <3>5 DEF StreamOK, Answers
    <3> HIDE DEF c, q
    <3>7. conn' = [conn EXCEPT ![c] = q] /\ sock' = [sock EXCEPT ![c] = NewSock]
      BY <2>2 DEF c, q
    <3> QED BY <3>1, <3>2, <3>6, <3>7, StreamOne
  <2> QED BY <1>2, <2>1, <2>2 DEF Accept
<1>3. CASE StartConn
  <2> DEFINE f == Min(Pending)
             c == fd2conn[f]
             r == conn[c]
             q == [r EXCEPT !.last = now]
  <2>1. f \in Fd /\ c \in Conn
    BY <1>3, NextConn DEF StartConn
  <2>2. conn' = [conn EXCEPT ![c] = q] /\ sock' = sock
    BY <1>3 DEF StartConn
  <2> HIDE DEF f, c
  <2>3. /\ r \in ConnRecord /\ now \in Nat /\ sock[c] \in SockRecord
        /\ sock' = [sock EXCEPT ![c] = sock[c]] /\ StreamOK(r, sock[c])
    BY <2>1, <2>2 DEF TypeOK, StreamInv
  <2> HIDE DEF r
  <2>4. /\ q \in ConnRecord /\ q.live = r.live /\ q.incoming = r.incoming
        /\ q.outgoing = r.outgoing
    BY <2>3 DEF ConnRecord
  <2> HIDE DEF q
  <2>5. StreamOK(q, sock[c])
    BY <2>3, <2>4 DEF StreamOK, Answers
  <2> QED BY <2>1, <2>2, <2>3, <2>4, <2>5, StreamOne
<1>4. CASE HandleRead
  <2> DEFINE c == fd2conn[cur]
             r == conn[c]
             s == sock[c]
  <2>1. c \in Conn
    BY <1>4, ServedConn DEF HandleRead, Serving
  <2>2. r \in ConnRecord /\ s \in SockRecord /\ StreamOK(r, s)
    BY <2>1 DEF TypeOK, StreamInv
  <2>3. CASE s.rx # <<>>
    <3> DEFINE q == [r EXCEPT !.incoming = @ \o s.rx]
               t == [s EXCEPT !.rx = <<>>]
    <3>1. conn' = [conn EXCEPT ![c] = q] /\ sock' = [sock EXCEPT ![c] = t]
      BY <1>4, <2>3 DEF HandleRead
    <3> HIDE DEF c, r, s
    <3>2. r.incoming \o s.rx \in Seq(Unit) /\ <<>> \in Seq(Unit)
      BY <2>2, RecordParts
    <3>3. /\ q \in ConnRecord /\ q.live = r.live /\ q.outgoing = r.outgoing
          /\ q.incoming = r.incoming \o s.rx
          /\ t \in SockRecord /\ t.rx = <<>> /\ t.tx = s.tx /\ t.got = s.got
          /\ t.asked = s.asked /\ t.half = s.half /\ t.peer = s.peer
      BY <2>2, <3>2 DEF ConnRecord, SockRecord
    <3> HIDE DEF q, t
    <3>4. q.incoming \o t.rx = r.incoming \o s.rx
      BY <3>2, <3>3, ConcatEmptySeq
    <3>5. StreamOK(q, t)
      BY <2>2, <3>3, <3>4 DEF StreamOK, Answers
    <3> QED BY <2>1, <3>1, <3>3, <3>5, StreamOne
  <2>4. CASE s.rx = <<>>
    <3> DEFINE q == [r EXCEPT !.want_close = TRUE]
    <3>1. conn' = [conn EXCEPT ![c] = q] /\ sock' = [sock EXCEPT ![c] = s]
      BY <1>4, <2>4 DEF HandleRead, TypeOK
    <3> HIDE DEF c, r, s
    <3>2. /\ q \in ConnRecord /\ q.live = r.live /\ q.outgoing = r.outgoing
          /\ q.incoming = r.incoming
      BY <2>2 DEF ConnRecord
    <3> HIDE DEF q
    <3>3. StreamOK(q, s)
      BY <2>2, <3>2 DEF StreamOK, Answers
    <3> QED BY <2>1, <2>2, <3>1, <3>2, <3>3, StreamOne
  <2> QED BY <2>3, <2>4
<1>5. CASE TryOneRequest
  <2> DEFINE c == fd2conn[cur]
             r == conn[c]
             s == sock[c]
             k == r.incoming[2]
             x == Response(k)
             q == [r EXCEPT !.outgoing = Append(@, x), !.incoming = SubSeq(@, 3, Len(@))]
  <2>1. c \in Conn /\ r.live
    BY <1>5, ServedConn DEF TryOneRequest, Serving
  <2>2. /\ r \in ConnRecord /\ s \in SockRecord /\ StreamOK(r, s)
        /\ conn' = [conn EXCEPT ![c] = q] /\ sock' = [sock EXCEPT ![c] = s]
        /\ Complete(r.incoming)
    <3>1. c \in DOMAIN conn /\ r \in ConnRecord /\ s \in SockRecord /\ StreamOK(r, s)
          /\ sock = [sock EXCEPT ![c] = s]
      BY <2>1 DEF TypeOK, StreamInv
    <3> QED BY <1>5, <3>1 DEF TryOneRequest
  <2> HIDE DEF c, s, r
  <2>3. k \in Unit /\ x \in Reply /\ (x = k \/ (k = "get" /\ x \in {"val", "err"}))
    <3>1. r.incoming \in Seq(Unit) /\ Len(r.incoming) >= 2
      BY <2>2, RecordParts DEF Complete
    <3>2. k \in Unit
      BY <3>1
    <3> QED BY <3>2 DEF Response, Reply
  <2> HIDE DEF k, x
  <2> DEFINE i == r.incoming
             y == s.rx
             o == r.outgoing
             a == s.got \o s.tx
  <2>4. /\ i \in Seq(Unit) /\ y \in Seq(Unit) /\ o \in Seq(Reply) /\ a \in Seq(Reply)
        /\ s.asked \in Seq(Unit) /\ s.half \in BOOLEAN
        /\ Len(i) >= 2 /\ i[1] = "frag" /\ k = i[2]
    BY <2>2, RecordParts DEF Complete, k
  <2>5. SubSeq(i, 3, Len(i)) \in Seq(Unit) /\ Append(o, x) \in Seq(Reply)
    <3> HIDE DEF i, o
    <3> QED BY <2>3, <2>4
  <2>6. /\ q \in ConnRecord /\ q.live = r.live /\ q.outgoing = Append(o, x)
        /\ q.incoming = SubSeq(i, 3, Len(i))
    BY <2>2, <2>5 DEF ConnRecord
  <2> HIDE DEF q
  <2>7. CASE s.peer # "rst"
    <3>1. /\ Matches(a \o o, s.asked) /\ Streams(i \o y, s.asked, Len(a \o o), s.half)
      BY <2>1, <2>2, <2>7 DEF StreamOK, Answers
    <3>2. Matches(a, s.asked)
      BY <2>2 DEF StreamOK
    <3> HIDE DEF i, y, o, a
    <3>3. /\ i \o y \in Seq(Unit) /\ Len(i \o y) >= 2 /\ (i \o y)[1] = "frag"
          /\ (i \o y)[2] = k
      BY <2>4
    <3>4. a \o o \in Seq(Reply) /\ Len(a \o o) \in Nat
      BY <2>4
    <3>5. /\ Len(a \o o) + 1 <= Len(s.asked) /\ k = s.asked[Len(a \o o) + 1]
          /\ Streams(SubSeq(i \o y, 3, Len(i \o y)), s.asked, Len(a \o o) + 1, s.half)
      <4> DEFINE z == i \o y
      <4>1. z \in Seq(Unit) /\ Len(z) >= 2 /\ z[1] = "frag" /\ z[2] = k
            /\ Streams(z, s.asked, Len(a \o o), s.half)
        BY <3>1, <3>3
      <4> HIDE DEF z
      <4>2. /\ Len(a \o o) + 1 <= Len(s.asked) /\ z[2] = s.asked[Len(a \o o) + 1]
            /\ Streams(SubSeq(z, 3, Len(z)), s.asked, Len(a \o o) + 1, s.half)
        BY <2>4, <3>4, <4>1, StreamsConsume
      <4> QED BY <4>1, <4>2 DEF z
    <3>6. Matches(Append(a \o o, x), s.asked)
      <4> DEFINE b == a \o o
      <4>1. b \in Seq(Reply) /\ Matches(b, s.asked) /\ Len(b) + 1 <= Len(s.asked)
            /\ k = s.asked[Len(b) + 1]
        BY <3>1, <3>4, <3>5
      <4> HIDE DEF b
      <4>2. Matches(Append(b, x), s.asked)
        BY <2>3, <2>4, <4>1, MatchesAnswer
      <4> QED BY <4>2 DEF b
    <3>7. a \o Append(o, x) = Append(a \o o, x) /\ Len(Append(a \o o, x)) = Len(a \o o) + 1
      BY <2>3, <2>4, <3>4, ConcatAppend, AppendProperties
    <3>8. SubSeq(i, 3, Len(i)) \o y = SubSeq(i \o y, 3, Len(i \o y))
      BY <2>4, DropTwo
    <3>9. /\ Matches(a \o q.outgoing, s.asked)
          /\ Streams(q.incoming \o y, s.asked, Len(a \o q.outgoing), s.half)
      BY <2>6, <3>5, <3>6, <3>7, <3>8 DEF i, o
    <3>10. StreamOK(q, s)
      BY <3>2, <3>9 DEF StreamOK, Answers, a, y
    <3> QED BY <2>1, <2>2, <2>6, <3>10, StreamOne
  <2>8. CASE s.peer = "rst"
    <3>1. StreamOK(q, s)
      BY <2>2, <2>8 DEF StreamOK
    <3> QED BY <2>1, <2>2, <2>6, <3>1, StreamOne
  <2> QED BY <2>7, <2>8
<1>6. CASE RequestsDone
  <2> DEFINE c == fd2conn[cur]
             r == Refusing(conn[c])
             s == sock[c]
  <2>1. c \in Conn /\ conn[c].live
    BY <1>6, ServedConn DEF RequestsDone, Serving
  <2>2. \/ conn' = [conn EXCEPT ![c] = r] /\ sock' = sock
        \/ handle_write(c, Sending(r))
    BY <1>6 DEF RequestsDone, Refusing, Sending
  <2>3. conn[c] \in ConnRecord /\ s \in SockRecord /\ StreamOK(conn[c], s)
        /\ sock = [sock EXCEPT ![c] = s]
    BY <2>1 DEF TypeOK, StreamInv
  <2>4. /\ r \in ConnRecord /\ r.live = conn[c].live /\ r.outgoing = conn[c].outgoing
        /\ r.incoming = conn[c].incoming
        /\ Sending(r) \in ConnRecord /\ Sending(r).live = conn[c].live
        /\ Sending(r).outgoing = conn[c].outgoing
        /\ Sending(r).incoming = conn[c].incoming
    <3> DEFINE b == conn[c]
    <3>1. b \in ConnRecord
      BY <2>3
    <3> HIDE DEF b
    <3>2. LET w == Sending(Refusing(b))
          IN  /\ w \in ConnRecord /\ w.live = b.live /\ w.outgoing = b.outgoing
              /\ w.incoming = b.incoming
      BY <3>1, RefusingFacts
    <3>3. LET w == Refusing(b)
          IN  /\ w \in ConnRecord /\ w.live = b.live /\ w.outgoing = b.outgoing
              /\ w.incoming = b.incoming
      BY <3>1, RefusingFacts
    <3> QED BY <3>2, <3>3 DEF b
  <2> HIDE DEF c, r, s
  <2>5. CASE conn' = [conn EXCEPT ![c] = r] /\ sock' = sock
    <3>1. StreamOK(r, s)
      BY <2>3, <2>4 DEF StreamOK, Answers
    <3>2. sock' = [sock EXCEPT ![c] = s]
      BY <2>3, <2>5
    <3> QED BY <2>1, <2>3, <2>4, <2>5, <3>1, <3>2, StreamOne
  <2>6. CASE handle_write(c, Sending(r))
    BY <2>1, <2>4, <2>6, StreamWritten
  <2> QED BY <2>2, <2>5, <2>6
<1>7. CASE HandleWrite
  <2> DEFINE c == fd2conn[cur]
  <2>1. c \in Conn /\ conn[c].live
    BY <1>7, ServedConn DEF HandleWrite, Serving
  <2>2. handle_write(c, conn[c]) /\ conn[c] \in ConnRecord
    BY <1>7, <2>1 DEF HandleWrite, TypeOK
  <2> HIDE DEF c
  <2> QED BY <2>1, <2>2, StreamWritten
<1>8. ASSUME NEW c \in Conn, conn_destroy(c), sock' = sock PROVE StreamInv'
  <2> DEFINE s == sock[c]
  <2>1. /\ conn' = [conn EXCEPT ![c] = Deleted] /\ sock' = [sock EXCEPT ![c] = s]
        /\ s \in SockRecord /\ StreamOK(conn[c], s)
    BY <1>8 DEF conn_destroy, TypeOK, StreamInv
  <2>2. ~ Deleted.live /\ Deleted \in ConnRecord
    BY RecordTypes DEF Deleted
  <2> HIDE DEF s
  <2>3. StreamOK(Deleted, s)
    BY <2>1, <2>2 DEF StreamOK
  <2> QED BY <2>1, <2>2, <2>3, StreamOne
<1>9. CASE EndConn
  <2>1. fd2conn[cur] \in Conn
    BY <1>9, ServedConn DEF EndConn, Serving
  <2>2. sock' = sock /\ (conn_destroy(fd2conn[cur]) \/ conn' = conn)
    BY <1>9 DEF EndConn
  <2> QED BY <1>8, <2>1, <2>2, StreamSame
<1>10. CASE IdleTimer
  <2>1. links.next[IdleList] # IdleList => links.next[IdleList] \in Conn
    BY DEF TypeOK, Node
  <2>2. /\ sock' = sock
        /\ \/ conn_destroy(links.next[IdleList]) /\ links.next[IdleList] # IdleList
           \/ conn' = conn
    BY <1>10 DEF IdleTimer
  <2> QED BY <1>8, <2>1, <2>2, StreamSame
<1>11. ASSUME NEW c \in Conn, Receive(c) PROVE StreamInv'
  <2> DEFINE r == conn[c]
             s == sock[c]
  <2>1. PICK t \in SockRecord :
          /\ sock' = [sock EXCEPT ![c] = t]
          /\ t.rx = s.rx /\ t.asked = s.asked /\ t.half = s.half /\ t.peer = s.peer
          /\ t.got \o t.tx = s.got \o s.tx
    BY <1>11, ReceiveFacts
  <2>2. /\ r \in ConnRecord /\ s \in SockRecord /\ StreamOK(r, s)
        /\ conn' = [conn EXCEPT ![c] = r]
    BY <1>11 DEF TypeOK, StreamInv, Receive, server
  <2> HIDE DEF r, s
  <2>3. StreamOK(r, t)
    BY <2>1, <2>2 DEF StreamOK, Answers
  <2> QED BY <2>1, <2>2, <2>3, StreamOne
<1>12. ASSUME NEW c \in Conn, NEW how \in {"fin", "rst"}, Close(c, how) PROVE StreamInv'
  <2> DEFINE r == conn[c]
             s == sock[c]
  <2>1. PICK t \in SockRecord :
          /\ sock' = [sock EXCEPT ![c] = t]
          /\ t.rx = s.rx /\ t.asked = s.asked /\ t.half = s.half
          /\ t.peer = how /\ t.got = s.got /\ s.peer # "rst"
          /\ t.tx = IF how = "rst" THEN <<>> ELSE s.tx
    BY <1>12, CloseFacts
  <2>2. /\ r \in ConnRecord /\ s \in SockRecord /\ StreamOK(r, s) /\ r.live
        /\ conn' = [conn EXCEPT ![c] = r]
    BY <1>12 DEF TypeOK, StreamInv, Close, server
  <2> HIDE DEF r, s
  <2>3. CASE how = "rst"
    <3>1. Matches(s.got, s.asked)
      BY <2>1, <2>2, AnswersPrefix DEF StreamOK
    <3>2. t.got \o t.tx = s.got
      <4>1. s.got \in Seq(Reply)
        BY <2>2, RecordParts
      <4> QED BY <2>1, <2>3, <4>1, ConcatEmptySeq
    <3>3. StreamOK(r, t)
      BY <2>1, <2>3, <3>1, <3>2 DEF StreamOK
    <3> QED BY <2>1, <2>2, <3>3, StreamOne
  <2>4. CASE how = "fin"
    <3>1. StreamOK(r, t)
      BY <2>1, <2>2, <2>4 DEF StreamOK, Answers
    <3> QED BY <2>1, <2>2, <3>1, StreamOne
  <2> QED BY <2>3, <2>4
<1>13. ASSUME NEW c \in Conn, Send(c) PROVE StreamInv'
  <2> DEFINE r == conn[c]
             s == sock[c]
  <2>1. PICK t \in SockRecord, u \in Unit :
          /\ sock' = [sock EXCEPT ![c] = t]
          /\ t.rx = Append(s.rx, u) /\ t.tx = s.tx /\ t.got = s.got
          /\ t.peer = s.peer /\ s.peer = "open" /\ t.half = (u = "frag")
          /\ \/ ~ s.half /\ u = "frag" /\ t.asked = s.asked
             \/ ~ s.half /\ u = "huge" /\ t.asked = Append(s.asked, u)
             \/ s.half /\ u # "frag" /\ u # "huge" /\ t.asked = Append(s.asked, u)
    BY <1>13, SendFacts
  <2>2. /\ r \in ConnRecord /\ s \in SockRecord /\ StreamOK(r, s) /\ r.live
        /\ conn' = [conn EXCEPT ![c] = r]
    BY <1>13 DEF TypeOK, StreamInv, Send, server
  <2> HIDE DEF r, s
  <2>3. /\ Answers(r, t) = Answers(r, s) /\ t.got \o t.tx = s.got \o s.tx
    BY <2>1 DEF Answers
  <2> DEFINE z == r.incoming \o s.rx
             A == Answers(r, s)
             b == s.got \o s.tx
  <2>4. /\ A \in Seq(Reply) /\ b \in Seq(Reply) /\ s.asked \in Seq(Unit)
        /\ t.asked \in Seq(Unit) /\ s.half \in BOOLEAN /\ z \in Seq(Unit) /\ Len(A) \in Nat
        /\ r.incoming \in Seq(Unit) /\ s.rx \in Seq(Unit)
    BY <2>2, RecordParts
  <2>5. /\ Matches(A, s.asked) /\ Matches(b, s.asked)
        /\ Streams(z, s.asked, Len(A), s.half)
    BY <2>1, <2>2 DEF StreamOK
  <2> HIDE DEF A, b
  <2>6. Matches(A, t.asked) /\ Matches(b, t.asked)
    BY <2>1, <2>4, <2>5, MatchesAsk
  <2>7. r.incoming \o t.rx = Append(z, u)
    <3> DEFINE i == r.incoming
               y == s.rx
    <3>1. i \in Seq(Unit) /\ y \in Seq(Unit)
      BY <2>4
    <3> HIDE DEF i, y
    <3>2. i \o Append(y, u) = Append(i \o y, u)
      BY <3>1, ConcatAppend
    <3> QED BY <2>1, <3>2 DEF i, y
  <2> HIDE DEF z
  <2>8. Streams(Append(z, u), t.asked, Len(A), u = "frag")
    <3> DEFINE h == s.half
               q == s.asked
               w == t.asked
               m == Len(A)
    <3>1. /\ h \in BOOLEAN /\ q \in Seq(Unit) /\ w \in Seq(Unit) /\ m \in Nat
          /\ Streams(z, q, m, h)
          /\ \/ ~ h /\ u = "frag" /\ w = q
             \/ ~ h /\ u = "huge" /\ w = Append(q, u)
             \/ h /\ u # "frag" /\ u # "huge" /\ w = Append(q, u)
      BY <2>1, <2>4, <2>5
    <3> HIDE DEF h, q, w, m
    <3>2. Streams(Append(z, u), w, m, u = "frag")
      BY <2>4, <3>1, StreamsExtend
    <3> QED BY <3>2 DEF w, m
  <2>9. StreamOK(r, t)
    BY <2>1, <2>3, <2>6, <2>7, <2>8 DEF StreamOK, A, b
  <2> QED BY <2>1, <2>2, <2>9, StreamOne
<1> QED
  BY <1>1, <1>2, <1>3, <1>4, <1>5, <1>6, <1>7, <1>9, <1>10, <1>11, <1>12, <1>13
  DEF Next, ServerStep, Environment

-----------------------------------------------------------------------------
(* Theorems. *)

\* IInv is inductive.
LEMMA Inductive ==
  /\ Init => IInv
  /\ IInv /\ [Next]_vars => IInv'
<1>1. Init => IInv
  BY TypeInit, TableInit, WaitInit, StreamInit DEF IInv
<1>2. IInv /\ [Next]_vars => IInv'
  BY TypeStep, TableStep, WaitStep, StreamStep DEF IInv
<1> QED BY <1>1, <1>2

\* IInv holds in every state of the event loop.
THEOREM EventLoopInvariant == Spec => []IInv
  BY Inductive, PTL DEF Spec

\* Every variable of the loop has its type; no time is later than the clock
\* and the kernel's queues stay within their bounds (main_loop and what it
\* calls).
THEOREM EventLoopTypes == Spec => []TypeOK
<1>1. IInv => TypeOK
  BY DEF IInv
<1> QED BY <1>1, EventLoopInvariant, PTL

\* fd2conn and the live Conns stay inverse to each other through accepts,
\* conn_destroy and the reuse of descriptors, for any number of each.
THEOREM EventLoopFdTable == Spec => []FdTableSound
<1>1. IInv => FdTableSound
  BY DEF IInv, TableInv
<1> QED BY <1>1, EventLoopInvariant, PTL

\* A connection the loop is done with waits for one thing: want_read and
\* want_write as handle_read and handle_write leave them.
THEOREM EventLoopWaits == Spec => []WaitsForOneThing
<1>1. IInv => WaitsForOneThing
  BY DEF IInv, WaitInv
<1> QED BY <1>1, EventLoopInvariant, PTL

\* No request stays behind in a connection's incoming buffer: the loop
\* `while (try_one_request(conn));` of handle_read leaves none.
THEOREM EventLoopNoneLeft == Spec => []NoRequestLeftBehind
<1>1. IInv => NoRequestLeftBehind
  BY DEF IInv, WaitInv
<1> QED BY <1>1, EventLoopInvariant, PTL

\* Every client receives the answers to its requests in order, however its
\* requests are cut by handle_read, the responses by handle_write, and
\* whatever other clients do.
THEOREM EventLoopAnswers == Spec => []AnswersInOrder
<1>1. IInv => AnswersInOrder
  BY DEF IInv, StreamInv, StreamOK, Matches, AnswersInOrder
<1> QED BY <1>1, EventLoopInvariant, PTL

=============================================================================
