------------------------------ MODULE Session ------------------------------
(***************************************************************************)
(* A client (client.cpp) and its connection in the server, byte by byte:   *)
(* the client writes requests to the socket and reads responses from it,   *)
(* the server reads as much as has arrived, handles the requests that are  *)
(* complete and writes as much as the socket takes.                        *)
(*                                                                         *)
(* client.cpp waits for each response before it sends the next request; a  *)
(* client that does not is a MaxInFlight above 1.  What a command answers  *)
(* is any of Replies.  Full socket buffers, idle connections and other     *)
(* clients are the matter of EventLoop.                                    *)
(***************************************************************************)
EXTENDS Protocol, FiniteSets

CONSTANTS
  Cmds,             \* the lines a user types, as sequences of words
  Replies,          \* what commands answer
  BufSize,          \* the first size of a Buffer, and the most a read takes
  MaxInFlight,
  MaxReqs           \* bound on the requests of the client

ASSUME SizeAssumption == BufSize \in Nat \ {0} /\ MaxInFlight \in Nat /\ MaxReqs \in Nat
ASSUME WordAssumption == \A cmd \in Cmds : cmd \in Seq(ByteString)
ASSUME ReplyAssumption == \A v \in Replies : v \in Reply

VARIABLES
  client,           \* "open" or "ended"
  left,             \* how many more requests the user types
  c2s, s2c,         \* bytes on their way to the server and to the client
  incoming, outgoing, want_read, want_write, want_close,
  pc,               \* "poll", "requests" (in handle_read) or "closed"
  asked,            \* requests sent and not handled yet
  due               \* answers given and not printed yet

conn == <<incoming, outgoing, want_read, want_write, want_close, pc>>
vars == <<client, left, c2s, s2c, conn, asked, due>>

First(s, k) == SubSeq(s, 1, k)
Rest(s, k) == SubSeq(s, k + 1, Len(s))

-----------------------------------------------------------------------------
(* The client. *)

\* The buffer send_req fills, and the length it counts.
OutWord(r, w) == LET o == out_str(r.buf, w) IN Out(o.buf, r.n + o.n)

Request(cmd) ==
  LET start == append(append(New(BufSize), u32(0)), u32(Len(cmd)))
      filled[i \in 0 .. Len(cmd)] ==
        IF i = 0 THEN Out(start, W) ELSE OutWord(filled[i - 1], cmd[i])
  IN  filled[Len(cmd)]

send_req(cmd) ==
  /\ client = "open" /\ left > 0 /\ Len(asked) + Len(due) < MaxInFlight
  /\ left' = left - 1
  /\ LET r == Request(cmd)
         frame == Data(Write(r.buf, r.buf.data_begin, u32(r.n)))
     IN  IF r.n > MAX_MSG
         THEN client' = "ended" /\ UNCHANGED <<c2s, asked>>
         ELSE /\ c2s' = c2s \o frame
              /\ asked' = Append(asked, cmd)
              /\ UNCHANGED client
  /\ UNCHANGED <<s2c, conn, due>>

\* The header at the front of s, and the message it announces.
Length(s) == Number(First(s, W))
TooLong(s) == Len(s) >= W /\ Length(s) > MAX_MSG
Arrived(s) == Len(s) >= W /\ Len(s) >= W + Length(s)
Body(s) == SubSeq(s, W + 1, W + Length(s))

\* read_full waits until both have arrived; the bytes are taken and printed.
read_res ==
  /\ client = "open" /\ asked \o due # <<>>
  /\ TooLong(s2c) \/ Arrived(s2c)
  /\ s2c' = Rest(s2c, IF TooLong(s2c) THEN W ELSE W + Length(s2c))
  /\ due' = SubSeq(due, 2, Len(due))
  /\ client' = IF TooLong(s2c) \/ print_response(Body(s2c)).rv < 0
               THEN "ended" ELSE client
  /\ UNCHANGED <<left, c2s, conn, asked>>

\* It fails because the server has closed the connection.  If it did so with
\* bytes left to read, the connection is reset, and responses that have
\* arrived may be lost.
ReadEof ==
  /\ client = "open" /\ asked \o due # <<>>
  /\ pc = "closed" /\ (c2s = <<>> => ~ Arrived(s2c))
  /\ client' = "ended"
  /\ UNCHANGED <<left, c2s, s2c, conn, asked, due>>

\* The user types EXIT.
Exit ==
  /\ client = "open" /\ asked \o due = <<>>
  /\ client' = "ended"
  /\ UNCHANGED <<left, c2s, s2c, conn, asked, due>>

-----------------------------------------------------------------------------
(* The connection in the server. *)

handle_read ==
  /\ pc = "poll" /\ want_read
  /\ \/ \E k \in 1 .. BufSize :
          /\ k <= Len(c2s)
          /\ incoming' = append(incoming, First(c2s, k))
          /\ c2s' = Rest(c2s, k)
          /\ pc' = "requests"
          /\ UNCHANGED want_close
     \/ /\ c2s = <<>> /\ client = "ended"
        /\ want_close' = TRUE /\ pc' = "closed"
        /\ UNCHANGED <<incoming, c2s>>
  /\ UNCHANGED <<client, left, s2c, outgoing, want_read, want_write, asked, due>>

\* The tests of try_one_request, on the bytes of incoming.
Complete(s) == ~ TooLong(s) /\ Arrived(s)
Parsed(s) == parse_req(Body(s))

\* What response_end says of a response that is too long.
Expected(v) ==
  IF out_value(New(0), v).n > MAX_MSG THEN <<"err", ERR_OUT_OF_RANGE, TooLongText>>
  ELSE v

Mut_try_one_request ==
  /\ pc = "requests"
  /\ Complete(Data(incoming)) /\ Parsed(Data(incoming)).ok
  /\ \E v \in Replies :
       /\ outgoing' = respond(outgoing, v)
       /\ due' = Append(due, Expected(v))
  /\ incoming' = consume(incoming, Length(Data(incoming)))
  /\ asked' = SubSeq(asked, 2, Len(asked))
  /\ UNCHANGED <<client, left, c2s, s2c, want_read, want_write, want_close, pc>>

try_one_request ==
  /\ pc = "requests"
  /\ Complete(Data(incoming)) /\ Parsed(Data(incoming)).ok
  /\ \E v \in Replies :
       /\ outgoing' = respond(outgoing, v)
       /\ due' = Append(due, Expected(v))
  /\ incoming' = consume(incoming, W + Length(Data(incoming)))
  /\ asked' = SubSeq(asked, 2, Len(asked))
  /\ UNCHANGED <<client, left, c2s, s2c, want_read, want_write, want_close, pc>>

Mut_handle_write(k) ==
  /\ s2c' = s2c \o First(Data(outgoing), k)
  /\ outgoing' = consume(outgoing, k)
  /\ want_read' = FALSE /\ want_write' = ~ empty(outgoing')

\* The socket takes k bytes.
handle_write(k) ==
  /\ s2c' = s2c \o First(Data(outgoing), k)
  /\ outgoing' = consume(outgoing, k)
  /\ want_read' = empty(outgoing') /\ want_write' = ~ empty(outgoing')

\* The loop over try_one_request ends: there is no complete request, or it
\* is refused.  main_loop then closes a connection that was refused.
RequestsDone ==
  /\ pc = "requests"
  /\ LET s == Data(incoming)
         refused == TooLong(s) \/ (Complete(s) /\ ~ Parsed(s).ok)
     IN  /\ refused \/ ~ Complete(s)
         /\ want_close' = refused
         /\ pc' = IF refused THEN "closed" ELSE "poll"
  /\ \/ empty(outgoing) /\ UNCHANGED <<s2c, outgoing, want_read, want_write>>
     \/ \E k \in 1 .. outgoing.data_length : handle_write(k)
  /\ UNCHANGED <<client, left, c2s, incoming, asked, due>>

\* poll reports that the socket takes bytes again.
Writable ==
  /\ pc = "poll" /\ want_write
  /\ \E k \in 1 .. outgoing.data_length : handle_write(k)
  /\ UNCHANGED <<client, left, c2s, incoming, want_close, pc, asked, due>>

-----------------------------------------------------------------------------
Init ==
  /\ client = "open" /\ left = MaxReqs
  /\ c2s = <<>> /\ s2c = <<>>
  /\ incoming = New(BufSize) /\ outgoing = New(BufSize)
  /\ want_read = TRUE /\ want_write = FALSE /\ want_close = FALSE
  /\ pc = "poll"
  /\ asked = <<>> /\ due = <<>>

Server == handle_read \/ try_one_request \/ RequestsDone \/ Writable
Client == (\E cmd \in Cmds : send_req(cmd)) \/ read_res \/ ReadEof \/ Exit

Next == Server \/ Client

Spec == Init /\ [][Next]_vars

-----------------------------------------------------------------------------
(* Properties. *)

\* Both buffers are sound: their pointers stay within their memory, and no
\* write through a pointer computed from data_end falls outside it.
TypeOK ==
  /\ client \in {"open", "ended"} /\ left \in 0 .. MaxReqs
  /\ pc \in {"poll", "requests", "closed"}
  /\ BufferOK(incoming) /\ BufferOK(outgoing)

\* However the requests are cut into reads, and wherever incoming moves or
\* grows, its bytes and those still to come are the requests not handled yet,
\* in the documented format.
RequestsIntact ==
  Data(incoming) \o c2s = FlattenSeq([i \in DOMAIN asked |-> Sent(asked[i])])

\* The bytes that have arrived at the client and those in outgoing are the
\* responses not printed yet, in the documented format and in order: no write
\* loses, repeats or overwrites a byte, and every response has its length.
ResponsesIntact ==
  pc # "closed" =>
    s2c \o Data(outgoing) = FlattenSeq([i \in DOMAIN due |-> Field(Encoded(due[i]))])

\* A request the server takes as complete is read back as the words that
\* were typed, and is refused only if there are too many of them.
CommandUnderstood ==
  pc = "requests" /\ Complete(Data(incoming)) =>
    /\ Parsed(Data(incoming)).ok <=> Len(asked[1]) <= MAX_CMDS
    /\ Parsed(Data(incoming)).ok => Parsed(Data(incoming)).words = asked[1]

\* What the client prints is the first answer it has not printed, also if
\* the connection was closed after it.
AnswerPrinted ==
  client = "open" /\ asked \o due # <<>> /\ Arrived(s2c) =>
    due # <<>> /\ print_response(Body(s2c)).val = due[1]

\* Client and server never wait for each other: as long as a response is
\* missing, it is there to be read, or the server is in the middle of a
\* call, or poll will report the event that is waited for.  Each of these
\* moves bytes on, so every request is served in the end.
NobodyStalls ==
  client = "open" /\ asked \o due # <<>> =>
    \/ Arrived(s2c) \/ pc # "poll"
    \/ want_read /\ c2s # <<>>
    \/ want_write /\ ~ empty(outgoing)
=============================================================================
