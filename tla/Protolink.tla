----------------------------- MODULE Protolink -----------------------------
(***************************************************************************)
(* A protolink client and the connection that serves it                    *)
(* (protolink/src/client.h, connection.h): length-prefixed packets over    *)
(* TCP, a dialler that retries, requests that wait for a response.         *)
(*                                                                         *)
(* The client keeps one buffer for everything it writes and for the bodies *)
(* it reads, and one header; the connection keeps one buffer for the bodies*)
(* it reads and the responses it writes.  Operations on a socket queue up  *)
(* in the order they were started; one that the kernel serves only partly  *)
(* starts over behind the others (asio's async_read and async_write are    *)
(* loops of async_read_some and async_write_some).  A completed operation  *)
(* is a handler in `done' until a thread of the client runs it.            *)
(*                                                                         *)
(* A packet is one word of header, its size, and as many words of body.    *)
(* Once some side takes words for a packet that nobody sent, `garbled' is  *)
(* set and the behaviour ends.                                             *)
(***************************************************************************)
EXTENDS Integers, Sequences, FiniteSets, SequencesExt

CONSTANTS
    Runners,     \* threads of the client's io_service
    Size,        \* words in the body of a packet, by kind
    Cap,         \* words a direction of a TCP connection holds
    MaxInFlight, \* operations the application lets the client have at a time
    MaxSends,    \* bound: packets the application sends
    MaxDeaths,   \* bound: times the server process dies
    None

Kinds == {"message", "request", "response"}
Sent == 1 .. MaxSends
Packets == [kind : Kinds, id : Sent]

ASSUME ProtolinkAssumption ==
    /\ Runners \in Nat \ {0} /\ Cap \in Nat \ {0}
    /\ Size \in [Kinds -> Nat \ {0}]
    /\ MaxInFlight \in Nat /\ MaxSends \in Nat /\ MaxDeaths \in Nat
    /\ None \notin Packets

MaxFrame == 1 + Max({Size[k] : k \in Kinds})

Header(n) == [size |-> n, of |-> None, i |-> 0]
Body(p) == [i \in 1 .. Size[p.kind] |-> [size |-> 0, of |-> p, i |-> i]]
Frame(p) == <<Header(Size[p.kind])>> \o Body(p)
Blank == [i \in 1 .. MaxFrame |-> Header(0)]

\* ParseFromArray: the packet these words are the body of.
Parsed(ws) == IF \E p \in Packets : ws = Body(p)
              THEN CHOOSE p \in Packets : ws = Body(p) ELSE None

\* An operation on a socket, done up to `at', and a handler that waits to run.
\* Errors matter as on_packet_sent tells them apart.
Op(h, kind, left) == [h |-> h, kind |-> kind, at |-> 0, left |-> left]
Note(h, kind, err, n) == [h |-> h, kind |-> kind, err |-> err, n |-> n]
Ended(op, err) == Note(op.h, op.kind, err, op.at)
Moved(op, k) == [op EXCEPT !.at = @ + k, !.left = @ - k]
Errors == {"ok", "reset", "other"}

Handlers == [h : {"connected", "report", "retry", "header", "packet", "sent"},
             kind : Kinds \cup {None}, err : Errors, n : 0 .. MaxFrame]
Ops == [h : {"header", "packet", "sent"}, kind : Kinds \cup {None},
        at : 0 .. MaxFrame, left : 0 .. MaxFrame]
Word == [size : Nat, of : Packets \cup {None}, i : Nat]

VARIABLES
    sock,       \* socket_: "down", "connecting", "up"
    writes,     \* write operations of the client, in order
    reads,      \* read operations of the client, in order
    done,       \* completed operations whose handlers have not run
    timer,      \* a wait of reconnect_timer_ is pending
    shutdown,   \* shutdown_
    buf,        \* buffer_
    head,       \* packet_header_
    trans,      \* the keys of transactions_
    calls,      \* packets sent so far
    told        \* what on_connected said last

\* The other end and the wire
VARIABLES
    listening,  \* the server process is there
    deaths,     \* times it died
    peer,       \* its end of the connection: "serving", "closed" after a FIN,
                \* "reset" after a RST nobody has been told of, "pipe" after that
    toServer, toClient,
    sread,      \* the read operation of the connection
    swrites,    \* its write operations
    sbuf        \* packet_buffer_

\* History
VARIABLES
    got,        \* packets the connection handed to its callback
    finished,   \* transactions whose on_finished fired, in order
    garbled,
    mixed       \* two operations have shared a buffer or the header, or the
                \* handler of one outlived its connection and went on on the next

clientVars == <<sock, writes, reads, done, timer, shutdown, buf, head, trans,
                calls, told>>
serverVars == <<listening, deaths, peer, sread, swrites, sbuf>>
wires == <<toServer, toClient>>
histVars == <<got, finished, garbled, mixed>>
vars == <<clientVars, serverVars, wires, histVars>>

TypeOK ==
    /\ sock \in {"down", "connecting", "up"}
    /\ writes \in Seq(Ops) /\ reads \in Seq(Ops) /\ swrites \in Seq(Ops)
    /\ done \in Seq(Handlers)
    /\ timer \in BOOLEAN /\ shutdown \in BOOLEAN /\ listening \in BOOLEAN
    /\ buf \in [1 .. MaxFrame -> Word] /\ sbuf \in [1 .. MaxFrame -> Word]
    /\ head \in 0 .. MaxFrame
    /\ trans \subseteq Sent /\ calls \in 0 .. MaxSends
    /\ told \in {"nothing", "up", "down"}
    /\ deaths \in 0 .. MaxDeaths
    /\ peer \in {"serving", "closed", "reset", "pipe"}
    /\ toServer \in Seq(Word) /\ toClient \in Seq(Word)
    /\ sread \in Ops
    /\ got \in Seq(Packets) /\ finished \in Seq(Sent)
    /\ garbled \in BOOLEAN /\ mixed \in BOOLEAN

ReadHeader == Op("header", None, 1)

\* The application has made the client and called async_connect.
Init ==
    /\ sock = "connecting" /\ writes = <<>> /\ reads = <<>> /\ done = <<>>
    /\ timer = FALSE /\ shutdown = FALSE
    /\ buf = Blank /\ head = 0 /\ trans = {} /\ calls = 0 /\ told = "nothing"
    /\ listening \in BOOLEAN /\ deaths = 0 /\ peer = "closed"
    /\ toServer = <<>> /\ toClient = <<>>
    /\ sread = ReadHeader /\ swrites = <<>> /\ sbuf = Blank
    /\ got = <<>> /\ finished = <<>> /\ garbled = FALSE /\ mixed = FALSE

-----------------------------------------------------------------------------
(* Buffers and operations *)

\* Words written over a buffer from position `at' on.
Overwrite(b, at, ws) ==
    [i \in DOMAIN b |-> IF i \in at + 1 .. at + Len(ws) THEN ws[i - at] ELSE b[i]]

Upto(a, b) == IF a < b THEN a ELSE b

\* What is left of an operation queue once its head has moved k words: an
\* operation that is not finished queues up again.
Requeued(ops, k) ==
    IF Head(ops).left = k THEN Tail(ops) ELSE Append(Tail(ops), Moved(Head(ops), k))

Defined == ~garbled

-----------------------------------------------------------------------------
(* The client: dialling *)

\* do_connect, after `queue': a socket in use refuses to be connected again.
Dial(queue) ==
    IF sock = "down" THEN /\ sock' = "connecting" /\ done' = queue
                     ELSE /\ UNCHANGED sock
                          /\ done' = Append(queue, Note("connected", None, "other", 0))

\* The kernel settles a connect.  Writes that queued up meanwhile go on, or fail.
Connects ==
    /\ Defined /\ sock = "connecting" /\ listening
    /\ sock' = "up" /\ peer' = "serving"
    /\ toServer' = <<>> /\ toClient' = <<>>
    /\ sread' = ReadHeader /\ swrites' = <<>> /\ sbuf' = Blank
    /\ done' = Append(done, Note("connected", None, "ok", 0))
    /\ UNCHANGED <<writes, reads, timer, shutdown, buf, head, trans, calls, told,
                   listening, deaths, histVars>>

Failed(ops) == [i \in DOMAIN ops |-> Ended(ops[i], "other")]

ConnectFails ==
    /\ Defined /\ sock = "connecting" /\ ~listening
    /\ sock' = "down"
    /\ done' = Append(done, Note("connected", None, "other", 0))
                    \o Failed(writes) \o Failed(reads)
    /\ writes' = <<>> /\ reads' = <<>>
    /\ UNCHANGED <<timer, shutdown, buf, head, trans, calls, told, serverVars, wires,
                   histVars>>

\* Handler i is one of those the threads of the io_service may be running.
Runs(i, h) ==
    /\ Defined
    /\ i \in DOMAIN done /\ i <= Runners
    /\ done[i].h = h

\* Wrong: shutdown_ is not looked at.
OnConnectAlways(i) ==
    /\ Runs(i, "connected")
    /\ done' = [done EXCEPT ![i].h = "report"]
    /\ UNCHANGED <<sock, writes, reads, timer, shutdown, buf, head, trans, calls, told,
                   serverVars, wires, histVars>>

\* on_connect up to the test of shutdown_, which another thread may set right
\* after; the handler goes on as a "report".
OnConnect(i) ==
    /\ Runs(i, "connected")
    /\ done' = IF shutdown THEN RemoveAt(done, i) ELSE [done EXCEPT ![i].h = "report"]
    /\ UNCHANGED <<sock, writes, reads, timer, shutdown, buf, head, trans, calls, told,
                   serverVars, wires, histVars>>

\* Wrong: a failed attempt is the last one.
ReportGivesUp(i) ==
    /\ Runs(i, "report")
    /\ done' = RemoveAt(done, i)
    /\ told' = IF done[i].err = "ok" THEN "up" ELSE "down"
    /\ UNCHANGED <<sock, writes, reads, timer, shutdown, buf, head, trans, calls,
                   serverVars, wires, histVars>>

\* The rest of on_connect: the application is told, a failure arms the timer; the
\* handler of a wait that was pending runs, as that of any cancelled one.
Report(i) ==
    /\ Runs(i, "report")
    /\ LET failed == done[i].err # "ok"
           rest == RemoveAt(done, i)
       IN  /\ told' = IF failed THEN "down" ELSE "up"
           /\ timer' = (timer \/ failed)
           /\ done' = IF failed /\ timer THEN Append(rest, Note("retry", None, "ok", 0))
                                         ELSE rest
    /\ UNCHANGED <<sock, writes, reads, shutdown, buf, head, trans, calls, serverVars,
                   wires, histVars>>

\* reconnect_timer_ expires; its handler ignores the error code.
TimerFires ==
    /\ Defined /\ timer
    /\ timer' = FALSE
    /\ done' = Append(done, Note("retry", None, "ok", 0))
    /\ UNCHANGED <<sock, writes, reads, shutdown, buf, head, trans, calls, told,
                   serverVars, wires, histVars>>

Retry(i) ==
    /\ Runs(i, "retry")
    /\ Dial(RemoveAt(done, i))
    /\ UNCHANGED <<writes, reads, timer, shutdown, buf, head, trans, calls, told,
                   serverVars, wires, histVars>>

\* prepare_shutdown: a cancelled wait calls do_connect once more.
PrepareShutdown ==
    /\ Defined /\ ~shutdown
    /\ shutdown' = TRUE
    /\ timer' = FALSE
    /\ done' = IF timer THEN Append(done, Note("retry", None, "ok", 0)) ELSE done
    /\ UNCHANGED <<sock, writes, reads, buf, head, trans, calls, told, serverVars,
                   wires, histVars>>

\* Nothing on its way holds the client.
Idle == ~timer /\ done = <<>> /\ writes = <<>> /\ reads = <<>>

\* ~client, once it was shut down and let go of: the socket is closed.  What it had
\* sent still reaches the connection.
Destroyed ==
    /\ Defined /\ shutdown /\ Idle /\ sock = "up"
    /\ sock' = "down"
    /\ UNCHANGED <<writes, reads, done, timer, shutdown, buf, head, trans, calls, told,
                   serverVars, wires, histVars>>

-----------------------------------------------------------------------------
(* The client: sending *)

\* A read left by a request that failed counts too.
InFlight ==
    Len(writes) + Len(reads)
    + Cardinality({i \in DOMAIN done : done[i].h \in {"sent", "header", "packet"}})

\* A handler that got no error and has not run
Succeeded(queue, hs) == \E i \in DOMAIN queue : queue[i].h \in hs /\ queue[i].err = "ok"

\* An operation of the client that uses buffer_ has not ended, and neither has a read
\* of the client, as the handlers in `queue' have not run.
BufferInUse ==
    \/ writes # <<>>
    \/ \E i \in DOMAIN reads : reads[i].h = "packet"
    \/ Succeeded(done, {"packet"})

Reading(queue) == reads # <<>> \/ Succeeded(queue, {"header", "packet"})

\* The kernel takes from the buffer b, as it is now, what it has room for of the
\* oldest write in ops.  When the other end has gone: after a FIN a write succeeds
\* and brings back a RST, which the next ones see as a broken pipe; a RST that
\* came by itself is reported once, as a reset.
Push(ops, b) ==
    LET op == Head(ops)
        k == Upto(op.left, Cap - Len(toServer))
    IN  IF peer = "serving"
        THEN /\ toServer' = toServer \o SubSeq(b, op.at + 1, op.at + k)
             /\ writes' = Requeued(ops, k)
             /\ done' = IF k = op.left THEN Append(done, Ended(op, "ok")) ELSE done
             /\ UNCHANGED peer
        ELSE /\ peer' = "pipe"
             /\ writes' = Tail(ops)
             /\ done' = Append(done, Ended(op, CASE peer = "closed" -> "ok"
                                              [] peer = "reset" -> "reset"
                                              [] peer = "pipe" -> "other"))
             /\ UNCHANGED toServer

\* Wrong: every request has the same number.
SendSameId(kind) ==
    /\ Defined /\ ~shutdown
    /\ calls < MaxSends /\ InFlight < MaxInFlight
    /\ calls' = calls + 1
    /\ trans' = IF kind = "request" THEN trans \cup {1} ELSE trans
    /\ LET op == Op("sent", kind, 1 + Size[kind])
           b == Overwrite(buf, 0, Frame([kind |-> kind, id |-> IF kind = "request" THEN 1 ELSE calls + 1]))
       IN  /\ buf' = b
           /\ IF sock = "up" /\ writes = <<>> THEN Push(<<op>>, b)
              ELSE /\ IF sock = "down"
                      THEN done' = Append(done, Ended(op, "other")) /\ UNCHANGED writes
                      ELSE writes' = Append(writes, op) /\ UNCHANGED done
                   /\ UNCHANGED <<toServer, peer>>
    /\ mixed' = (mixed \/ BufferInUse)
    /\ UNCHANGED <<sock, reads, timer, shutdown, head, told, listening, deaths, sread,
                   swrites, sbuf, toClient, got, finished, garbled>>

\* Wrong: the transaction is kept under the next number.
SendNextId(kind) ==
    /\ Defined /\ ~shutdown
    /\ calls < MaxSends /\ InFlight < MaxInFlight
    /\ calls' = calls + 1
    /\ trans' = IF kind = "request" THEN trans \cup {calls + 2} ELSE trans
    /\ LET op == Op("sent", kind, 1 + Size[kind])
           b == Overwrite(buf, 0, Frame([kind |-> kind, id |-> calls + 1]))
       IN  /\ buf' = b
           /\ IF sock = "up" /\ writes = <<>> THEN Push(<<op>>, b)
              ELSE /\ IF sock = "down"
                      THEN done' = Append(done, Ended(op, "other")) /\ UNCHANGED writes
                      ELSE writes' = Append(writes, op) /\ UNCHANGED done
                   /\ UNCHANGED <<toServer, peer>>
    /\ mixed' = (mixed \/ BufferInUse)
    /\ UNCHANGED <<sock, reads, timer, shutdown, head, told, listening, deaths, sread,
                   swrites, sbuf, toClient, got, finished, garbled>>

\* async_send_message, async_send_request: the buffer is filled and, when no write
\* is ahead on the connected socket, the first part of it is written at once.
Send(kind) ==
    /\ Defined /\ ~shutdown
    /\ calls < MaxSends /\ InFlight < MaxInFlight
    /\ calls' = calls + 1
    /\ trans' = IF kind = "request" THEN trans \cup {calls + 1} ELSE trans
    /\ LET op == Op("sent", kind, 1 + Size[kind])
           b == Overwrite(buf, 0, Frame([kind |-> kind, id |-> calls + 1]))
       IN  /\ buf' = b
           /\ IF sock = "up" /\ writes = <<>> THEN Push(<<op>>, b)
              ELSE /\ IF sock = "down"
                      THEN done' = Append(done, Ended(op, "other")) /\ UNCHANGED writes
                      ELSE writes' = Append(writes, op) /\ UNCHANGED done
                   /\ UNCHANGED <<toServer, peer>>
    /\ mixed' = (mixed \/ BufferInUse)
    /\ UNCHANGED <<sock, reads, timer, shutdown, head, told, listening, deaths, sread,
                   swrites, sbuf, toClient, got, finished, garbled>>

\* The socket can be written to, or has failed.
Writes ==
    /\ Defined /\ sock = "up" /\ writes # <<>>
    /\ peer # "serving" \/ Len(toServer) < Cap
    /\ Push(writes, buf)
    /\ UNCHANGED <<sock, reads, timer, shutdown, buf, head, trans, calls, told,
                   listening, deaths, sread, swrites, sbuf, toClient, histVars>>

\* Starting a read, with the handlers in `queue'.
StartRead(op, queue) ==
    IF sock = "down" THEN /\ done' = Append(queue, Ended(op, "other"))
                          /\ UNCHANGED reads
                     ELSE /\ reads' = Append(reads, op)
                          /\ done' = queue

\* Wrong: any error closes the socket and dials again.
OnPacketSentDials(i) ==
    /\ Runs(i, "sent")
    /\ LET rest == RemoveAt(done, i) IN
        IF done[i].err # "ok"
        THEN /\ sock' = "connecting"
             /\ done' = rest \o Failed(writes) \o Failed(reads)
                        \o (IF sock = "connecting"
                            THEN <<Note("connected", None, "other", 0)>> ELSE <<>>)
             /\ writes' = <<>> /\ reads' = <<>>
             /\ mixed' = (mixed \/ Succeeded(rest, {"header"}))
        ELSE /\ IF done[i].kind = "request"
                THEN /\ StartRead(ReadHeader, rest)
                     /\ mixed' = (mixed \/ Reading(rest))
                ELSE done' = rest /\ UNCHANGED <<reads, mixed>>
             /\ UNCHANGED <<sock, writes>>
    /\ UNCHANGED <<timer, shutdown, buf, head, trans, calls, told, serverVars, wires,
                   got, finished, garbled>>

\* on_packet_sent: a reset closes the socket, which ends its other operations,
\* and dials again.  Any other result counts as sent.
OnPacketSent(i) ==
    /\ Runs(i, "sent")
    /\ LET rest == RemoveAt(done, i) IN
        IF done[i].err = "reset"
        THEN /\ sock' = "connecting"
             /\ done' = rest \o Failed(writes) \o Failed(reads)
                        \o (IF sock = "connecting"
                            THEN <<Note("connected", None, "other", 0)>> ELSE <<>>)
             /\ writes' = <<>> /\ reads' = <<>>
             /\ mixed' = (mixed \/ Succeeded(rest, {"header"}))
        ELSE /\ IF done[i].kind = "request"
                THEN /\ StartRead(ReadHeader, rest)
                     /\ mixed' = (mixed \/ Reading(rest))
                ELSE done' = rest /\ UNCHANGED <<reads, mixed>>
             /\ UNCHANGED <<sock, writes>>
    /\ UNCHANGED <<timer, shutdown, buf, head, trans, calls, told, serverVars, wires,
                   got, finished, garbled>>

-----------------------------------------------------------------------------
(* The client: responses *)

\* Words that arrived go to the oldest read: the header to packet_header_, a body
\* to the start of buffer_.
Reads ==
    /\ Defined /\ sock = "up" /\ reads # <<>> /\ toClient # <<>>
    /\ LET op == Head(reads)
           k == Upto(op.left, Len(toClient))
           ws == SubSeq(toClient, 1, k)
       IN  /\ toClient' = SubSeq(toClient, k + 1, Len(toClient))
           /\ reads' = Requeued(reads, k)
           /\ done' = IF k = op.left THEN Append(done, Ended(Moved(op, k), "ok"))
                                     ELSE done
           /\ IF op.h = "header"
              THEN /\ head' = ws[1].size
                   /\ garbled' = (ws[1].of # None)
                   /\ UNCHANGED buf
              ELSE /\ buf' = Overwrite(buf, op.at, ws)
                   /\ UNCHANGED <<head, garbled>>
    /\ UNCHANGED <<sock, writes, timer, shutdown, trans, calls, told, serverVars,
                   toServer, got, finished, mixed>>

\* A read finds the other end gone.
ReadFails ==
    /\ Defined /\ sock = "up" /\ reads # <<>> /\ toClient = <<>>
    /\ peer # "serving"
    /\ peer' = IF peer = "reset" THEN "pipe" ELSE peer
    /\ reads' = Tail(reads)
    /\ done' = Append(done, Ended(Head(reads), "other"))
    /\ UNCHANGED <<sock, writes, timer, shutdown, buf, head, trans, calls, told,
                   listening, deaths, sread, swrites, sbuf, wires, histVars>>

\* Wrong: the size is taken to count the header.
OnHeaderReadShort(i) ==
    /\ Runs(i, "header")
    /\ LET rest == RemoveAt(done, i) IN
        IF done[i].err = "ok"
        THEN /\ StartRead(Op("packet", None, head - 1), rest)
             /\ mixed' = (mixed \/ writes # <<>> \/ Reading(rest))
        ELSE done' = rest /\ UNCHANGED <<reads, mixed>>
    /\ UNCHANGED <<sock, writes, timer, shutdown, buf, head, trans, calls, told,
                   serverVars, wires, got, finished, garbled>>

\* on_header_read
OnHeaderRead(i) ==
    /\ Runs(i, "header")
    /\ LET rest == RemoveAt(done, i) IN
        IF done[i].err = "ok"
        THEN /\ StartRead(Op("packet", None, head), rest)
             /\ mixed' = (mixed \/ writes # <<>> \/ Reading(rest))
        ELSE done' = rest /\ UNCHANGED <<reads, mixed>>
    /\ UNCHANGED <<sock, writes, timer, shutdown, buf, head, trans, calls, told,
                   serverVars, wires, got, finished, garbled>>

\* Wrong: a finished transaction stays.
OnPacketReadKeeps(i) ==
    /\ Runs(i, "packet")
    /\ done' = RemoveAt(done, i)
    /\ LET p == Parsed(SubSeq(buf, 1, done[i].n)) IN
        finished' = IF done[i].err = "ok" /\ p # None /\ p.id \in trans
                    THEN Append(finished, p.id) ELSE finished
    /\ UNCHANGED <<sock, writes, reads, timer, shutdown, buf, head, trans, calls, told,
                   serverVars, wires, got, garbled, mixed>>

\* on_packet_read: the transaction of the response is finished and erased.
OnPacketRead(i) ==
    /\ Runs(i, "packet")
    /\ done' = RemoveAt(done, i)
    /\ LET p == Parsed(SubSeq(buf, 1, done[i].n)) IN
        IF done[i].err # "ok" THEN UNCHANGED <<trans, finished, garbled>>
        ELSE IF p = None \/ p.kind # "response"
             THEN garbled' = TRUE /\ UNCHANGED <<trans, finished>>
             ELSE /\ finished' = IF p.id \in trans THEN Append(finished, p.id)
                                                   ELSE finished
                  /\ trans' = trans \ {p.id}
                  /\ UNCHANGED garbled
    /\ UNCHANGED <<sock, writes, reads, timer, shutdown, buf, head, calls, told,
                   serverVars, wires, got, mixed>>

-----------------------------------------------------------------------------
(* The connection at the server *)

Serving == Defined /\ listening /\ peer = "serving"

\* on_header_read of the connection
ServerReadsHeader ==
    /\ Serving /\ sread.h = "header" /\ toServer # <<>>
    /\ sread' = Op("packet", None, Head(toServer).size)
    /\ garbled' = (Head(toServer).of # None)
    /\ toServer' = Tail(toServer)
    /\ UNCHANGED <<clientVars, listening, deaths, peer, swrites, sbuf, toClient, got,
                   finished, mixed>>

Answer(p) == [kind |-> "response", id |-> p.id]

\* async_send and the continuation of a write: what the kernel has room for of the
\* oldest write in ops leaves from the buffer b as it is now.
ServerPush(ops, b) ==
    LET op == Head(ops)
        k == Upto(op.left, Cap - Len(toClient))
    IN  /\ toClient' = toClient \o SubSeq(b, op.at + 1, op.at + k)
        /\ swrites' = Requeued(ops, k)

\* send_response, from the buffer the request was read into
Respond(p) ==
    LET op == Op("sent", "response", 1 + Size["response"]) IN
    /\ sbuf' = Overwrite(sbuf, 0, Frame(Answer(p)))
    /\ IF swrites = <<>> THEN ServerPush(<<op>>, sbuf')
                         ELSE swrites' = Append(swrites, op) /\ UNCHANGED toClient

\* do_read_packet, and with its last word on_packet_read: a message goes to the
\* callback, a request is answered, the next header is read.
ServerReadsPacket ==
    /\ Serving /\ sread.h = "packet" /\ toServer # <<>>
    /\ LET k == Upto(sread.left, Len(toServer))
           b == Overwrite(sbuf, sread.at, SubSeq(toServer, 1, k))
           p == Parsed(SubSeq(b, 1, sread.at + k))
           whole == k = sread.left
       IN  /\ toServer' = SubSeq(toServer, k + 1, Len(toServer))
           /\ sread' = IF whole THEN ReadHeader ELSE Moved(sread, k)
           /\ garbled' = (whole /\ p = None)
           /\ got' = IF whole /\ p # None THEN Append(got, p) ELSE got
           /\ mixed' = (mixed \/ swrites # <<>>)
           /\ IF whole /\ p # None /\ p.kind = "request" THEN Respond(p)
              ELSE sbuf' = b /\ UNCHANGED <<swrites, toClient>>
    /\ UNCHANGED <<clientVars, listening, deaths, peer, finished>>

ServerWrites ==
    /\ Serving /\ swrites # <<>> /\ Len(toClient) < Cap
    /\ ServerPush(swrites, sbuf)
    /\ UNCHANGED <<clientVars, listening, deaths, peer, sread, sbuf, toServer, histVars>>

\* The server process dies: what it had written still arrives after a FIN, and
\* is lost with a RST.
ServerDies(end) ==
    /\ Defined /\ listening /\ deaths < MaxDeaths
    /\ listening' = FALSE
    /\ deaths' = deaths + 1
    /\ peer' = IF peer = "serving" THEN end ELSE peer
    /\ toServer' = <<>>
    /\ toClient' = IF peer = "serving" /\ end = "reset" THEN <<>> ELSE toClient
    /\ sread' = ReadHeader /\ swrites' = <<>> /\ sbuf' = Blank
    /\ UNCHANGED <<clientVars, histVars>>

ServerReturns ==
    /\ Defined /\ ~listening
    /\ listening' = TRUE
    /\ UNCHANGED <<clientVars, deaths, peer, sread, swrites, sbuf, wires, histVars>>

-----------------------------------------------------------------------------
Run(i) ==
    OnConnect(i) \/ Report(i) \/ Retry(i) \/ OnPacketSent(i) \/ OnHeaderRead(i) \/ OnPacketRead(i)

Kernel == Destroyed \/ Connects \/ ConnectFails \/ Writes \/ Reads \/ ReadFails

Server == ServerReadsHeader \/ ServerReadsPacket \/ ServerWrites

Next ==
    \/ \E i \in 1 .. Runners : Run(i)
    \/ Kernel \/ TimerFires \/ Server
    \/ \E kind \in {"message", "request"} : Send(kind)
    \/ PrepareShutdown
    \/ \E end \in {"closed", "reset"} : ServerDies(end)
    \/ ServerReturns

Spec == Init /\ [][Next]_vars

\* The threads of the client run the oldest handler, TCP and the server go on, a
\* timer expires.  Nothing makes the application send or the server come back.
Fairness ==
    /\ WF_vars(Run(1)) /\ WF_vars(TimerFires) /\ WF_vars(Destroyed)
    /\ WF_vars(Connects) /\ WF_vars(ConnectFails)
    /\ WF_vars(Writes) /\ WF_vars(Reads) /\ WF_vars(ReadFails)
    /\ WF_vars(ServerReadsHeader) /\ WF_vars(ServerReadsPacket) /\ WF_vars(ServerWrites)

FairSpec == Spec /\ Fairness

-----------------------------------------------------------------------------
(* Properties *)

\* The header always says where a packet ends and the next one starts: neither
\* side ever takes for a header or a packet what the other did not send as one.
\* (do_send_packet, do_read_packet and async_send, which share their buffers)
Intact == ~garbled

\* The same until two operations have shared a buffer: packets may follow each other
\* on the wire and their completions queue up, over any number of reconnections, but
\* a packet is sent only when the kernel has taken the one before from buffer_, no
\* response is on its way into it, and no connection is replaced between the header
\* of a response and its body.
IntactUntilMixed == mixed \/ Intact

\* What the connection handed over and the transactions that finished are what an
\* at-most-once, in-order channel with some loss could give.
Delivers == INSTANCE Delivery WITH received <- [i \in DOMAIN got |-> got[i].id],
                                   answered <- finished

\* However many packets are sent back to back, lost with a connection and followed by
\* others on the next one, the channel keeps that promise until operations have got
\* mixed up.  (do_send_packet, on_packet_sent, on_packet_read)
DeliversUntilMixed == Delivers!Init /\ [][mixed' \/ Delivers!Next]_(Delivers!vars)

\* The other end receives each packet at most once and in the order they were sent:
\* async_send_message "sends the message" it is given.
ReceivedInOrder == \A i, j \in DOMAIN got : i < j => got[i].id < got[j].id

\* Attempts to connect that are under way or certain to come.
Attempts ==
    (IF sock = "connecting" THEN 1 ELSE 0) + (IF timer THEN 1 ELSE 0)
    + Cardinality({i \in DOMAIN done :
          \/ done[i].h = "retry"
          \/ done[i].h \in {"connected", "report"} /\ done[i].err # "ok"})

\* The client dials once at a time, and not while it is connected: an attempt on
\* a socket in use fails, reports the node as lost and makes the next attempt,
\* without end.  (on_connect, on_packet_sent, do_connect)
OneDial == Attempts + (IF sock = "up" THEN 1 ELSE 0) <= 1

\* A client that is dialling gets through once the server is there to stay,
\* unless it is shut down.
DialsThrough ==
    <>[]listening => (Attempts > 0 ~> sock = "up" \/ shutdown)

\* While the server is there every transaction ends with its response.
TransactionsEnd ==
    []listening => \A id \in Sent : id \in trans ~> id \notin trans

\* After prepare_shutdown the client stops dialling for good, wherever it was, even
\* in the middle of on_connect, and closes its socket, unless a read holds it: that
\* of a request that failed while the client was between two connections waits for
\* a header nobody will send.
ShutdownEnds == shutdown ~> [](Attempts = 0 /\ (sock = "down" \/ reads # <<>>))

\* Once the server is there to stay the client is connected to it again and
\* again: protolink "opens and holds a connection".
HoldsConnection ==
    <>[]listening => []<>(shutdown \/ (sock = "up" /\ peer = "serving"))
=============================================================================
