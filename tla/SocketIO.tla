------------------------------ MODULE SocketIO ------------------------------
(***************************************************************************)
(* The bytes of one request: the loops of sendData, recvData and sendFile  *)
(* in socket.c, as sendErrorResponse, serveFile and the forwarding loop of *)
(* the proxy handlers call them.                                           *)
(*                                                                         *)
(* Bytes have an identity: 1, 2, ... are those of the file or of the       *)
(* upstream's response, negative ones those of a response header, an error *)
(* page or the request that is passed on to an upstream, and 0 is whatever *)
(* lies in memory outside the data.  An int holds                          *)
(* -IntMax - 1 .. IntMax; a size_t is wider, and what send() returns is    *)
(* kept in one, so that -1 is a large count.                               *)
(*                                                                         *)
(* Everything that transfers bytes is local to a request, so one request   *)
(* is followed from its first recv() to its end.                           *)
(***************************************************************************)
EXTENDS Integers, SequencesExt

CONSTANTS BufSize,        \* BUFF_SIZE
          StatusLen,      \* bytes up to the blank after the status code
          IntMax,         \* INT_MAX
          MaxTransfer,    \* the most that one sendfile() or read() moves
          MaxLen,         \* bound on the length of a file or response
          MaxInterrupts,  \* bound on calls that fail with EINTR
          Cases           \* what the environment brings about

CaseKinds == {"clientReset", "recvFails", "upstreamReset", "sslFails",
              "fileShrinks", "interrupted"}

ASSUME SizesAreNat == /\ BufSize \in Nat \ {0} /\ StatusLen \in 1..BufSize
                      /\ IntMax \in Nat \ {0} /\ MaxTransfer \in 1..IntMax
                      /\ MaxLen \in Nat /\ MaxInterrupts \in Nat
ASSUME BuffersFitInt == BufSize <= IntMax /\ 2 <= IntMax
ASSUME CasesAreKinds == Cases \subseteq CaseKinds

Garbage == 0
ErrorPage == << <<-1, -2>>, <<-3>>, <<-4, -5>> >>   \* buffer3, buffer2, buffer1
FileHeader == <<-1, -2>>
Requests == {<< <<-1, -2>> >>,                 \* headers, X-Forwarded-For, body
             << <<-1, -2>>, <<-3>> >>,
             << <<-1, -2>>, <<-3>>, <<-4>> >>}

VARIABLES
  died,       \* how the process has ended, if it has
  ssl,        \* the client's connection is TLS
  task,       \* how the request is answered
  stage,      \* where the request is
  client,     \* the client's socket: open, closed by us, or gone
  length,     \* bytes of the file or of the upstream's response
  size,       \* serveFile: what lseek() has said the length is
  announced,  \* the Content-Length of the response
  arrived,    \* bytes of the upstream's response that have come in
  taken,      \* ... and that recv() has returned
  upstream,   \* the upstream's end of its connection
  keepAlive,  \* the upstream does not close after its response
  whole,      \* the response had arrived before the first recv()
  start,      \* startOfResponse
  bytes,      \* result of the latest recvData()
  debt,       \* how often the present recvData() was interrupted
  buf,        \* the data of the present sendData()
  ptr,        \* bytes of buf that are behind the pointer
  nleft,      \* sendData: nleft
  todo,       \* the pieces that further calls of sendData() will send
  out,        \* bytes the client's socket has taken
  slips,      \* interrupted calls of send() to the client
  asked,      \* the request that the upstream is to get, in pieces
  passed,     \* bytes the upstream's socket has taken
  resent,     \* interrupted calls of send() to the upstream
  dropped     \* bytes received in front of the buffer

peerVars == <<client, length, arrived, upstream>>
sendVars == <<buf, ptr, nleft, todo, out, slips>>
passVars == <<asked, passed, resent>>
recvVars == <<taken, whole, start, bytes, debt, dropped>>
fixed    == <<ssl, keepAlive>>
vars == <<died, task, stage, size, announced, peerVars, sendVars, passVars, recvVars, fixed>>

Tasks  == {"none", "error", "get", "head", "proxy"}
Stages == {"input", "pass", "send", "body", "recv", "status", "done"}
Ints   == -(IntMax + 1) .. IntMax

Bytes(from, to) == [i \in 1 .. to - from + 1 |-> from + i - 1]
Least(a, b) == IF a < b THEN a ELSE b

TypeOK ==
  /\ died \in {"no", "sigpipe", "segfault"}
  /\ ssl \in BOOLEAN /\ keepAlive \in BOOLEAN /\ whole \in BOOLEAN /\ start \in BOOLEAN
  /\ task \in Tasks /\ stage \in Stages
  /\ client \in {"open", "closed", "gone"}
  /\ upstream \in {"open", "closed", "reset"}
  /\ length \in 0..MaxLen /\ size \in 0..MaxLen /\ announced \in Ints
  /\ arrived \in 0..MaxLen /\ taken \in 0..arrived
  /\ debt \in 0..MaxInterrupts /\ slips \in 0..MaxInterrupts
  /\ bytes \in -MaxInterrupts..BufSize /\ dropped \in 0..MaxInterrupts
  /\ nleft \in Ints /\ ptr \in -(IntMax + 1) .. Len(buf)
  /\ buf \in Seq(Int) /\ todo \in Seq(Seq(Int)) /\ out \in Seq(Int)
  /\ asked \in Requests \cup {<<>>} /\ passed \in Seq(Int) /\ resent \in 0..MaxInterrupts

Init ==
  /\ died = "no" /\ task = "none" /\ stage = "input"
  /\ ssl \in BOOLEAN /\ keepAlive \in BOOLEAN
  /\ client = "open" /\ upstream = "open"
  /\ length \in 0..MaxLen /\ size = 0 /\ announced = 0
  /\ arrived = 0 /\ taken = 0 /\ whole = FALSE /\ start = TRUE
  /\ bytes = 0 /\ debt = 0 /\ dropped = 0
  /\ buf = <<>> /\ ptr = 0 /\ nleft = 0 /\ todo = <<>> /\ out = <<>> /\ slips = 0
  /\ asked = <<>> /\ passed = <<>> /\ resent = 0

-----------------------------------------------------------------------------
(* The peers *)

ClientResets ==
  /\ "clientReset" \in Cases /\ client = "open"
  /\ client' = "gone"
  /\ UNCHANGED <<died, task, stage, size, announced, length, arrived, upstream, sendVars,
                 recvVars, passVars, fixed>>

\* a segment of the upstream's response
UpstreamSends(n) ==
  /\ task = "proxy" /\ upstream = "open" /\ arrived + n <= length
  /\ arrived' = arrived + n
  /\ UNCHANGED <<died, task, stage, size, announced, client, length, upstream, sendVars,
                 recvVars, passVars, fixed>>

UpstreamCloses ==
  /\ task = "proxy" /\ upstream = "open" /\ arrived = length /\ ~keepAlive
  /\ upstream' = "closed"
  /\ UNCHANGED <<died, task, stage, size, announced, client, length, arrived, sendVars,
                 recvVars, passVars, fixed>>

\* also the answer to bytes for an upstream that has closed its socket
UpstreamResets ==
  /\ "upstreamReset" \in Cases /\ task = "proxy" /\ upstream # "reset"
  /\ upstream' = "reset"
  /\ UNCHANGED <<died, task, stage, size, announced, client, length, arrived, sendVars,
                 recvVars, passVars, fixed>>

\* somebody truncates the file after its size was looked up
FileShrinks ==
  /\ "fileShrinks" \in Cases /\ task = "get" /\ stage = "send" /\ length > 0
  /\ length' = length - 1
  /\ UNCHANGED <<died, task, stage, size, announced, client, arrived, upstream, sendVars,
                 recvVars, passVars, fixed>>

-----------------------------------------------------------------------------
(* sendData: to the client, or, at stage "pass", to an upstream *)

\* mutant of AsInt: an int has no bounds
AsIntUnbounded(n) == n

\* the value an int has after a conversion from a wider type
AsInt(n) == ((n + IntMax + 1) % (2 * IntMax + 2)) - (IntMax + 1)

\* what lies at a position of the buffer, which may be in front of it
ByteAt(k) == IF k \in DOMAIN buf THEN buf[k] ELSE Garbage

Call(pieces) == /\ buf' = Head(pieces) /\ todo' = Tail(pieces)
                /\ ptr' = 0 /\ nleft' = Len(Head(pieces))

Sending == stage \in {"pass", "send"} /\ nleft > 0

Tls == ssl /\ stage = "send"

PeerThere == IF stage = "pass" THEN upstream # "reset" ELSE client = "open"

\* the next n bytes go out
Take(n) ==
  LET more == [i \in 1..n |-> ByteAt(ptr + i)] IN
  /\ out' = IF stage = "send" THEN out \o more ELSE out
  /\ passed' = IF stage = "pass" THEN passed \o more ELSE passed

\* mutant of Send: the pointer stays
SendSame(n) ==
  /\ Sending /\ PeerThere
  /\ IF Tls THEN n = nleft ELSE n <= nleft
  /\ Take(n)
  /\ nleft' = nleft - n
  /\ UNCHANGED <<died, task, stage, size, announced, peerVars, buf, ptr, todo, slips, recvVars,
                 asked, resent, fixed>>

\* mutant of Send: a partial send is not repeated
SendOnce(n) ==
  /\ Sending /\ PeerThere
  /\ IF Tls THEN n = nleft ELSE n <= nleft
  /\ Take(n)
  /\ ptr' = ptr + n
  /\ nleft' = 0
  /\ UNCHANGED <<died, task, stage, size, announced, peerVars, buf, todo, slips, recvVars,
                 asked, resent, fixed>>

\* send() takes some of the bytes; a TLS connection takes all of them
Send(n) ==
  /\ Sending /\ PeerThere
  /\ IF Tls THEN n = nleft ELSE n <= nleft
  /\ Take(n)
  /\ ptr' = ptr + n
  /\ nleft' = nleft - n
  /\ UNCHANGED <<died, task, stage, size, announced, peerVars, buf, todo, slips, recvVars,
                 asked, resent, fixed>>

\* mutant of SendFails: a failure is not taken for progress
SendRetries ==
  /\ Sending /\ ~Tls /\ ~PeerThere
  /\ UNCHANGED vars

\* send() returns -1: nsent > 0, and nleft -= nsent adds one
SendFails ==
  /\ Sending /\ ~Tls /\ ~PeerThere
  /\ ptr' = ptr - 1
  /\ nleft' = AsInt(nleft + 1)
  /\ UNCHANGED <<died, task, stage, size, announced, peerVars, buf, todo, out, slips,
                 recvVars, passVars, fixed>>

\* EINTR is not told apart from other failures
SendInterrupted ==
  /\ "interrupted" \in Cases /\ slips + resent < MaxInterrupts
  /\ Sending /\ ~Tls /\ PeerThere
  /\ slips' = IF stage = "send" THEN slips + 1 ELSE slips
  /\ resent' = IF stage = "pass" THEN resent + 1 ELSE resent
  /\ ptr' = ptr - 1
  /\ nleft' = AsInt(nleft + 1)
  /\ UNCHANGED <<died, task, stage, size, announced, peerVars, buf, todo, out, recvVars, asked,
                 passed, fixed>>

\* SSL_write_ex() fails: there is one attempt, and the connection is broken
SslWriteFails ==
  /\ Sending /\ Tls
  /\ "sslFails" \in Cases \/ client = "gone"
  /\ client' = "gone"
  /\ nleft' = 0
  /\ UNCHANGED <<died, task, stage, size, announced, length, arrived, upstream, buf, ptr,
                 todo, out, slips, recvVars, passVars, fixed>>

\* nobody ignores SIGPIPE
Sigpipe ==
  /\ \/ stage = "pass" /\ nleft > 0 /\ upstream = "reset"
     \/ /\ client = "gone" /\ "clientReset" \in Cases
        /\ stage \in {"body", "send"} /\ (stage = "send" => nleft > 0)
  /\ died' = "sigpipe"
  /\ UNCHANGED <<task, stage, size, announced, peerVars, sendVars, recvVars, passVars, fixed>>

\* the loop ends, also when nleft has become negative; the caller goes on
\* with its next piece, the body of a file, the status of a response, or the
\* first recv() from the upstream
Sent ==
  /\ stage \in {"pass", "send"} /\ nleft <= 0
  /\ \/ todo # <<>> /\ Call(todo) /\ UNCHANGED stage
     \/ /\ todo = <<>>
        /\ stage' = CASE stage = "pass" -> "recv"
                      [] task = "get" -> "body"
                      [] stage = "send" /\ task = "proxy" -> "status"
                      [] OTHER -> "done"
        /\ UNCHANGED <<buf, ptr, nleft, todo>>
  /\ UNCHANGED <<died, task, size, announced, peerVars, out, slips, recvVars, passVars, fixed>>

-----------------------------------------------------------------------------
(* processInput, serveFile and sendFile *)

\* the request is rejected
Reject ==
  /\ stage = "input"
  /\ task' = "error" /\ stage' = "send" /\ Call(ErrorPage)
  /\ UNCHANGED <<died, size, announced, peerVars, out, slips, recvVars, passVars, fixed>>

\* recvData() closes the client's socket, and the error page is sent to it
InputFails ==
  /\ "recvFails" \in Cases /\ stage = "input" /\ ~ssl
  /\ client' = "closed"
  /\ task' = "error" /\ stage' = "send" /\ Call(ErrorPage)
  /\ UNCHANGED <<died, size, announced, length, arrived, upstream, out, slips, recvVars, passVars, fixed>>

\* serveFile(): the size is printed with %d
ServeFile(t) ==
  /\ stage = "input"
  /\ task' = t /\ stage' = "send" /\ Call(<<FileHeader>>)
  /\ size' = length
  /\ announced' = AsInt(length)
  /\ UNCHANGED <<died, peerVars, out, slips, recvVars, passVars, fixed>>

\* what one sendfile() or read() gets of the file
Readable == Least(size, Least(length, MaxTransfer))

\* one attempt: sendfile() may move less than the size, and with TLS the
\* buffer is sent whole, with whatever is in it behind what read() has got
SendFile ==
  /\ stage = "body" /\ client = "open"
  /\ out' = out \o IF ssl THEN [i \in 1..size |-> IF i <= Readable THEN i ELSE Garbage]
                          ELSE Bytes(1, Readable)
  /\ stage' = "done"
  /\ UNCHANGED <<died, task, size, announced, peerVars, buf, ptr, nleft, todo, slips,
                 recvVars, passVars, fixed>>

SendFileFails ==
  /\ stage = "body" /\ client # "open"
  /\ stage' = "done"
  /\ UNCHANGED <<died, task, size, announced, peerVars, sendVars, recvVars, passVars, fixed>>

-----------------------------------------------------------------------------
(* recvData and the forwarding loop of the proxy handlers *)

\* mutant of ForwardRequest: the header for the client's address comes last
ForwardOutOfOrder(pieces) ==
  /\ stage = "input"
  /\ task' = "proxy" /\ stage' = "pass" /\ asked' = pieces /\ Call(Reverse(pieces))
  /\ UNCHANGED <<died, size, announced, peerVars, out, slips, passed, resent, recvVars, fixed>>

\* the upstream is connected and gets the request, in up to three calls of
\* sendData(): one without the blank line that ends the headers is passed on
\* as it is, and not every request has a body
ForwardRequest(pieces) ==
  /\ stage = "input"
  /\ task' = "proxy" /\ stage' = "pass" /\ asked' = pieces /\ Call(pieces)
  /\ UNCHANGED <<died, size, announced, peerVars, out, slips, passed, resent, recvVars, fixed>>

\* mutant of Room: a byte is kept for the end of the string
RoomForNul == BufSize - 1

\* nbytes: it has grown by one for each interruption
Room == BufSize + debt

\* recvData() returns n, less one for each interruption; 0 ends the loop
Received(n) ==
  /\ bytes' = n - debt
  /\ debt' = 0
  /\ IF n = debt THEN stage' = "done" /\ UNCHANGED <<buf, ptr, nleft, todo>>
                 ELSE stage' = "send" /\ Call(<<Bytes(taken + debt + 1, taken + n)>>)

\* recv() returns what is there, but p has gone back by one byte for each
\* interruption, and the first bytes land in front of the buffer
Recv ==
  /\ stage = "recv" /\ arrived > taken
  /\ LET n == Least(arrived - taken, Room)
     IN  /\ Received(n)
         /\ taken' = taken + n
         /\ dropped' = dropped + Least(n, debt)
  /\ whole' = IF taken = 0 THEN arrived = length ELSE whole
  /\ UNCHANGED <<died, task, size, announced, peerVars, out, slips, start, passVars, fixed>>

RecvEnd ==
  /\ stage = "recv" /\ arrived = taken /\ upstream = "closed"
  /\ Received(0)
  /\ UNCHANGED <<died, task, size, announced, peerVars, out, slips, taken, whole, start,
                 dropped, passVars, fixed>>

\* the socket is closed, and 0 is returned
RecvFails ==
  /\ stage = "recv" /\ arrived = taken /\ upstream = "reset"
  /\ bytes' = 0 /\ debt' = 0
  /\ stage' = "done"
  /\ UNCHANGED <<died, task, size, announced, peerVars, sendVars, taken, whole, start, dropped,
                 passVars, fixed>>

RecvInterrupted ==
  /\ "interrupted" \in Cases /\ debt + dropped < MaxInterrupts
  /\ stage = "recv" /\ arrived = taken /\ upstream = "open"
  /\ debt' = debt + 1
  /\ UNCHANGED <<died, task, stage, size, announced, peerVars, sendVars, taken, whole, start,
                 bytes, dropped, passVars, fixed>>

\* the code is looked for between two blanks of the first buffer
NoStatus ==
  /\ stage = "status" /\ start /\ bytes < StatusLen
  /\ died' = "segfault"
  /\ UNCHANGED <<task, stage, size, announced, peerVars, sendVars, recvVars, passVars, fixed>>

\* mutant of Status: the code is looked for in every buffer
StatusAgain ==
  /\ stage = "status" /\ (start => bytes >= StatusLen)
  /\ stage' = IF bytes = BufSize THEN "recv" ELSE "done"
  /\ UNCHANGED <<died, task, size, announced, peerVars, sendVars, recvVars, passVars, fixed>>

\* a full buffer may be followed by more
Status ==
  /\ stage = "status" /\ (start => bytes >= StatusLen)
  /\ start' = FALSE
  /\ stage' = IF bytes = BufSize THEN "recv" ELSE "done"
  /\ UNCHANGED <<died, task, size, announced, peerVars, sendVars, taken, whole, bytes, debt,
                 dropped, passVars, fixed>>

-----------------------------------------------------------------------------
Peers == ClientResets \/ UpstreamResets \/ FileShrinks

Answers == (\E n \in 1..MaxLen : UpstreamSends(n)) \/ UpstreamCloses

Interrupts == SendInterrupted \/ RecvInterrupted

Steps == \/ \E n \in 1 .. BufSize : Send(n)
         \/ SendFails \/ SslWriteFails \/ Sigpipe \/ Sent
         \/ Reject \/ InputFails \/ (\E t \in {"get", "head"} : ServeFile(t))
         \/ SendFile \/ SendFileFails
         \/ (\E p \in Requests : ForwardRequest(p)) \/ Recv \/ RecvEnd \/ RecvFails
         \/ NoStatus \/ Status

Over == stage = "done" \/ died # "no"

\* recv() waits for more of a response that has been received to its end
Waiting == stage = "recv" /\ taken = length /\ upstream = "open" /\ keepAlive

Rest == (Over \/ Waiting) /\ UNCHANGED vars

Next == (died = "no" /\ (Peers \/ Answers \/ Interrupts \/ Steps)) \/ Rest

Spec == Init /\ [][Next]_vars

(***************************************************************************)
(* The thread runs on, the client reads what it is sent, and an upstream   *)
(* sends its response, in segments of any size, and closes unless it keeps *)
(* connections alive.  The code has no timeout and relies on both peers.   *)
(***************************************************************************)
FairSpec == Spec /\ WF_vars(died = "no" /\ Steps) /\ WF_vars(died = "no" /\ Answers)

-----------------------------------------------------------------------------
(* Properties *)

\* What the answer consists of
Answer == CASE task = "none"  -> <<>>
            [] task = "error" -> ErrorPage[1] \o ErrorPage[2] \o ErrorPage[3]
            [] task = "head"  -> FileHeader
            [] task = "get"   -> FileHeader \o Bytes(1, size)
            [] task = "proxy" -> Bytes(1, length)

\* A byte of a file that goes out through TLS although read() has not got it
Unread(i) == ssl /\ task = "get" /\ i > Len(FileHeader) + Readable

\* However the calls are split up, and wherever a peer or the process gives
\* up, the client has got the beginning of the answer, without a byte lost,
\* repeated or taken from elsewhere (nleft and ptr of sendData move together).
\* There is one exception: a TLS client gets as many bytes of a file as lseek()
\* has counted, and those behind what one read() got are not the file's
\* (socket.c:157-159).
InOrder ==
  slips = 0 /\ dropped = 0 =>
    \A i \in DOMAIN out : i \in DOMAIN Answer /\ (out[i] = Answer[i] \/ Unread(i))

\* An upstream gets the request in the order of its pieces, without a byte lost
\* or repeated, and the response is not waited for before it has got the whole
\* request, unless it has hung up (handleProxyPass, handleFastCGIPass).
PassedOn ==
  LET all == FlattenSeq(asked) IN
  resent = 0 =>
    /\ IsPrefix(passed, all)
    /\ stage \in {"recv", "status"} /\ upstream # "reset" => passed = all

\* On an open connection, a request that ends has sent every byte it had:
\* each interrupted send() repeats exactly one byte, and each interrupted
\* recv() loses exactly one.  The Content-Length of a file is the number of
\* bytes that follow the headers, if the file keeps its size and one call can
\* move it: plain and TLS count the same way (serveFile and the two branches
\* of sendFile).
AllDelivered ==
  stage = "done" /\ client = "open" =>
    /\ Len(out) = slips + CASE task = "proxy" -> taken - dropped
                            [] task = "get" /\ ~ssl -> Len(FileHeader) + Readable
                            [] OTHER -> Len(Answer)
    /\ task = "get" /\ slips = 0 /\ size = length /\ size <= MaxTransfer
       => announced = Len(out) - Len(FileHeader)

\* A response that has arrived before the first recv() is passed on to its
\* last byte, also if its length is a multiple of the buffer's: only the pace
\* of the upstream can make the loop `while (bytes == BUFF_SIZE)` end early.
WholeIfArrived ==
  task = "proxy" /\ stage = "done" /\ client = "open" /\ whole /\ slips = 0
    /\ dropped = 0
  => out = Bytes(1, length)

\* Moving the bytes of a request costs the process in three cases: its client
\* is gone; its upstream hangs up while it is passed the request, which it is
\* only before a byte of the response has been received or sent on; or the
\* first segment of the response ends before its status code.  An upstream that
\* hangs up later does no harm.
DeathsExplained ==
  /\ died = "sigpipe" => \/ client = "gone"
                         \/ upstream = "reset" /\ taken = 0 /\ out = <<>>
  /\ died = "segfault" => taken < StatusLen + dropped /\ task = "proxy"

\* Every request ends: the loop of sendData over a closed or broken socket
\* comes to its end because nleft grows until it wraps, and the only thing a
\* request can wait for in vain is more of a response whose length is a
\* multiple of the buffer's, from an upstream that does not close.
RequestEnds ==
  <>(Over \/ (Waiting /\ (debt + dropped = 0 => length % BufSize = 0)))
=============================================================================
