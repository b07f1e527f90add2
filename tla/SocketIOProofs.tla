--------------------------- MODULE SocketIOProofs ---------------------------
(***************************************************************************)
(* Proofs about SocketIO, for all sizes of buffers, files, responses and   *)
(* transfers, and whatever the environment brings about.                   *)
(***************************************************************************)
EXTENDS SocketIO, TLAPS

-----------------------------------------------------------------------------
(* The invariant *)

\* What is left of the error page after its first and its second piece.
Pieces2 == << <<-3>>, <<-4, -5>> >>
Pieces1 == << <<-4, -5>> >>

\* What is left of a request after its first piece, and after its second.
PassLeft == {<<>>, << <<-3>> >>, << <<-3>>, <<-4>> >>, << <<-4>> >>}

\* Which stages and peers go with which task.
Staged ==
  /\ stage = "input" <=> task = "none"
  /\ stage = "body" => task = "get"
  /\ stage \in {"pass", "recv", "status"} => task = "proxy"
  /\ stage = "pass" => out = <<>> /\ slips = 0 /\ taken = 0 /\ dropped = 0 /\ todo \in PassLeft
  /\ stage = "input" => out = <<>> /\ slips = 0
  /\ stage # "recv" => debt = 0
  /\ task # "proxy" => arrived = 0 /\ taken = 0 /\ dropped = 0 /\ debt = 0
  /\ arrived <= length /\ debt + dropped <= MaxInterrupts
  /\ stage # "pass" => /\ todo \in {<<>>, Pieces1, Pieces2}
                       /\ todo # <<>> => task = "error" /\ stage = "send"
  /\ size = 0 \/ task \in {"get", "head"}
  /\ task = "get" => announced = AsInt(size)

\* nleft and ptr of sendData move together, until nleft wraps.
Pointing == stage \in {"pass", "send"} /\ nleft > 0 => ptr = Len(buf) - nleft

\* What the first buffer of a response tells of what has been received.
FirstBuffer ==
  start => /\ stage \in {"pass", "recv"} => taken = 0 /\ dropped = 0
           /\ stage \in {"send", "status"} /\ task = "proxy" =>
                taken - dropped = IF bytes < 0 THEN 0 ELSE bytes

\* There is no limit to how often a call is interrupted but the counter nleft.
Unwrapped == BufSize + MaxInterrupts <= IntMax /\ 2 + MaxInterrupts <= IntMax

\* The bytes of the error page that are left for further calls of sendData.
Owed == IF todo = Pieces2 THEN 3 ELSE IF todo = Pieces1 THEN 2 ELSE 0

\* How many bytes the client gets if it stays, up to the present stage.
Due == CASE task = "proxy" -> taken - dropped
         [] task = "error" -> 5
         [] task = "get" -> IF stage = "done" THEN 2 + (IF ssl THEN size ELSE Readable) ELSE 2
         [] task = "head" -> 2
         [] task = "none" -> 0

\* While the client is there, what it has got and what sendData still has to
\* send add up, with one byte more for each interrupted call.
Counted ==
  (slips = 0 \/ Unwrapped) /\ client = "open" =>
    IF stage = "send"
    THEN /\ nleft \in 0 .. Len(buf) + slips
         /\ Len(out) + nleft + Owed = slips + Due
    ELSE Len(out) = slips + Due

\* The byte at a position of the answer to task t, if r bytes of a file can be
\* read and tls says whether they go out through TLS.
ByteOf(t, tls, r, i) ==
  IF t = "proxy" THEN i
  ELSE IF t = "get" /\ i > 2
  THEN IF tls /\ i - 2 > r THEN Garbage ELSE i - 2
  ELSE -i

\* Without an interruption, what the client has got is the answer so far, and
\* the buffer holds the bytes that come next.
Ordered ==
  slips = 0 /\ dropped = 0 =>
    /\ Len(out) <= Due
    /\ \A i \in 1..Len(out) : out[i] = ByteOf(task, ssl, Readable, i)
    /\ stage = "send" /\ client = "open" =>
         \A i \in 1..Len(buf) :
           buf[i] = ByteOf(task, ssl, Readable, Len(out) + nleft - Len(buf) + i)

\* A response that had arrived is received to its end.
Arrived ==
  whole => /\ arrived = length
           /\ dropped = 0 /\ task = "proxy" =>
                /\ stage \in {"send", "status"} => taken = length \/ bytes = BufSize
                /\ stage = "done" => taken = length

\* A piece that is sent fits in the buffer, or is a header or part of an error page.
PieceFits == Len(buf) <= BufSize \/ Len(buf) <= 2

IInv == /\ TypeOK /\ PieceFits /\ Staged /\ Pointing /\ FirstBuffer /\ DeathsExplained
        /\ Counted /\ Ordered /\ Arrived

-----------------------------------------------------------------------------
(* Numbers and sequences *)

\* An int keeps a value that fits, and INT_MAX + 1 becomes the least one.
LEMMA AsIntFacts ==
  /\ \A n \in Int : AsInt(n) \in Ints
  /\ \A n \in Ints : AsInt(n) = n
  /\ AsInt(IntMax + 1) = -(IntMax + 1)
<1> DEFINE m == 2 * IntMax + 2
<1>1. IntMax \in Nat /\ m \in Nat \ {0} /\ m = 2 * IntMax + 2
  BY SizesAreNat
<1>2. \A n \in Int : AsInt(n) = ((n + IntMax + 1) % m) - (IntMax + 1)
  BY DEF AsInt
<1> HIDE DEF m
<1>3. ASSUME NEW n \in Int
      PROVE  AsInt(n) \in Ints
  <2> DEFINE x == n + IntMax + 1
             r == x % m
  <2>1. x \in Int
    BY <1>1
  <2> HIDE DEF x
  <2>2. r \in 0..(m - 1)
    BY <1>1, <2>1
  <2>3. AsInt(n) = r - (IntMax + 1)
    BY <1>2 DEF x
  <2> HIDE DEF r
  <2> QED
    BY <1>1, <2>2, <2>3 DEF Ints
<1>4. ASSUME NEW n \in Ints
      PROVE  AsInt(n) = n
  <2>1. n \in Int /\ n + IntMax + 1 \in 0..(m - 1)
    BY <1>1 DEF Ints
  <2>2. (n + IntMax + 1) % m = n + IntMax + 1
    BY <1>1, <2>1
  <2> QED
    BY <1>1, <1>2, <2>1, <2>2
<1>5. AsInt(IntMax + 1) = -(IntMax + 1)
  <2>1. (IntMax + 1) + IntMax + 1 = m
    BY <1>1
  <2>2. m % m = 0
    BY <1>1
  <2> QED
    BY <1>1, <1>2, <2>1, <2>2
<1> QED
  BY <1>3, <1>4, <1>5

LEMMA BytesFacts ==
  ASSUME NEW from \in Int, NEW to \in Int
  PROVE  /\ Bytes(from, to) \in Seq(Int)
         /\ Len(Bytes(from, to)) = IF to >= from THEN to - from + 1 ELSE 0
         /\ \A i \in 1..Len(Bytes(from, to)) : Bytes(from, to)[i] = from + i - 1
<1> DEFINE k == IF to >= from THEN to - from + 1 ELSE 0
<1>1. k \in Nat /\ 1 .. to - from + 1 = 1..k
  OBVIOUS
<1>2. Bytes(from, to) = [i \in 1..k |-> from + i - 1]
  BY <1>1 DEF Bytes
<1> HIDE DEF k
<1>3. \A i \in 1..k : from + i - 1 \in Int
  BY <1>1
<1>4. Bytes(from, to) \in Seq(Int) /\ Len(Bytes(from, to)) = k
  BY <1>1, <1>2, <1>3
<1>5. \A i \in 1..k : Bytes(from, to)[i] = from + i - 1
  BY <1>2
<1> QED
  BY <1>4, <1>5 DEF k

LEMMA ConcatFacts ==
  ASSUME NEW s \in Seq(Int), NEW t \in Seq(Int)
  PROVE  /\ s \o t \in Seq(Int) /\ Len(s \o t) = Len(s) + Len(t)
         /\ \A i \in 1..Len(s) : (s \o t)[i] = s[i]
         /\ \A i \in 1..Len(t) : (s \o t)[Len(s) + i] = t[i]
OBVIOUS

LEMMA PieceFacts ==
  /\ Pieces2 \in Seq(Seq(Int)) /\ Pieces1 \in Seq(Seq(Int))
  /\ Pieces2 # <<>> /\ Pieces1 # <<>> /\ Pieces1 # Pieces2
  /\ Head(ErrorPage) = <<-1, -2>> /\ Tail(ErrorPage) = Pieces2
  /\ Head(Pieces2) = <<-3>> /\ Tail(Pieces2) = Pieces1
  /\ Head(Pieces1) = <<-4, -5>> /\ Tail(Pieces1) = <<>>
  /\ Head(<<FileHeader>>) = <<-1, -2>> /\ Tail(<<FileHeader>>) = <<>>
<1>1. <<-3>> \in Seq(Int) /\ <<-4, -5>> \in Seq(Int)
  OBVIOUS
<1> QED
  BY <1>1 DEF Pieces2, Pieces1, ErrorPage, FileHeader

\* The pieces of a request.
LEMMA PassFacts ==
  /\ \A p \in Requests : Head(p) = <<-1, -2>> /\ Tail(p) \in PassLeft
  /\ \A t \in PassLeft :
       /\ t \in Seq(Seq(Int))
       /\ t # <<>> => Head(t) \in {<<-3>>, <<-4>>} /\ Tail(t) \in PassLeft
<1>1. /\ <<-3>> \in Seq(Int) /\ <<-4>> \in Seq(Int) /\ <<-1, -2>> \in Seq(Int)
  OBVIOUS
<1>2. ASSUME NEW p \in Requests
      PROVE  Head(p) = <<-1, -2>> /\ Tail(p) \in PassLeft
  <2>1. PICK a, b, c \in Seq(Int) : a = <<-1, -2>> /\ b = <<-3>> /\ c = <<-4>>
    BY <1>1
  <2>2. p \in {<<a>>, <<a, b>>, <<a, b, c>>}
    BY <2>1 DEF Requests
  <2>3. /\ Head(<<a>>) = a /\ Head(<<a, b>>) = a /\ Head(<<a, b, c>>) = a
        /\ Tail(<<a>>) = <<>> /\ Tail(<<a, b>>) = <<b>> /\ Tail(<<a, b, c>>) = <<b, c>>
    OBVIOUS
  <2> QED
    BY <2>1, <2>2, <2>3 DEF PassLeft
<1>3. ASSUME NEW t \in PassLeft
      PROVE  /\ t \in Seq(Seq(Int))
             /\ t # <<>> => Head(t) \in {<<-3>>, <<-4>>} /\ Tail(t) \in PassLeft
  <2>1. PICK b, c \in Seq(Int) : b = <<-3>> /\ c = <<-4>>
    BY <1>1
  <2>2. t \in {<<>>, <<b>>, <<b, c>>, <<c>>} /\ PassLeft = {<<>>, <<b>>, <<b, c>>, <<c>>}
    BY <2>1 DEF PassLeft
  <2>3. Tail(<<b>>) = <<>> /\ Tail(<<c>>) = <<>> /\ Tail(<<b, c>>) = <<c>>
    OBVIOUS
  <2>4. Head(<<b>>) = b /\ Head(<<c>>) = c /\ Head(<<b, c>>) = b
    OBVIOUS
  <2>5. <<>> \in Seq(Seq(Int)) /\ <<b>> \in Seq(Seq(Int)) /\ <<c>> \in Seq(Seq(Int))
        /\ <<b, c>> \in Seq(Seq(Int))
    OBVIOUS
  <2> QED
    BY <2>1, <2>2, <2>3, <2>4, <2>5
<1> QED
  BY <1>2, <1>3

\* The types that the proofs need most.
LEMMA Types ==
  ASSUME IInv
  PROVE  /\ buf \in Seq(Int) /\ out \in Seq(Int) /\ Len(buf) \in Nat /\ Len(out) \in Nat
         /\ nleft \in Int /\ nleft <= IntMax /\ ptr \in Int /\ ptr <= Len(buf)
         /\ slips \in 0..MaxInterrupts /\ dropped \in 0..MaxInterrupts /\ debt \in 0..MaxInterrupts
         /\ taken \in Nat /\ arrived \in Nat /\ length \in Nat /\ size \in Nat /\ bytes \in Int
         /\ Readable \in 0..size /\ Owed \in Nat /\ Due \in Int
<1>1. /\ buf \in Seq(Int) /\ out \in Seq(Int) /\ Len(buf) \in Nat /\ Len(out) \in Nat
      /\ nleft \in Int /\ nleft <= IntMax /\ ptr \in Int /\ ptr <= Len(buf)
      /\ slips \in 0..MaxInterrupts /\ dropped \in 0..MaxInterrupts /\ debt \in 0..MaxInterrupts
      /\ taken \in Nat /\ arrived \in Nat /\ length \in Nat /\ size \in Nat /\ bytes \in Int
  BY SizesAreNat DEF IInv, TypeOK, Ints
<1>2. Readable \in 0..size
  BY <1>1, SizesAreNat DEF Readable, Least
<1>3. Owed \in Nat
  BY DEF Owed
<1>4. task \in {"none", "error", "get", "head", "proxy"}
  BY DEF IInv, TypeOK, Tasks
<1>5. taken - dropped \in Int /\ 2 + size \in Int /\ 2 + Readable \in Int
  BY <1>1, <1>2
<1>6. Due \in Int
  BY <1>4, <1>5 DEF Due
<1> QED
  BY <1>1, <1>2, <1>3, <1>6

-----------------------------------------------------------------------------
(* The peers *)

LEMMA ClientResetsKeeps ==
  ASSUME IInv, died = "no", ClientResets
  PROVE  IInv'
<1>1. /\ client = "open"
      /\ client' = "gone"
      /\ asked' = asked /\ passed' = passed /\ resent' = resent
      /\ died' = died /\ ssl' = ssl /\ keepAlive' = keepAlive /\ task' = task /\ stage' = stage
      /\ length' = length /\ size' = size /\ announced' = announced /\ arrived' = arrived
      /\ taken' = taken /\ upstream' = upstream /\ whole' = whole /\ start' = start
      /\ bytes' = bytes /\ debt' = debt /\ dropped' = dropped /\ buf' = buf /\ ptr' = ptr
      /\ nleft' = nleft /\ todo' = todo /\ out' = out /\ slips' = slips
  BY DEF ClientResets, fixed, peerVars, sendVars, recvVars, passVars
<1>2. TypeOK' /\ PieceFits'
  BY <1>1, SizesAreNat DEF IInv, TypeOK, PieceFits
<1>3. Staged'
  BY <1>1 DEF IInv, TypeOK, Staged
<1>4. Pointing' /\ FirstBuffer' /\ DeathsExplained'
  BY <1>1 DEF IInv, Pointing, FirstBuffer, DeathsExplained, Staged
<1>5. Readable' = Readable /\ Due' = Due /\ Owed' = Owed
  BY <1>1 DEF Readable, Due, Owed
<1>6. Counted'
  BY <1>1, <1>5 DEF IInv, Counted
<1>7. Ordered'
  BY <1>1, <1>5 DEF IInv, Ordered
<1>8. Arrived'
  BY <1>1 DEF IInv, TypeOK, Staged, Arrived
<1> QED
  BY <1>2, <1>3, <1>4, <1>6, <1>7, <1>8 DEF IInv

LEMMA UpstreamSendsKeeps ==
  ASSUME IInv, died = "no", NEW n \in 1..MaxLen, UpstreamSends(n)
  PROVE  IInv'
<1>1. /\ task = "proxy" /\ arrived + n <= length
      /\ arrived' = arrived + n
      /\ asked' = asked /\ passed' = passed /\ resent' = resent
      /\ died' = died /\ ssl' = ssl /\ keepAlive' = keepAlive /\ task' = task /\ stage' = stage
      /\ client' = client /\ length' = length /\ size' = size /\ announced' = announced
      /\ taken' = taken /\ upstream' = upstream /\ whole' = whole /\ start' = start
      /\ bytes' = bytes /\ debt' = debt /\ dropped' = dropped /\ buf' = buf /\ ptr' = ptr
      /\ nleft' = nleft /\ todo' = todo /\ out' = out /\ slips' = slips
  BY DEF UpstreamSends, fixed, peerVars, sendVars, recvVars, passVars
<1>2. TypeOK' /\ PieceFits'
  BY <1>1, SizesAreNat DEF IInv, TypeOK, PieceFits
<1>3. Staged'
  BY <1>1 DEF IInv, TypeOK, Staged
<1>4. Pointing' /\ FirstBuffer' /\ DeathsExplained'
  BY <1>1 DEF IInv, Pointing, FirstBuffer, DeathsExplained, Staged
<1>5. Readable' = Readable /\ Due' = Due /\ Owed' = Owed
  BY <1>1 DEF Readable, Due, Owed
<1>6. Counted'
  BY <1>1, <1>5 DEF IInv, Counted
<1>7. Ordered'
  BY <1>1, <1>5 DEF IInv, Ordered
<1>8. Arrived'
  BY <1>1 DEF IInv, TypeOK, Staged, Arrived
<1> QED
  BY <1>2, <1>3, <1>4, <1>6, <1>7, <1>8 DEF IInv

LEMMA UpstreamEndsKeeps ==
  ASSUME IInv, died = "no", UpstreamCloses \/ UpstreamResets
  PROVE  IInv'
<1>1. /\ upstream' \in {"closed", "reset"}
      /\ asked' = asked /\ passed' = passed /\ resent' = resent
      /\ died' = died /\ ssl' = ssl /\ keepAlive' = keepAlive /\ task' = task /\ stage' = stage
      /\ client' = client /\ length' = length /\ size' = size /\ announced' = announced
      /\ arrived' = arrived /\ taken' = taken /\ whole' = whole /\ start' = start
      /\ bytes' = bytes /\ debt' = debt /\ dropped' = dropped /\ buf' = buf /\ ptr' = ptr
      /\ nleft' = nleft /\ todo' = todo /\ out' = out /\ slips' = slips
  BY DEF UpstreamCloses, UpstreamResets, fixed, peerVars, sendVars, recvVars, passVars
<1>2. TypeOK' /\ PieceFits'
  BY <1>1, SizesAreNat DEF IInv, TypeOK, PieceFits
<1>3. Staged'
  BY <1>1 DEF IInv, TypeOK, Staged
<1>4. Pointing' /\ FirstBuffer' /\ DeathsExplained'
  BY <1>1 DEF IInv, Pointing, FirstBuffer, DeathsExplained, Staged
<1>5. Readable' = Readable /\ Due' = Due /\ Owed' = Owed
  BY <1>1 DEF Readable, Due, Owed
<1>6. Counted'
  BY <1>1, <1>5 DEF IInv, Counted
<1>7. Ordered'
  BY <1>1, <1>5 DEF IInv, Ordered
<1>8. Arrived'
  BY <1>1 DEF IInv, TypeOK, Staged, Arrived
<1> QED
  BY <1>2, <1>3, <1>4, <1>6, <1>7, <1>8 DEF IInv

\* A file that shrinks has not been read yet.
LEMMA FileShrinksKeeps ==
  ASSUME IInv, died = "no", FileShrinks
  PROVE  IInv'
<1>1. /\ task = "get" /\ stage = "send" /\ length > 0
      /\ length' = length - 1
      /\ asked' = asked /\ passed' = passed /\ resent' = resent
      /\ died' = died /\ ssl' = ssl /\ keepAlive' = keepAlive /\ task' = task /\ stage' = stage
      /\ client' = client /\ size' = size /\ announced' = announced /\ arrived' = arrived
      /\ taken' = taken /\ upstream' = upstream /\ whole' = whole /\ start' = start
      /\ bytes' = bytes /\ debt' = debt /\ dropped' = dropped /\ buf' = buf /\ ptr' = ptr
      /\ nleft' = nleft /\ todo' = todo /\ out' = out /\ slips' = slips
  BY DEF FileShrinks, fixed, peerVars, sendVars, recvVars, passVars
<1>2. TypeOK' /\ PieceFits'
  BY <1>1, SizesAreNat DEF IInv, TypeOK, PieceFits
<1>3. Staged'
  BY <1>1 DEF IInv, TypeOK, Staged
<1>4. Pointing' /\ FirstBuffer' /\ DeathsExplained'
  BY <1>1 DEF IInv, Pointing, FirstBuffer, DeathsExplained
<1>5. Due = 2 /\ Due' = 2 /\ Owed' = Owed
  BY <1>1 DEF Due, Owed
<1>6. Counted'
  BY <1>1, <1>5 DEF IInv, Counted
<1>7. Ordered'
  <2> SUFFICES ASSUME slips = 0, dropped = 0
               PROVE  Ordered'
    BY <1>1 DEF Ordered
  <2>1. Len(out) \in Nat /\ Len(buf) \in Nat /\ nleft \in Int /\ out \in Seq(Int) /\ Len(out) <= 2
    BY <1>5 DEF IInv, TypeOK, Ordered, Ints
  <2>2. \A i \in 1..Len(out) : out[i] = -i
    BY <1>1, <2>1 DEF IInv, Ordered, ByteOf
  <2>3. client = "open" => Len(out) + nleft = 2
    <3>1. Owed = 0
      BY <1>1 DEF IInv, Staged, Owed, Pieces1, Pieces2
    <3> QED
      BY <1>1, <1>5, <2>1, <3>1 DEF IInv, Counted
  <2>4. client = "open" => \A i \in 1..Len(buf) : buf[i] = -(Len(out) + nleft - Len(buf) + i)
    BY <1>1, <2>1, <2>3 DEF IInv, Ordered, ByteOf
  <2> QED
    BY <1>1, <1>5, <2>1, <2>2, <2>3, <2>4 DEF Ordered, ByteOf
<1>8. Arrived'
  BY <1>1 DEF IInv, TypeOK, Staged, Arrived
<1> QED
  BY <1>2, <1>3, <1>4, <1>6, <1>7, <1>8 DEF IInv

LEMMA SigpipeKeeps ==
  ASSUME IInv, died = "no", Sigpipe
  PROVE  IInv'
<1>1. /\ client = "gone" \/ (stage = "pass" /\ upstream = "reset")
      /\ died' = "sigpipe"
      /\ asked' = asked /\ passed' = passed /\ resent' = resent
      /\ ssl' = ssl /\ keepAlive' = keepAlive /\ task' = task /\ stage' = stage
      /\ client' = client /\ length' = length /\ size' = size /\ announced' = announced
      /\ arrived' = arrived /\ taken' = taken /\ upstream' = upstream /\ whole' = whole
      /\ start' = start /\ bytes' = bytes /\ debt' = debt /\ dropped' = dropped /\ buf' = buf
      /\ ptr' = ptr /\ nleft' = nleft /\ todo' = todo /\ out' = out /\ slips' = slips
  BY DEF Sigpipe, fixed, peerVars, sendVars, recvVars, passVars
<1>2. TypeOK' /\ PieceFits'
  BY <1>1, SizesAreNat DEF IInv, TypeOK, PieceFits
<1>3. Staged'
  BY <1>1 DEF IInv, TypeOK, Staged
<1>4. Pointing' /\ FirstBuffer' /\ DeathsExplained'
  BY <1>1 DEF IInv, Pointing, FirstBuffer, DeathsExplained, Staged
<1>5. Readable' = Readable /\ Due' = Due /\ Owed' = Owed
  BY <1>1 DEF Readable, Due, Owed
<1>6. Counted'
  BY <1>1, <1>5 DEF IInv, Counted
<1>7. Ordered'
  BY <1>1, <1>5 DEF IInv, Ordered
<1>8. Arrived'
  BY <1>1 DEF IInv, TypeOK, Staged, Arrived
<1> QED
  BY <1>2, <1>3, <1>4, <1>6, <1>7, <1>8 DEF IInv

-----------------------------------------------------------------------------
(* sendData *)

\* The bytes that go out are those behind the pointer.
LEMMA SendKeeps ==
  ASSUME IInv, died = "no", stage = "send", NEW n \in 1..BufSize, Send(n)
  PROVE  IInv'
<1> DEFINE more == [i \in 1..n |-> ByteAt(ptr + i)]
<1>0. /\ buf \in Seq(Int) /\ out \in Seq(Int) /\ Len(buf) \in Nat /\ Len(out) \in Nat
      /\ nleft \in Int /\ nleft <= IntMax /\ ptr \in Int /\ slips \in Nat /\ slips <= MaxInterrupts
      /\ Owed \in Nat /\ Due \in Int
  BY Types
<1>1. /\ stage = "send" /\ client = "open" /\ nleft > 0 /\ n <= nleft
      /\ out' = out \o more
      /\ ptr' = ptr + n
      /\ nleft' = nleft - n
  BY DEF Send, Sending, Tls, PeerThere, Take, fixed, peerVars, sendVars, recvVars, passVars
<1>2. /\ asked' = asked /\ passed' = passed /\ resent' = resent
      /\ died' = died /\ ssl' = ssl /\ keepAlive' = keepAlive /\ task' = task /\ stage' = stage
      /\ client' = client /\ length' = length /\ size' = size /\ announced' = announced
      /\ arrived' = arrived /\ taken' = taken /\ upstream' = upstream /\ whole' = whole
      /\ start' = start /\ bytes' = bytes /\ debt' = debt /\ dropped' = dropped /\ buf' = buf
      /\ todo' = todo /\ slips' = slips
  BY DEF Send, Sending, Tls, PeerThere, Take, fixed, peerVars, sendVars, recvVars, passVars
<1>3. n \in Nat \ {0} /\ ptr = Len(buf) - nleft
  BY <1>1, SizesAreNat DEF IInv, Pointing
<1>4. more \in Seq(Int) /\ Len(more) = n /\ \A i \in 1..n : more[i] = ByteAt(ptr + i)
  <2>1. \A k : ByteAt(k) \in Int
    BY <1>0 DEF ByteAt, Garbage
  <2> QED
    BY <1>3, <2>1
<1> HIDE DEF more
<1>5. /\ out' \in Seq(Int) /\ Len(out') = Len(out) + n
      /\ \A i \in 1..Len(out) : out'[i] = out[i]
      /\ \A i \in 1..n : out'[Len(out) + i] = more[i]
  BY <1>1, <1>4, <1>0, ConcatFacts
<1>6. Len(out') + nleft' = Len(out) + nleft /\ nleft' >= 0
  BY <1>1, <1>3, <1>5, <1>0
<1>7. TypeOK' /\ PieceFits'
  <2>1. nleft' \in Ints /\ ptr' \in -(IntMax + 1) .. Len(buf)
    BY <1>1, <1>3, <1>0, SizesAreNat DEF Ints
  <2> QED
    BY <1>2, <1>5, <2>1 DEF IInv, TypeOK, PieceFits
<1>8. Staged'
  BY <1>1, <1>2 DEF IInv, Staged
<1>9. Pointing' /\ FirstBuffer' /\ DeathsExplained'
  <2>1. ptr' = Len(buf) - nleft'
    BY <1>1, <1>3, <1>0
  <2> QED
    BY <1>2, <2>1 DEF IInv, Pointing, FirstBuffer, DeathsExplained
<1>10. Readable' = Readable /\ Due' = Due /\ Owed' = Owed
  BY <1>2 DEF Readable, Due, Owed
<1>11. Counted'
  <2> SUFFICES ASSUME slips = 0 \/ Unwrapped
               PROVE  Counted'
    BY <1>2 DEF Counted
  <2>1. nleft \in 0 .. Len(buf) + slips /\ Len(out) + nleft + Owed = slips + Due
    BY <1>1 DEF IInv, Counted
  <2>2. nleft' \in 0 .. Len(buf) + slips
    BY <1>1, <1>3, <1>6, <2>1, <1>0
  <2>3. Len(out') + nleft' + Owed = slips + Due
    BY <1>6, <2>1
  <2> QED
    BY <1>1, <1>2, <1>10, <2>2, <2>3 DEF Counted
<1>12. Ordered'
  <2> SUFFICES ASSUME slips = 0, dropped = 0
               PROVE  Ordered'
    BY <1>2 DEF Ordered
  <2>1. nleft <= Len(buf) /\ Len(out) + nleft + Owed = Due
    <3>1. nleft \in 0 .. Len(buf) + 0 /\ Len(out) + nleft + Owed = 0 + Due
      BY <1>1 DEF IInv, Counted
    <3> QED
      BY <3>1, <1>0
  <2>2. Len(out') <= Due
    <3>1. Len(out') = Len(out) + nleft - nleft' /\ nleft' >= 0 /\ nleft' \in Int
      BY <1>1, <1>3, <1>5, <1>6, <1>0
    <3> QED
      BY <2>1, <3>1, <1>0
  <2>3. /\ \A i \in 1..Len(out) : out[i] = ByteOf(task, ssl, Readable, i)
        /\ \A i \in 1..Len(buf) :
             buf[i] = ByteOf(task, ssl, Readable, Len(out) + nleft - Len(buf) + i)
    BY <1>1 DEF IInv, Ordered
  <2>4. ASSUME NEW i \in 1..Len(out')
        PROVE  out'[i] = ByteOf(task, ssl, Readable, i)
    <3>1. CASE i <= Len(out)
      <4>1. i \in 1..Len(out)
        BY <3>1, <1>0
      <4> QED
        BY <1>5, <2>3, <4>1
    <3>2. CASE i > Len(out)
      <4> DEFINE k == i - Len(out)
      <4>1. i \in 1 .. Len(out) + n
        BY <1>5
      <4>2. k \in 1..n /\ i = Len(out) + k /\ ptr + k \in 1..Len(buf)
        BY <1>1, <1>3, <2>1, <3>2, <4>1, <1>0
      <4> HIDE DEF k
      <4>3. out'[i] = more[k] /\ more[k] = ByteAt(ptr + k)
        BY <1>4, <1>5, <4>2
      <4>4. ByteAt(ptr + k) = buf[ptr + k]
        BY <4>2, <1>0 DEF ByteAt
      <4>5. buf[ptr + k] = ByteOf(task, ssl, Readable, Len(out) + nleft - Len(buf) + (ptr + k))
        BY <2>3, <4>2
      <4>6. Len(out) + nleft - Len(buf) + (ptr + k) = i
        BY <1>3, <4>2, <1>0
      <4> QED
        BY <4>3, <4>4, <4>5, <4>6
    <3> QED
      BY <3>1, <3>2, <1>5, <1>0
  <2>5. ASSUME NEW i \in 1..Len(buf)
        PROVE  buf[i] = ByteOf(task, ssl, Readable, Len(out') + nleft' - Len(buf) + i)
    <3>0. Len(out') = Len(out) + n /\ nleft' = nleft - n /\ n \in Int
      BY <1>1, <1>3, <1>5
    <3>1. Len(out') + nleft' - Len(buf) + i = Len(out) + nleft - Len(buf) + i
      BY <1>0, <3>0
    <3> QED
      BY <2>3, <3>1
  <2> QED
    BY <1>2, <1>10, <2>2, <2>4, <2>5 DEF Ordered
<1>13. Arrived'
  BY <1>2 DEF IInv, Arrived
<1> QED
  BY <1>7, <1>8, <1>9, <1>11, <1>12, <1>13 DEF IInv

\* A client that is not there gets nothing, whatever becomes of nleft.
LEMMA SendFailsKeeps ==
  ASSUME IInv, died = "no", stage = "send", SendFails
  PROVE  IInv'
<1>0. /\ buf \in Seq(Int) /\ out \in Seq(Int) /\ Len(buf) \in Nat /\ Len(out) \in Nat
      /\ nleft \in Int /\ nleft <= IntMax /\ ptr \in Int /\ slips \in Nat /\ slips <= MaxInterrupts
      /\ Owed \in Nat /\ Due \in Int
  BY Types
<1>1. /\ stage = "send" /\ client # "open" /\ nleft > 0
      /\ ptr' = ptr - 1
      /\ nleft' = AsInt(nleft + 1)
  BY DEF SendFails, Sending, Tls, PeerThere, Take, fixed, peerVars, sendVars, recvVars, passVars
<1>2. /\ asked' = asked /\ passed' = passed /\ resent' = resent
      /\ died' = died /\ ssl' = ssl /\ keepAlive' = keepAlive /\ task' = task /\ stage' = stage
      /\ client' = client /\ length' = length /\ size' = size /\ announced' = announced
      /\ arrived' = arrived /\ taken' = taken /\ upstream' = upstream /\ whole' = whole
      /\ start' = start /\ bytes' = bytes /\ debt' = debt /\ dropped' = dropped /\ buf' = buf
      /\ todo' = todo /\ out' = out /\ slips' = slips
  BY DEF SendFails, Sending, Tls, PeerThere, Take, fixed, peerVars, sendVars, recvVars, passVars
<1>3. ptr = Len(buf) - nleft /\ IntMax \in Nat
  BY <1>1, SizesAreNat DEF IInv, Pointing
<1>4. /\ nleft < IntMax => nleft' = nleft + 1
      /\ nleft = IntMax => nleft' = -(IntMax + 1)
  <2>1. nleft < IntMax => nleft + 1 \in Ints
    BY <1>1, <1>3, <1>0 DEF Ints
  <2> QED
    BY <1>1, <2>1, AsIntFacts
<1>5. nleft' \in Ints /\ ptr' \in -(IntMax + 1) .. Len(buf)
  <2>1. nleft + 1 \in Int
    BY <1>0
  <2> QED
    BY <1>1, <1>3, <2>1, <1>0, AsIntFacts
<1>6. TypeOK' /\ PieceFits'
  BY <1>1, <1>2, <1>5, <1>0, SizesAreNat DEF IInv, TypeOK, PieceFits
<1>7. Staged'
  BY <1>1, <1>2 DEF IInv, Staged
<1>8. Pointing' /\ FirstBuffer' /\ DeathsExplained'
  <2>1. ASSUME nleft' > 0
        PROVE  ptr' = Len(buf) - nleft'
    <3>1. nleft' = nleft + 1
      BY <1>0, <1>3, <1>4, <2>1
    <3>2. ptr' = ptr - 1
      BY <1>1
    <3> QED
      BY <1>0, <1>3, <3>1, <3>2
  <2> QED
    BY <1>2, <2>1 DEF IInv, Pointing, FirstBuffer, DeathsExplained
<1>9. Readable' = Readable /\ Due' = Due /\ Owed' = Owed
  BY <1>2 DEF Readable, Due, Owed
<1>10. Counted'
  BY <1>1, <1>2 DEF Counted
<1>11. Ordered'
  BY <1>1, <1>2, <1>9 DEF IInv, Ordered
<1>12. Arrived'
  BY <1>2 DEF IInv, Arrived
<1> QED
  BY <1>6, <1>7, <1>8, <1>10, <1>11, <1>12 DEF IInv

\* An interrupted call steps back by one byte.
LEMMA SendInterruptedKeeps ==
  ASSUME IInv, died = "no", stage = "send", SendInterrupted
  PROVE  IInv'
<1>0. /\ buf \in Seq(Int) /\ out \in Seq(Int) /\ Len(buf) \in Nat /\ Len(out) \in Nat
      /\ nleft \in Int /\ nleft <= IntMax /\ ptr \in Int /\ slips \in Nat /\ slips <= MaxInterrupts
      /\ Owed \in Nat /\ Due \in Int
  BY Types
<1>1. /\ stage = "send" /\ client = "open" /\ nleft > 0 /\ slips < MaxInterrupts
      /\ slips' = slips + 1
      /\ ptr' = ptr - 1
      /\ nleft' = AsInt(nleft + 1)
  <2>1. resent \in 0..MaxInterrupts /\ MaxInterrupts \in Nat
    BY SizesAreNat DEF IInv, TypeOK
  <2>2. stage = "send" /\ client = "open" /\ nleft > 0 /\ slips + resent < MaxInterrupts
    BY DEF SendInterrupted, Sending, PeerThere
  <2>3. slips' = slips + 1 /\ ptr' = ptr - 1 /\ nleft' = AsInt(nleft + 1)
    BY DEF SendInterrupted
  <2> QED
    BY <1>0, <2>1, <2>2, <2>3
<1>2. /\ asked' = asked /\ passed' = passed /\ resent' = resent
      /\ died' = died /\ ssl' = ssl /\ keepAlive' = keepAlive /\ task' = task /\ stage' = stage
      /\ client' = client /\ length' = length /\ size' = size /\ announced' = announced
      /\ arrived' = arrived /\ taken' = taken /\ upstream' = upstream /\ whole' = whole
      /\ start' = start /\ bytes' = bytes /\ debt' = debt /\ dropped' = dropped /\ buf' = buf
      /\ todo' = todo /\ out' = out
  BY DEF SendInterrupted, Sending, Tls, PeerThere, Take, fixed, peerVars, sendVars, recvVars, passVars
<1>3. ptr = Len(buf) - nleft /\ IntMax \in Nat
  BY <1>1, SizesAreNat DEF IInv, Pointing
<1>4. /\ nleft < IntMax => nleft' = nleft + 1
      /\ nleft = IntMax => nleft' = -(IntMax + 1)
  <2>1. nleft < IntMax => nleft + 1 \in Ints
    BY <1>1, <1>3, <1>0 DEF Ints
  <2> QED
    BY <1>1, <2>1, AsIntFacts
<1>5. nleft' \in Ints /\ ptr' \in -(IntMax + 1) .. Len(buf)
  <2>1. nleft + 1 \in Int
    BY <1>0
  <2> QED
    BY <1>1, <1>3, <2>1, <1>0, AsIntFacts
<1>6. TypeOK' /\ PieceFits'
  BY <1>1, <1>2, <1>5, <1>0, SizesAreNat DEF IInv, TypeOK, PieceFits
<1>7. Staged'
  BY <1>1, <1>2 DEF IInv, Staged
<1>8. Pointing' /\ FirstBuffer' /\ DeathsExplained'
  <2>1. ASSUME nleft' > 0
        PROVE  ptr' = Len(buf) - nleft'
    <3>1. nleft' = nleft + 1
      BY <1>0, <1>3, <1>4, <2>1
    <3>2. ptr' = ptr - 1
      BY <1>1
    <3> QED
      BY <1>0, <1>3, <3>1, <3>2
  <2> QED
    BY <1>2, <2>1 DEF IInv, Pointing, FirstBuffer, DeathsExplained
<1>9. Readable' = Readable /\ Due' = Due /\ Owed' = Owed
  BY <1>2 DEF Readable, Due, Owed
<1>10. Counted'
  <2> SUFFICES ASSUME Unwrapped
               PROVE  Counted'
    BY <1>1, <1>0 DEF Counted
  <2>1. nleft <= Len(buf) + slips /\ Len(out) + nleft + Owed = slips + Due
    BY <1>1 DEF IInv, Counted
  <2>2. nleft < IntMax
    BY <1>1, <2>1, <1>0, SizesAreNat DEF Unwrapped, IInv, PieceFits
  <2>3. nleft' = nleft + 1 /\ slips' = slips + 1
    BY <1>1, <1>4, <2>2
  <2>4. nleft + 1 \in 0 .. Len(buf) + (slips + 1) /\ Len(out) + (nleft + 1) + Owed = (slips + 1) + Due
    BY <1>0, <1>1, <2>1
  <2> QED
    BY <1>1, <1>2, <1>9, <2>3, <2>4 DEF Counted
<1>11. Ordered'
  BY <1>1, <1>0 DEF Ordered
<1>12. Arrived'
  BY <1>2 DEF IInv, Arrived
<1> QED
  BY <1>6, <1>7, <1>8, <1>10, <1>11, <1>12 DEF IInv

LEMMA SslWriteFailsKeeps ==
  ASSUME IInv, died = "no", SslWriteFails
  PROVE  IInv'
<1>1. /\ stage = "send"
      /\ client' = "gone"
      /\ nleft' = 0
  BY DEF SslWriteFails, Sending, Tls, PeerThere, Take, fixed, peerVars, sendVars, recvVars, passVars
<1>2. /\ asked' = asked /\ passed' = passed /\ resent' = resent
      /\ died' = died /\ ssl' = ssl /\ keepAlive' = keepAlive /\ task' = task /\ stage' = stage
      /\ length' = length /\ size' = size /\ announced' = announced /\ arrived' = arrived
      /\ taken' = taken /\ upstream' = upstream /\ whole' = whole /\ start' = start
      /\ bytes' = bytes /\ debt' = debt /\ dropped' = dropped /\ buf' = buf /\ ptr' = ptr
      /\ todo' = todo /\ out' = out /\ slips' = slips
  BY DEF SslWriteFails, Sending, Tls, PeerThere, Take, fixed, peerVars, sendVars, recvVars, passVars
<1>3. TypeOK' /\ PieceFits'
  BY <1>1, <1>2, SizesAreNat DEF IInv, TypeOK, PieceFits, Ints
<1>4. Staged'
  BY <1>1, <1>2 DEF IInv, Staged
<1>5. Pointing' /\ FirstBuffer' /\ DeathsExplained'
  BY <1>1, <1>2 DEF IInv, Pointing, FirstBuffer, DeathsExplained
<1>6. Readable' = Readable /\ Due' = Due
  BY <1>2 DEF Readable, Due
<1>7. Counted'
  BY <1>1 DEF Counted
<1>8. Ordered'
  BY <1>1, <1>2, <1>6 DEF IInv, Ordered
<1>9. Arrived'
  BY <1>2 DEF IInv, Arrived
<1> QED
  BY <1>3, <1>4, <1>5, <1>7, <1>8, <1>9 DEF IInv

\* The next piece of an error page follows the one before.
LEMMA NextPieceKeeps ==
  ASSUME IInv, died = "no", stage = "send", Sent, todo # <<>>
  PROVE  IInv'
<1> DEFINE b == Head(todo)
<1>0. /\ buf \in Seq(Int) /\ out \in Seq(Int) /\ Len(buf) \in Nat /\ Len(out) \in Nat
      /\ nleft \in Int /\ slips \in Nat /\ slips <= MaxInterrupts /\ Owed \in Nat /\ Due \in Int
  BY Types
<1>1. /\ stage = "send" /\ nleft <= 0
      /\ buf' = b
      /\ todo' = Tail(todo)
      /\ ptr' = 0
      /\ nleft' = Len(b)
      /\ stage' = "send"
  BY DEF Sent, fixed, peerVars, sendVars, recvVars, passVars, Call
<1>2. /\ asked' = asked /\ passed' = passed /\ resent' = resent
      /\ died' = died /\ ssl' = ssl /\ keepAlive' = keepAlive /\ task' = task
      /\ client' = client /\ length' = length /\ size' = size /\ announced' = announced
      /\ arrived' = arrived /\ taken' = taken /\ upstream' = upstream /\ whole' = whole
      /\ start' = start /\ bytes' = bytes /\ debt' = debt /\ dropped' = dropped /\ out' = out
      /\ slips' = slips
  BY DEF Sent, fixed, peerVars, sendVars, recvVars, passVars, Call
<1>3. /\ task = "error"
      /\ \/ Owed = 3 /\ b = <<-3>> /\ Tail(todo) = Pieces1 /\ Owed' = 2
         \/ Owed = 2 /\ b = <<-4, -5>> /\ Tail(todo) = <<>> /\ Owed' = 0
  <2>1. task = "error" /\ todo \in {Pieces1, Pieces2}
    BY DEF IInv, Staged
  <2>2. todo' = Tail(todo)
    BY <1>1
  <2>3. CASE todo = Pieces2
    BY <2>1, <2>2, <2>3, PieceFacts DEF Owed
  <2>4. CASE todo = Pieces1
    BY <2>1, <2>2, <2>4, PieceFacts DEF Owed
  <2> QED
    BY <2>1, <2>3, <2>4
<1> HIDE DEF b
<1>4. /\ b \in Seq(Int) /\ Len(b) \in Nat /\ Len(b) > 0 /\ Len(b) <= 2 /\ Owed' = Owed - Len(b)
      /\ Owed' \in Nat
  <2>1. /\ <<-3>> \in Seq(Int) /\ <<-4, -5>> \in Seq(Int) /\ Len(<<-3>>) = 1 /\ Len(<<-4, -5>>) = 2
    OBVIOUS
  <2>2. CASE Owed = 3 /\ b = <<-3>> /\ Owed' = 2
    BY <2>1, <2>2
  <2>3. CASE Owed = 2 /\ b = <<-4, -5>> /\ Owed' = 0
    BY <2>1, <2>3
  <2> QED
    BY <1>3, <2>2, <2>3
<1>5. TypeOK' /\ PieceFits'
  <2>1. Len(b) \in Ints /\ 0 \in -(IntMax + 1) .. Len(b)
    BY <1>4, SizesAreNat, BuffersFitInt DEF Ints
  <2>2. Tail(todo) \in Seq(Seq(Int))
    <3>1. <<>> \in Seq(Seq(Int))
      OBVIOUS
    <3> QED
      BY <1>3, <3>1, PieceFacts
  <2>3. stage' \in Stages
    BY <1>1 DEF Stages
  <2> QED
    BY <1>1, <1>2, <1>4, <2>1, <2>2, <2>3 DEF IInv, TypeOK, PieceFits
<1>6. Staged'
  BY <1>1, <1>2, <1>3 DEF IInv, Staged
<1>7. Pointing' /\ FirstBuffer' /\ DeathsExplained'
  <2>1. Pointing'
    BY <1>1, <1>4 DEF Pointing
  <2> QED
    BY <1>1, <1>2, <1>3, <2>1 DEF IInv, FirstBuffer, DeathsExplained
<1>8. Readable' = Readable /\ Due' = Due /\ Due = 5
  BY <1>1, <1>2, <1>3 DEF Readable, Due
<1>9. (slips = 0 \/ Unwrapped) /\ client = "open" => Len(out) + Owed = slips + Due
  BY <1>0, <1>1 DEF IInv, Counted
<1>10. Counted'
  <2>1. Len(b) \in 0 .. Len(b) + slips
    BY <1>0, <1>4
  <2>2. PICK o \in Nat : o = Owed'
    BY <1>4
  <2>3. Len(out) + Owed = slips + Due => Len(out) + Len(b) + o = slips + Due
    <3>1. /\ Len(b) \in Nat /\ Owed \in Nat /\ o = Owed - Len(b) /\ Len(out) \in Nat /\ slips \in Nat
          /\ Due \in Int
      BY <1>0, <1>4, <2>2
    <3> QED
      BY <3>1
  <2> QED
    BY <1>1, <1>2, <1>8, <1>9, <2>1, <2>2, <2>3 DEF Counted
<1>11. Ordered'
  <2> SUFFICES ASSUME slips = 0, dropped = 0
               PROVE  Ordered'
    BY <1>2 DEF Ordered
  <2>1. ASSUME client = "open", NEW i \in 1..Len(b)
        PROVE  b[i] = ByteOf(task, ssl, Readable, Len(out) + Len(b) - Len(b) + i)
    <3>1. Len(out) + Owed = 5
      BY <1>0, <1>8, <1>9, <2>1
    <3>2. b[i] = -(Len(out) + i)
      <4>1. CASE Owed = 3 /\ b = <<-3>>
        BY <1>0, <3>1, <4>1
      <4>2. CASE Owed = 2 /\ b = <<-4, -5>>
        <5>1. Len(<<-4, -5>>) = 2 /\ <<-4, -5>>[1] = -4 /\ <<-4, -5>>[2] = -5
          OBVIOUS
        <5>2. i \in 1..2
          BY <4>2, <5>1
        <5>3. Len(out) = 3
          <6>1. PICK l \in Nat : l = Len(out)
            BY <1>0
          <6>2. l + 2 = 5
            BY <3>1, <4>2, <6>1
          <6> QED
            BY <6>1, <6>2
        <5> QED
          BY <4>2, <5>1, <5>2, <5>3
      <4> QED
        BY <1>3, <4>1, <4>2
    <3>3. Len(out) + Len(b) - Len(b) + i = Len(out) + i
      BY <1>0, <1>4
    <3> QED
      BY <1>3, <3>2, <3>3 DEF ByteOf
  <2>2. Len(out) <= Due /\ \A i \in 1..Len(out) : out[i] = ByteOf(task, ssl, Readable, i)
    BY DEF IInv, Ordered
  <2> QED
    BY <1>1, <1>2, <1>8, <2>1, <2>2 DEF Ordered
<1>12. Arrived'
  BY <1>1, <1>2, <1>3 DEF IInv, Arrived
<1> QED
  BY <1>5, <1>6, <1>7, <1>10, <1>11, <1>12 DEF IInv

LEMMA LastPieceKeeps ==
  ASSUME IInv, died = "no", stage = "send", Sent, todo = <<>>
  PROVE  IInv'
<1>0. /\ buf \in Seq(Int) /\ out \in Seq(Int) /\ Len(buf) \in Nat /\ Len(out) \in Nat
      /\ nleft \in Int /\ slips \in Nat /\ slips <= MaxInterrupts /\ Owed \in Nat /\ Due \in Int
  BY Types
<1>1. /\ stage = "send" /\ nleft <= 0
      /\ stage' = CASE task = "get" -> "body" [] task = "proxy" -> "status" [] OTHER -> "done"
  BY DEF Sent, fixed, peerVars, sendVars, recvVars, passVars
<1>2. /\ asked' = asked /\ passed' = passed /\ resent' = resent
      /\ died' = died /\ ssl' = ssl /\ keepAlive' = keepAlive /\ task' = task
      /\ client' = client /\ length' = length /\ size' = size /\ announced' = announced
      /\ arrived' = arrived /\ taken' = taken /\ upstream' = upstream /\ whole' = whole
      /\ start' = start /\ bytes' = bytes /\ debt' = debt /\ dropped' = dropped /\ buf' = buf
      /\ ptr' = ptr /\ nleft' = nleft /\ todo' = todo /\ out' = out /\ slips' = slips
  BY DEF Sent, fixed, peerVars, sendVars, recvVars, passVars
<1>3. /\ task \in {"error", "get", "head", "proxy"}
      /\ stage' = IF task = "get" THEN "body" ELSE IF task = "proxy" THEN "status" ELSE "done"
  BY <1>1 DEF IInv, TypeOK, Tasks, Staged
<1>4. TypeOK' /\ PieceFits'
  <2>1. stage' \in Stages
    BY <1>3 DEF Stages
  <2> QED
    BY <1>2, <2>1 DEF IInv, TypeOK, PieceFits
<1>5. Staged'
  BY <1>1, <1>2, <1>3 DEF IInv, Staged
<1>6. Pointing' /\ FirstBuffer' /\ DeathsExplained'
  BY <1>1, <1>2, <1>3 DEF IInv, Pointing, FirstBuffer, DeathsExplained
<1>7. Readable' = Readable /\ Due' = Due /\ Owed = 0
  BY <1>1, <1>2, <1>3, PieceFacts DEF Readable, Due, Owed
<1>8. Counted'
  <2>1. (slips = 0 \/ Unwrapped) /\ client = "open" => Len(out) = slips + Due
    BY <1>0, <1>1, <1>7 DEF IInv, Counted
  <2> QED
    BY <1>2, <1>3, <1>7, <2>1 DEF Counted
<1>9. Ordered'
  BY <1>2, <1>3, <1>7 DEF IInv, Ordered
<1>10. Arrived'
  BY <1>1, <1>2, <1>3 DEF IInv, Arrived
<1> QED
  BY <1>4, <1>5, <1>6, <1>8, <1>9, <1>10 DEF IInv

-----------------------------------------------------------------------------
(* sendData to an upstream *)

\* While the request is passed on, the client has got nothing.
LEMMA PassKeeps ==
  ASSUME IInv, died = "no", stage = "pass", stage' \in {"pass", "recv"},
         TypeOK', PieceFits', Pointing', todo' \in PassLeft, stage' = "recv" => todo' = <<>>,
         UNCHANGED <<died, task, size, announced, peerVars, out, slips, recvVars, fixed>>
  PROVE  IInv'
<1>1. /\ died' = died /\ ssl' = ssl /\ task' = task
      /\ client' = client /\ length' = length /\ size' = size /\ announced' = announced
      /\ arrived' = arrived /\ taken' = taken /\ upstream' = upstream /\ whole' = whole
      /\ start' = start /\ bytes' = bytes /\ debt' = debt /\ dropped' = dropped
      /\ out' = out /\ slips' = slips
  BY DEF fixed, peerVars, recvVars
<1>2. /\ task = "proxy" /\ out = <<>> /\ Len(out) = 0 /\ slips = 0 /\ taken = 0 /\ dropped = 0
      /\ debt = 0
  BY DEF IInv, Staged
<1>3. Staged'
  BY <1>1, <1>2 DEF IInv, Staged
<1>4. FirstBuffer' /\ DeathsExplained'
  BY <1>1, <1>2 DEF FirstBuffer, DeathsExplained
<1>5. Due' = 0
  BY <1>1, <1>2 DEF Due
<1>6. Counted'
  BY <1>1, <1>2, <1>5 DEF Counted
<1>7. Ordered'
  BY <1>1, <1>2, <1>5 DEF Ordered
<1>8. Arrived'
  BY <1>1 DEF IInv, Arrived
<1> QED
  BY <1>3, <1>4, <1>6, <1>7, <1>8 DEF IInv

LEMMA PassSendKeeps ==
  ASSUME IInv, died = "no", stage = "pass", NEW n \in 1..BufSize, Send(n)
  PROVE  IInv'
<1> DEFINE more == [i \in 1..n |-> ByteAt(ptr + i)]
<1>0. /\ buf \in Seq(Int) /\ Len(buf) \in Nat /\ nleft \in Int /\ nleft <= IntMax /\ ptr \in Int
  BY Types
<1>1. /\ nleft > 0 /\ n <= nleft /\ passed' = passed \o more /\ out' = out
      /\ ptr' = ptr + n /\ nleft' = nleft - n
      /\ UNCHANGED <<died, task, stage, size, announced, peerVars, buf, todo, slips, recvVars,
                     asked, resent, fixed>>
  BY DEF Send, Sending, Tls, Take
<1>2. n \in Nat \ {0} /\ ptr = Len(buf) - nleft
  BY <1>1, SizesAreNat DEF IInv, Pointing
<1>3. passed' \in Seq(Int)
  <2>1. \A k : ByteAt(k) \in Int
    BY <1>0 DEF ByteAt, Garbage
  <2>2. more \in Seq(Int)
    BY <1>2, <2>1
  <2>3. passed \in Seq(Int)
    BY DEF IInv, TypeOK
  <2> HIDE DEF more
  <2> QED
    BY <1>1, <2>2, <2>3
<1>4. TypeOK' /\ PieceFits'
  <2>1. nleft' \in Ints /\ ptr' \in -(IntMax + 1) .. Len(buf)
    BY <1>1, <1>2, <1>0, SizesAreNat DEF Ints
  <2> QED
    BY <1>1, <1>3, <2>1 DEF IInv, TypeOK, PieceFits, peerVars, recvVars, fixed
<1>5. Pointing'
  BY <1>0, <1>1, <1>2 DEF Pointing
<1>6. todo' \in PassLeft
  BY <1>1 DEF IInv, Staged
<1> QED
  BY <1>1, <1>4, <1>5, <1>6, PassKeeps

\* Calls that fail count nleft up, whether the upstream is there or not.
LEMMA PassFailsKeeps ==
  ASSUME IInv, died = "no", stage = "pass", SendFails \/ SendInterrupted
  PROVE  IInv'
<1>0. /\ Len(buf) \in Nat /\ nleft \in Int /\ nleft <= IntMax /\ ptr \in Int
      /\ slips \in 0..MaxInterrupts /\ resent \in 0..MaxInterrupts /\ MaxInterrupts \in Nat
  BY Types, SizesAreNat DEF IInv, TypeOK
<1>1. /\ nleft > 0 /\ ptr' = ptr - 1 /\ nleft' = AsInt(nleft + 1)
      /\ resent' \in 0..MaxInterrupts
      /\ UNCHANGED <<died, task, stage, size, announced, peerVars, buf, todo, out, slips, recvVars,
                     asked, passed, fixed>>
  <2>1. CASE SendFails
    BY <1>0, <2>1 DEF SendFails, Sending, passVars
  <2>2. CASE SendInterrupted
    BY <1>0, <2>2 DEF SendInterrupted, Sending
  <2> QED
    BY <2>1, <2>2
<1>2. ptr = Len(buf) - nleft /\ IntMax \in Nat
  BY <1>1, SizesAreNat DEF IInv, Pointing
<1>3. /\ nleft < IntMax => nleft' = nleft + 1
      /\ nleft = IntMax => nleft' = -(IntMax + 1)
  <2>1. nleft < IntMax => nleft + 1 \in Ints
    BY <1>1, <1>2, <1>0 DEF Ints
  <2> QED
    BY <1>1, <2>1, AsIntFacts
<1>4. TypeOK' /\ PieceFits'
  <2>1. nleft' \in Ints /\ ptr' \in -(IntMax + 1) .. Len(buf)
    <3>1. nleft + 1 \in Int
      BY <1>0
    <3> QED
      BY <1>1, <1>2, <3>1, <1>0, AsIntFacts
  <2> QED
    BY <1>1, <2>1 DEF IInv, TypeOK, PieceFits, peerVars, recvVars, fixed
<1>5. Pointing'
  <2>1. ASSUME nleft' > 0
        PROVE  ptr' = Len(buf) - nleft'
    <3>1. nleft' = nleft + 1
      BY <1>0, <1>2, <1>3, <2>1
    <3>2. ptr' = ptr - 1
      BY <1>1
    <3> QED
      BY <1>0, <1>2, <3>1, <3>2
  <2> QED
    BY <1>1, <2>1 DEF Pointing
<1>6. todo' \in PassLeft
  BY <1>1 DEF IInv, Staged
<1> QED
  BY <1>1, <1>4, <1>5, <1>6, PassKeeps

LEMMA PassNextKeeps ==
  ASSUME IInv, died = "no", stage = "pass", Sent
  PROVE  IInv'
<1>0. todo \in PassLeft
  BY DEF IInv, Staged
<1>1. CASE todo # <<>>
  <2>1. /\ buf' = Head(todo) /\ todo' = Tail(todo) /\ ptr' = 0 /\ nleft' = Len(Head(todo))
        /\ UNCHANGED <<died, task, stage, size, announced, peerVars, out, slips, recvVars,
                       passVars, fixed>>
    BY <1>1 DEF Sent, Call
  <2>2. Head(todo) \in {<<-3>>, <<-4>>} /\ Tail(todo) \in PassLeft
    BY <1>0, <1>1, PassFacts
  <2>3. PICK b \in Seq(Int) : b = Head(todo) /\ Len(b) = 1
    <3>1. <<-3>> \in Seq(Int) /\ Len(<<-3>>) = 1 /\ <<-4>> \in Seq(Int) /\ Len(<<-4>>) = 1
      OBVIOUS
    <3> QED
      BY <2>2, <3>1
  <2>4. TypeOK' /\ PieceFits'
    <3>1. Len(b) \in Ints /\ 0 \in -(IntMax + 1) .. Len(b)
      <4>1. 1 \in -(IntMax + 1) .. IntMax /\ 0 \in -(IntMax + 1) .. 1
        BY SizesAreNat, BuffersFitInt
      <4> QED
        BY <2>3, <4>1 DEF Ints
    <3>2. Tail(todo) \in Seq(Seq(Int))
      BY <2>2, PassFacts
    <3>3. /\ buf' = b /\ todo' = Tail(todo) /\ ptr' = 0 /\ nleft' = Len(b)
          /\ stage' = stage /\ taken' = taken /\ arrived' = arrived
      BY <2>1, <2>3 DEF peerVars, recvVars
    <3>4. /\ asked' = asked /\ passed' = passed /\ resent' = resent
          /\ died' = died /\ ssl' = ssl /\ keepAlive' = keepAlive /\ client' = client
          /\ length' = length /\ size' = size /\ announced' = announced /\ task' = task
          /\ upstream' = upstream /\ whole' = whole /\ start' = start
          /\ bytes' = bytes /\ debt' = debt /\ dropped' = dropped /\ out' = out /\ slips' = slips
      BY <2>1 DEF peerVars, recvVars, passVars, fixed
    <3>5. buf' \in Seq(Int) /\ todo' \in Seq(Seq(Int)) /\ nleft' \in Ints
          /\ ptr' \in -(IntMax + 1) .. Len(buf')
      BY <2>3, <3>1, <3>2, <3>3
    <3>6. TypeOK'
      BY <3>3, <3>4, <3>5 DEF IInv, TypeOK
    <3>7. PieceFits'
      <4>1. Len(buf') = 1
        BY <2>3, <3>3
      <4> QED
        BY <4>1 DEF PieceFits
    <3> QED
      BY <3>6, <3>7
  <2>5. Pointing'
    BY <2>1, <2>3 DEF Pointing
  <2> QED
    BY <2>1, <2>2, <2>4, <2>5, PassKeeps
<1>2. CASE todo = <<>>
  <2>1. /\ stage' = "recv"
        /\ UNCHANGED <<died, task, size, announced, peerVars, buf, ptr, nleft, todo, out, slips,
                       recvVars, passVars, fixed>>
    <3>1. task = "proxy"
      BY DEF IInv, Staged
    <3> QED
      BY <1>2, <3>1 DEF Sent
  <2>2. TypeOK' /\ PieceFits' /\ Pointing'
    BY <2>1 DEF IInv, TypeOK, PieceFits, Pointing, Stages, peerVars, recvVars, passVars, fixed
  <2>3. todo' = <<>> /\ todo' \in PassLeft
    BY <1>0, <1>2, <2>1
  <2> QED
    BY <2>1, <2>2, <2>3, PassKeeps
<1> QED
  BY <1>1, <1>2

-----------------------------------------------------------------------------
(* processInput, serveFile and sendFile *)

\* A request that has just come in starts with an empty answer.
LEMMA InputFacts ==
  ASSUME IInv, stage = "input"
  PROVE  /\ task = "none" /\ out = <<>> /\ Len(out) = 0 /\ slips = 0 /\ debt = 0 /\ taken = 0
         /\ dropped = 0 /\ arrived = 0 /\ todo = <<>>
<1>1. /\ task = "none" /\ out = <<>> /\ slips = 0 /\ todo = <<>>
  BY PieceFacts DEF IInv, Staged
<1>2. debt = 0 /\ taken = 0 /\ dropped = 0 /\ arrived = 0
  BY <1>1 DEF IInv, Staged
<1> QED
  BY <1>1, <1>2

LEMMA ErrorPageKeeps ==
  ASSUME IInv, died = "no", Reject \/ InputFails
  PROVE  IInv'
<1> DEFINE b == <<-1, -2>>
<1>1. /\ stage = "input" /\ client' \in {client, "closed"}
      /\ task' = "error"
      /\ stage' = "send"
      /\ buf' = b
      /\ todo' = Pieces2
      /\ ptr' = 0
      /\ nleft' = 2
  BY DEF Reject, InputFails, fixed, peerVars, sendVars, recvVars, passVars, Call, ErrorPage, Pieces2
<1>2. /\ asked' = asked /\ passed' = passed /\ resent' = resent
      /\ died' = died /\ ssl' = ssl /\ keepAlive' = keepAlive /\ length' = length
      /\ size' = size /\ announced' = announced /\ arrived' = arrived /\ taken' = taken
      /\ upstream' = upstream /\ whole' = whole /\ start' = start /\ bytes' = bytes
      /\ debt' = debt /\ dropped' = dropped /\ out' = out /\ slips' = slips
  BY DEF Reject, InputFails, fixed, peerVars, sendVars, recvVars, passVars, Call
<1>3. b \in Seq(Int) /\ Len(b) = 2 /\ b[1] = -1 /\ b[2] = -2
  OBVIOUS
<1> HIDE DEF b
<1>4. /\ out = <<>> /\ Len(out) = 0 /\ slips = 0 /\ taken = 0 /\ dropped = 0 /\ arrived = 0
      /\ debt = 0 /\ task = "none"
  BY <1>1, InputFacts
<1>5. TypeOK' /\ PieceFits'
  <2>1. 2 \in Ints /\ 0 \in -(IntMax + 1) .. 2 /\ "error" \in Tasks /\ "send" \in Stages
    BY SizesAreNat, BuffersFitInt DEF Ints, Tasks, Stages
  <2> QED
    BY <1>1, <1>2, <1>3, <2>1, PieceFacts DEF IInv, TypeOK, PieceFits
<1>6. Staged'
  BY <1>1, <1>2, <1>4 DEF IInv, Staged
<1>7. Pointing' /\ FirstBuffer' /\ DeathsExplained'
  BY <1>1, <1>2, <1>3 DEF Pointing, FirstBuffer, IInv, DeathsExplained
<1>8. Due' = 5 /\ Owed' = 3
  BY <1>1, PieceFacts DEF Due, Owed
<1>9. Counted'
  BY <1>1, <1>2, <1>3, <1>4, <1>8 DEF Counted
<1>10. Ordered'
  <2>1. \A i \in 1..Len(out') : FALSE
    BY <1>2, <1>4
  <2>2. \A i \in 1..Len(b) : b[i] = ByteOf("error", ssl', Readable', 0 + 2 - 2 + i)
    BY <1>3 DEF ByteOf
  <2> QED
    BY <1>1, <1>2, <1>3, <1>4, <1>8, <2>1, <2>2 DEF Ordered
<1>11. Arrived'
  BY <1>1, <1>2 DEF IInv, Arrived
<1> QED
  BY <1>5, <1>6, <1>7, <1>9, <1>10, <1>11 DEF IInv

LEMMA ServeFileKeeps ==
  ASSUME IInv, died = "no", NEW t \in {"get", "head"}, ServeFile(t)
  PROVE  IInv'
<1> DEFINE b == <<-1, -2>>
<1>1. /\ stage = "input"
      /\ task' = t
      /\ stage' = "send"
      /\ size' = length
      /\ announced' = AsInt(length)
      /\ buf' = b
      /\ todo' = <<>>
      /\ ptr' = 0
      /\ nleft' = 2
  BY DEF ServeFile, fixed, peerVars, sendVars, recvVars, passVars, Call, FileHeader
<1>2. /\ asked' = asked /\ passed' = passed /\ resent' = resent
      /\ died' = died /\ ssl' = ssl /\ keepAlive' = keepAlive /\ client' = client
      /\ length' = length /\ arrived' = arrived /\ taken' = taken /\ upstream' = upstream
      /\ whole' = whole /\ start' = start /\ bytes' = bytes /\ debt' = debt
      /\ dropped' = dropped /\ out' = out /\ slips' = slips
  BY DEF ServeFile, fixed, peerVars, sendVars, recvVars, passVars, Call
<1>3. b \in Seq(Int) /\ Len(b) = 2 /\ b[1] = -1 /\ b[2] = -2
  OBVIOUS
<1> HIDE DEF b
<1>4. /\ out = <<>> /\ Len(out) = 0 /\ slips = 0 /\ taken = 0 /\ dropped = 0 /\ arrived = 0
      /\ debt = 0 /\ task = "none" /\ length \in Nat
  BY <1>1, InputFacts, Types
<1>5. TypeOK' /\ PieceFits'
  <2>1. 2 \in Ints /\ 0 \in -(IntMax + 1) .. 2 /\ t \in Tasks /\ "send" \in Stages
    BY SizesAreNat, BuffersFitInt DEF Ints, Tasks, Stages
  <2>2. <<>> \in Seq(Seq(Int)) /\ AsInt(length) \in Ints
    BY <1>4, AsIntFacts
  <2> QED
    BY <1>1, <1>2, <1>3, <2>1, <2>2 DEF IInv, TypeOK, PieceFits
<1>6. Staged'
  BY <1>1, <1>2, <1>4 DEF IInv, Staged
<1>7. Pointing' /\ FirstBuffer' /\ DeathsExplained'
  BY <1>1, <1>2, <1>3 DEF Pointing, FirstBuffer, IInv, DeathsExplained
<1>8. Due' = 2 /\ Owed' = 0
  BY <1>1, PieceFacts DEF Due, Owed
<1>9. Counted'
  BY <1>1, <1>2, <1>3, <1>4, <1>8 DEF Counted
<1>10. Ordered'
  <2>1. \A i \in 1..Len(out') : FALSE
    BY <1>2, <1>4
  <2>2. \A i \in 1..Len(b) : b[i] = ByteOf(t, ssl', Readable', 0 + 2 - 2 + i)
    BY <1>3 DEF ByteOf
  <2> QED
    BY <1>1, <1>2, <1>3, <1>4, <1>8, <2>1, <2>2 DEF Ordered
<1>11. Arrived'
  BY <1>1, <1>2 DEF IInv, Arrived
<1> QED
  BY <1>5, <1>6, <1>7, <1>9, <1>10, <1>11 DEF IInv

LEMMA ForwardRequestKeeps ==
  ASSUME IInv, died = "no", NEW p \in Requests, ForwardRequest(p)
  PROVE  IInv'
<1> DEFINE b == <<-1, -2>>
<1>1. /\ stage = "input"
      /\ task' = "proxy"
      /\ stage' = "pass"
      /\ asked' = p
      /\ buf' = b /\ todo' = Tail(p)
      /\ ptr' = 0
      /\ nleft' = Len(b)
  BY PassFacts DEF ForwardRequest, Call
<1>2. /\ passed' = passed /\ resent' = resent
      /\ died' = died /\ ssl' = ssl /\ keepAlive' = keepAlive /\ client' = client
      /\ length' = length /\ size' = size /\ announced' = announced /\ arrived' = arrived
      /\ taken' = taken /\ upstream' = upstream /\ whole' = whole /\ start' = start
      /\ bytes' = bytes /\ debt' = debt /\ dropped' = dropped /\ out' = out /\ slips' = slips
  BY DEF ForwardRequest, fixed, peerVars, recvVars
<1>3. /\ out = <<>> /\ Len(out) = 0 /\ slips = 0 /\ taken = 0 /\ dropped = 0 /\ arrived = 0
      /\ debt = 0 /\ task = "none" /\ todo = <<>>
  BY <1>1, InputFacts
<1>4. b \in Seq(Int) /\ Len(b) = 2 /\ todo' \in PassLeft /\ todo' \in Seq(Seq(Int))
  <2>1. b \in Seq(Int) /\ Len(b) = 2
    OBVIOUS
  <2>2. todo' \in PassLeft
    BY <1>1, PassFacts
  <2>3. todo' \in Seq(Seq(Int))
    BY <2>2, PassFacts
  <2> QED
    BY <2>1, <2>2, <2>3
<1> HIDE DEF b
<1>5. TypeOK' /\ PieceFits'
  <2>1. 2 \in Ints /\ 0 \in -(IntMax + 1) .. 2 /\ "proxy" \in Tasks /\ "pass" \in Stages
    BY SizesAreNat, BuffersFitInt DEF Ints, Tasks, Stages
  <2>2. asked' \in Requests
    BY <1>1
  <2>3. buf' \in Seq(Int) /\ todo' \in Seq(Seq(Int)) /\ nleft' \in Ints
        /\ ptr' \in -(IntMax + 1) .. Len(buf')
    BY <1>1, <1>4, <2>1
  <2>4. TypeOK'
    BY <1>1, <1>2, <2>1, <2>2, <2>3 DEF IInv, TypeOK
  <2>5. PieceFits'
    BY <1>1, <1>4 DEF PieceFits
  <2> QED
    BY <2>4, <2>5
<1>6. Staged'
  BY <1>1, <1>2, <1>3, <1>4 DEF IInv, Staged
<1>7. Pointing' /\ FirstBuffer' /\ DeathsExplained'
  BY <1>1, <1>2, <1>3, <1>4 DEF Pointing, FirstBuffer, IInv, DeathsExplained
<1>8. Due' = 0
  BY <1>1, <1>2, <1>3 DEF Due
<1>9. Counted'
  BY <1>1, <1>2, <1>3, <1>8 DEF Counted
<1>10. Ordered'
  BY <1>1, <1>2, <1>3, <1>8 DEF Ordered
<1>11. Arrived'
  BY <1>1, <1>2 DEF IInv, Arrived
<1> QED
  BY <1>5, <1>6, <1>7, <1>9, <1>10, <1>11 DEF IInv

\* The file follows its header.
LEMMA SendFileKeeps ==
  ASSUME IInv, died = "no", SendFile
  PROVE  IInv'
<1> DEFINE more == IF ssl THEN [i \in 1..size |-> IF i <= Readable THEN i ELSE Garbage]
                          ELSE Bytes(1, Readable)
           k    == IF ssl THEN size ELSE Readable
<1>1. /\ stage = "body" /\ client = "open"
      /\ out' = out \o more
      /\ stage' = "done"
  BY DEF SendFile, fixed, peerVars, sendVars, recvVars, passVars
<1>2. /\ asked' = asked /\ passed' = passed /\ resent' = resent
      /\ died' = died /\ ssl' = ssl /\ keepAlive' = keepAlive /\ task' = task
      /\ client' = client /\ length' = length /\ size' = size /\ announced' = announced
      /\ arrived' = arrived /\ taken' = taken /\ upstream' = upstream /\ whole' = whole
      /\ start' = start /\ bytes' = bytes /\ debt' = debt /\ dropped' = dropped /\ buf' = buf
      /\ ptr' = ptr /\ nleft' = nleft /\ todo' = todo /\ slips' = slips
  BY DEF SendFile, fixed, peerVars, sendVars, recvVars, passVars
<1>3. /\ out \in Seq(Int) /\ Len(out) \in Nat /\ slips \in Nat /\ size \in Nat
      /\ Readable \in Nat /\ Readable <= size
  BY Types
<1>4. task = "get" /\ todo = <<>>
  BY <1>1, PieceFacts DEF IInv, Staged
<1>5. /\ k \in Nat /\ more \in Seq(Int) /\ Len(more) = k
      /\ \A i \in 1..k : more[i] = IF ssl /\ i > Readable THEN Garbage ELSE i
  <2>1. CASE ssl
    <3>1. \A i \in 1..size : (IF i <= Readable THEN i ELSE Garbage) \in Int
      BY <1>3 DEF Garbage
    <3>2. more = [i \in 1..size |-> IF i <= Readable THEN i ELSE Garbage] /\ k = size
      BY <2>1
    <3> HIDE DEF more, k
    <3>3. more \in Seq(Int) /\ Len(more) = size
      BY <1>3, <3>1, <3>2
    <3> QED
      BY <1>3, <2>1, <3>2, <3>3
  <2>2. CASE ~ssl
    <3>1. more = Bytes(1, Readable) /\ k = Readable
      BY <2>2
    <3>2. /\ Bytes(1, Readable) \in Seq(Int) /\ Len(Bytes(1, Readable)) = Readable
          /\ \A i \in 1..Readable : Bytes(1, Readable)[i] = i
      <4>1. PICK r \in Nat : r = Readable
        BY <1>3
      <4>2. /\ Bytes(1, r) \in Seq(Int) /\ Len(Bytes(1, r)) = IF r >= 1 THEN r - 1 + 1 ELSE 0
            /\ \A i \in 1..Len(Bytes(1, r)) : Bytes(1, r)[i] = 1 + i - 1
        <5>1. PICK from \in Int : from = 1
          OBVIOUS
        <5>2. /\ Bytes(from, r) \in Seq(Int)
              /\ Len(Bytes(from, r)) = IF r >= from THEN r - from + 1 ELSE 0
              /\ \A i \in 1..Len(Bytes(from, r)) : Bytes(from, r)[i] = from + i - 1
          BY BytesFacts
        <5> QED
          BY <5>1, <5>2
      <4>3. Len(Bytes(1, r)) = r
        BY <4>2
      <4>4. \A i \in 1..r : Bytes(1, r)[i] = i
        BY <4>2, <4>3
      <4> QED
        BY <4>1, <4>2, <4>3, <4>4
    <3> HIDE DEF more, k
    <3> QED
      BY <1>3, <2>2, <3>1, <3>2
  <2> QED
    BY <2>1, <2>2
<1>6. Due = 2 /\ Due' = 2 + k /\ Readable' = Readable
  BY <1>1, <1>2, <1>4 DEF Due, Readable
<1> HIDE DEF more, k
<1>7. /\ out' \in Seq(Int) /\ Len(out') = Len(out) + k
      /\ \A i \in 1..Len(out) : out'[i] = out[i]
      /\ \A i \in 1..k : out'[Len(out) + i] = more[i]
  BY <1>1, <1>3, <1>5, ConcatFacts
<1>8. TypeOK' /\ PieceFits'
  BY <1>1, <1>2, <1>7 DEF IInv, TypeOK, PieceFits, Stages
<1>9. Staged'
  BY <1>1, <1>2, <1>4 DEF IInv, Staged
<1>10. Pointing' /\ FirstBuffer' /\ DeathsExplained'
  BY <1>1, <1>2 DEF Pointing, FirstBuffer, IInv, DeathsExplained
<1>11. slips = 0 \/ Unwrapped => Len(out) = slips + 2
  BY <1>1, <1>6 DEF IInv, Counted
<1>12. Counted'
  <2>1. Len(out) = slips + 2 => Len(out') = slips + (2 + k)
    BY <1>3, <1>5, <1>7
  <2> QED
    BY <1>1, <1>2, <1>6, <1>11, <2>1 DEF Counted
<1>13. Ordered'
  <2> SUFFICES ASSUME slips = 0, dropped = 0
               PROVE  Ordered'
    BY <1>2 DEF Ordered
  <2>1. Len(out) = 2 /\ Len(out') = 2 + k
    <3>1. Len(out) = 0 + 2
      BY <1>11
    <3> QED
      BY <1>5, <1>7, <3>1
  <2>2. \A i \in 1..2 : out[i] = ByteOf(task, ssl, Readable, i)
    BY <2>1 DEF IInv, Ordered
  <2>3. ASSUME NEW i \in 1 .. 2 + k
        PROVE  out'[i] = ByteOf(task, ssl, Readable, i)
    <3>1. CASE i \in 1..2
      BY <1>7, <2>1, <2>2, <3>1
    <3>2. CASE i \notin 1..2
      <4>1. i - 2 \in 1..k /\ i = 2 + (i - 2) /\ i > 2
        BY <1>5, <3>2
      <4>2. out'[i] = more[i - 2]
        BY <1>7, <2>1, <4>1
      <4> QED
        BY <1>4, <1>5, <4>1, <4>2 DEF ByteOf
    <3> QED
      BY <3>1, <3>2
  <2>4. 2 + k <= 2 + k
    BY <1>5
  <2> QED
    BY <1>1, <1>2, <1>6, <2>1, <2>3, <2>4 DEF Ordered
<1>14. Arrived'
  BY <1>1, <1>2, <1>4 DEF IInv, Arrived
<1> QED
  BY <1>8, <1>9, <1>10, <1>12, <1>13, <1>14 DEF IInv

LEMMA SendFileFailsKeeps ==
  ASSUME IInv, died = "no", SendFileFails
  PROVE  IInv'
<1>1. /\ stage = "body" /\ client # "open"
      /\ stage' = "done"
  BY DEF SendFileFails, fixed, peerVars, sendVars, recvVars, passVars
<1>2. /\ asked' = asked /\ passed' = passed /\ resent' = resent
      /\ died' = died /\ ssl' = ssl /\ keepAlive' = keepAlive /\ task' = task
      /\ client' = client /\ length' = length /\ size' = size /\ announced' = announced
      /\ arrived' = arrived /\ taken' = taken /\ upstream' = upstream /\ whole' = whole
      /\ start' = start /\ bytes' = bytes /\ debt' = debt /\ dropped' = dropped /\ buf' = buf
      /\ ptr' = ptr /\ nleft' = nleft /\ todo' = todo /\ out' = out /\ slips' = slips
  BY DEF SendFileFails, fixed, peerVars, sendVars, recvVars, passVars
<1>3. task = "get" /\ todo = <<>> /\ Len(out) \in Nat /\ size \in Nat /\ Readable \in Nat
  BY <1>1, PieceFacts, Types DEF IInv, Staged
<1>4. TypeOK' /\ PieceFits'
  BY <1>1, <1>2 DEF IInv, TypeOK, PieceFits, Stages
<1>5. Staged'
  BY <1>1, <1>2, <1>3 DEF IInv, Staged
<1>6. Pointing' /\ FirstBuffer' /\ DeathsExplained'
  BY <1>1, <1>2 DEF Pointing, FirstBuffer, IInv, DeathsExplained
<1>7. Due = 2 /\ Due' = 2 + (IF ssl THEN size ELSE Readable) /\ Readable' = Readable
  BY <1>1, <1>2, <1>3 DEF Due, Readable
<1>8. Counted'
  BY <1>1, <1>2 DEF Counted
<1>9. Ordered'
  <2>1. Len(out) <= 2 => Len(out) <= 2 + (IF ssl THEN size ELSE Readable)
    BY <1>3
  <2> QED
    BY <1>1, <1>2, <1>7, <2>1 DEF IInv, Ordered
<1>10. Arrived'
  BY <1>1, <1>2, <1>3 DEF IInv, Arrived
<1> QED
  BY <1>4, <1>5, <1>6, <1>8, <1>9, <1>10 DEF IInv

-----------------------------------------------------------------------------
(* recvData and the forwarding loop of the proxy handlers *)

\* recvData() returns n bytes less those that went astray.
LEMMA ReceivedKeeps ==
  ASSUME IInv, died = "no", stage = "recv", NEW n \in Nat,
         n <= arrived - taken, n = arrived - taken \/ n = BufSize + debt, n <= BufSize + debt,
         Received(n), taken' = taken + n, dropped' = dropped + Least(n, debt),
         whole' \in BOOLEAN, whole' => arrived = length,
         UNCHANGED <<died, task, size, announced, peerVars, out, slips, start, passVars, fixed>>
  PROVE  IInv'
<1> DEFINE lost == IF n < debt THEN n ELSE debt
           b    == Bytes(taken + debt + 1, taken + n)
<1>1. /\ out \in Seq(Int) /\ Len(out) \in Nat /\ slips \in Nat /\ taken \in Nat /\ debt \in Nat
      /\ dropped \in Nat /\ arrived \in Nat /\ debt + dropped <= MaxInterrupts
      /\ arrived <= MaxLen /\ task = "proxy" /\ todo = <<>> /\ BufSize \in Nat \ {0}
      /\ MaxInterrupts \in Nat /\ IntMax \in Nat /\ BufSize <= IntMax /\ length \in Nat
  <2>1. task = "proxy" /\ todo = <<>> /\ debt + dropped <= MaxInterrupts
    BY PieceFacts DEF IInv, Staged
  <2>2. arrived <= MaxLen
    BY SizesAreNat DEF IInv, TypeOK
  <2> QED
    BY <2>1, <2>2, Types, SizesAreNat, BuffersFitInt
<1>2. /\ asked' = asked /\ passed' = passed /\ resent' = resent
      /\ died' = died /\ task' = task /\ size' = size /\ announced' = announced /\ client' = client
      /\ length' = length /\ arrived' = arrived /\ upstream' = upstream /\ out' = out
      /\ slips' = slips /\ start' = start /\ ssl' = ssl /\ keepAlive' = keepAlive
  BY DEF peerVars, passVars, fixed
<1>3. /\ bytes' = n - debt /\ debt' = 0 /\ taken' = taken + n /\ dropped' = dropped + lost
      /\ lost \in Nat /\ lost <= debt /\ lost <= n
      /\ n > debt => lost = debt
      /\ n < debt => lost = n
  BY <1>1 DEF Received, Least
<1> HIDE DEF lost
<1>4. /\ taken' \in 0..arrived /\ dropped' \in 0..MaxInterrupts /\ bytes' \in -MaxInterrupts..BufSize
      /\ debt' + dropped' <= MaxInterrupts
  BY <1>1, <1>3
<1>5. DeathsExplained'
  BY <1>2 DEF DeathsExplained
<1>6. Readable' = Readable /\ Due = taken - dropped /\ Due' = taken + n - (dropped + lost)
  BY <1>1, <1>2, <1>3 DEF Readable, Due
<1>7. (slips = 0 \/ Unwrapped) /\ client = "open" => Len(out) = slips + (taken - dropped)
  BY <1>6 DEF IInv, Counted
<1>8. slips = 0 /\ dropped = 0 => /\ Len(out) <= taken
                                  /\ \A i \in 1..Len(out) : out[i] = ByteOf(task, ssl, Readable, i)
  <2>1. slips = 0 /\ dropped = 0 => Len(out) <= taken - dropped
    BY <1>6 DEF IInv, Ordered
  <2> QED
    BY <1>1, <2>1 DEF IInv, Ordered
<1>9. CASE n = debt
  <2>1. /\ stage' = "done" /\ buf' = buf /\ ptr' = ptr /\ nleft' = nleft /\ todo' = todo
    BY <1>9 DEF Received
  <2>2. TypeOK' /\ PieceFits'
    BY <1>2, <1>3, <1>4, <2>1, SizesAreNat DEF IInv, TypeOK, PieceFits, Stages
  <2>3. Staged'
    BY <1>1, <1>2, <1>3, <1>4, <2>1 DEF IInv, Staged
  <2>4. Pointing' /\ FirstBuffer'
    BY <2>1 DEF Pointing, FirstBuffer
  <2>5. lost = n
    BY <1>1, <1>9 DEF lost
  <2>6. Due' = Due
    BY <1>1, <1>6, <2>5
  <2>7. Counted'
    BY <1>2, <1>6, <1>7, <2>1, <2>6 DEF Counted
  <2>8. Ordered'
    <3> SUFFICES ASSUME slips = 0, dropped' = 0
                 PROVE  Ordered'
      BY <1>2 DEF Ordered
    <3>1. dropped = 0 /\ n = 0
      BY <1>1, <1>3, <2>5
    <3>2. Len(out) <= Due'
      BY <1>1, <1>6, <1>8, <2>6, <3>1
    <3> QED
      BY <1>2, <1>6, <1>8, <2>1, <3>1, <3>2 DEF Ordered
  <2>9. Arrived'
    <3>1. whole' => taken' = length
      BY <1>1, <1>3, <1>9
    <3> QED
      BY <1>2, <2>1, <3>1 DEF Arrived
  <2> QED
    BY <1>5, <2>2, <2>3, <2>4, <2>7, <2>8, <2>9 DEF IInv
<1>10. CASE n # debt
  <2>1. /\ stage' = "send" /\ buf' = b /\ ptr' = 0 /\ nleft' = Len(b) /\ todo' = <<>>
    BY <1>10 DEF Received, Call
  <2>2. /\ b \in Seq(Int) /\ Len(b) \in Nat
        /\ Len(b) = n - lost /\ Len(b) <= BufSize
        /\ \A i \in 1..Len(b) : b[i] = taken + debt + i
    <3>1. PICK from \in Int, to \in Int : from = taken + debt + 1 /\ to = taken + n
      BY <1>1
    <3>2. /\ Bytes(from, to) \in Seq(Int)
          /\ Len(Bytes(from, to)) = IF to >= from THEN to - from + 1 ELSE 0
          /\ \A i \in 1..Len(Bytes(from, to)) : Bytes(from, to)[i] = from + i - 1
      BY BytesFacts
    <3>3. b = Bytes(from, to)
      BY <3>1
    <3> HIDE DEF b
    <3>4. Len(b) = n - lost /\ n - lost \in Nat /\ n - lost <= BufSize
      <4>1. lost \in Nat /\ lost <= n /\ n - lost \in Nat
        BY <1>3
      <4>2. n - lost = IF to >= from THEN to - from + 1 ELSE 0
        <5>1. CASE n > debt
          BY <1>1, <1>3, <3>1, <5>1
        <5>2. CASE n < debt
          BY <1>1, <1>3, <3>1, <5>2
        <5> QED
          BY <1>1, <1>10, <5>1, <5>2
      <4>3. n - lost <= BufSize
        <5>1. CASE n > debt
          BY <1>1, <1>3, <5>1
        <5>2. CASE n < debt
          BY <1>1, <1>3, <5>2
        <5> QED
          BY <1>1, <1>10, <5>1, <5>2
      <4> QED
        BY <3>2, <3>3, <4>1, <4>2, <4>3
    <3>5. \A i \in 1..Len(b) : b[i] = taken + debt + i
      BY <1>1, <3>1, <3>2, <3>3, <3>4
    <3> QED
      BY <3>2, <3>3, <3>4, <3>5
  <2> HIDE DEF b
  <2>3. TypeOK' /\ PieceFits'
    <3>1. Len(b) \in Ints /\ 0 \in -(IntMax + 1) .. Len(b)
      BY <1>1, <2>2 DEF Ints
    <3>2. <<>> \in Seq(Seq(Int)) /\ stage' \in Stages
      BY <2>1 DEF Stages
    <3>3. PieceFits'
      BY <2>1, <2>2 DEF PieceFits
    <3> QED
      BY <1>2, <1>3, <1>4, <2>1, <2>2, <3>1, <3>2, <3>3, SizesAreNat DEF IInv, TypeOK
  <2>4. Staged'
    BY <1>1, <1>2, <1>3, <1>4, <2>1 DEF IInv, Staged
  <2>5. Pointing'
    BY <2>1, <2>2 DEF Pointing
  <2>6. FirstBuffer'
    <3> SUFFICES ASSUME start
                 PROVE  taken' - dropped' = IF bytes' < 0 THEN 0 ELSE bytes'
      BY <1>2, <2>1 DEF FirstBuffer
    <3>1. taken = 0 /\ dropped = 0
      BY DEF IInv, FirstBuffer
    <3>2. taken' = n /\ dropped' = lost /\ bytes' = n - debt
      BY <1>3, <3>1
    <3>3. n - lost = IF n - debt < 0 THEN 0 ELSE n - debt
      BY <1>1, <1>3, <1>10
    <3> QED
      BY <3>2, <3>3
  <2>7. Due' = Due + Len(b) /\ Owed' = 0 /\ Due \in Int
    <3>1. Owed' = 0
      BY <2>1, PieceFacts DEF Owed
    <3>2. taken + n - (dropped + lost) = (taken - dropped) + Len(b) /\ taken - dropped \in Int
      BY <1>1, <1>3, <2>2
    <3> QED
      BY <1>6, <3>1, <3>2
  <2>8. Counted'
    <3>1. Len(b) \in 0 .. Len(b) + slips
      BY <1>1, <2>2
    <3>2. Len(out) = slips + Due => Len(out) + Len(b) + 0 = slips + (Due + Len(b))
      BY <1>1, <2>2, <2>7
    <3> QED
      BY <1>2, <1>6, <1>7, <2>1, <2>7, <3>1, <3>2 DEF Counted
  <2>9. Ordered'
    <3> SUFFICES ASSUME slips = 0, dropped' = 0
                 PROVE  Ordered'
      BY <1>2 DEF Ordered
    <3>1. dropped = 0 /\ (debt = 0 \/ Len(b) = 0)
      <4>1. dropped = 0 /\ lost = 0
        BY <1>1, <1>3
      <4>2. CASE n > debt
        BY <1>3, <4>1, <4>2
      <4>3. CASE n < debt
        BY <1>3, <2>2, <4>1, <4>3
      <4> QED
        BY <1>1, <1>10, <4>1, <4>2, <4>3
    <3>2. Len(out) <= Due + Len(b)
      BY <1>1, <1>6, <1>8, <2>2, <3>1
    <3>3. ASSUME client = "open", NEW i \in 1..Len(b)
          PROVE  b[i] = ByteOf(task, ssl, Readable, Len(out) + Len(b) - Len(b) + i)
      <4>1. Len(out) = 0 + (taken - 0)
        BY <1>7, <3>1, <3>3
      <4>2. b[i] = taken + 0 + i
        <5>1. debt = 0
          BY <2>2, <3>1
        <5> QED
          BY <2>2, <5>1
      <4>3. Len(out) + Len(b) - Len(b) + i = taken + 0 + i
        BY <1>1, <2>2, <4>1
      <4> QED
        BY <1>1, <4>2, <4>3 DEF ByteOf
    <3> QED
      BY <1>2, <1>6, <1>8, <2>1, <2>7, <3>1, <3>2, <3>3 DEF Ordered
  <2>10. Arrived'
    <3>1. whole' /\ dropped' = 0 => taken' = length \/ bytes' = BufSize
      BY <1>1, <1>3, <1>10
    <3> QED
      BY <1>2, <2>1, <3>1 DEF Arrived
  <2> QED
    BY <1>5, <2>3, <2>4, <2>5, <2>6, <2>8, <2>9, <2>10 DEF IInv
<1> QED
  BY <1>9, <1>10

LEMMA RecvKeeps ==
  ASSUME IInv, died = "no", Recv \/ RecvEnd
  PROVE  IInv'
<1>1. /\ taken \in Nat /\ arrived \in Nat /\ taken <= arrived /\ debt \in Nat /\ BufSize \in Nat \ {0}
      /\ whole \in BOOLEAN /\ (whole => arrived = length)
  BY Types, SizesAreNat DEF IInv, TypeOK, Arrived
<1>2. CASE Recv
  <2> DEFINE n == Least(arrived - taken, Room)
  <2>1. /\ n \in Nat /\ n <= arrived - taken /\ n <= BufSize + debt
        /\ n = arrived - taken \/ n = BufSize + debt
    BY <1>1, <1>2 DEF Recv, Least, Room
  <2>2. /\ stage = "recv" /\ Received(n) /\ taken' = taken + n /\ dropped' = dropped + Least(n, debt)
        /\ whole' = IF taken = 0 THEN arrived = length ELSE whole
        /\ UNCHANGED <<died, task, size, announced, peerVars, out, slips, start, passVars, fixed>>
    BY <1>2 DEF Recv
  <2>3. whole' \in BOOLEAN
    <3>1. (arrived = length) \in BOOLEAN
      BY Zenon
    <3> QED
      BY <1>1, <2>2, <3>1, Zenon
  <2>4. whole' => arrived = length
    BY <1>1, <2>2
  <2> HIDE DEF n
  <2> QED
    BY <2>1, <2>2, <2>3, <2>4, ReceivedKeeps
<1>3. CASE RecvEnd
  <2>1. PICK n \in Nat : n = 0
    OBVIOUS
  <2>2. /\ stage = "recv" /\ Received(n) /\ taken' = taken /\ dropped' = dropped /\ whole' = whole
        /\ UNCHANGED <<died, task, size, announced, peerVars, out, slips, start, passVars, fixed>>
        /\ arrived = taken
    BY <1>3, <2>1 DEF RecvEnd
  <2>3. dropped \in Nat
    BY Types
  <2>4. /\ n <= arrived - taken /\ n <= BufSize + debt /\ n = arrived - taken
        /\ taken' = taken + n /\ dropped' = dropped + Least(n, debt)
    BY <1>1, <2>1, <2>2, <2>3 DEF Least
  <2> QED
    BY <1>1, <2>2, <2>4, ReceivedKeeps
<1> QED
  BY <1>2, <1>3
LEMMA RecvFailsKeeps ==
  ASSUME IInv, died = "no", RecvFails
  PROVE  IInv'
<1>1. /\ stage = "recv" /\ arrived = taken
      /\ bytes' = 0
      /\ debt' = 0
      /\ stage' = "done"
  BY DEF RecvFails, fixed, peerVars, sendVars, recvVars, passVars
<1>2. /\ asked' = asked /\ passed' = passed /\ resent' = resent
      /\ died' = died /\ ssl' = ssl /\ keepAlive' = keepAlive /\ task' = task
      /\ client' = client /\ length' = length /\ size' = size /\ announced' = announced
      /\ arrived' = arrived /\ taken' = taken /\ upstream' = upstream /\ whole' = whole
      /\ start' = start /\ dropped' = dropped /\ buf' = buf /\ ptr' = ptr /\ nleft' = nleft
      /\ todo' = todo /\ out' = out /\ slips' = slips
  BY DEF RecvFails, fixed, peerVars, sendVars, recvVars, passVars
<1>3. /\ task = "proxy" /\ todo = <<>> /\ MaxInterrupts \in Nat /\ BufSize \in Nat
      /\ debt \in Nat /\ dropped \in Nat /\ debt + dropped <= MaxInterrupts
  BY <1>1, PieceFacts, Types, SizesAreNat DEF IInv, Staged
<1>4. TypeOK' /\ PieceFits'
  <2>1. 0 \in 0..MaxInterrupts /\ 0 \in -MaxInterrupts..BufSize
    BY <1>3
  <2> QED
    BY <1>1, <1>2, <2>1 DEF IInv, TypeOK, PieceFits, Stages
<1>5. Staged'
  <2>1. 0 + dropped <= MaxInterrupts
    BY <1>3
  <2> QED
    BY <1>1, <1>2, <1>3, <2>1 DEF IInv, Staged
<1>6. Pointing' /\ FirstBuffer' /\ DeathsExplained'
  BY <1>1, <1>2 DEF Pointing, FirstBuffer, IInv, DeathsExplained
<1>7. Due' = Due /\ Readable' = Readable
  BY <1>1, <1>2, <1>3 DEF Due, Readable
<1>8. Counted'
  BY <1>1, <1>2, <1>7 DEF IInv, Counted
<1>9. Ordered'
  BY <1>1, <1>2, <1>7 DEF IInv, Ordered
<1>10. Arrived'
  BY <1>1, <1>2 DEF IInv, Arrived
<1> QED
  BY <1>4, <1>5, <1>6, <1>8, <1>9, <1>10 DEF IInv

LEMMA RecvInterruptedKeeps ==
  ASSUME IInv, died = "no", RecvInterrupted
  PROVE  IInv'
<1>1. /\ stage = "recv" /\ debt + dropped < MaxInterrupts
      /\ debt' = debt + 1
  BY DEF RecvInterrupted, fixed, peerVars, sendVars, recvVars, passVars
<1>2. /\ asked' = asked /\ passed' = passed /\ resent' = resent
      /\ died' = died /\ ssl' = ssl /\ keepAlive' = keepAlive /\ task' = task /\ stage' = stage
      /\ client' = client /\ length' = length /\ size' = size /\ announced' = announced
      /\ arrived' = arrived /\ taken' = taken /\ upstream' = upstream /\ whole' = whole
      /\ start' = start /\ bytes' = bytes /\ dropped' = dropped /\ buf' = buf /\ ptr' = ptr
      /\ nleft' = nleft /\ todo' = todo /\ out' = out /\ slips' = slips
  BY DEF RecvInterrupted, fixed, peerVars, sendVars, recvVars, passVars
<1>3. /\ task = "proxy" /\ MaxInterrupts \in Nat /\ debt \in Nat /\ dropped \in Nat
  BY <1>1, Types, SizesAreNat DEF IInv, Staged
<1>4. debt + 1 \in 0..MaxInterrupts /\ (debt + 1) + dropped <= MaxInterrupts
  BY <1>1, <1>3
<1>5. TypeOK' /\ PieceFits'
  BY <1>1, <1>2, <1>4 DEF IInv, TypeOK, PieceFits
<1>6. Staged'
  BY <1>1, <1>2, <1>3, <1>4 DEF IInv, Staged
<1>7. Pointing' /\ FirstBuffer' /\ DeathsExplained'
  BY <1>1, <1>2 DEF Pointing, FirstBuffer, IInv, DeathsExplained
<1>8. Due' = Due /\ Readable' = Readable
  BY <1>2 DEF Due, Readable
<1>9. Counted'
  BY <1>1, <1>2, <1>8 DEF IInv, Counted
<1>10. Ordered'
  BY <1>1, <1>2, <1>8 DEF IInv, Ordered
<1>11. Arrived'
  BY <1>1, <1>2 DEF IInv, Arrived
<1> QED
  BY <1>5, <1>6, <1>7, <1>9, <1>10, <1>11 DEF IInv

LEMMA NoStatusKeeps ==
  ASSUME IInv, died = "no", NoStatus
  PROVE  IInv'
<1>1. /\ stage = "status" /\ start /\ bytes < StatusLen
      /\ died' = "segfault"
  BY DEF NoStatus, fixed, peerVars, sendVars, recvVars, passVars
<1>2. /\ asked' = asked /\ passed' = passed /\ resent' = resent
      /\ ssl' = ssl /\ keepAlive' = keepAlive /\ task' = task /\ stage' = stage
      /\ client' = client /\ length' = length /\ size' = size /\ announced' = announced
      /\ arrived' = arrived /\ taken' = taken /\ upstream' = upstream /\ whole' = whole
      /\ start' = start /\ bytes' = bytes /\ debt' = debt /\ dropped' = dropped /\ buf' = buf
      /\ ptr' = ptr /\ nleft' = nleft /\ todo' = todo /\ out' = out /\ slips' = slips
  BY DEF NoStatus, fixed, peerVars, sendVars, recvVars, passVars
<1>3. /\ task = "proxy" /\ taken \in Nat /\ dropped \in Nat /\ bytes \in Int /\ StatusLen \in Nat \ {0}
  BY <1>1, Types, SizesAreNat DEF IInv, Staged
<1>4. taken - dropped = IF bytes < 0 THEN 0 ELSE bytes
  BY <1>1, <1>3 DEF IInv, FirstBuffer
<1>5. taken < StatusLen + dropped
  BY <1>1, <1>3, <1>4
<1>6. TypeOK' /\ PieceFits'
  BY <1>1, <1>2 DEF IInv, TypeOK, PieceFits
<1>7. Staged'
  BY <1>2 DEF IInv, Staged
<1>8. Pointing' /\ FirstBuffer'
  BY <1>2 DEF Pointing, FirstBuffer, IInv
<1>9. DeathsExplained'
  BY <1>1, <1>2, <1>3, <1>5 DEF DeathsExplained
<1>10. Due' = Due /\ Readable' = Readable /\ Owed' = Owed
  BY <1>2 DEF Due, Readable, Owed
<1>11. Counted'
  BY <1>2, <1>10 DEF IInv, Counted
<1>12. Ordered'
  BY <1>2, <1>10 DEF IInv, Ordered
<1>13. Arrived'
  BY <1>2 DEF IInv, Arrived
<1> QED
  BY <1>6, <1>7, <1>8, <1>9, <1>11, <1>12, <1>13 DEF IInv

LEMMA StatusKeeps ==
  ASSUME IInv, died = "no", Status
  PROVE  IInv'
<1>1. /\ stage = "status"
      /\ start' = FALSE
      /\ stage' = (IF bytes = BufSize THEN "recv" ELSE "done")
  BY DEF Status, fixed, peerVars, sendVars, recvVars, passVars
<1>2. /\ asked' = asked /\ passed' = passed /\ resent' = resent
      /\ died' = died /\ ssl' = ssl /\ keepAlive' = keepAlive /\ task' = task
      /\ client' = client /\ length' = length /\ size' = size /\ announced' = announced
      /\ arrived' = arrived /\ taken' = taken /\ upstream' = upstream /\ whole' = whole
      /\ bytes' = bytes /\ debt' = debt /\ dropped' = dropped /\ buf' = buf /\ ptr' = ptr
      /\ nleft' = nleft /\ todo' = todo /\ out' = out /\ slips' = slips
  BY DEF Status, fixed, peerVars, sendVars, recvVars, passVars
<1>3. task = "proxy" /\ todo = <<>> /\ debt = 0
  BY <1>1, PieceFacts DEF IInv, Staged
<1>4. stage' \in {"recv", "done"} /\ (stage' = "done" => bytes # BufSize)
  BY <1>1
<1>5. TypeOK' /\ PieceFits'
  BY <1>1, <1>2, <1>4 DEF IInv, TypeOK, PieceFits, Stages
<1>6. Staged'
  BY <1>1, <1>2, <1>3, <1>4 DEF IInv, Staged
<1>7. Pointing' /\ FirstBuffer' /\ DeathsExplained'
  BY <1>1, <1>2, <1>4 DEF Pointing, FirstBuffer, IInv, DeathsExplained
<1>8. Due' = Due /\ Readable' = Readable
  BY <1>2, <1>3 DEF Due, Readable
<1>9. Counted'
  BY <1>1, <1>2, <1>4, <1>8 DEF IInv, Counted
<1>10. Ordered'
  BY <1>1, <1>2, <1>4, <1>8 DEF IInv, Ordered
<1>11. Arrived'
  BY <1>1, <1>2, <1>4 DEF IInv, Arrived
<1> QED
  BY <1>5, <1>6, <1>7, <1>9, <1>10, <1>11 DEF IInv

-----------------------------------------------------------------------------
(* The specification *)

LEMMA InitKeeps ==
  ASSUME Init
  PROVE  IInv
<1>1. /\ died = "no" /\ task = "none" /\ stage = "input" /\ client = "open" /\ upstream = "open"
      /\ size = 0 /\ announced = 0 /\ arrived = 0 /\ taken = 0 /\ whole = FALSE /\ bytes = 0
      /\ debt = 0 /\ dropped = 0 /\ buf = <<>> /\ ptr = 0 /\ nleft = 0 /\ todo = <<>>
      /\ out = <<>> /\ slips = 0 /\ start = TRUE /\ asked = <<>> /\ passed = <<>> /\ resent = 0
      /\ ssl \in BOOLEAN /\ keepAlive \in BOOLEAN /\ length \in 0..MaxLen
  BY DEF Init
<1>2. <<>> \in Seq(Int) /\ <<>> \in Seq(Seq(Int)) /\ Len(<<>>) = 0
  OBVIOUS
<1>3. /\ 0 \in Ints /\ 0 \in 0..MaxLen /\ 0 \in 0..0 /\ 0 \in 0..MaxInterrupts
      /\ 0 \in -MaxInterrupts..BufSize /\ 0 \in -(IntMax + 1)..0 /\ 0 <= BufSize
      /\ 0 <= length /\ 0 + 0 <= MaxInterrupts
  BY <1>1, SizesAreNat DEF Ints
<1>4. TypeOK /\ PieceFits
  BY <1>1, <1>2, <1>3 DEF TypeOK, PieceFits, Tasks, Stages
<1>5. Staged
  BY <1>1, <1>3 DEF Staged
<1>6. Pointing /\ FirstBuffer /\ DeathsExplained /\ Arrived
  BY <1>1 DEF Pointing, FirstBuffer, DeathsExplained, Arrived
<1>7. Due = 0
  BY <1>1 DEF Due
<1>8. Counted
  BY <1>1, <1>2, <1>7 DEF Counted
<1>9. Ordered
  BY <1>1, <1>2, <1>7 DEF Ordered
<1> QED
  BY <1>4, <1>5, <1>6, <1>8, <1>9 DEF IInv

LEMMA IdleKeeps ==
  ASSUME IInv, UNCHANGED vars
  PROVE  IInv'
<1>1. /\ asked' = asked /\ passed' = passed /\ resent' = resent
      /\ died' = died /\ ssl' = ssl /\ keepAlive' = keepAlive /\ task' = task /\ stage' = stage
      /\ client' = client /\ length' = length /\ size' = size /\ announced' = announced
      /\ arrived' = arrived /\ taken' = taken /\ upstream' = upstream /\ whole' = whole
      /\ start' = start /\ bytes' = bytes /\ debt' = debt /\ dropped' = dropped /\ buf' = buf
      /\ ptr' = ptr /\ nleft' = nleft /\ todo' = todo /\ out' = out /\ slips' = slips
  BY DEF vars, fixed, peerVars, sendVars, recvVars, passVars
<1>2. Due' = Due /\ Readable' = Readable /\ Owed' = Owed
  BY <1>1 DEF Due, Readable, Owed
<1>3. TypeOK' /\ PieceFits' /\ Staged'
  BY <1>1 DEF IInv, TypeOK, PieceFits, Staged
<1>4. Pointing' /\ FirstBuffer' /\ DeathsExplained' /\ Arrived'
  BY <1>1 DEF IInv, Pointing, FirstBuffer, DeathsExplained, Arrived
<1>5. Counted'
  BY <1>1, <1>2 DEF IInv, Counted
<1>6. Ordered'
  BY <1>1, <1>2 DEF IInv, Ordered
<1> QED
  BY <1>3, <1>4, <1>5, <1>6 DEF IInv

LEMMA StepKeeps ==
  ASSUME IInv, [Next]_vars
  PROVE  IInv'
<1>1. CASE died = "no" /\ (Peers \/ Answers \/ Interrupts)
  <2>1. CASE Peers
    BY <1>1, <2>1, ClientResetsKeeps, UpstreamEndsKeeps, FileShrinksKeeps DEF Peers
  <2>2. CASE Answers
    BY <1>1, <2>2, UpstreamSendsKeeps, UpstreamEndsKeeps DEF Answers
  <2>3. CASE Interrupts
    <3>1. CASE SendInterrupted
      <4>1. stage \in {"pass", "send"}
        BY <3>1 DEF SendInterrupted, Sending
      <4> QED
        BY <1>1, <3>1, <4>1, SendInterruptedKeeps, PassFailsKeeps
    <3> QED
      BY <1>1, <2>3, <3>1, RecvInterruptedKeeps DEF Interrupts
  <2> QED
    BY <1>1, <2>1, <2>2, <2>3
<1>2. CASE died = "no" /\ Steps
  <2>1. ASSUME NEW n \in 1..BufSize, Send(n)
        PROVE  IInv'
    <3>1. stage \in {"pass", "send"}
      BY <2>1 DEF Send, Sending
    <3> QED
      BY <1>2, <2>1, <3>1, SendKeeps, PassSendKeeps
  <2>2. CASE SendFails \/ SslWriteFails \/ Sigpipe
    <3>1. SendFails => stage \in {"pass", "send"}
      BY DEF SendFails, Sending
    <3> QED
      BY <1>2, <2>2, <3>1, SendFailsKeeps, PassFailsKeeps, SslWriteFailsKeeps, SigpipeKeeps
  <2>3. CASE Sent
    <3>1. stage \in {"pass", "send"}
      BY <2>3 DEF Sent
    <3> QED
      BY <1>2, <2>3, <3>1, NextPieceKeeps, LastPieceKeeps, PassNextKeeps
  <2>4. CASE Reject \/ InputFails
    BY <1>2, <2>4, ErrorPageKeeps
  <2>5. ASSUME NEW t \in {"get", "head"}, ServeFile(t)
        PROVE  IInv'
    BY <1>2, <2>5, ServeFileKeeps
  <2>6. CASE SendFile \/ SendFileFails \/ \E p \in Requests : ForwardRequest(p)
    BY <1>2, <2>6, SendFileKeeps, SendFileFailsKeeps, ForwardRequestKeeps
  <2>7. CASE Recv \/ RecvEnd \/ RecvFails
    BY <1>2, <2>7, RecvKeeps, RecvFailsKeeps
  <2>8. CASE NoStatus \/ Status
    BY <1>2, <2>8, NoStatusKeeps, StatusKeeps
  <2> QED
    BY <1>2, <2>1, <2>2, <2>3, <2>4, <2>5, <2>6, <2>7, <2>8 DEF Steps
<1>3. CASE Rest \/ UNCHANGED vars
  BY <1>3, IdleKeeps DEF Rest
<1> QED
  BY <1>1, <1>2, <1>3 DEF Next

\* The inductive invariant holds for every buffer size, length, bound and
\* environment.
THEOREM Invariance == Spec => []IInv
<1>1. Init => IInv
  BY InitKeeps
<1>2. IInv /\ [Next]_vars => IInv'
  BY StepKeeps
<1> QED
  BY <1>1, <1>2, PTL DEF Spec

\* No counter of sendData(), recvData() and sendFile() leaves the range of its
\* type; an int that wraps stays an int.
THEOREM TypeCorrect == Spec => []TypeOK
<1>1. IInv => TypeOK
  BY DEF IInv
<1> QED
  BY <1>1, Invariance, PTL

-----------------------------------------------------------------------------
(* What the client gets *)

\* The answer, byte by byte.
LEMMA AnswerFacts ==
  ASSUME IInv
  PROVE  /\ Answer \in Seq(Int)
         /\ Len(Answer) = CASE task = "none" -> 0 [] task = "error" -> 5 [] task = "head" -> 2
                            [] task = "get" -> 2 + size [] task = "proxy" -> length
         /\ \A i \in 1..Len(Answer) : Answer[i] = ByteOf(task, FALSE, Readable, i)
<1>0. /\ size \in Nat /\ length \in Nat /\ Readable \in Nat /\ Readable <= size
      /\ ssl \in BOOLEAN /\ task \in {"none", "error", "get", "head", "proxy"}
  BY Types DEF IInv, TypeOK, Tasks
<1>1. CASE task = "none"
  <2>1. Answer = <<>>
    BY <1>1 DEF Answer
  <2>2. <<>> \in Seq(Int) /\ Len(<<>>) = 0
    OBVIOUS
  <2> QED
    BY <1>1, <2>1, <2>2
<1>2. CASE task = "error"
  <2>1. Answer = <<-1, -2>> \o <<-3>> \o <<-4, -5>>
    BY <1>2 DEF Answer, ErrorPage
  <2>2. PICK p1 \in Seq(Int), p2 \in Seq(Int), p3 \in Seq(Int) :
              /\ p1 = <<-1, -2>> /\ p2 = <<-3>> /\ p3 = <<-4, -5>>
              /\ Len(p1) = 2 /\ Len(p2) = 1 /\ Len(p3) = 2
              /\ p1[1] = -1 /\ p1[2] = -2 /\ p2[1] = -3 /\ p3[1] = -4 /\ p3[2] = -5
    <3>1. <<-1, -2>> \in Seq(Int) /\ <<-3>> \in Seq(Int) /\ <<-4, -5>> \in Seq(Int)
      OBVIOUS
    <3>2. Len(<<-1, -2>>) = 2 /\ Len(<<-3>>) = 1 /\ Len(<<-4, -5>>) = 2
      OBVIOUS
    <3>3. /\ <<-1, -2>>[1] = -1 /\ <<-1, -2>>[2] = -2 /\ <<-3>>[1] = -3
          /\ <<-4, -5>>[1] = -4 /\ <<-4, -5>>[2] = -5
      OBVIOUS
    <3> QED
      BY <3>1, <3>2, <3>3
  <2> DEFINE q == p1 \o p2
  <2>3. /\ q \in Seq(Int) /\ Len(q) = 3 /\ q[1] = -1 /\ q[2] = -2 /\ q[3] = -3
    <3>1. /\ q \in Seq(Int) /\ Len(q) = Len(p1) + Len(p2)
          /\ \A i \in 1..Len(p1) : q[i] = p1[i]
          /\ \A i \in 1..Len(p2) : q[Len(p1) + i] = p2[i]
      BY ConcatFacts
    <3> HIDE DEF q
    <3>2. q[2 + 1] = p2[1]
      BY <2>2, <3>1
    <3> QED
      BY <2>2, <3>1, <3>2
  <2> HIDE DEF q
  <2> DEFINE r == q \o p3
  <2>4. /\ r \in Seq(Int) /\ Len(r) = 5
        /\ \A i \in 1..5 : r[i] = -i
    <3>1. /\ r \in Seq(Int) /\ Len(r) = Len(q) + Len(p3)
          /\ \A i \in 1..Len(q) : r[i] = q[i]
          /\ \A i \in 1..Len(p3) : r[Len(q) + i] = p3[i]
      BY <2>3, ConcatFacts
    <3> HIDE DEF r
    <3>2. r[3 + 1] = p3[1] /\ r[3 + 2] = p3[2]
      BY <2>2, <2>3, <3>1
    <3>3. r[1] = -1 /\ r[2] = -2 /\ r[3] = -3 /\ r[4] = -4 /\ r[5] = -5
      BY <2>2, <2>3, <3>1, <3>2
    <3>4. Len(r) = 5
      BY <2>2, <2>3, <3>1
    <3>5. \A i \in 1..5 : i = 1 \/ i = 2 \/ i = 3 \/ i = 4 \/ i = 5
      OBVIOUS
    <3>6. \A i \in 1..5 : r[i] = -i
      BY <3>3, <3>5
    <3> QED
      BY <3>1, <3>4, <3>6
  <2>5. Answer = r
    BY <2>1, <2>2 DEF q
  <2> HIDE DEF r
  <2>6. \A i \in 1..5 : ByteOf("error", FALSE, Readable, i) = -i
    BY DEF ByteOf
  <2> QED
    BY <1>2, <2>4, <2>6, <2>5
<1>3. /\ FileHeader \in Seq(Int) /\ Len(FileHeader) = 2
      /\ FileHeader[1] = -1 /\ FileHeader[2] = -2
  BY DEF FileHeader
<1>4. CASE task = "head"
  <2>1. Answer = FileHeader
    BY <1>4 DEF Answer
  <2>2. ASSUME NEW i \in 1..2
        PROVE  FileHeader[i] = ByteOf("head", FALSE, Readable, i)
    BY <1>3, <2>2 DEF ByteOf
  <2> QED
    BY <1>3, <1>4, <2>1, <2>2
<1>5. CASE task = "get"
  <2> DEFINE more == Bytes(1, size)
  <2>1. Answer = FileHeader \o more
    BY <1>5 DEF Answer
  <2>2. more \in Seq(Int) /\ Len(more) = size /\ \A i \in 1..size : more[i] = i
    <3>1. PICK from \in Int : from = 1
      OBVIOUS
    <3>2. /\ Bytes(from, size) \in Seq(Int)
          /\ Len(Bytes(from, size)) = IF size >= from THEN size - from + 1 ELSE 0
          /\ \A i \in 1..Len(Bytes(from, size)) : Bytes(from, size)[i] = from + i - 1
      BY <1>0, BytesFacts
    <3>3. more = Bytes(from, size)
      BY <3>1
    <3> HIDE DEF more
    <3> QED
      BY <1>0, <3>1, <3>2, <3>3
  <2> HIDE DEF more
  <2>3. /\ FileHeader \o more \in Seq(Int) /\ Len(FileHeader \o more) = 2 + size
        /\ \A i \in 1..2 : (FileHeader \o more)[i] = FileHeader[i]
        /\ \A i \in 1..size : (FileHeader \o more)[2 + i] = more[i]
    <3>1. PICK h \in Seq(Int), m \in Seq(Int) : h = FileHeader /\ m = more
      BY <1>3, <2>2
    <3>2. /\ h \o m \in Seq(Int) /\ Len(h \o m) = Len(h) + Len(m)
          /\ \A i \in 1..Len(h) : (h \o m)[i] = h[i]
          /\ \A i \in 1..Len(m) : (h \o m)[Len(h) + i] = m[i]
      BY ConcatFacts
    <3>3. Len(h) = 2 /\ Len(m) = size
      BY <1>3, <2>2, <3>1
    <3> QED
      BY <3>1, <3>2, <3>3
  <2>4. ASSUME NEW i \in 1..(2 + size)
        PROVE  (FileHeader \o more)[i] = ByteOf("get", FALSE, Readable, i)
    <3>1. CASE i \in 1..2
      BY <1>3, <2>3, <3>1 DEF ByteOf
    <3>2. CASE i \notin 1..2
      <4>1. i - 2 \in 1..size /\ i = 2 + (i - 2) /\ i > 2
        BY <1>0, <3>2
      <4>2. (FileHeader \o more)[i] = more[i - 2]
        BY <2>3, <4>1
      <4> QED
        BY <2>2, <4>1, <4>2 DEF ByteOf
    <3> QED
      BY <3>1, <3>2
  <2> QED
    BY <1>5, <2>1, <2>3, <2>4
<1>6. CASE task = "proxy"
  <2>1. PICK from \in Int : from = 1
    OBVIOUS
  <2>2. /\ Bytes(from, length) \in Seq(Int)
        /\ Len(Bytes(from, length)) = IF length >= from THEN length - from + 1 ELSE 0
        /\ \A i \in 1..Len(Bytes(from, length)) : Bytes(from, length)[i] = from + i - 1
    BY <1>0, BytesFacts
  <2>3. Answer = Bytes(from, length)
    BY <1>6, <2>1 DEF Answer
  <2>4. Len(Answer) = length
    BY <1>0, <2>1, <2>2, <2>3
  <2>5. \A i \in 1..length : Answer[i] = i
    BY <1>0, <2>1, <2>2, <2>3, <2>4
  <2> QED
    BY <1>6, <2>2, <2>3, <2>4, <2>5 DEF ByteOf
<1> QED
  BY <1>0, <1>1, <1>2, <1>4, <1>5, <1>6

\* However the calls are split up, and wherever a peer or the process gives up,
\* the client has got the beginning of the answer: no byte is lost, repeated or
\* taken from elsewhere by the loops of sendData(), recvData() and sendFile(),
\* but for the bytes that one read() has not got of a file that goes out
\* through TLS.
THEOREM BytesInOrder == Spec => []InOrder
<1>1. ASSUME IInv
      PROVE  InOrder
  <2> SUFFICES ASSUME slips = 0, dropped = 0
               PROVE  \A i \in DOMAIN out :
                        i \in DOMAIN Answer /\ (out[i] = Answer[i] \/ Unread(i))
    BY DEF InOrder
  <2>1. /\ out \in Seq(Int) /\ Len(out) \in Nat /\ taken \in Nat /\ length \in Nat /\ size \in Nat
        /\ Readable \in Nat /\ Readable <= size /\ taken <= length
        /\ task \in {"none", "error", "get", "head", "proxy"}
    <3>1. taken \in 0..arrived /\ arrived \in Nat /\ arrived <= length
      BY <1>1, Types DEF IInv, TypeOK, Staged
    <3>2. task \in {"none", "error", "get", "head", "proxy"}
      BY <1>1 DEF IInv, TypeOK, Tasks
    <3> QED
      BY <1>1, <3>1, <3>2, Types
  <2>2. Len(out) <= Due /\ \A i \in 1..Len(out) : out[i] = ByteOf(task, ssl, Readable, i)
    BY <1>1 DEF IInv, Ordered
  <2>3. PICK k \in Nat : k = Len(Answer)
    BY <1>1, AnswerFacts
  <2>4. /\ task = "none" => k = 0
        /\ task = "error" => k = 5
        /\ task = "head" => k = 2
        /\ task = "get" => k = 2 + size
        /\ task = "proxy" => k = length
    BY <1>1, <2>3, AnswerFacts
  <2>5. Due <= k
    BY <2>1, <2>4 DEF Due
  <2>6. Len(out) <= k
    BY <1>1, <2>1, <2>2, <2>5, Types
  <2>7. DOMAIN out = 1..Len(out) /\ DOMAIN Answer = 1..k
    BY <1>1, <2>1, <2>3, AnswerFacts
  <2>8. ASSUME NEW i \in 1..Len(out)
        PROVE  i \in 1..k /\ (out[i] = Answer[i] \/ Unread(i))
    <3>1. i \in 1..k
      BY <2>1, <2>3, <2>6
    <3>2. Answer[i] = ByteOf(task, FALSE, Readable, i)
      BY <1>1, <2>3, <3>1, AnswerFacts
    <3>3. out[i] = ByteOf(task, ssl, Readable, i)
      BY <2>2
    <3>4. CASE task = "get" /\ i > 2 /\ ssl /\ i - 2 > Readable
      <4>1. Len(FileHeader) = 2
        BY DEF FileHeader
      <4>2. i > 2 + Readable
        BY <2>1, <3>1, <3>4
      <4> QED
        BY <3>1, <3>4, <4>1, <4>2 DEF Unread
    <3>5. CASE ~(task = "get" /\ i > 2 /\ ssl /\ i - 2 > Readable)
      <4>1. ByteOf(task, ssl, Readable, i) = ByteOf(task, FALSE, Readable, i)
        BY <3>5 DEF ByteOf
      <4> QED
        BY <3>1, <3>2, <3>3, <4>1
    <3> QED
      BY <3>4, <3>5
  <2> QED
    BY <2>7, <2>8
<1> QED
  BY <1>1, Invariance, PTL

\* As long as interruptions do not make nleft wrap, a request that ends on an
\* open connection has sent every byte it had, one more for each interrupted
\* send() and one less for each interrupted recv(), and the Content-Length of a
\* file is what follows its header, if the file keeps its size and one transfer
\* moves it.
THEOREM Delivered ==
  ASSUME Unwrapped
  PROVE  Spec => []AllDelivered
<1>1. ASSUME IInv
      PROVE  AllDelivered
  <2> SUFFICES ASSUME stage = "done", client = "open"
               PROVE  /\ Len(out) = slips + CASE task = "proxy" -> taken - dropped
                                              [] task = "get" /\ ~ssl -> Len(FileHeader) + Readable
                                              [] OTHER -> Len(Answer)
                      /\ task = "get" /\ slips = 0 /\ size = length /\ size <= MaxTransfer
                         => announced = Len(out) - Len(FileHeader)
    BY DEF AllDelivered
  <2>1. /\ Len(out) \in Nat /\ slips \in Nat /\ length \in Nat /\ size \in Nat
        /\ Readable \in Nat /\ ssl \in BOOLEAN
        /\ task \in {"error", "get", "head", "proxy"}
    <3>1. task \in {"none", "error", "get", "head", "proxy"} /\ ssl \in BOOLEAN
      BY <1>1 DEF IInv, TypeOK, Tasks
    <3>2. task # "none"
      BY <1>1 DEF IInv, Staged
    <3> QED
      BY <1>1, <3>1, <3>2, Types
  <2>2. Len(out) = slips + Due
    BY <1>1 DEF IInv, Counted
  <2>3. Len(FileHeader) = 2
    BY DEF FileHeader
  <2>4. Due = CASE task = "proxy" -> taken - dropped
                [] task = "get" /\ ~ssl -> Len(FileHeader) + Readable
                [] OTHER -> Len(Answer)
    <3>1. CASE task = "proxy"
      BY <3>1 DEF Due
    <3>2. CASE task = "get" /\ ~ssl
      BY <2>3, <3>2 DEF Due
    <3>3. CASE task = "get" /\ ssl
      <4>1. Len(Answer) = 2 + size
        BY <1>1, <3>3, AnswerFacts
      <4> QED
        BY <3>3, <4>1 DEF Due
    <3>4. CASE task = "error"
      <4>1. Len(Answer) = 5
        BY <1>1, <3>4, AnswerFacts
      <4> QED
        BY <3>4, <4>1 DEF Due
    <3>5. CASE task = "head"
      <4>1. Len(Answer) = 2
        BY <1>1, <3>5, AnswerFacts
      <4> QED
        BY <3>5, <4>1 DEF Due
    <3> QED
      BY <2>1, <3>1, <3>2, <3>3, <3>4, <3>5
  <2>5. ASSUME task = "get", slips = 0, size = length, size <= MaxTransfer
        PROVE  announced = Len(out) - Len(FileHeader)
    <3>1. Readable = size
      BY <2>1, <2>5, SizesAreNat DEF Readable, Least
    <3>2. Due = 2 + size
      BY <2>5, <3>1 DEF Due
    <3>3. size \in Ints
      BY <2>1, <2>5, SizesAreNat DEF Ints
    <3>4. announced = size
      BY <1>1, <2>5, <3>3, AsIntFacts DEF IInv, Staged
    <3> QED
      BY <2>1, <2>2, <2>3, <2>5, <3>2, <3>4
  <2> QED
    BY <2>2, <2>4, <2>5
<1> QED
  BY <1>1, Invariance, PTL

\* A response that has arrived before the first recv() is passed on to its last
\* byte, also if its length is a multiple of BUFF_SIZE.
THEOREM WholeResponse == Spec => []WholeIfArrived
<1>1. ASSUME IInv
      PROVE  WholeIfArrived
  <2> SUFFICES ASSUME task = "proxy", stage = "done", client = "open", whole, slips = 0,
                      dropped = 0
               PROVE  out = Bytes(1, length)
    BY DEF WholeIfArrived
  <2>1. /\ out \in Seq(Int) /\ Len(out) \in Nat /\ length \in Nat /\ taken = length
    BY <1>1, Types DEF IInv, Arrived
  <2>2. Len(out) = length
    <3>1. Due = taken - dropped
      BY DEF Due
    <3>2. Len(out) = slips + Due
      BY <1>1 DEF IInv, Counted
    <3> QED
      BY <2>1, <3>1, <3>2
  <2>3. \A i \in 1..length : out[i] = i
    BY <1>1, <2>2 DEF IInv, Ordered, ByteOf
  <2>4. PICK from \in Int : from = 1
    OBVIOUS
  <2>5. /\ Bytes(from, length) \in Seq(Int)
        /\ Len(Bytes(from, length)) = length
        /\ \A i \in 1..length : Bytes(from, length)[i] = i
    <3>0. length \in Int
      BY <2>1
    <3>1. /\ Bytes(from, length) \in Seq(Int)
          /\ Len(Bytes(from, length)) = IF length >= from THEN length - from + 1 ELSE 0
          /\ \A i \in 1..Len(Bytes(from, length)) : Bytes(from, length)[i] = from + i - 1
      BY <3>0, BytesFacts
    <3>2. Len(Bytes(from, length)) = length
      BY <2>1, <2>4, <3>1
    <3> QED
      BY <2>1, <2>4, <3>1, <3>2
  <2>6. out = Bytes(from, length)
    BY <2>1, <2>2, <2>3, <2>5
  <2> QED
    BY <2>4, <2>6
<1> QED
  BY <1>1, Invariance, PTL

\* Moving the bytes of a request costs the process when its client is gone, when
\* its upstream hangs up while it is passed the request and nothing of the
\* response has been received, or when the first segment of the response ends
\* before its status code, and in no other case, however often the calls are
\* interrupted.
THEOREM DeathsAreExplained == Spec => []DeathsExplained
<1>1. IInv => DeathsExplained
  BY DEF IInv
<1> QED
  BY <1>1, Invariance, PTL
=============================================================================
