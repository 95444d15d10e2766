-------------------------------- MODULE Wire --------------------------------
(***************************************************************************)
(* How requests get across the socket of a window: the client's request    *)
(* buffer (kwgscli_req.c), its writing (kwgscli_io.c), the server's        *)
(* reading (kwgssrv_io.c) and the framing of handle_client_window_req      *)
(* (kwgssrv_wnd.c).                                                        *)
(*                                                                         *)
(* The socket carries bytes; write and read move as many as they like.  A  *)
(* byte is known here by its request and its place in it, <<n, i>>, and    *)
(* the header, of HeaderSize bytes, tells how many there are.  Request 0   *)
(* is the one for the new window: main has read its header only, and       *)
(* accept_window has answered it, so that its rest is still in the socket  *)
(* when the window's thread starts.  What that rest says when it is read   *)
(* as headers is an input: coordinates and sizes of up to 16 bits have a   *)
(* length of 0 then, negative ones a length that is too large.             *)
(***************************************************************************)
EXTENDS Integers, Sequences

CONSTANTS
  HeaderSize,       \* sizeof(KWReqHeader_t)
  NewWndWords,      \* what follows it in a KWNewWndReq_t, in headers
  Sizes,            \* sizes of the requests the client makes
  MaxRequestSize,   \* MAX_REQUEST_SIZE
  ReqbufInitSize,   \* REQBUF_INIT_SIZE
  SocketSize,       \* bytes the socket holds
  MaxRequests       \* bound: requests the client makes

ASSUME WireAssumption ==
  /\ HeaderSize \in Nat \ {0} /\ NewWndWords \in Nat
  /\ MaxRequestSize \in Nat /\ Sizes \subseteq HeaderSize..MaxRequestSize
  /\ ReqbufInitSize \in Nat \ {0}
  /\ SocketSize \in Nat \ {0} /\ NewWndWords * HeaderSize <= SocketSize
  /\ MaxRequests \in Nat

VARIABLES
  client,    \* "app", or in flush_reqbuf, with the size of the request it makes room for
  buf,       \* reqbuf: what is in the buffer, and ...
  bufmax,    \* ... how many bytes it may hold
  out,       \* what write_data_to_srv has still to write
  socket,
  thread,    \* the window's thread: "select", "header", "body"
  got, len,  \* buf and len of handle_client_window_req
  sizes,     \* history: sizes of the requests the client has made
  handled,   \* history: number of the request handled last
  broken,    \* history: a write has failed
  closed     \* the client has closed the socket

clientVars == <<client, buf, bufmax, out, sizes>>
threadVars == <<thread, got, len, handled>>
wireVars == <<clientVars, socket, threadVars, broken, closed>>

NewWndSize == (NewWndWords + 1) * HeaderSize

SizeOf(n) == IF n = 0 THEN NewWndSize ELSE sizes[n]

\* The bytes of request n.
Bytes(n, size) == [i \in 1..size |-> <<n, i>>]

Idle == [at |-> "app", size |-> 0]

WireInit ==
  /\ client = Idle
  /\ buf = <<>> /\ bufmax = ReqbufInitSize
  /\ out = <<>>
  /\ socket = SubSeq(Bytes(0, NewWndSize), HeaderSize + 1, NewWndSize)
  /\ thread = "select" /\ got = <<>> /\ len = 0
  /\ sizes = <<>> /\ handled = 0
  /\ broken = FALSE /\ closed = FALSE

-----------------------------------------------------------------------------
(* The client                                                              *)

\* What alloc_req puts into the buffer, after what there is.
Put(before, size) ==
  /\ sizes' = Append(sizes, size)
  /\ buf' = before \o Bytes(Len(sizes'), size)

\* alloc_req finds room.
AllocReq(size) ==
  /\ client = Idle /\ ~ closed /\ Len(sizes) < MaxRequests
  /\ Len(buf) + size < bufmax
  /\ Put(buf, size)
  /\ UNCHANGED <<client, bufmax, out, socket, threadVars, broken, closed>>

\* flush_reqbuf is called, by alloc_req for the room of size bytes, or for 0.
FlushFor(size) ==
  /\ client = Idle /\ ~ closed
  /\ client' = [at |-> "flush", size |-> size]
  /\ out' = buf
  /\ UNCHANGED <<buf, bufmax, sizes, socket, threadVars, broken, closed>>

FlushForRequest(size) ==
  /\ Len(sizes) < MaxRequests
  /\ Len(buf) + size >= bufmax
  /\ FlushFor(size)

\* KGetNextEvent, and what waits for an answer.
Flush == buf # <<>> /\ FlushFor(0)

\* Slip: after a write that was not complete the buffer is written again from
\* its start.
WriteFromStart ==
  /\ client.at = "flush" /\ out # <<>>
  /\ \E k \in 1..Len(out) :
       /\ Len(socket) + k <= SocketSize
       /\ socket' = socket \o SubSeq(out, 1, k)
       /\ out' = SubSeq(out, 1, Len(out) - k)
  /\ UNCHANGED <<client, buf, bufmax, sizes, threadVars, broken, closed>>

\* write_data_to_srv: one write() after the other.
Write ==
  /\ client.at = "flush" /\ out # <<>>
  /\ \E k \in 1..Len(out) :
       /\ Len(socket) + k <= SocketSize
       /\ socket' = socket \o SubSeq(out, 1, k)
       /\ out' = SubSeq(out, k + 1, Len(out))
  /\ UNCHANGED <<client, buf, bufmax, sizes, threadVars, broken, closed>>

\* It fails, and flush_reqbuf does not ask: the rest is gone.
WriteFails ==
  /\ client.at = "flush" /\ out # <<>>
  /\ out' = <<>>
  /\ broken' = TRUE
  /\ UNCHANGED <<client, buf, bufmax, sizes, socket, threadVars, closed>>

\* The buffer is empty; one that is too small is made as large as the request.
FlushDone ==
  /\ client.at = "flush" /\ out = <<>>
  /\ bufmax' = IF client.size >= bufmax THEN client.size ELSE bufmax
  /\ IF client.size = 0
     THEN buf' = <<>> /\ UNCHANGED sizes
     ELSE Put(<<>>, client.size)
  /\ client' = Idle
  /\ UNCHANGED <<out, socket, threadVars, broken, closed>>

\* The client ends, with what it has not written.
Close ==
  /\ ~ closed
  /\ closed' = TRUE
  /\ client' = Idle /\ buf' = <<>> /\ out' = <<>>
  /\ UNCHANGED <<bufmax, sizes, socket, threadVars, broken>>

-----------------------------------------------------------------------------
(* The window's thread                                                     *)

\* Slip: the thread ends with the client, whatever is still to be read.
SelectWhileOpen ==
  /\ thread = "select" /\ socket # <<>> /\ ~ closed
  /\ thread' = "header"
  /\ UNCHANGED <<clientVars, socket, got, len, handled, broken, closed>>

Select ==
  /\ thread = "select" /\ (socket # <<>> \/ closed)
  /\ thread' = "header"
  /\ UNCHANGED <<clientVars, socket, got, len, handled, broken, closed>>

\* read_data_from_cli: one read() of up to wanted bytes.
Read(wanted) ==
  \E k \in 1..wanted :
    /\ k <= Len(socket)
    /\ got' = got \o SubSeq(socket, 1, k)
    /\ socket' = SubSeq(socket, k + 1, Len(socket))

ReadHeader ==
  /\ thread = "header" /\ Len(got) < HeaderSize
  /\ Read(HeaderSize - Len(got))
  /\ UNCHANGED <<clientVars, thread, len, handled, broken, closed>>

\* The length in a header.  Bytes of request 0, and bytes that are no header,
\* say what they happen to say.
Lengths ==
  LET n == got[1][1] IN
  IF got[1][2] # 1 \/ got # SubSeq(Bytes(n, SizeOf(n)), 1, HeaderSize)
  THEN IF n = 0 THEN {0, MaxRequestSize + 1} ELSE 0..(MaxRequestSize + 1)
  ELSE {SizeOf(n)}

IsTooLarge(l) == l > MaxRequestSize

\* The thread forgets what it has read, and calls select.
BackToSelect == thread' = "select" /\ got' = <<>> /\ len' = 0

\* A request too large, one that is its header, and one with a body.
HeaderRead ==
  /\ thread = "header" /\ Len(got) = HeaderSize
  /\ \E l \in Lengths :
       \/ IsTooLarge(l) /\ BackToSelect /\ UNCHANGED handled
       \/ l <= HeaderSize /\ BackToSelect /\ handled' = got[1][1]
       \/ /\ ~ IsTooLarge(l) /\ l > HeaderSize
          /\ thread' = "body" /\ len' = l
          /\ UNCHANGED <<got, handled>>
  /\ UNCHANGED <<clientVars, socket, broken, closed>>

ReadBody ==
  /\ thread = "body" /\ Len(got) < len
  /\ Read(len - Len(got))
  /\ UNCHANGED <<clientVars, thread, len, handled, broken, closed>>

\* The handler of the request is called.
Handle ==
  /\ thread = "body" /\ Len(got) = len
  /\ BackToSelect /\ handled' = got[1][1]
  /\ UNCHANGED <<clientVars, socket, broken, closed>>

\* read() finds that the client has closed the socket: back to select, which
\* returns at once.
EndOfFile ==
  /\ closed /\ socket = <<>>
  /\ \/ thread = "header" /\ Len(got) < HeaderSize
     \/ thread = "body" /\ Len(got) < len
  /\ BackToSelect
  /\ UNCHANGED <<clientVars, socket, handled, broken, closed>>

-----------------------------------------------------------------------------
Client ==
  \/ \E size \in Sizes : AllocReq(size) \/ FlushForRequest(size)
  \/ Flush \/ Write \/ WriteFails \/ FlushDone \/ Close

Thread == Select \/ ReadHeader \/ HeaderRead \/ ReadBody \/ Handle \/ EndOfFile

WireNext == Client \/ Thread

WireSpec == WireInit /\ [][WireNext]_wireVars

\* The window's thread runs, and a client that writes goes on writing.
WireFairSpec == WireSpec /\ WF_wireVars(Thread) /\ WF_wireVars(Write)

-----------------------------------------------------------------------------
(* Properties.                                                             *)

Byte == (0..MaxRequests) \X (1..(MaxRequestSize + NewWndSize))

\* Type invariant
WireTypeOK ==
  /\ client \in [at : {"app", "flush"}, size : Sizes \cup {0}]
  /\ buf \in Seq(Byte) /\ Len(buf) <= bufmax
  /\ bufmax \in {ReqbufInitSize} \cup Sizes
  /\ out \in Seq(Byte)
  /\ socket \in Seq(Byte) /\ Len(socket) <= SocketSize
  /\ thread \in {"select", "header", "body"}
  /\ got \in Seq(Byte) /\ len \in {0} \cup (HeaderSize + 1)..MaxRequestSize
  /\ thread = "select" => got = <<>>
  /\ thread = "body" <=> len # 0
  /\ Len(got) <= IF thread = "body" THEN len ELSE HeaderSize
  /\ sizes \in Seq(Sizes) /\ Len(sizes) <= MaxRequests
  /\ handled \in 0..MaxRequests
  /\ broken \in BOOLEAN /\ closed \in BOOLEAN

\* What the client has asked for and the server has not handled, as it lies
\* between them.
Underway == got \o socket \o (IF client.at = "flush" THEN out ELSE buf)

\* The byte that comes after byte b.
NextByte(b) == IF b[2] < SizeOf(b[1]) THEN <<b[1], b[2] + 1>> ELSE <<b[1] + 1, 1>>

\* Byte b begins the requests that are not handled.
IsNext(b) == b = <<handled + 1, 1>> \/ (handled = 0 /\ b[1] = 0 /\ b[2] % HeaderSize = 1 % HeaderSize)

\* Client and server keep in step: no byte of a request is lost, doubled or
\* taken for another's, whatever the pieces in which they are written and read,
\* and the rest of the first request is left behind.  Only a write that fails
\* ends this; a client that ends takes with it what it has not written.  (WireTypeOK:
\* nor does anything reach over the end of a buffer.)
StreamIsWhole ==
  /\ WireTypeOK
  /\ ~ broken =>
       /\ Underway # <<>> => IsNext(Underway[1])
       /\ \A i \in 1..(Len(Underway) - 1) : Underway[i + 1] = NextByte(Underway[i])
       /\ ~ closed =>
            IF Underway = <<>> THEN handled = Len(sizes)
            ELSE NextByte(Underway[Len(Underway)]) = <<Len(sizes) + 1, 1>>

\* The requests of which the last byte has been written.
Written == {n \in 1..MaxRequests : n <= Len(sizes) /\ \E i \in DOMAIN socket : socket[i] = <<n, SizeOf(n)>>}

\* What is written is handled in the end, also when the client has ended.
WrittenIsHandled ==
  \A n \in 1..MaxRequests : n \in Written ~> handled >= n \/ broken

=============================================================================
