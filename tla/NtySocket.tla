----------------------------- MODULE NtySocket -----------------------------
(***************************************************************************)
(* The socket calls of nty_socket.c on top of the scheduler: the hooks of  *)
(* read, recv, recvfrom, write, send, sendto, accept and connect, and the  *)
(* nty_ functions, which (the hooks being in the same program) call them.  *)
(* The hooks wait in nty_poll_inner and then make the system call.         *)
(*                                                                         *)
(* read is recv here, and write is send: their hooks are the same code.    *)
(* Data are counted, in units of which a socket buffer holds Cap.          *)
(***************************************************************************)
EXTENDS NtyScheduler, SequencesExt

CONSTANTS
  Listeners, Streams, Dgrams,  \* the descriptors by kind: a partition of Fd
  FromMain,     \* the listeners main opens before the scheduler exists
  Calls,        \* the calls the bodies make, as <<hook, via nty_?>>
  Lengths,      \* the lengths they send
  Cap,          \* the capacity of a socket buffer or a backlog
  Errnos,       \* the errors the network leaves on a socket
  OtherProcess  \* does another process accept from the same listeners?

DataHooks == {"recv", "recvfrom", "send", "sendto"}
Hooks == DataHooks \cup {"accept", "connect"}

ASSUME SocketAssumption ==
  /\ Fd = Listeners \cup Streams \cup Dgrams
  /\ Listeners \cap Streams = {} /\ Listeners \cap Dgrams = {} /\ Streams \cap Dgrams = {}
  /\ FromMain \subseteq Listeners
  /\ Calls \subseteq Hooks \X BOOLEAN
  /\ Lengths \subseteq Nat \ {0} /\ Cap \in Nat \ {0}
  /\ Errnos \cap {"none", "EAGAIN", "EINPROGRESS", "EALREADY", "EPIPE"} = {}
  /\ OtherProcess \in BOOLEAN
  /\ {"poll", "socket"} \subseteq Api

VARIABLES
  call,      \* the call each coroutine is in
  nonblock,  \* kernel: the descriptors with O_NONBLOCK
  inq,       \* kernel: data, datagrams or connections to take
  room,      \* kernel: free space of the send buffer
  err,       \* kernel: the error to report
  link       \* kernel: the state of a stream: "fresh", "connecting", "up"

netVars == <<nonblock, inq, room, err, link>>
sockVars == <<call, nonblock, inq, room, err, link>>
allVars == <<vars, sockVars>>

\* frames: the activations, innermost last; took: what the kernel took; early:
\* a timer of the coroutine expired while it waited
NoCall == [hook |-> "none", f |-> NIL, len |-> 0, took |-> 0, early |-> FALSE,
           frames |-> << >>, ret |-> 0, errno |-> "none"]

\* An activation of a hook, or of the nty_ function of that name: at "try"
\* before the first send, at "poll" before nty_poll_inner, at "sys" after it
Entry(hook) == IF hook = "send" THEN "try" ELSE "poll"
Frame(hook, nty) == [nty |-> nty, at |-> Entry(hook), sent |-> 0]

InitSocket ==
  /\ Init
  /\ call = [c \in Co |-> NoCall]
  /\ nonblock = {}
  /\ inq = [f \in Fd |-> 0] /\ room = [f \in Fd |-> Cap]
  /\ err = [f \in Fd |-> "none"]
  /\ link = [f \in Fd |-> "up"]

-----------------------------------------------------------------------------
(* The calls.                                                              *)

Top(c) == Last(call[c].frames)
InCall(c, at) == call[c].frames # << >> /\ Top(c).at = at
FreeToAct(c) == Running(c) /\ call[c] = NoCall

EventOfIn(hook) == "POLLIN" \* mutant: POLLOUT is never asked for
EventOf(hook) == IF hook \in {"send", "sendto", "connect"} THEN "POLLOUT" ELSE "POLLIN"

KindFor(hook) ==
  CASE hook = "accept" -> Listeners
    [] hook \in {"recvfrom", "sendto"} -> Dgrams \cup Streams
    [] OTHER -> Streams

\* A body makes a call on an open descriptor that no other coroutine waits on,
\* and connects a fresh stream before it uses it
Begin(c, hook, nty, f, len) ==
  /\ FreeToAct(c) /\ <<hook, nty>> \in Calls
  /\ f \in open \cap KindFor(hook) /\ MayUse(c, f)
  /\ hook \in DataHooks => link[f] = "up"
  /\ hook = "connect" => link[f] = "fresh"
  /\ call' = [call EXCEPT ![c] = [NoCall EXCEPT !.hook = hook, !.f = f,
                                    !.len = len, !.frames = <<Frame(hook, nty)>>]]
  /\ UNCHANGED <<vars, netVars>>

\* nty_poll_inner, of the hook or of the nty_ function
CallPoll(c) ==
  /\ InCall(c, "poll")
  /\ Poll(c, call[c].f, EventOf(call[c].hook))
  /\ UNCHANGED sockVars

SetTop(c, at) == [call EXCEPT ![c].frames = ReplaceAt(@, Len(@), [Last(@) EXCEPT !.at = at])]

CallPolled(c) ==
  /\ InCall(c, "poll") /\ PollEnd(c)
  /\ call' = [SetTop(c, "sys") EXCEPT ![c].early = @ \/ phase = "expired"]
  /\ UNCHANGED netVars

\* The nty_ functions call socket functions of libc, which are the hooks
EnterHook(c) ==
  /\ Running(c) /\ call[c].frames # << >> /\ Top(c).at \in {"try", "sys"} /\ Top(c).nty
  /\ call' = [call EXCEPT ![c].frames = Append(@, Frame(call[c].hook, FALSE))]
  /\ UNCHANGED <<vars, netVars>>

\* What an activation does with the result r, errno e of the function it
\* called: go on at "poll" having sent so much, return ret, or abort
Again(sent) == [at |-> "poll", sent |-> sent, ret |-> 0]
Ret(r) == [at |-> "ret", sent |-> 0, ret |-> r]
Abort == [at |-> "abort", sent |-> 0, ret |-> 0]

\* The loop condition sent < len
Advance(sent, len) == IF sent < len THEN Again(sent) ELSE Ret(sent)

\* "if (ret <= 0 && sent == 0) return ret; return sent"
SendBreakLoses(sent, r) == Ret(r) \* mutant: what was sent before is not reported
SendBreak(sent, r) == Ret(IF sent = 0 THEN r ELSE sent)

\* "if (errno == EAGAIN) continue; ... return -1"
AcceptFailsAlways(e) == Ret(-1) \* mutant: EAGAIN is not retried
AcceptFailsNever(e) == Again(0) \* mutant: every error is retried
AcceptFails(e) == IF e = "EAGAIN" THEN Again(0) ELSE Ret(-1)

AfterSend(k, len, r) ==
  IF k.at = "try"
    THEN IF r = 0 THEN Ret(0) ELSE Advance(IF r > 0 THEN r ELSE 0, len)
    ELSE IF r <= 0 THEN SendBreak(k.sent, r) ELSE Advance(k.sent + r, len)

AfterDatagramStrict(r, e) == \* mutant: EAGAIN is not expected
  IF r >= 0 THEN Ret(r) ELSE IF e = "ECONNRESET" THEN Ret(0) ELSE Abort
AfterDatagram(r, e) ==
  CASE r >= 0 \/ e = "EAGAIN" -> Ret(r)
    [] r < 0 /\ e = "ECONNRESET" -> Ret(0)
    [] OTHER -> Abort

AfterNtySendto(k, len, r, e) ==
  CASE r > 0 -> Advance(k.sent + r, len)
    [] r <= 0 /\ e = "EAGAIN" -> Again(k.sent)
    [] r <= 0 /\ e = "ECONNRESET" -> Ret(r)
    [] OTHER -> Abort

\* The hook of sendto does what that of recvfrom does, and 0 stands for a reset
AfterSendto(r, e) == AfterDatagram(r, e)

\* connect is called again until it succeeds
AfterConnect(r, e) ==
  IF r < 0 /\ e \in {"EAGAIN", "EINPROGRESS"} THEN Again(0) ELSE Ret(r)

\* A reset is -1 like any other error
AfterRecv(r) == Ret(r)

After(hook, k, len, r, e) ==
  CASE hook = "recv" -> AfterRecv(r)
    [] hook = "send" -> AfterSend(k, len, r)
    [] hook = "accept" -> IF r < 0 THEN AcceptFails(e) ELSE Ret(r)
    [] hook = "connect" -> AfterConnect(r, e)
    [] hook = "sendto" /\ k.nty -> AfterNtySendto(k, len, r, e)
    [] hook = "sendto" /\ ~k.nty -> AfterSendto(r, e)
    [] hook = "recvfrom" -> AfterDatagram(r, e)

\* How much the activation i of a call was asked to send: the nty_ function the
\* whole, the hook it calls what is left
LengthOf(k, i) == k.len - (IF i = 1 THEN 0 ELSE k.frames[1].sent)

\* The result r, e of a system call goes to the hook, and what the hook
\* returns to the nty_ function that called it, if any
Deliver(c, r, e) ==
  LET k     == call[c]
      n     == Len(k.frames)
      a     == After(k.hook, k.frames[n], LengthOf(k, n), r, e)
      b     == IF n = 2 /\ a.at = "ret" THEN After(k.hook, k.frames[1], k.len, a.ret, e) ELSE a
      depth == IF n = 2 /\ a.at = "ret" THEN 1 ELSE n
      here  == [k.frames[depth] EXCEPT !.at = b.at, !.sent = b.sent]
  IN  /\ fault' = IF b.at = "abort" THEN "errno" ELSE "none"
      /\ call' = [call EXCEPT ![c].frames = IF b.at = "ret" THEN << >>
                                            ELSE Append(SubSeq(k.frames, 1, depth - 1), here),
                              ![c].ret = b.ret, ![c].errno = IF b.at = "poll" THEN "none" ELSE e,
                              ![c].took = @ + (IF r > 0 /\ k.hook \in {"send", "sendto"} THEN r ELSE 0)]

\* The call has returned to the body
Returned(c) ==
  /\ Running(c) /\ call[c] # NoCall /\ call[c].frames = << >>
  /\ call' = [call EXCEPT ![c] = NoCall]
  /\ UNCHANGED <<vars, netVars>>

-----------------------------------------------------------------------------
(* The system calls (kernel) of the innermost hook, of c on f.             *)

AtSys(c, hook, f) ==
  /\ Running(c) /\ call[c].hook = hook /\ call[c].f = f
  /\ InCall(c, "try") \/ InCall(c, "sys")
  /\ ~Top(c).nty

\* What is left to send, for the innermost activation
Left(c) == LengthOf(call[c], Len(call[c].frames)) - Top(c).sent

SchedulerUnchanged ==
  UNCHANGED <<now, coVars, ready, timerVars, waitVars, loopVars, epollVars, epollset, rdy>>

Fails(c, e) == Deliver(c, -1, e) /\ UNCHANGED <<netVars, open>>

\* The error is reported once.  A datagram socket then goes on; a stream is at
\* its end: EPIPE (with SIGPIPE ignored) for send and sendto, 0 for recv and
\* recvfrom.
SysFails(c, f) ==
  /\ \E hook \in Hooks \ {"accept"} : AtSys(c, hook, f)
  /\ err[f] # "none" /\ ~(err[f] = "EPIPE" /\ call[c].hook \in {"recv", "recvfrom"})
  /\ Deliver(c, -1, err[f])
  /\ err' = [err EXCEPT ![f] = IF f \in Dgrams THEN "none" ELSE "EPIPE"]
  /\ UNCHANGED <<nonblock, inq, room, link, open>>
  /\ SchedulerUnchanged

SysSend(c, f) ==
  /\ \E hook \in {"send", "sendto"} : AtSys(c, hook, f)
  /\ err[f] = "none"
  /\ \/ /\ room[f] = 0 /\ Fails(c, "EAGAIN")
     \/ \E n \in 1..Left(c) :
          /\ IF f \in Dgrams THEN n = Left(c) /\ room[f] > 0 ELSE n <= room[f]
          /\ Deliver(c, n, "none")
          /\ room' = [room EXCEPT ![f] = @ - (IF f \in Dgrams THEN 1 ELSE n)]
          /\ UNCHANGED <<nonblock, inq, err, link, open>>
  /\ SchedulerUnchanged

SysRecv(c, f) ==
  /\ \E hook \in {"recv", "recvfrom"} : AtSys(c, hook, f)
  /\ err[f] \in {"none", "EPIPE"}
  /\ \/ err[f] = "EPIPE" /\ Deliver(c, 0, "none") /\ UNCHANGED <<netVars, open>>
     \/ err[f] = "none" /\ inq[f] = 0 /\ Fails(c, "EAGAIN")
     \/ /\ err[f] = "none" /\ inq[f] > 0 /\ Deliver(c, 1, "none")
        /\ inq' = [inq EXCEPT ![f] = @ - 1]
        /\ UNCHANGED <<nonblock, room, err, link, open>>
  /\ SchedulerUnchanged

\* accept, and the fcntl that follows it, on a new descriptor g
AcceptedAsIs(g) == nonblock' = nonblock \ {g} \* mutant: the fcntl is missing
Accepted(g) == nonblock' = nonblock \cup {g}

SysAccept(c, f) ==
  /\ AtSys(c, "accept", f)
  /\ \/ inq[f] = 0 /\ f \in nonblock /\ Fails(c, "EAGAIN")
     \/ inq[f] > 0 /\ Streams \subseteq open /\ Fails(c, "EMFILE")
     \/ /\ inq[f] > 0 /\ Deliver(c, -1, "ECONNABORTED")
        /\ inq' = [inq EXCEPT ![f] = @ - 1]
        /\ UNCHANGED <<nonblock, room, err, link, open>>
     \/ \E g \in Streams \ open :
          /\ inq[f] > 0 /\ Deliver(c, 1, "none")
          /\ open' = open \cup {g} /\ Accepted(g)
          /\ inq' = [inq EXCEPT ![f] = @ - 1, ![g] = 0]
          /\ room' = [room EXCEPT ![g] = Cap]
          /\ err' = [err EXCEPT ![g] = "none"]
          /\ link' = [link EXCEPT ![g] = "up"]
  /\ SchedulerUnchanged

SysConnect(c, f) ==
  /\ AtSys(c, "connect", f) /\ err[f] = "none"
  /\ \/ /\ link[f] = "fresh" /\ Deliver(c, -1, "EINPROGRESS")
        /\ link' = [link EXCEPT ![f] = "connecting"]
        /\ UNCHANGED <<nonblock, inq, room, err, open>>
     \/ link[f] = "connecting" /\ Fails(c, "EALREADY")
     \/ link[f] = "up" /\ Deliver(c, 0, "none") /\ UNCHANGED <<netVars, open>>
  /\ SchedulerUnchanged

Sys(c, f) ==
  SysFails(c, f) \/ SysSend(c, f) \/ SysRecv(c, f) \/ SysAccept(c, f) \/ SysConnect(c, f)

-----------------------------------------------------------------------------
(* Descriptors come and go.                                                *)

\* The hook of socket, by a coroutine: the descriptor gets O_NONBLOCK
SockOpen(c, f) ==
  /\ FreeToAct(c) /\ Socket(c, f) /\ f \notin FromMain
  /\ nonblock' = nonblock \cup {f}
  /\ link' = [link EXCEPT ![f] = IF f \in Streams THEN "fresh" ELSE "up"]
  /\ UNCHANGED <<call, inq, room, err>>

\* and by main, with no scheduler yet: it does not
MainOpens(f) ==
  /\ AtLoop("main") /\ live = {} /\ f \in FromMain \ open
  /\ open' = open \cup {f}
  /\ UNCHANGED <<now, fault, coVars, ready, timerVars, waitVars, loopVars, epollVars,
                 epollset, rdy, sockVars>>

SockClose(c, f) ==
  /\ FreeToAct(c) /\ Close(c, f)
  /\ nonblock' = nonblock \ {f}
  /\ inq' = [inq EXCEPT ![f] = 0] /\ room' = [room EXCEPT ![f] = Cap]
  /\ err' = [err EXCEPT ![f] = "none"] /\ link' = [link EXCEPT ![f] = "up"]
  /\ UNCHANGED call

-----------------------------------------------------------------------------
(* The network, and the kernel's reports.                                  *)

Established(f) == f \in open /\ link[f] = "up" /\ err[f] = "none"

PeerSends(f) ==
  /\ Alive /\ Established(f) /\ inq[f] < Cap
  /\ inq' = [inq EXCEPT ![f] = @ + 1]
  /\ UNCHANGED <<vars, call, nonblock, room, err, link>>

PeerReads(f) ==
  /\ Alive /\ Established(f) /\ room[f] < Cap
  /\ room' = [room EXCEPT ![f] = @ + 1]
  /\ UNCHANGED <<vars, call, nonblock, inq, err, link>>

PeerFails(f) ==
  /\ Alive /\ f \in open \ Listeners /\ link[f] # "fresh" /\ err[f] = "none"
  /\ \E e \in Errnos : err' = [err EXCEPT ![f] = e]
  /\ UNCHANGED <<vars, call, nonblock, inq, room, link>>

Connected(f) ==
  /\ Alive /\ link[f] = "connecting" /\ err[f] = "none"
  /\ link' = [link EXCEPT ![f] = "up"]
  /\ UNCHANGED <<vars, call, nonblock, inq, room, err>>

\* Another process takes the connection: the listener may be ready no more
OtherAccepts(f) ==
  /\ OtherProcess /\ Alive /\ f \in Listeners /\ inq[f] > 0
  /\ inq' = [inq EXCEPT ![f] = @ - 1]
  /\ rdy' = IF inq[f] = 1 THEN rdy \ {f} ELSE rdy
  /\ UNCHANGED <<now, fault, coVars, ready, timerVars, waitVars, loopVars, epollVars,
                 open, epollset, call, nonblock, room, err, link>>

\* A stream that was never connected is reported as hung up
HasEvent(f, event) ==
  \/ err[f] # "none" \/ link[f] = "fresh"
  \/ event = "POLLIN" /\ inq[f] > 0
  \/ event = "POLLOUT" /\ link[f] = "up" /\ room[f] > 0

Report(f) ==
  /\ KernelReady(f)
  /\ \E c \in WaitersOn(f) : HasEvent(f, EventOf(call[c].hook))
  /\ UNCHANGED sockVars

Network(f) ==
  PeerSends(f) \/ PeerReads(f) \/ PeerFails(f) \/ Connected(f) \/ OtherAccepts(f)

-----------------------------------------------------------------------------
CallStep(c) ==
  \/ CallPoll(c) \/ CallPolled(c) \/ EnterHook(c) \/ Returned(c)
  \/ \E f \in Fd : Sys(c, f)

NewCall(c) ==
  \E hook \in Hooks, nty \in BOOLEAN, f \in Fd :
    \E len \in (IF hook \in {"send", "sendto"} THEN Lengths ELSE {1}) : Begin(c, hook, nty, f, len)

Leave(c) == FreeToAct(c) /\ Exit(c) /\ UNCHANGED sockVars

NextSocket ==
  \/ \E c \in Co :
       \/ Create(c) /\ UNCHANGED sockVars
       \/ NewCall(c) \/ CallStep(c) \/ Leave(c)
       \/ \E msecs \in Msecs : FreeToAct(c) /\ Sleep(c, msecs) /\ UNCHANGED sockVars
       \/ \E f \in Fd : SockOpen(c, f) \/ SockClose(c, f)
  \/ (Loop \/ Tick \/ Terminated) /\ UNCHANGED sockVars
  \/ \E f \in Fd : MainOpens(f) \/ Network(f) \/ Report(f)

SpecSocket == InitSocket /\ [][NextSocket]_allVars

\* The scheduler runs, calls proceed, bodies go on to another call or return,
\* and the kernel reports what is ready.  The peer answers in the end.
FairSocket ==
  /\ SpecSocket
  /\ WF_allVars(Loop /\ UNCHANGED sockVars)
  /\ \A c \in Co : WF_allVars(CallStep(c)) /\ WF_allVars(NewCall(c) \/ Leave(c))
  /\ \A f \in Fd : /\ WF_allVars(Report(f)) /\ WF_allVars(PeerSends(f))
                   /\ WF_allVars(PeerReads(f)) /\ WF_allVars(Connected(f))

-----------------------------------------------------------------------------
HasReturned(c) == call[c].hook # "none" /\ call[c].frames = << >>

\* nty_sendto on a stream, reset after it took a part of the data: the return on
\* ECONNRESET passes 0 on, and what was sent before is not reported
CountLost(c) ==
  /\ call[c].hook = "sendto" /\ call[c].f \in Streams
  /\ call[c].errno = "ECONNRESET" /\ call[c].ret = 0 /\ call[c].took < call[c].len

\* What send, write, nty_send, sendto and nty_sendto return is what the kernel
\* took, across partial sends, waits and errors: a caller that resumes from the
\* count neither repeats nor skips data.  The exception is CountLost.
SendExact ==
  \A c \in Co :
    HasReturned(c) /\ call[c].hook \in {"send", "sendto"} =>
      \/ call[c].took = IF call[c].ret > 0 THEN call[c].ret ELSE 0
      \/ CountLost(c)

\* A coroutine that waited is not told to wait, unless a timer it left armed
\* woke it: EAGAIN is not returned to a body, and a send is short only when the
\* connection has failed.
NoSpuriousFailure ==
  \A c \in Co :
    HasReturned(c) /\ ~call[c].early =>
      /\ call[c].errno \notin {"EAGAIN", "EALREADY"}
      /\ call[c].hook = "send" /\ call[c].ret < call[c].len => err[call[c].f] # "none"

\* No system call blocks the thread, and with it every coroutine: a descriptor
\* that a coroutine opened or accepted is non-blocking, so only accept on a
\* listener that main opened earlier can block.
ThreadNeverBlocks ==
  \A c \in Co, f \in Fd :
    AtSys(c, call[c].hook, f) => f \in nonblock \/ f \in FromMain

\* Every call returns, if the peer goes on reading, sending and connecting and
\* the other process leaves connections to accept.
CallsReturn ==
  \/ []<><<\E f \in Fd : OtherAccepts(f)>>_allVars
  \/ \A c \in Co : (call[c].frames # << >>) ~> (call[c].frames = << >>)

\* The assert(0) of sendto, recvfrom, nty_sendto and nty_recvfrom is not reached,
\* nor is an assert of the scheduler.
NoAbort == fault = "none"

\* Those asserts end the process only on an error other than the two the calls
\* handle: not on the EAGAIN of a coroutine that a timer woke, not on a reset, and
\* not on an errno left over from an earlier call or another coroutine.
AbortsOnlyOnOtherErrors ==
  fault # "none" =>
    /\ fault = "errno"
    /\ \E c \in Co : /\ curr = c /\ call[c].hook \in {"sendto", "recvfrom"}
                     /\ call[c].errno \notin {"none", "EAGAIN", "ECONNRESET"}
=============================================================================
