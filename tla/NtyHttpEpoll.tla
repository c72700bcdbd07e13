---------------------------- MODULE NtyHttpEpoll ----------------------------
(***************************************************************************)
(* sample/nty_http_epoll.c: the server of ntyco_httpd.c written on epoll   *)
(* itself.  Each process handles the events of an epoll_wait one by one;   *)
(* a connection is armed for input, for one output, and for input again.   *)
(*                                                                         *)
(* An event is reduced to the branch of server that it takes: "IN" before  *)
(* "OUT" before "HUP" (EPOLLHUP, EPOLLRDHUP, EPOLLERR).                    *)
(***************************************************************************)
EXTENDS Integers, Sequences, FiniteSets

CONSTANTS
  Proc,         \* the processes main forks
  Conn,         \* the connections, by descriptor: a closed one is used again
  Slots,        \* 0 .. cpu_size - 1, on at most TOTALFDS processors
  slot,         \* self_id % cpu_size of each process
  MaxFds,       \* how many connections each process has descriptors for
  MaxRequests,  \* bound: how many requests the clients make
  LISTENER, NONE

ASSUME EpollAssumption ==
  /\ IsFiniteSet(Proc) /\ IsFiniteSet(Conn)
  /\ slot \in [Proc -> Slots] /\ MaxFds \in [Proc -> Nat] /\ MaxRequests \in Nat
  /\ LISTENER \notin Conn /\ NONE \notin Conn \cup Proc
  /\ "EAGAIN" \notin Conn /\ "error" \notin Conn

\* The counts an shm_area has.  With more processors the index leaves the array:
\* slots 16 to 19 are cpu_lb, 20 is accept_mtx, and 21 the word after it, which
\* the eight-byte exchange on the lock compares too.
TOTALFDS == 16

ASSUME SlotsAssumption == Slots \subseteq 0..(TOTALFDS - 1)

VARIABLES
  accept_mtx,  \* shared: the lock word
  totalfds,    \* shared: the counts
  ended,       \* the processes whose server has returned or that SIGPIPE ended
  pc,          \* where a process is between two accesses to shared state
  res,         \* what accept returned: a connection, "EAGAIN" or "error"
  batch,       \* the events still to handle, as <<descriptor, branch>>
  armed,       \* kernel: what a connection is registered for
  backlog,     \* kernel: the queue of the listening socket
  owner,       \* kernel: the process that has the connection
  input,       \* kernel: is there a request to read?
  full,        \* kernel: is the send buffer full?
  peer,        \* the client, or what has become of it
  asked,       \* history: requests made
  answers      \* history: answers counted off, by slot

shmVars == <<accept_mtx, totalfds>>
netVars == <<backlog, owner, input, full, peer>>
history == <<asked, answers>>
vars == <<shmVars, ended, pc, res, batch, armed, netVars, history>>

Running(p) == p \notin ended
Open(p) == {c \in Conn : owner[c] = p}

init_shmvalue == accept_mtx = 0 /\ totalfds = [s \in Slots |-> 0]

\* main, process_bind and the beginning of server
Init ==
  /\ init_shmvalue
  /\ ended = {} /\ pc = [p \in Proc |-> "wait"]
  /\ res = [p \in Proc |-> "EAGAIN"] /\ batch = [p \in Proc |-> {}]
  /\ armed = [c \in Conn |-> "off"]
  /\ backlog = << >> /\ owner = [c \in Conn |-> NONE]
  /\ input = [c \in Conn |-> FALSE] /\ full = [c \in Conn |-> FALSE]
  /\ peer = [c \in Conn |-> "away"]
  /\ asked = 0 /\ answers = [s \in Slots |-> 0]

\* One locked instruction each
atomic_add(s, n) == totalfds' = [totalfds EXCEPT ![s] = @ + n]
atomic_sub(s, n) == totalfds' = [totalfds EXCEPT ![s] = @ - n]
INC_COUNTFD(p) == atomic_add(slot[p], 1)
DEC_COUNTFD(p) == atomic_sub(slot[p], 1)

-----------------------------------------------------------------------------
(* epoll_wait *)

\* The branches an event on c can take.  A reset or a timeout sets the error
\* before the rest: EPOLLERR may come alone.
Branches(c) ==
  CASE armed[c] \in {"in", "level"} ->
         IF peer[c] \in {"reset", "lost"} THEN {"IN", "HUP"}
         ELSE IF input[c] \/ peer[c] \in {"eof", "broken"} THEN {"IN"} ELSE {}
    [] armed[c] = "out" ->
         IF peer[c] \in {"reset", "lost"} THEN {"OUT", "HUP"}
         ELSE IF ~full[c] \/ peer[c] = "broken" THEN {"OUT"} ELSE {}
    [] OTHER -> {}

ReportedShared(p) == \* mutant: one epoll instance, made before fork
  {c \in Conn : owner[c] # NONE /\ Branches(c) # {}}
Reported(p) == {c \in Open(p) : Branches(c) # {}}

\* Everything ready is reported; EPOLLONESHOT disarms what it armed.  A timeout
\* or EINTR changes nothing.
EpollWait(p) ==
  /\ pc[p] = "wait" /\ Running(p)
  /\ Reported(p) # {} \/ backlog # << >>
  /\ \E branch \in [Reported(p) -> {"IN", "OUT", "HUP"}] :
       /\ \A c \in Reported(p) : branch[c] \in Branches(c)
       /\ batch' = [batch EXCEPT ![p] =
                      {<<c, branch[c]>> : c \in Reported(p)}
                        \cup {<<l, "IN">> : l \in {x \in {LISTENER} : backlog # << >>}}]
  /\ armed' = [c \in Conn |-> IF c \in Reported(p) /\ armed[c] # "level"
                              THEN "off" ELSE armed[c]]
  /\ pc' = [pc EXCEPT ![p] = "batch"]
  /\ UNCHANGED <<shmVars, ended, res, netVars, history>>

\* The for loop takes an event, in the order the kernel chose ...
Takes(p, e) ==
  /\ pc[p] = "batch" /\ Running(p) /\ e \in batch[p]
  /\ batch' = [batch EXCEPT ![p] = @ \ {e}]

\* ... or ends
BatchDone(p) ==
  /\ pc[p] = "batch" /\ Running(p) /\ batch[p] = {}
  /\ pc' = [pc EXCEPT ![p] = "wait"]
  /\ UNCHANGED <<shmVars, ended, res, batch, armed, netVars, history>>

-----------------------------------------------------------------------------
(* The listening socket *)

\* cmpxchg(&accept_mtx, 0, 1): does it store, given the old word?
CmpxchgStores(old) == old = 0

\* lock() fails: the event is dropped, and reported again by the next epoll_wait
LockFails(p) ==
  /\ Takes(p, <<LISTENER, "IN">>) /\ ~CmpxchgStores(accept_mtx)
  /\ UNCHANGED <<shmVars, ended, pc, res, armed, netVars, history>>

Locks(p) ==
  /\ Takes(p, <<LISTENER, "IN">>) /\ CmpxchgStores(accept_mtx)
  /\ accept_mtx' = 1
  /\ pc' = [pc EXCEPT ![p] = "accept"]
  /\ UNCHANGED <<totalfds, ended, res, armed, netVars, history>>

\* accept: a connection; EAGAIN when another process has taken it; EMFILE with
\* the connection left in the queue; ECONNABORTED for one its client has reset
Accepts(p) ==
  /\ pc[p] = "accept" /\ Running(p)
  /\ \/ /\ backlog = << >> /\ res' = [res EXCEPT ![p] = "EAGAIN"]
        /\ UNCHANGED <<backlog, owner, peer>>
     \/ /\ backlog # << >> /\ Cardinality(Open(p)) < MaxFds[p]
        /\ res' = [res EXCEPT ![p] = Head(backlog)]
        /\ owner' = [owner EXCEPT ![Head(backlog)] = p]
        /\ backlog' = Tail(backlog) /\ UNCHANGED peer
     \/ /\ backlog # << >> /\ Cardinality(Open(p)) >= MaxFds[p]
        /\ res' = [res EXCEPT ![p] = "error"] /\ UNCHANGED <<backlog, owner, peer>>
     \/ /\ backlog # << >> /\ peer[Head(backlog)] = "reset"
        /\ res' = [res EXCEPT ![p] = "error"]
        /\ peer' = [peer EXCEPT ![Head(backlog)] = "away"]
        /\ backlog' = Tail(backlog) /\ UNCHANGED owner
  /\ pc' = [pc EXCEPT ![p] = "unlock"]
  /\ UNCHANGED <<shmVars, ended, batch, armed, input, full, history>>

\* The end of a process: the kernel closes what it has open, nothing is counted off
Ends(p) ==
  /\ ended' = ended \cup {p}
  /\ peer' = [c \in Conn |-> IF owner[c] = p THEN "gone" ELSE peer[c]]
  /\ input' = [c \in Conn |-> input[c] /\ owner[c] # p]
  /\ full' = [c \in Conn |-> full[c] /\ owner[c] # p]
  /\ batch' = [batch EXCEPT ![p] = {}]

unlock == accept_mtx' = 0

\* unlock(), then continue after EAGAIN, and return, which ends the process,
\* after any other error
UnlockIfAccepted(p) == \* mutant: an error returns before unlock()
  /\ pc[p] = "unlock" /\ Running(p)
  /\ accept_mtx' = IF res[p] = "error" THEN 1 ELSE 0
  /\ CASE res[p] = "error" -> Ends(p) /\ pc' = [pc EXCEPT ![p] = "wait"]
       [] res[p] = "EAGAIN" -> /\ pc' = [pc EXCEPT ![p] = "batch"]
                               /\ UNCHANGED <<ended, peer, input, full, batch>>
       [] OTHER -> /\ pc' = [pc EXCEPT ![p] = "inc"]
                   /\ UNCHANGED <<ended, peer, input, full, batch>>
  /\ UNCHANGED <<totalfds, res, armed, backlog, owner, history>>
Unlock(p) ==
  /\ pc[p] = "unlock" /\ Running(p)
  /\ unlock
  /\ CASE res[p] = "error" -> Ends(p) /\ pc' = [pc EXCEPT ![p] = "wait"]
       [] res[p] = "EAGAIN" -> /\ pc' = [pc EXCEPT ![p] = "batch"]
                               /\ UNCHANGED <<ended, peer, input, full, batch>>
       [] OTHER -> /\ pc' = [pc EXCEPT ![p] = "inc"]
                   /\ UNCHANGED <<ended, peer, input, full, batch>>
  /\ UNCHANGED <<totalfds, res, armed, backlog, owner, history>>

\* INC_COUNTFD, ntySetNonblock and EPOLL_CTL_ADD
Inc(p) ==
  /\ pc[p] = "inc" /\ Running(p)
  /\ INC_COUNTFD(p)
  /\ armed' = [armed EXCEPT ![res[p]] = "in"]
  /\ res' = [res EXCEPT ![p] = "EAGAIN"]
  /\ pc' = [pc EXCEPT ![p] = "batch"]
  /\ UNCHANGED <<accept_mtx, ended, batch, netVars, history>>

-----------------------------------------------------------------------------
(* The connections *)

\* close, after which EPOLL_CTL_DEL, and EPOLL_CTL_MOD in server, fail
Close(c) ==
  /\ owner' = [owner EXCEPT ![c] = NONE] /\ armed' = [armed EXCEPT ![c] = "off"]
  /\ input' = [input EXCEPT ![c] = FALSE] /\ full' = [full EXCEPT ![c] = FALSE]
  /\ peer' = [peer EXCEPT ![c] = "away"]

\* accept_request: the request is read whole, and EPOLL_CTL_MOD arms the output ...
Reads(p, c) ==
  /\ Takes(p, <<c, "IN">>) /\ input[c] /\ peer[c] \in {"up", "eof"}
  /\ input' = [input EXCEPT ![c] = FALSE]
  /\ armed' = [armed EXCEPT ![c] = "out"]
  /\ UNCHANGED <<shmVars, ended, pc, res, backlog, owner, full, peer, history>>

\* ... as it does after an error that is not ECONNRESET, of which recv clears
\* the socket ...
ReadFails(p, c) ==
  /\ Takes(p, <<c, "IN">>) /\ peer[c] = "lost"
  /\ peer' = [peer EXCEPT ![c] = "broken"]
  /\ armed' = [armed EXCEPT ![c] = "out"]
  /\ UNCHANGED <<shmVars, ended, pc, res, backlog, owner, input, full, history>>

\* ... and recv returns 0, or -1 with ECONNRESET: close, DEC_COUNTFD
ReadsEndUncounted(p, c) == \* mutant: DEC_COUNTFD is missing
  /\ Takes(p, <<c, "IN">>)
  /\ peer[c] \in {"reset", "broken"} \/ (peer[c] = "eof" /\ ~input[c])
  /\ Close(c)
  /\ UNCHANGED <<shmVars, ended, pc, res, backlog, history>>
ReadsEnd(p, c) ==
  /\ Takes(p, <<c, "IN">>)
  /\ peer[c] \in {"reset", "broken"} \/ (peer[c] = "eof" /\ ~input[c])
  /\ Close(c)
  /\ pc' = [pc EXCEPT ![p] = "dec"]
  /\ UNCHANGED <<shmVars, ended, res, backlog, history>>

\* serve_file: one send, of the page or what of it fits, the rest is not sent.
\* EPOLL_CTL_MOD arms the input, level-triggered, and DEC_COUNTFD follows.
\* An answer to a client that has closed may bring a reset.
ServesUnarmed(p, c) == \* mutant: the last EPOLL_CTL_MOD is missing
  /\ Takes(p, <<c, "OUT">>) /\ peer[c] # "broken"
  /\ CASE peer[c] \in {"reset", "lost"} -> /\ peer' = [peer EXCEPT ![c] = "broken"]
                                           /\ UNCHANGED full
       [] peer[c] = "eof" -> /\ peer' \in {peer, [peer EXCEPT ![c] = "broken"]}
                             /\ UNCHANGED full
       [] OTHER -> full' \in {full, [full EXCEPT ![c] = TRUE]} /\ UNCHANGED peer
  /\ answers' = [answers EXCEPT ![slot[p]] = @ + 1]
  /\ pc' = [pc EXCEPT ![p] = "dec"]
  /\ UNCHANGED <<shmVars, ended, res, armed, backlog, owner, input, asked>>
Serves(p, c) ==
  /\ Takes(p, <<c, "OUT">>) /\ peer[c] # "broken"
  /\ CASE peer[c] \in {"reset", "lost"} -> /\ peer' = [peer EXCEPT ![c] = "broken"]
                                           /\ UNCHANGED full
       [] peer[c] = "eof" -> /\ peer' \in {peer, [peer EXCEPT ![c] = "broken"]}
                             /\ UNCHANGED full
       [] OTHER -> full' \in {full, [full EXCEPT ![c] = TRUE]} /\ UNCHANGED peer
  /\ armed' = [armed EXCEPT ![c] = "level"]
  /\ answers' = [answers EXCEPT ![slot[p]] = @ + 1]
  /\ pc' = [pc EXCEPT ![p] = "dec"]
  /\ UNCHANGED <<shmVars, ended, res, backlog, owner, input, asked>>

\* send on a connection whose error recv has taken: SIGPIPE, which ends the process
SigPipe(p, c) ==
  /\ pc[p] = "batch" /\ Running(p) /\ <<c, "OUT">> \in batch[p] /\ peer[c] = "broken"
  /\ Ends(p)
  /\ pc' = [pc EXCEPT ![p] = "wait"]
  /\ UNCHANGED <<shmVars, res, armed, backlog, owner, history>>

\* EPOLLHUP, EPOLLRDHUP or EPOLLERR alone: close, DEC_COUNTFD
HangsUp(p, c) ==
  /\ Takes(p, <<c, "HUP">>)
  /\ Close(c)
  /\ pc' = [pc EXCEPT ![p] = "dec"]
  /\ UNCHANGED <<shmVars, ended, res, backlog, history>>

\* DEC_COUNTFD
Dec(p) ==
  /\ pc[p] = "dec" /\ Running(p)
  /\ DEC_COUNTFD(p)
  /\ pc' = [pc EXCEPT ![p] = "batch"]
  /\ UNCHANGED <<accept_mtx, ended, res, batch, armed, netVars, history>>

-----------------------------------------------------------------------------
(* The clients and the network *)

Connects(c) ==
  /\ peer[c] = "away" /\ owner[c] = NONE
  /\ peer' = [peer EXCEPT ![c] = "up"] /\ backlog' = Append(backlog, c)
  /\ UNCHANGED <<shmVars, ended, pc, res, batch, armed, owner, input, full, history>>

Asks(c) ==
  /\ peer[c] = "up" /\ ~input[c] /\ asked < MaxRequests
  /\ input' = [input EXCEPT ![c] = TRUE] /\ asked' = asked + 1
  /\ UNCHANGED <<shmVars, ended, pc, res, batch, armed, backlog, owner, full, peer, answers>>

Drains(c) ==
  /\ peer[c] \in {"up", "eof"} /\ full[c]
  /\ full' = [full EXCEPT ![c] = FALSE]
  /\ UNCHANGED <<shmVars, ended, pc, res, batch, armed, backlog, owner, input, peer, history>>

\* close or shutdown; a reset; or, with data unacknowledged, a timeout
Leaves(c) ==
  /\ peer[c] = "up"
  /\ \/ peer' = [peer EXCEPT ![c] = "eof"] /\ UNCHANGED input
     \/ peer' = [peer EXCEPT ![c] = "reset"] /\ input' = [input EXCEPT ![c] = FALSE]
     \/ full[c] /\ peer' = [peer EXCEPT ![c] = "lost"] /\ input' = [input EXCEPT ![c] = FALSE]
  /\ UNCHANGED <<shmVars, ended, pc, res, batch, armed, backlog, owner, full, history>>

-----------------------------------------------------------------------------
Process(p) ==
  \/ EpollWait(p) \/ BatchDone(p)
  \/ LockFails(p) \/ Locks(p) \/ Accepts(p) \/ Unlock(p) \/ Inc(p) \/ Dec(p)
  \/ \E c \in Conn : Reads(p, c) \/ ReadFails(p, c) \/ ReadsEnd(p, c)
                       \/ Serves(p, c) \/ SigPipe(p, c) \/ HangsUp(p, c)

Client(c) == Connects(c) \/ Asks(c) \/ Drains(c) \/ Leaves(c)

Next == (\E p \in Proc : Process(p)) \/ (\E c \in Conn : Client(c))

Spec == Init /\ [][Next]_vars

\* The operating system runs every process, and a client that has not gone
\* reads its answers
FairSpec ==
  /\ Spec
  /\ \A p \in Proc : WF_vars(Process(p))
  /\ \A c \in Conn : WF_vars(Drains(c))

-----------------------------------------------------------------------------
\* The variables have the values the program can give them.
TypeOK ==
  /\ accept_mtx \in {0, 1} /\ totalfds \in [Slots -> Int]
  /\ ended \in SUBSET Proc
  /\ pc \in [Proc -> {"wait", "batch", "accept", "unlock", "inc", "dec"}]
  /\ res \in [Proc -> Conn \cup {"EAGAIN", "error"}]
  /\ batch \in [Proc -> SUBSET ((Conn \cup {LISTENER}) \X {"IN", "OUT", "HUP"})]
  /\ armed \in [Conn -> {"off", "in", "out", "level"}]
  /\ backlog \in Seq(Conn) /\ owner \in [Conn -> Proc \cup {NONE}]
  /\ input \in [Conn -> BOOLEAN] /\ full \in [Conn -> BOOLEAN]
  /\ peer \in [Conn -> {"away", "up", "eof", "reset", "lost", "broken", "gone"}]
  /\ asked \in Nat /\ answers \in [Slots -> Nat]

\* A connection accepted and not yet armed
Arriving(p, c) == pc[p] \in {"unlock", "inc"} /\ res[p] = c

\* The events of a batch are of connections that are still open and still in the
\* state that was reported, when the handling of others has closed some and
\* accepted new ones on the same descriptors: recv finds data or the end, and
\* no page is sent that nobody asked for.
BatchFresh ==
  \A p \in Proc \ ended : \A e \in batch[p] :
    e[1] # LISTENER =>
      /\ owner[e[1]] = p /\ ~Arriving(p, e[1])
      /\ e[2] = "IN" => input[e[1]] \/ peer[e[1]] # "up"
      /\ e[2] = "OUT" => ~full[e[1]] \/ peer[e[1]] # "up"
      /\ e[2] = "HUP" => peer[e[1]] \in {"reset", "lost"}

\* What of a slot INC_COUNTFD has counted, and where DEC_COUNTFD is due
Counted(s) ==
  {c \in Conn : owner[c] # NONE /\ slot[owner[c]] = s /\ ~Arriving(owner[c], c)}
Discounting(s) == {p \in Proc : pc[p] = "dec" /\ slot[p] = s}

\* What totalfds counts: connections less answers, because both the answer and
\* the close of a connection do DEC_COUNTFD.  No update is lost between the
\* processes of a slot, and what an ended process had open stays counted.
CountIsConnectionsLessAnswers ==
  \A s \in Slots :
    totalfds[s] + answers[s] = Cardinality(Counted(s)) + Cardinality(Discounting(s))

-----------------------------------------------------------------------------
\* A connection in the queue is accepted, though a process that fails to lock
\* drops the event, unless all processes have ended.
QueuedIsAccepted ==
  \A c \in Conn : (owner[c] = NONE /\ peer[c] # "away") ~>
                    (owner[c] # NONE \/ peer[c] = "away" \/ ended = Proc)

\* A request is read, and a connection whose client has gone is closed, unless
\* its process has ended.
Handled ==
  \A c \in Conn :
    /\ (owner[c] # NONE /\ input[c]) ~> ~input[c]
    /\ (owner[c] # NONE /\ peer[c] # "up") ~> (owner[c] = NONE \/ peer[c] = "gone")
=============================================================================
