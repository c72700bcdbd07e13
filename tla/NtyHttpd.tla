------------------------------ MODULE NtyHttpd ------------------------------
(***************************************************************************)
(* sample/ntyco_httpd.c: processes that share a listening socket, an       *)
(* accept lock and an array of connection counts in System V memory, and   *)
(* each run one server coroutine and one coroutine per connection.         *)
(*                                                                         *)
(* A process runs the events of its last epoll_wait, then its ready queue, *)
(* and calls epoll_wait only when that queue is empty: this is             *)
(* nty_schedule_run, as NtyScheduler has it, for bodies that set no timer. *)
(* Each call of nty_recv and nty_accept waits twice, in the nty_ function  *)
(* and in the hook it calls; nty_send waits only for a full buffer.        *)
(***************************************************************************)
EXTENDS Integers, Sequences, FiniteSets

CONSTANTS
  Proc,    \* the processes main forks
  Conn,    \* the connections clients make; a closed one can be made again
  Slots,   \* 0 .. cpu_size - 1, on at most TOTALFDS processors
  slot,    \* self_id % cpu_size of each process: two processes may share one
  MaxFds,  \* how many connections each process has descriptors for
  SERVER,  \* the server coroutine of a process
  NONE

ASSUME HttpdAssumption ==
  /\ IsFiniteSet(Proc) /\ IsFiniteSet(Conn)
  /\ slot \in [Proc -> Slots] /\ MaxFds \in [Proc -> Nat]
  /\ SERVER \notin Conn /\ NONE \notin Conn \cup Proc

\* The counts an shm_area has.  With more processors the index leaves the array:
\* slots 16 to 19 are cpu_lb, 20 is accept_mtx, and 21 the word after it, which
\* the eight-byte exchange on the lock compares too.
TOTALFDS == 16

ASSUME SlotsAssumption == Slots \subseteq 0..(TOTALFDS - 1)

VARIABLES
  accept_mtx,  \* shared: the lock word
  totalfds,    \* shared: the counts
  dead,        \* the processes SIGPIPE has ended
  pc,          \* where a process is between two accesses to shared state
  clientfd,    \* what nty_accept returned to its server coroutine
  srv,         \* its server coroutine: "loop", "accept1", "accept2", "ended"
  ready,       \* its ready queue
  events,      \* what is left of the events of its last epoll_wait
  backlog,     \* kernel: the queue of the listening socket
  owner,       \* kernel: the process that has the connection
  co,          \* the coroutine of a connection, by what it waits for
  input,       \* kernel: is there something to read?
  full,        \* kernel: is the send buffer full?
  peer         \* the client: "away", "up", "eof", "reset" or "gone"

shmVars == <<accept_mtx, totalfds>>
netVars == <<backlog, owner, input, full, peer>>
procVars == <<dead, pc, clientfd, srv, ready, events, co>>
vars == <<shmVars, netVars, procVars>>

Alive(p) == p \notin dead
Open(p) == {c \in Conn : owner[c] = p}
Top(p) == pc[p] = "sched" /\ Alive(p)

init_shmvalue == accept_mtx = 0 /\ totalfds = [s \in Slots |-> 0]

\* main and process_bind: every process starts with its server
\* coroutine in the ready queue
Init ==
  /\ init_shmvalue
  /\ dead = {} /\ pc = [p \in Proc |-> "sched"]
  /\ clientfd = [p \in Proc |-> NONE] /\ srv = [p \in Proc |-> "loop"]
  /\ ready = [p \in Proc |-> <<SERVER>>] /\ events = [p \in Proc |-> {}]
  /\ backlog = << >> /\ owner = [c \in Conn |-> NONE]
  /\ co = [c \in Conn |-> "none"]
  /\ input = [c \in Conn |-> FALSE] /\ full = [c \in Conn |-> FALSE]
  /\ peer = [c \in Conn |-> "away"]

\* One locked instruction each
atomic_add(s, n) == totalfds' = [totalfds EXCEPT ![s] = @ + n]
atomic_sub(s, n) == totalfds' = [totalfds EXCEPT ![s] = @ - n]
INC_COUNTFD(p) == atomic_add(slot[p], 1)
DEC_COUNTFD(p) == atomic_sub(slot[p], 1)

-----------------------------------------------------------------------------
(* The scheduler of a process *)

\* What epoll_wait finds: a descriptor is registered while a coroutine waits on it
ReportedInOnly(p) == \* mutant: the end of a connection is not asked for
  {c \in Open(p) :
     \/ co[c] \in {"recv1", "recv2"} /\ input[c]
     \/ co[c] = "send" /\ ~full[c]}
  \cup {s \in {SERVER} : srv[p] \in {"accept1", "accept2"} /\ backlog # << >>}
Reported(p) ==
  {c \in Open(p) :
     \/ co[c] \in {"recv1", "recv2"} /\ (input[c] \/ peer[c] # "up")
     \/ co[c] = "send" /\ (~full[c] \/ peer[c] = "reset")}
  \cup {s \in {SERVER} : srv[p] \in {"accept1", "accept2"} /\ backlog # << >>}

\* nty_schedule_epoll
Epoll(p) ==
  /\ Top(p) /\ events[p] = {} /\ ready[p] = << >>
  /\ Reported(p) # {}
  /\ events' = [events EXCEPT ![p] = Reported(p)]
  /\ UNCHANGED <<shmVars, netVars, dead, pc, clientfd, srv, ready, co>>

\* The process resumes coroutine x for an event
Event(p, x) == Top(p) /\ x \in events[p] /\ events' = [events EXCEPT ![p] = @ \ {x}]

\* The ready pass resumes the server coroutine, which goes on to lock()
ServerResumed(p) ==
  /\ Top(p) /\ events[p] = {} /\ ready[p] # << >> /\ Head(ready[p]) = SERVER
  /\ ready' = [ready EXCEPT ![p] = Tail(@)]
  /\ pc' = [pc EXCEPT ![p] = "lock"]
  /\ UNCHANGED <<shmVars, netVars, dead, clientfd, srv, events, co>>

\* The ready pass starts accept_request, which calls nty_recv
RequestStarts(p) ==
  /\ Top(p) /\ events[p] = {} /\ ready[p] # << >> /\ Head(ready[p]) # SERVER
  /\ ready' = [ready EXCEPT ![p] = Tail(@)]
  /\ co' = [co EXCEPT ![Head(ready[p])] = "recv1"]
  /\ UNCHANGED <<shmVars, netVars, dead, pc, clientfd, srv, events>>

-----------------------------------------------------------------------------
(* server *)

\* cmpxchg(&accept_mtx, 0, 1): does it store, given the old word?
CmpxchgAlwaysStores(old) == old \in {0, 1} \* mutant: an exchange without compare
CmpxchgStores(old) == old = 0

\* lock() succeeds and nty_accept waits for the listening socket ...
Locks(p) ==
  /\ pc[p] = "lock" /\ Alive(p) /\ CmpxchgStores(accept_mtx)
  /\ accept_mtx' = 1
  /\ srv' = [srv EXCEPT ![p] = "accept1"]
  /\ pc' = [pc EXCEPT ![p] = "sched"]
  /\ UNCHANGED <<totalfds, netVars, dead, clientfd, ready, events, co>>

\* ... or fails, and nty_coroutine_sleep(0) puts the coroutine at the end of the queue
LockFails(p) ==
  /\ pc[p] = "lock" /\ Alive(p) /\ ~CmpxchgStores(accept_mtx)
  /\ ready' = [ready EXCEPT ![p] = Append(@, SERVER)]
  /\ pc' = [pc EXCEPT ![p] = "sched"]
  /\ UNCHANGED <<shmVars, netVars, dead, clientfd, srv, events, co>>

\* nty_accept has waited, and calls the hook of accept, which waits too
AcceptAgain(p) ==
  /\ Event(p, SERVER) /\ srv[p] = "accept1"
  /\ srv' = [srv EXCEPT ![p] = "accept2"]
  /\ UNCHANGED <<shmVars, netVars, dead, pc, clientfd, ready, co>>

\* accept_f: a connection, EMFILE with the connection left in the queue, or
\* ECONNABORTED for one the client has reset.  EAGAIN, after which nty_accept
\* would wait again, does not come: see EventsFresh.
Accepts(p) ==
  /\ Event(p, SERVER) /\ srv[p] = "accept2" /\ backlog # << >>
  /\ LET c == Head(backlog) IN
       \/ /\ Cardinality(Open(p)) < MaxFds[p]
          /\ clientfd' = [clientfd EXCEPT ![p] = c]
          /\ owner' = [owner EXCEPT ![c] = p]
          /\ backlog' = Tail(backlog)
          /\ UNCHANGED peer
       \/ /\ Cardinality(Open(p)) >= MaxFds[p]
          /\ clientfd' = [clientfd EXCEPT ![p] = NONE]
          /\ UNCHANGED <<backlog, owner, peer>>
       \/ /\ peer[c] = "reset"
          /\ clientfd' = [clientfd EXCEPT ![p] = NONE]
          /\ backlog' = Tail(backlog) /\ peer' = [peer EXCEPT ![c] = "away"]
          /\ UNCHANGED owner
  /\ pc' = [pc EXCEPT ![p] = "unlock"]
  /\ UNCHANGED <<shmVars, dead, srv, ready, co, input, full>>

unlock == accept_mtx' = 0

\* unlock(), and the return of the server coroutine if there is no connection
UnlockIfAccepted(p) == \* mutant: a failed accept returns before unlock()
  /\ pc[p] = "unlock" /\ Alive(p)
  /\ IF clientfd[p] = NONE
       THEN /\ srv' = [srv EXCEPT ![p] = "ended"]
            /\ pc' = [pc EXCEPT ![p] = "sched"] /\ UNCHANGED accept_mtx
       ELSE /\ accept_mtx' = 0
            /\ srv' = [srv EXCEPT ![p] = "loop"]
            /\ pc' = [pc EXCEPT ![p] = "inc"]
  /\ UNCHANGED <<totalfds, netVars, dead, clientfd, ready, events, co>>
Unlock(p) ==
  /\ pc[p] = "unlock" /\ Alive(p)
  /\ unlock
  /\ IF clientfd[p] = NONE
       THEN srv' = [srv EXCEPT ![p] = "ended"] /\ pc' = [pc EXCEPT ![p] = "sched"]
       ELSE srv' = [srv EXCEPT ![p] = "loop"] /\ pc' = [pc EXCEPT ![p] = "inc"]
  /\ UNCHANGED <<totalfds, netVars, dead, clientfd, ready, events, co>>

\* INC_COUNTFD and nty_coroutine_create(accept_request), then lock() again
Inc(p) ==
  /\ pc[p] = "inc" /\ Alive(p)
  /\ INC_COUNTFD(p)
  /\ co' = [co EXCEPT ![clientfd[p]] = "new"]
  /\ ready' = [ready EXCEPT ![p] = Append(@, clientfd[p])]
  /\ clientfd' = [clientfd EXCEPT ![p] = NONE]
  /\ pc' = [pc EXCEPT ![p] = "lock"]
  /\ UNCHANGED <<accept_mtx, netVars, dead, srv, events>>

-----------------------------------------------------------------------------
(* accept_request *)

\* nty_recv has waited, and calls the hook of recv, which waits too
RecvAgain(p, c) ==
  /\ Event(p, c) /\ co[c] = "recv1"
  /\ co' = [co EXCEPT ![c] = "recv2"]
  /\ UNCHANGED <<shmVars, netVars, dead, pc, clientfd, srv, ready>>

\* numchars > 0: serve_file sends the page, at once or a part of it; a part for a
\* client that has closed, and not only shut its side down, brings a reset
Serves(p, c) ==
  /\ Event(p, c) /\ co[c] = "recv2" /\ input[c] /\ peer[c] # "reset"
  /\ input' = [input EXCEPT ![c] = FALSE]
  /\ \/ co' = [co EXCEPT ![c] = "recv1"] /\ UNCHANGED full
        /\ UNCHANGED peer
     \/ co' = [co EXCEPT ![c] = "send"] /\ full' = [full EXCEPT ![c] = TRUE]
        /\ \/ UNCHANGED peer
           \/ peer[c] = "eof" /\ peer' = [peer EXCEPT ![c] = "reset"]
  /\ UNCHANGED <<shmVars, backlog, owner, dead, pc, clientfd, srv, ready>>

\* nty_send sends the rest when the buffer has room: a page is less than two buffers
SendsRest(p, c) ==
  /\ Event(p, c) /\ co[c] = "send" /\ peer[c] # "reset"
  /\ co' = [co EXCEPT ![c] = "recv1"]
  /\ UNCHANGED <<shmVars, netVars, dead, pc, clientfd, srv, ready>>

\* numchars = 0: nty_close
ClosesUncounted(p, c) == \* mutant: DEC_COUNTFD is missing
  /\ Event(p, c) /\ co[c] = "recv2" /\ ~input[c] /\ peer[c] = "eof"
  /\ co' = [co EXCEPT ![c] = "none"]
  /\ owner' = [owner EXCEPT ![c] = NONE]
  /\ full' = [full EXCEPT ![c] = FALSE] /\ peer' = [peer EXCEPT ![c] = "away"]
  /\ UNCHANGED <<shmVars, backlog, input, dead, pc, clientfd, srv, ready>>
Closes(p, c) ==
  /\ Event(p, c) /\ co[c] = "recv2" /\ ~input[c] /\ peer[c] = "eof"
  /\ co' = [co EXCEPT ![c] = "none"]
  /\ owner' = [owner EXCEPT ![c] = NONE]
  /\ full' = [full EXCEPT ![c] = FALSE] /\ peer' = [peer EXCEPT ![c] = "away"]
  /\ pc' = [pc EXCEPT ![p] = "dec"]
  /\ UNCHANGED <<shmVars, backlog, input, dead, clientfd, srv, ready>>

\* DEC_COUNTFD; the coroutine returns
Dec(p) ==
  /\ pc[p] = "dec" /\ Alive(p)
  /\ DEC_COUNTFD(p)
  /\ pc' = [pc EXCEPT ![p] = "sched"]
  /\ UNCHANGED <<accept_mtx, netVars, dead, clientfd, srv, ready, events, co>>

\* A reset connection: numchars is a size_t, so the -1 of nty_recv counts as data
\* and serve_file sends.  send on a connection whose error recv or an earlier
\* send has taken raises SIGPIPE, which no code here handles: the process ends,
\* its connections with it, and the shared memory stays as it is.
SigPipe(p, c) ==
  /\ Event(p, c) /\ co[c] \in {"recv2", "send"} /\ peer[c] = "reset"
  /\ dead' = dead \cup {p}
  /\ peer' = [d \in Conn |-> IF owner[d] = p THEN "gone" ELSE peer[d]]
  /\ input' = [d \in Conn |-> input[d] /\ owner[d] # p]
  /\ full' = [d \in Conn |-> full[d] /\ owner[d] # p]
  /\ UNCHANGED <<shmVars, backlog, owner, pc, clientfd, srv, ready, co>>

-----------------------------------------------------------------------------
(* The clients *)

Connects(c) ==
  /\ peer[c] = "away" /\ owner[c] = NONE
  /\ peer' = [peer EXCEPT ![c] = "up"]
  /\ backlog' = Append(backlog, c)
  /\ UNCHANGED <<shmVars, owner, input, full, procVars>>

Requests(c) ==
  /\ peer[c] = "up" /\ ~input[c]
  /\ input' = [input EXCEPT ![c] = TRUE]
  /\ UNCHANGED <<shmVars, backlog, owner, full, peer, procVars>>

Reads(c) ==
  /\ peer[c] \in {"up", "eof"} /\ full[c]
  /\ full' = [full EXCEPT ![c] = FALSE]
  /\ UNCHANGED <<shmVars, backlog, owner, input, peer, procVars>>

\* close or shutdown, after which what was sent is still read, or a reset, which
\* drops it
Leaves(c) ==
  /\ peer[c] = "up"
  /\ \/ peer' = [peer EXCEPT ![c] = "eof"] /\ UNCHANGED input
     \/ peer' = [peer EXCEPT ![c] = "reset"] /\ input' = [input EXCEPT ![c] = FALSE]
  /\ UNCHANGED <<shmVars, backlog, owner, full, procVars>>

-----------------------------------------------------------------------------
ServerStep(p) ==
  ServerResumed(p) \/ Locks(p) \/ LockFails(p) \/ AcceptAgain(p) \/ Accepts(p)
    \/ Unlock(p) \/ Inc(p)

RequestStep(p) ==
  \/ RequestStarts(p) \/ Dec(p)
  \/ \E c \in Conn : RecvAgain(p, c) \/ Serves(p, c) \/ SendsRest(p, c)
                       \/ Closes(p, c) \/ SigPipe(p, c)

Process(p) == Epoll(p) \/ ServerStep(p) \/ RequestStep(p)

Client(c) == Connects(c) \/ Requests(c) \/ Reads(c) \/ Leaves(c)

Next == (\E p \in Proc : Process(p)) \/ (\E c \in Conn : Client(c))

Spec == Init /\ [][Next]_vars

\* The operating system runs every process, and a client that has not gone
\* reads its answers
FairSpec ==
  /\ Spec
  /\ \A p \in Proc : WF_vars(Process(p))
  /\ \A c \in Conn : WF_vars(Reads(c))

-----------------------------------------------------------------------------
\* The variables have the values the program can give them.
TypeOK ==
  /\ accept_mtx \in {0, 1} /\ totalfds \in [Slots -> Int]
  /\ dead \in SUBSET Proc
  /\ pc \in [Proc -> {"sched", "lock", "unlock", "inc", "dec"}]
  /\ clientfd \in [Proc -> Conn \cup {NONE}]
  /\ srv \in [Proc -> {"loop", "accept1", "accept2", "ended"}]
  /\ ready \in [Proc -> Seq(Conn \cup {SERVER})]
  /\ events \in [Proc -> SUBSET (Conn \cup {SERVER})]
  /\ backlog \in Seq(Conn) /\ owner \in [Conn -> Proc \cup {NONE}]
  /\ co \in [Conn -> {"none", "new", "recv1", "recv2", "send"}]
  /\ input \in [Conn -> BOOLEAN] /\ full \in [Conn -> BOOLEAN]
  /\ peer \in [Conn -> {"away", "up", "eof", "reset", "gone"}]

\* The processes that have taken the accept lock and not given it back
Holders == {p \in Proc : srv[p] \in {"accept1", "accept2"}}

\* lock() and unlock() exclude: the word is 1 exactly while one process, running
\* or ended by a signal, is between them, across the two waits of nty_accept,
\* in which the other coroutines of the holder run.
MutualExclusion ==
  /\ accept_mtx = 0 => Holders = {}
  /\ accept_mtx = 1 => \E p \in Holders : Holders = {p}

\* What epoll_wait reported is still so when the coroutine is resumed: accept
\* finds a connection, though all processes share the listening socket, and
\* recv and send do not fail with EAGAIN, which accept_request would take for
\* data.  The accept lock is what makes it so.
EventsFresh == \A p \in Proc \ dead : events[p] \subseteq Reported(p)

\* Connections accepted and not yet counted; the others of a slot; processes that
\* have closed one and not yet counted it off
Uncounted == {clientfd[p] : p \in {q \in Proc : pc[q] \in {"unlock", "inc"}}}
Counted(s) == {c \in Conn \ Uncounted : owner[c] # NONE /\ slot[owner[c]] = s}
Overcounted(s) == {p \in Proc : pc[p] = "dec" /\ slot[p] = s}

\* totalfds counts the connections of the processes of each slot, those of ended
\* processes included, except inside the few instructions between accept and
\* INC_COUNTFD and between close and DEC_COUNTFD: processes that share a slot
\* lose no update.
CountExact ==
  \A s \in Slots :
    totalfds[s] = Cardinality(Counted(s)) + Cardinality(Overcounted(s))

-----------------------------------------------------------------------------
\* A process that was ended while it held the lock; no server coroutine is left
DeadHolder == Holders \cap dead # {}
NoServer == \A p \in Proc : p \in dead \/ srv[p] = "ended"

\* A connection in the queue is accepted, though the lock is only tried again
\* from a queue of coroutines and held while its holder waits: unless a process
\* was ended with the lock, or accept has failed in all of them.
QueuedIsAccepted ==
  \A c \in Conn :
    (owner[c] = NONE /\ peer[c] # "away") ~>
      (owner[c] # NONE \/ peer[c] = "away" \/ DeadHolder \/ NoServer)

\* A request, or the end of a connection, is handled by its process if that
\* process takes the accept lock again and again or its server coroutine has
\* returned.  While it only tries, its queue is never empty and it never calls
\* epoll_wait: the condition is needed.
RequestsServed ==
  \A p \in Proc, c \in Conn :
    ([]<>(p \in Holders \/ srv[p] = "ended" \/ p \in dead)) =>
      /\ (owner[c] = p /\ input[c]) ~> (~input[c] \/ p \in dead)
      /\ (owner[c] = p /\ peer[c] # "up") ~> (owner[c] # p \/ p \in dead)
=============================================================================
