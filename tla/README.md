# NtyCo in TLA+

NtyCo is a coroutine library for Linux: a scheduler per thread, coroutines that
run cooperatively on it, and replacements (hooks) for the socket calls of libc
that suspend the calling coroutine instead of the thread. These modules model
the library in `src/core` and the servers in `src/sample` that coordinate
processes or hold state of their own; TLC checks them on small instances and
TLAPS proves the central results for every instance. Every definition is written from the C
code; `PROJECT.json` ("map") gives the lines of each.

## 1. Inventory

| part | source | state | operations |
|---|---|---|---|
| scheduler loop | `core/nty_schedule.c` | `ready` (TAILQ), `sleeping` and `waiting` (red-black trees), `curr_thread`, `eventlist`, `num_new_events` | `nty_schedule_run`, `_expired`, `_min_timeout`, `_epoll`, `_isdone`, `_sched_sleepdown`, `_sched_wait`, `_desched_wait`, `_search_wait`, `_create`, `_free` |
| coroutine lifecycle | `core/nty_coroutine.c` | `status`, `ops`, context, saved stack | `create`, `init`, `resume`, `yield`, `renice`, `sleep`, `detach`, `free`, `_exec` |
| shared stack | `core/nty_coroutine.c` | `sched->stack`, `co->stack`, `co->stack_size` | `_save_stack`, `_load_stack` |
| waiting for a descriptor | `core/nty_socket.c` | the interest list of the poller | `nty_poll_inner` |
| socket calls | `core/nty_socket.c` | the kernel's sockets | the hooks of `socket`, `read`, `recv`, `recvfrom`, `write`, `send`, `sendto`, `accept`, `connect`, `close`, and their `nty_` versions |
| poller | `core/nty_epoll.c` | epoll and event descriptors | `create`, `wait`, `ev_register_trigger` |
| ready queue | `core/nty_queue.h` | list pointers | `TAILQ_INSERT_TAIL`, `_REMOVE`, `_FIRST`, `_LAST`, `_EMPTY` |
| trees | `core/nty_tree.h` | tree pointers and colors | `RB_INSERT`, `_REMOVE`, `_FIND`, `_NFIND`, `_MIN`, `_NEXT`, `_PREV` |
| per-thread scheduler | `core/nty_coroutine.c` | a pthread key | `nty_coroutine_get_sched`, the constructor |
| httpd on coroutines | `sample/ntyco_httpd.c` | in shared memory a lock word and connection counts; per process a server coroutine and one per connection | `lock`, `unlock`, `INC_COUNTFD`, `DEC_COUNTFD`, `server`, `accept_request`, `serve_file` |
| httpd on epoll | `sample/nty_http_epoll.c` | the same, and an epoll instance per process | `server`, `accept_request`, `serve_file` |
| multi-core counters | `sample/nty_server_mulcore.c`, `nty_http_server_mulcore.c` | a total, a lock word and a time in shared memory | `cmpxchg`, `add_shmvalue`, `sub_shmvalue`, `lock_accept_mutex`, `unlock_accept_mutex`, `server`, `server_reader` |
| http server | `sample/nty_http_server.c` | the request of each connection | `server`, `accept_request`, `get_line`, `serve_file`, `cat`, `not_found`, `unimplemented` |
| other samples | `sample/*.c` | none to coordinate | echo servers, load generator, database clients, WebSocket server, benchmark |

How they interact. One thread runs everything, so there is no lock. A body calls
a hook; the hook calls `nty_poll_inner`, which registers the descriptor with
epoll, puts the coroutine into `waiting` and yields to the loop. The loop has
three stages: it resumes the coroutines whose timers are due, makes one pass
over the ready queue, and asks epoll, which finds the coroutine by descriptor
and resumes it *inside* the loop over the events. The coroutine resumed there
runs its body, which may poll, close, create, requeue or return before the next
event of the same batch is handled. The multi-process samples fork one scheduler
(or one epoll loop) per processor; their processes meet in the listening socket
and in System V shared memory, through locked instructions only.

What is hard:

* **Structures that other coroutines change while one is suspended.** The events
  of a batch, `last_co_ready`, the waiter of a descriptor and the old deadline
  of a coroutine are all read in one step and used several switches later.
* **Missing tests.** `nty_schedule_search_wait` and `nty_schedule_desched_wait`
  dereference what `RB_FIND` returned; `RB_INSERT` into `waiting` is followed by
  an assert; the result of `epoll_ctl` is ignored.
* **Status bits.** Waiting for output sets `WAIT_READ` (bit 0), waiting for
  input nothing, and an event clears everything, `SLEEPING` included: a timer
  stays in the tree although the coroutine was resumed by its descriptor.
* **Time.** Deadlines double as keys of a tree; the timeout passes through a
  `timespec` that drops milliseconds and through an `int` that a long sleep
  leaves; `EINTR` starts the timeout over; stage 1 reads the clock again for
  every coroutine it resumes.
* **Partial results.** Short sends, resets after part of the data, connections
  taken by another process between the event and `accept`, no descriptor left,
  calls woken by a stale timer.
* **One stack.** Every coroutine of a thread runs at the same addresses; the
  bytes are copied out and in at each switch.
* **Processes.** A lock word without an owner, held across waits, in a process
  that a signal can end; counts kept in steps of their own; a compare and
  exchange wider than its operand.
* **Progress.** Coroutines that requeue themselves, passes that grow while they
  run, epoll that is asked only when the ready queue is empty.

`PROJECT.json` ("hazards") lists them line by line with the properties that
would show them going wrong.

## 2. Modules

| module | models |
|---|---|
| `NtyTimer` | the time arithmetic: deadlines, remaining time, `timespec`, milliseconds in an `int` |
| `NtyScheduler` | scheduler loop, coroutine lifecycle, `nty_poll_inner`, epoll and the clock |
| `NtySocket` | the socket calls, composed with `NtyScheduler`, over a model of the kernel's sockets |
| `NtyCoreProofs` | the inductive invariants and theorems of `NtyScheduler` and `NtySocket` |
| `NtyStack`, `NtyStackProofs` | `_save_stack`, `_load_stack` and the shared stack |
| `NtyTailQueue`, `NtyTailQueueProofs` | the TAILQ macros, pointer by pointer |
| `NtySwitch` | the ready queue and the shared stack together |
| `NtyOrderedSet` | what a tree promises: a set with distinct keys |
| `NtyRBTree`, `NtyRBTreeProofs` | the RB macros, one loop iteration per step, implementing `NtyOrderedSet` |
| `NtyHttpd`, `NtyHttpdProofs` | `sample/ntyco_httpd.c`: processes, accept lock, counts, coroutines |
| `NtyHttpEpoll`, `NtyHttpEpollProofs` | `sample/nty_http_epoll.c`: the same server on epoll itself |
| `NtyMulcore`, `NtyMulcoreProofs` | the shared memory of the two multi-core samples |
| `NtyHttpServer`, `NtyHttpServerProofs` | `sample/nty_http_server.c`: request handling |
| `MC...` | instances for TLC: symmetry sets, sets too long for a `.cfg`, a second initial tree |

### NtyScheduler

The variables carry the names of the fields. `ready` is a sequence, `sleeping`
and `waiting` are sets of nodes with the key in `sleep_usecs` and `fd`;
`NtyTailQueue` and `NtyRBTree` justify that. `frame[c]` is where the context of
`c` stands: never started, in its body, suspended after it entered the ready
queue, or suspended inside `nty_poll_inner`. `phase` is the control point of
`nty_schedule_run`; `pending` is what is left of `eventlist`. `open`, `epollset`
and `rdy` are the kernel's and marked external in the map.

A body is any sequence of library calls. Nothing but a yield lets anyone else
run, so a call is one action up to the yield inside it: `Poll` is
`nty_poll_inner` up to its yield with `nty_schedule_sched_wait`, `PollEnd` the
rest with `nty_schedule_desched_wait`. `Yield` includes what follows in
`nty_coroutine_resume` and in the ready loop (the test for `last_co_ready`),
`Exit` the freeing done there. `Resume` builds a context for a `NEW` coroutine
and otherwise continues at `frame`. The loop is `Check`, `Expire`,
`NoneExpired`, `TakeReady`, `NoneReady`, `EpollCall`, `EpollReturn`, `Event`,
`NoMoreEvents`. `Tick`, `KernelReady` and `Interrupt` happen at any time. A
failed assert or a null dereference ends the process and is recorded in `fault`.

All callers of `nty_poll_inner` pass one descriptor and timeout 1; since
`nty_schedule_sched_wait` arms no timer for timeout 1, it does not time out, and
the model has no poll with a timeout.

The milliseconds that `nty_epoller_wait` computes as a `double` become an `int`:
above `IntMax` the conversion gives `INT_MIN` on x86, and `epoll_wait` then
blocks until there is an event (`EpollMsecs`, `Deaf`). `IntMax` is a constant;
it holds the default timeout (`IntAssumption`).

**Obligations.** The library does not check three things and relies on its
callers. They are the constant `Misuse`, and a run says which of them bodies may
break:

* `shareFd`: use a descriptor on which another coroutine waits;
* `armedTimer`: return, or requeue itself, with its own timer armed;
* `badFd`: wait on a descriptor that epoll refuses.

The safety properties and the theorems hold for `Misuse = {}`, and each
obligation is needed. With `shareFd` in `Misuse`, `AssertsHold` fails: `waiting`
is keyed by descriptor alone, and a coroutine that writes to a connection on
which another waits to read runs into `assert(co_tmp == NULL)`. With `badFd`,
`RegistrationMatchesWaiters` fails: `nty_poll_inner` ignores the result of
`EPOLL_CTL_ADD` and yields all the same, so a hooked `read` of a regular file
never returns. With `armedTimer`, `OnePlace` fails: `nty_coroutine_sleep(ms)`
with `ms > 0` arms the timer and returns at once (`nty_schedule_sched_sleepdown`
ends with the comment `//yield`, and nothing yields), and a body that returns
then leaves its freed block in `sleeping`.

### NtySocket

`call[c]` is the stack of activations of the call `c` is in. Inside this program
the `nty_` functions call `send`, `recv` and so on, which are the hooks, so that
an `nty_` call is two activations, each with its own `nty_poll_inner`. `After`
is what an activation does with a result: return it, go round its loop again, or
reach `assert(0)`; `Deliver` hands the result of a system call to the hook, and
the result of the hook to the `nty_` function. `read` and `write` have the code
of `recv` and `send` and are not repeated. `sendto` and `recvfrom` are made on
streams too, where a `sendto` may be partial. Data are counted in units of which
a socket buffer holds `Cap`. The system calls, the peers and the reports of epoll
are external; an event is reported only if the socket has one for the direction
asked for. `Errnos` are the errors the network may leave on a socket, any but
the ones that the kernel gives for other reasons. A listener that `main` opens
before there is a scheduler keeps its blocking mode, one that a coroutine opens
does not. Bodies call `send` and `recv` on streams only.

### NtyStack

Positions count from the top of `sched->stack`, which grows down in the code and
up in the model. `own[c]` is a history variable: what `c` has on its stack by
its own calls, returns and assignments. `arg`, `given` and `read` follow an
argument passed by address. The coroutine being started has one word; the
default build (`_USE_UCONTEXT`) is modelled.

### NtyTailQueue and NtyRBTree

The address of a `next` field is written as the element that holds it, and
`HEAD` is the address of the head, so that the double dereference of
`TAILQ_LAST` (an element read as if it were a head) is a computation of the
model. `q` is a history variable.

`NtySwitch` puts the queue and the stack together: a coroutine is created into
the queue, resumed from its head (stage 2) or by a timer or an event (stages 1
and 3), and when it yields it enters the queue or not. Each of its actions is an
action of `NtyStack`, with one of `NtyTailQueue` or with the queue unchanged.

In `NtyRBTree` each iteration of `RB_INSERT`, `RB_INSERT_COLOR`, `RB_REMOVE`,
`RB_REMOVE_COLOR`, `RB_FIND` and `RB_MIN` is a step. `RB_NEXT`, `RB_PREV` and
`RB_NFIND`, which only read, are operators compared with their meaning in
`Iterates`. The left and the right half of each fixup are one definition with a
side as its parameter.

### NtyHttpd and NtyHttpEpoll

A process is between two accesses to shared state at `pc[p]`; everything it does
on its own between two of them is one action. `NtyHttpd` composes this with the
scheduler as `NtyScheduler` has it: `events[p]` is what is left of the last
batch, `ready[p]` the queue, and epoll is asked only when both are empty. Each
`nty_accept` and `nty_recv` waits twice (in the `nty_` function and in the hook
it calls), and the lock is held all the time. Clients connect, ask, read, close
and reset. A send to a connection whose error was taken raises SIGPIPE, which
nothing handles: the process ends and the shared memory stays as it is. That is
how a lock is left taken.

`totalfds` has `TOTALFDS` (16) entries and is indexed by `self_id % cpu_size`;
nothing bounds the number of processors. `SlotsAssumption` does, here: with more
than 16 the count of slot 16 to 19 is a field of `cpu_lb`, slot 20 is
`accept_mtx` itself, and slot 21 the word behind it, which the eight-byte
exchange of `lock` compares with 0. Everything said of these two samples is
said of machines with at most sixteen processors.

In `NtyHttpEpoll` an event is reduced to the branch of `server` it takes.
`armed[c]` is the registration: `in` and `out` are one-shot, `level` is what
`server` arms after an answer. A failed `accept` other than `EAGAIN` returns
from `server` and ends the process.

What the properties say of this code, as it is: `RequestsServed` has a premise,
that the process takes the lock again and again, because a process that loses
spins with `nty_coroutine_sleep(0)`, its ready queue is never empty and its
epoll is not asked. `QueuedIsAccepted` excepts a process ended with the lock.
`CountIsConnectionsLessAnswers` has its name because `nty_http_epoll.c` does
`DEC_COUNTFD` for an answer and again for the close. An answer to a full buffer
is cut there, as the code sends once.

### NtyMulcore

`shm` is three words: the total, the lock and the low word of `tv_begin`. The
instruction emitted for size 4 has an eight-byte operand, so it compares and
writes the word behind its address too. For the total this is harmless while it
does not go below zero and the lock word behind it is 0 (`TotalExact`). For the
lock it means that no exchange ever stores, as the seconds are not zero, and
every caller of `lock_accept_mutex` is told 0, which its comment calls success
(`return ret; //success 0, failed 1.`, `nty_http_server_mulcore.c:833`): as
written, the lock excludes nobody. Nothing calls it today, so this is no run of
its own; the theorem `LockStaysFree` states it, since the count rests on it. An
`int` is one of `-Half..Half - 1` (`Half` is 2^31 in the build), and the total is
the size of a set with a member for each coroutine that a process has counted.

### NtyHttpServer

`phase[c]` is where the coroutine of a connection waits: in the first `nty_recv`,
in `get_line` before a byte (`line`), before the peek after a CR (`peek`) and
before the read of the peeked LF (`take`), in a send. A request is one element of
the stream, of which the first `nty_recv` takes all that has come; later bytes
are CR, LF or another, since `get_line` tells no more apart. A page is the
`Pieces` that `fgets` cuts it into, and what ends the last one: a newline or a
full buffer (`whole`, after which `feof` is false), or the end of the file
(`cut`); or it is empty. `waits[c]` is a send that has found no room: it goes on
when the client reads or leaves, and a client need not read. A failed `accept`,
for want of a descriptor or because the client has reset in the queue, a file
that cannot be opened (`fclose(NULL)`) and a send to a connection whose reset was
already reported (SIGPIPE) end the process.

The exceptions that `Finishes` lists are paths of the code: a client that stops
reading keeps its coroutine in `nty_send` for good (`nty_socket.c:238-244` waits
without a timer), an unknown method returns without `close`, a missing page waits
for headers, and the process can end.

## 3. Runs

Run one with `tlc -workers 2 -config <cfg> <module>`.

| run | instance | states | shows |
|---|---|---|---|
| `switching` (`Sched.cfg`) | 4 coroutines, 3 descriptors, signals, all calls but the timed sleep | 1.6 M | `OnePlace`, `NothingLeft`, `RegistrationMatchesWaiters`, `AssertsHold`, `ContextKept`, `EofNeverQueued`, `PassBounded` |
| `liveness` (`Live.cfg`) | 2 coroutines, a clock that never stops; deadlines that collide, off the millisecond, past a second and past the `int` | 668 k | `EpollNeverOversleeps`, `TimersNotStolen`, `ReadyRuns`, `IoServed`, `SleeperWakes` |
| `tree` (`RBTree.cfg`) | 10 nodes, two with one key | 402 k | `SearchTree`, `Balanced`, `NoNullFollowed`, `Iterates`, `ImplementsOrderedSet` |
| `socket_sending` (`SockSending.cfg`) | 1 coroutine, a stream and a datagram socket, stale timers, resets and refusals | 5.4 M | `SendExact`, `NoSpuriousFailure`, `AbortsOnlyOnOtherErrors` |
| `socket_serving` (`SockServing.cfg`) | 2 coroutines, 2 listeners, 1 stream, a second process | 129 k | `NoSpuriousFailure`, `ThreadNeverBlocks`, `CallsReturn` |
| `memory` (`Memory.cfg`) | 3 coroutines, depth 3, in and out of the ready queue; 2 processes, 3 readers each, 16 values of an `int` | 896 k | `StackIntact`, `Linked`, `LastIsTail`, `TotalExact` |
| `httpd` (`Httpd.cfg`) | 2 processes in one slot, 2 connections | 61 k | `MutualExclusion`, `EventsFresh`, `CountExact`, `QueuedIsAccepted`, `RequestsServed` |
| `http_epoll` (`HttpEpoll.cfg`) | 2 processes in one slot, 2 connections, 2 requests | 290 k | `BatchFresh`, `CountIsConnectionsLessAnswers`, `QueuedIsAccepted`, `Handled` |
| `http_server` (`HttpServer.cfg`) | 2 connections, 2 descriptors, pages of 2 pieces, 3 header bytes, a buffer of 3 characters | 391 k | `GetLineKept`, `PageSent`, `Finishes` |
| `stack_argument` (`StackArg.cfg`) | 2 coroutines, depth 2 | violation | `ArgumentSurvives` fails |
| `socket_abort` (`SockAbort.cfg`) | 1 coroutine, `ECONNREFUSED` | violation | `NoAbort` fails |
| `http_page` (`HttpPage.cfg`) | 1 connection, pages of 2 pieces | violation | `WholePageSent` fails |

Why the bounds are enough. Blocks (`Co`) are reused after they are freed, so
four of them give behaviours with any number of coroutines, at most four at a
time: one runs, one waits with its event still in the batch, one is last in the
ready pass, one is created or freed meanwhile. In the runs with timers `Fd` has
as many members as `Co`, so a body with an armed timer can always wait on a
descriptor nobody else has, as its obligations demand. `Instants` holds the
clock readings of `liveness`: 700 leaves 300 microseconds to a deadline (less
than epoll's unit). `IntMax` is 3000 there, the least that holds the default
timeout, so that a sleep of 4001 ms passes through the branch of the `timespec`
that drops the milliseconds and is more than the `int` holds. The clock must not
stop in a run about liveness: when it has reached the last of `Instants` and no
armed timer is due, `Rebase` (`MCNtyScheduler`) moves the origin of time there,
which shifts the clock, the deadlines and the start of `epoll_wait` alike, and
time goes on. What needs more coroutines than two with timers is proved
(section 4).

A tree that grows from empty climbs twice in `RB_REMOVE_COLOR` only from ten
keys on, so `tree` also starts from the perfect black tree of seven nodes, in
which every removal climbs to the root. Nine different keys are enough for a
second iteration of `RB_INSERT_COLOR` that rotates around non-empty subtrees.

`socket_sending` has one coroutine: what two coroutines do to each other goes
through the scheduler, and they cannot use a descriptor at the same time.
`Lengths` 3 with `Cap` 2 makes sends partial, and a reset may fall between the
parts. Its `Errnos` are one that `sendto` and `recvfrom` tolerate and one on
which they abort.

In the two httpd runs one process has a descriptor for one connection and the
other for two, so that `accept` fails in one and not in the other; both count in
one slot; connections are made again after they are closed, so two descriptors
give batches with a closed and reused one. `MaxRequests` bounds the answers that
are counted off.

`memory` has two models that have nothing in common, and lets one of them move
(`MCNtyMemory`). Three coroutines are the one that runs, the one that ran before
on the same words, and one deeper or shallower; with three in the queue there is
a first, a last and one between. Of two processes one can finish an addition and
a subtraction between the read and the exchange of the other; six readers fit in
the positive half of a word of 16 values, and `Period` 3 sets the time on the
way.

In `http_server`, a buffer of three characters is filled by the bytes sent, two
descriptors are used up by two connections or by one and its page, and pages of
two pieces have a last piece and one that is not. The processes of both httpd
runs and of `http_server` can end, so deadlock is not checked in them.

### Fairness

`Fairness` is weak fairness of the loop, of the end of `nty_poll_inner` and of
`Tick`, which is that the thread keeps running and time passes, and of
`BodyYields`: a body does not run for ever without a call that yields. The last
is the contract of cooperative scheduling and no property of the code; without
it nothing can be said of any other coroutine. `EndlessSpec` adds fairness of
`Rebase`, that time goes on.

The premises of the properties are what the code does not give. `IoServed`: the
ready queue runs empty again and again. `nty_schedule_epoll` asks for events only
then, so bodies that requeue themselves for ever starve the waiters. `ReadyRuns`:
stage 1 ends again and again. `nty_schedule_run` takes due timers one by one and
`nty_schedule_expired` reads the clock each time (lines 325 and 250), so a body
that arms a timer of 1 ms, works that long and polls is due again when it yields,
and the queue is never looked at; without the premise TLC finds this loop.
`SleeperWakes` excepts a loop that stays in an `epoll_wait` with a negative
timeout (`Deaf`); without the exception TLC finds the sleep of 4001 ms.

`FairSocket` adds fairness of each coroutine's steps in a call, of bodies going
on to another call or returning, of epoll reporting, and of the peer reading,
sending and completing a connection. `CallsReturn` excepts behaviours in which
another process takes connections for ever.

In the server modules every process that has a step to take takes one: the
operating system runs it. Clients of the two httpd modules read what they are
sent; those of `http_server` need not, and `Finishes` excepts the connection of
one that stops. Nobody is assumed to connect, ask or leave.

### What the violations are

`stack_argument`: samples pass the address of a local to
`nty_coroutine_create`. On the shared stack that address belongs to whoever
runs, and the new coroutine reads its own words there.

`socket_abort`: `recvfrom`, `sendto` and `nty_sendto` reach `assert(0)`
(`nty_socket.c:458`, `:556`, `:277`) on every errno but `EAGAIN` and
`ECONNRESET`. A datagram socket whose peer is not there reports `ECONNREFUSED`,
and the process ends with all its coroutines. That no other errno and no other
path does it is `AbortsOnlyOnOtherErrors`, in `socket_sending`.

`http_page`: the comment of `cat` says `Put the entire contents of a file out on
a socket` (`nty_http_server.c:237`). It tests `feof` after `fgets` and before
`nty_send`, so a last piece that the end of the file ends is read and not sent.
That nothing else is lost is `PageSent`, in `http_server`.

Two more limits that the passing runs state as they are. A stale timer wakes a
socket call before its descriptor is ready, and the body then gets `EAGAIN`
(`NoSpuriousFailure` excepts it, with the field `early`). And `nty_sendto`, when
a reset follows a part it has sent on a stream, returns the 0 of the failure and
not its count (`SendExact` excepts it, with `CountLost`); `send` and `nty_send`
return the count.

## 4. Proofs

`tlapm` checks eight modules. Every invariant that a passing run checks is a
theorem.

**NtyCoreProofs, the scheduler.** Assumptions: `ConstantAssumption`, and `Misuse = {}`
for everything after type correctness. The properties of the `switching` run are
not inductive one by one: `AssertsHold` needs that an event of the batch has a
waiter other than the running coroutine, this needs that registrations and
waiters agree, this needs that a coroutine is in `waiting` exactly while
its context stands in `nty_poll_inner`. The invariant is

    Inv == TypeOK /\ OnePlace /\ NothingLeft /\ RegistrationMatchesWaiters
           /\ EventsHaveWaiters /\ AssertsHold /\ StatusSound /\ LoopSound
           /\ PassBounded /\ TimerKeysDistinct

`StatusSound` says which status bits a coroutine can have in each frame (so a
suspended coroutine never carries `NEW`, a queued one never `FDEOF`, and the
bits that `nty_schedule_sched_wait` asserts on are clear whenever a body runs);
`LoopSound` says which phases go with which variables of the loop. The proof has
one lemma per action. Theorems:

| theorem | establishes |
|---|---|
| `TypeCorrect` | `TypeOK`, with any `Misuse` |
| `Invariance` | `Inv` |
| `OnePlaceHolds` | no coroutine is lost, duplicated or dangling |
| `NothingLeftHolds` | the loop ends only when every coroutine was freed |
| `EventsFindWaiters` | no event of a batch is without its waiter |
| `NoFault` | no assert and no null dereference is reached |
| `StatusHolds`, `EofNeverQueuedHolds` | contexts are kept, hang-ups never reach the ready queue |
| `PassBoundedHolds` | `last_co_ready` is still ahead in every pass |
| `TimersKept` | an action property: no timer is taken out by another's sleep |
| `EpollRoundsDown` | the timeout in milliseconds is never more than the time asked for, and negative exactly when the `int` does not hold it (`IntAssumption`) |
| `NeverOversleeps` | the timeout handed to epoll ends no later than the earliest deadline, but for one more than `IntMax` milliseconds away |

**NtyRBTreeProofs.** Assumption: `KeyAssumption` (there are finitely many nodes;
a key is any integer, and two nodes may share one). The invariant is

    RBInv == TreeOK /\ CallOK /\ WalkOK /\ RemoveOK /\ ColorOK
             /\ HeightsOK /\ RedsOK /\ RootOK

* `TreeOK`: with `D[n]` the nodes from `n` down, the keys are in order and the
  links down and up agree. It says more than `SearchTree`: what is below a node
  has its parent there too, and a node outside has no links, which is what lets
  a rotation at one node be seen to leave the others alone;
* `CallOK`: which call a loop belongs to, and whether its node is inside;
* `WalkOK`: the walk down has left nothing aside that has the key sought, and
  the key belongs where the walk is; this is why the new leaf keeps the order;
* `RemoveOK`: what is below the right kid of the node to remove and not below
  `cur` is greater than `cur`, so that the walk ends at the successor;
* `ColorOK`: where the loop of a rebalancing stands;
* `HeightsOK`: there is a number for each node, the black nodes on every path
  down from it, counting one as present below `par` on the side of `cur` while
  `RB_REMOVE_COLOR` runs. `Balanced` counts along paths from the root, which no
  rotation leaves alone; a height is a matter of one node and its kids, and a
  rotation changes two;
* `RedsOK`, `RootOK`: a red node has a red parent, and the root is red, only
  where the loop is at work.

The `...Shape` lemmas follow a rotation, a new leaf, a splice and the exchange with
the successor through `TreeOK`; the `...Heights` and `...Reds` lemmas follow the
changes of color, alone or with a rotation, through the rest. Each case of the
two rebalancing loops is then one of these or two in a row. An induction over
the tree takes a lowest or highest node of a set of counterexamples, which
exists as the set is finite (`Lowest`, `Highest`). What the recursive functions
(`Subtrees`, `EdgeFrom`, `Climb`, `NFind`) return is proved the same way: a
function with the wanted values satisfies their equation, and no other does,
since the lowest node where two differ would have kids where they agree.

| theorem | establishes |
|---|---|
| `Invariance` | `RBInv` |
| `AlwaysSearchTree` | order and links, also in the middle of a rebalancing |
| `AlwaysBalanced` | the red-black conditions, and what a loop may still lack |
| `NeverNullFollowed` | pointers read without a test are not null |
| `ActsAsOrderedSet` | every step is a step of `NtyOrderedSet` or a stutter |
| `AlwaysIterates` | `RB_NEXT`, `RB_PREV` and `RB_NFIND` find the right node |

`ActsAsOrderedSet` is `ImplementsOrderedSet` without its liveness conjunct, that
every call returns. It needs from the invariant that a call returns what `WalkOK`
has led to, and that the nodes in the tree change in the one step that attaches
or splices, which the refinement mapping (`Members`) shows at the return.

**NtyTailQueueProofs.** `QueueLinked`, `SequenceRepresented`: the pointers
represent the sequence, for any number of elements, and `TAILQ_LAST` is its
last. The invariant adds that no element is twice in the queue.

**NtyStackProofs.** `StackKept`: `StackIntact` for any number of coroutines, any
depth and any words. The invariant adds that what a suspended coroutine saved is
what it owns, in reverse, and that only `curr` runs. `SwitchIsBoth`: a step of
`NtySwitch` is a step of the stack and of the queue, or leaves one alone, so
these theorems hold of the two together (`SwitchAssumption`: the elements of the
queue are the coroutines).

**NtyHttpdProofs.** Assumptions: `HttpdAssumption`, `SlotsAssumption` (the slots
are entries of `totalfds`: at most sixteen processors). `LockExcludes`
(`MutualExclusion`) and `EventsStayFresh` (`EventsFresh`), for any number of
processes and connections. Neither is inductive: an accept event stays fresh
only because nobody else accepts, the lock excludes only if a server coroutine
that is about to try it is not also in `nty_accept`, and a connection's events
are its own only if a queued, an accepted and a waiting connection are different
ones. The invariant is

    Inv == TypeOK /\ Exclusive /\ EventsFresh /\ Control /\ Queues /\ Backlog
           /\ Accepted /\ Unowned

with `Exclusive` the lock process by process, `Control` where a server coroutine
is for each `pc`, `Queues` and `Backlog` that a queue holds nothing twice and
nothing that is elsewhere, and `Accepted` and `Unowned` that a connection without
a coroutine is the one just accepted or nobody's.

`CountsExact` (`CountExact`) comes from this invariant: a connection between
`accept` and `INC_COUNTFD` is one process's, so an increment adds one connection
to one slot and a close moves one from the connections of the slot to the
processes about to count it off. Cardinalities are of finite sets, so
`HttpdAssumption` says that `Proc` and `Conn` are finite.

**NtyHttpEpollProofs.** Assumptions: `EpollAssumption` (`Proc` and `Conn` are
finite), `SlotsAssumption`. `BatchStaysFresh` (`BatchFresh`): handling an event touches its own
connection alone (`OthersFresh`), and no other event of the batch is about it
(`OneEvent`); a connection in the listening queue belongs to no batch
(`Backlog`). The lock is not needed for it: each process has its own epoll
instance. `CountsKept` (`CountIsConnectionsLessAnswers`) needs in addition
`Arrivals`: what `accept` has just returned is a connection of the process
itself, so that two processes never count the same one.

**NtyCoreProofs, the socket calls.** Assumptions: `ConstantAssumption`, `SocketAssumption`
(bodies may open and poll descriptors: `{"poll", "socket"} \subseteq Api`) and
`Misuse = {}`. The proof builds on that of the scheduler: a step of a call is a
step of the scheduler, whose invariant is kept, or leaves the scheduler alone.
The invariant is

    Whole == SockInv /\ (Inv \/ fault = "errno")

where `SockInv` says, coroutine by coroutine, of the call it is in:

* `ShapeOK`: it is one activation, or an `nty_` function and its hook, on a
  descriptor of the kind of the call; only `send` tries before it waits;
* `PlaceOK`: its coroutine runs or waits on the descriptor of the call, which is
  open; `Apart` adds that no other call is on it;
* `SentOK`: what the two activations have added up is what the kernel took. The
  hook has been asked for what its caller has left (`LengthOf`), so a short
  `send` of the hook, counted in both, would break it;
* `WokenOK`: unless a timer woke the coroutine (`early`), its event has come
  when epoll has it, and is still there at the system call: nobody else reads
  from, fills or closes the descriptor in between, which is where `Apart` is
  used;

and `NetOK` that every descriptor opened under the scheduler has `O_NONBLOCK`,
and that a datagram socket is never unconnected or broken. After a datagram call
has reached `assert(0)` the process is gone, hence the disjunct. Theorems:

| theorem | establishes |
|---|---|
| `SocketInvariance` | `Whole` |
| `SendExactHolds` | what the sending calls return is what the kernel took, on streams and datagram sockets, but for `CountLost` |
| `NoSpuriousFailureHolds` | no `EAGAIN`, `EALREADY` or short send without cause |
| `ThreadNeverBlocksHolds` | only `accept` on a listener of `main` can block the thread |
| `AbortsOnlyOnOtherErrorsHolds` | an assert is reached only in a datagram call that was told an errno other than `EAGAIN` and `ECONNRESET`, whatever `Errnos` has |

**NtyMulcoreProofs.** Assumption: `MulcoreAssumption` (an `int` can count all
readers). `TotalsExact` (`TotalExact`) and `LockStaysFree` (no exchange of the
lock word stores, and every caller is told 0) need each other: the exchange of
the total also compares the lock word with 0 and writes it, so the loop's test
of the total alone is enough only while the lock is free (`Memory`), and the
lock word stays 0 only while the total is never exchanged for a negative one. A
process that subtracts has counted a reader (`Bounded`), so the total is
positive then.

**NtyHttpServerProofs.** `LinesKept` (`GetLineKept`) and `PagesSent`
(`PageSent`) speak of the end of `get_line` and of `cat`, for any size of the
buffer, any page and any bytes. `LineInv` says what holds while `get_line`
waits: all bytes read are stored, and after a CR all but it, and between the
peek and the read the LF is still there unless the client has left. `CatInv`
says where `cat` stands: what was read is sent but for the last piece.

Only model-checked: everything under fairness (TLAPS does not reason about
`ENABLED` here), which includes that every call on a tree returns.

## 5. Not modelled

* The assembler `_switch` (register saving; the default build uses `ucontext`),
  allocation failures (the process exits), `nty_schedule_cancel_wait` (no
  caller), the eventfd of the poller (registered, never written), the other
  macros of `nty_queue.h` and the splay trees (no user).
* The clock is monotonic in the model; `gettimeofday` is not, and the
  distinctness of timer keys depends on it. After `EINTR` `epoll_wait` starts
  its whole timeout over: with `Signals` the structures are checked, the delay is
  not.
* `fcntl` on a fresh socket does not fail (if it did, the code would close -1
  and leak the socket), and hooks are called by coroutines only (called by
  `main` between `nty_coroutine_create` and `nty_schedule_run` they dereference
  a null `curr_thread`).
* The per-thread key: its constructor runs at load time and again from
  `pthread_once`, so a scheduler made by hand before the first
  `nty_coroutine_create` is lost; no sample does that.
* In the samples: the balancing functions of `ntyco_httpd.c` and
  `nty_http_epoll.c` (no caller), `execute_cgi` (never called, as `cgi` is set to
  0), the pages, WebSocket framing (byte layout), the database clients and the
  load generator (calls in sequence, no state of their own), the benchmark (a
  client that is a program of its own). The loops of the echo servers are bodies
  of `NtySocket`.
