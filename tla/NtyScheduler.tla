---------------------------- MODULE NtyScheduler ----------------------------
(***************************************************************************)
(* The scheduler and the coroutines of one thread: nty_schedule.c and      *)
(* nty_coroutine.c, with nty_poll_inner of nty_socket.c, the one place     *)
(* where a coroutine blocks on a descriptor.                               *)
(*                                                                         *)
(* One thread runs everything, so at most one coroutine (curr) is running; *)
(* while curr = NIL the loop of nty_schedule_run is, at the point named by *)
(* phase.  A coroutine body is any sequence of the library calls in Api;   *)
(* between two switches it touches no state another thread could see, so   *)
(* a call is one action up to the yield inside it.  The kernel (descriptor *)
(* readiness) and the clock move between any two actions.                  *)
(***************************************************************************)
EXTENDS NtyTimer, Sequences, FiniteSets

CONSTANTS
  Co,        \* the blocks calloc can return for a coroutine (freed ones are reused)
  Fd,        \* file descriptors
  NIL,       \* the null pointer, and the fd -1
  Msecs,     \* the non-zero arguments of nty_coroutine_sleep
  Instants,  \* the clock readings considered (bounds time)
  Api,       \* the calls the coroutine bodies make
  Misuse,    \* the obligations of a body that bodies may break
  Signals    \* can a signal interrupt epoll_wait (EINTR)?

ApiCalls == {"create", "sleep0", "sleep", "renice", "detach", "poll", "socket"}

\* "shareFd": use a descriptor that another coroutine is waiting on.
\* "armedTimer": return, or queue itself, while its own timer is armed.
\* "badFd": use a descriptor epoll_ctl refuses (closed, or a regular file).
Obligations == {"shareFd", "armedTimer", "badFd"}

ASSUME ConstantAssumption ==
  /\ NIL \notin Co /\ NIL \notin Fd
  /\ Msecs \subseteq Nat \ {0}
  /\ Instants \subseteq Nat /\ 0 \in Instants
  /\ Api \subseteq ApiCalls
  /\ Misuse \subseteq Obligations
  /\ Signals \in BOOLEAN

VARIABLES
  now,         \* gettimeofday() - sched->birth
  fault,       \* the assert or null dereference that ended the process
  live,        \* the coroutine blocks allocated and not freed
  status,      \* co->status, as the set of its bits
  frame,       \* where the context of co stands: see Frames
  ops,         \* co->ops
  ready,       \* sched->ready, a TAILQ
  sleeping,    \* the nodes of sched->sleeping, a tree keyed by sleep_usecs
  sleep_usecs, \* co->sleep_usecs
  waiting,     \* the nodes of sched->waiting, a tree keyed by fd
  fd,          \* co->fd
  curr,        \* sched->curr_thread
  phase,       \* the control point of main and of nty_schedule_run
  lastReady,   \* last_co_ready of the current pass over the ready queue
  pending,     \* the descriptors of eventlist[0 .. num_new_events-1]
  epollSince,  \* when the pending epoll_wait call was made
  epollUsecs,  \* the timeout of that call, negative for none
  open,        \* kernel: the open descriptors
  epollset,    \* kernel: the interest list of sched->poller_fd
  rdy          \* kernel: the members of epollset with an event to report

coVars     == <<live, status, frame, ops>>
timerVars  == <<sleeping, sleep_usecs>>
waitVars   == <<waiting, fd>>
loopVars   == <<curr, phase, lastReady>>
epollVars  == <<pending, epollSince, epollUsecs>>
kernelVars == <<open, epollset, rdy>>
vars == <<now, fault, coVars, ready, timerVars, waitVars, loopVars,
          epollVars, kernelVars>>

Flags == {"WAIT_READ", "WAIT_WRITE", "NEW", "READY", "EXITED", "SLEEPING",
          "FDEOF", "DETACH"}

\* "none": no such coroutine; "start": created, its context not built yet;
\* "body": running; "requeue": suspended after entering the ready queue;
\* "poll": suspended in nty_poll_inner, between sched_wait and desched_wait.
Frames == {"none", "start", "body", "requeue", "poll"}

Phases == {"main", "check", "expired", "ready", "epoll", "blocked", "events",
           "done"}

Faults == {"none", "wait_state", "wait_insert", "search_wait", "desched_wait", "errno"}

Init ==
  /\ now = 0 /\ fault = "none"
  /\ live = {}
  /\ status = [c \in Co |-> {}]
  /\ frame = [c \in Co |-> "none"]
  /\ ops = [c \in Co |-> 0]
  /\ ready = << >>
  /\ sleeping = {} /\ sleep_usecs = [c \in Co |-> 0]
  /\ waiting = {} /\ fd = [c \in Co |-> NIL]
  /\ curr = NIL /\ phase = "main" /\ lastReady = NIL
  /\ pending = {} /\ epollSince = 0 /\ epollUsecs = 0
  /\ open = (IF "socket" \in Api THEN {} ELSE Fd)
  /\ epollset = {} /\ rdy = {}

\* TAILQ_INSERT_TAIL and TAILQ_REMOVE of the first element, on sched->ready
EnqueuedFirst(c) == <<c>> \o ready \* mutant: TAILQ_INSERT_HEAD
Enqueued(c) == Append(ready, c)
DequeuedNot == ready \* mutant: the TAILQ_REMOVE is missing
Dequeued == Tail(ready)

Queued == {ready[i] : i \in 1..Len(ready)}

\* RB_FIND(waiting, fd) and RB_FIND(sleeping, co): the nodes with that key
WaitersOn(f) == {c \in waiting : fd[c] = f}
SameDeadline(c) == {d \in sleeping : sleep_usecs[d] = sleep_usecs[c]}

\* RB_MIN(sleeping)
FirstSleeper ==
  {c \in sleeping : \A d \in sleeping : sleep_usecs[c] <= sleep_usecs[d]}

-----------------------------------------------------------------------------
(* Context switches.                                                       *)

\* nty_coroutine_resume, up to the switch into c, whose status is st: a NEW
\* coroutine gets a fresh context (nty_coroutine_init) and status, any other
\* its saved stack, which continues where frame[c] says.
InitStatusOred(st) == st \cup {"READY"} \* mutant: |= for = in nty_coroutine_init
InitStatus(st) == {"READY"}

Resume(c, st) ==
  /\ curr' = c
  /\ status' = [status EXCEPT ![c] = IF "NEW" \in st THEN InitStatus(st) ELSE st]
  /\ frame' = [frame EXCEPT ![c] = IF @ = "poll" THEN "poll" ELSE "body"]

\* nty_coroutine_yield, the end of nty_coroutine_resume, and the test
\* "co == last_co_ready" that follows it in the ready loop
EndsPassNever(c) == FALSE \* mutant: the test is missing
EndsPass(c) == phase = "ready" /\ c = lastReady

Yield(c) ==
  /\ curr' = NIL
  /\ ops' = [ops EXCEPT ![c] = 0]
  /\ IF EndsPass(c)
       THEN phase' = "epoll" /\ lastReady' = NIL
       ELSE UNCHANGED <<phase, lastReady>>

\* nty_coroutine_free.  The content of a freed block means nothing; it is kept
\* at what calloc makes of it.
Free(c) ==
  /\ live' = live \ {c}
  /\ status' = [status EXCEPT ![c] = {}]
  /\ frame' = [frame EXCEPT ![c] = "none"]
  /\ sleep_usecs' = [sleep_usecs EXCEPT ![c] = 0]
  /\ fd' = [fd EXCEPT ![c] = NIL]

-----------------------------------------------------------------------------
(* Library calls made by the running coroutine.                            *)

Running(c) == fault = "none" /\ curr = c /\ frame[c] = "body"

\* What a body owes the library, and the library does not check.
MayUse(c, f) == "shareFd" \in Misuse \/ WaitersOn(f) \subseteq {c}
MayLeave(c)  == "armedTimer" \in Misuse \/ c \notin sleeping
MayPoll(f)   == "badFd" \in Misuse \/ f \in open

\* nty_coroutine_create, called by main or by a coroutine
Create(c) ==
  /\ fault = "none"
  /\ phase = "main" \/ ("create" \in Api /\ curr # NIL /\ frame[curr] = "body")
  /\ c \notin live
  /\ live' = live \cup {c}
  /\ status' = [status EXCEPT ![c] = {"NEW"}]
  /\ frame' = [frame EXCEPT ![c] = "start"]
  /\ ops' = [ops EXCEPT ![c] = 0]
  /\ sleep_usecs' = [sleep_usecs EXCEPT ![c] = 0]
  /\ fd' = [fd EXCEPT ![c] = NIL]
  /\ ready' = Enqueued(c)
  /\ UNCHANGED <<now, fault, sleeping, waiting, loopVars, epollVars, kernelVars>>

\* The common end of nty_coroutine_sleep(0) and nty_coroutine_renice
Requeue(c) ==
  /\ MayLeave(c)
  /\ ready' = Enqueued(c)
  /\ frame' = [frame EXCEPT ![c] = "requeue"]
  /\ Yield(c)
  /\ UNCHANGED <<now, fault, live, status, timerVars, waitVars, epollVars, kernelVars>>

\* nty_coroutine_sleep(0)
Sleep0(c) == "sleep0" \in Api /\ Running(c) /\ Requeue(c)

ReniceLimit == 5

\* nty_coroutine_renice: every fifth call without a yield in between yields
Renice(c) ==
  /\ "renice" \in Api /\ Running(c)
  /\ IF ops[c] + 1 < ReniceLimit
       THEN /\ ops' = [ops EXCEPT ![c] = @ + 1]
            /\ UNCHANGED <<now, fault, live, status, frame, ready, timerVars,
                           waitVars, loopVars, epollVars, kernelVars>>
       ELSE Requeue(c)

\* RB_FIND, RB_REMOVE: the tree without the node under c's old deadline
FoundLate(c, want) == {d \in sleeping : sleep_usecs[d] = want} \* mutant: sleep_usecs set first
Found(c, want) == SameDeadline(c)

\* The insertion loop: the first deadline from want on that no other has
FirstFree(want, taken) ==
  {k \in want .. (want + Cardinality(taken)) :
     k \notin taken /\ \A j \in want .. (k - 1) : j \in taken}

\* nty_coroutine_sleep(msecs), msecs > 0: nty_schedule_sched_sleepdown.  It
\* returns without yielding.
Sleep(c, msecs) ==
  /\ "sleep" \in Api /\ Running(c)
  /\ LET want   == Deadline(now, msecs)
         others == sleeping \ Found(c, want)
     IN  /\ sleeping' = others \cup {c}
         /\ \E k \in FirstFree(want, {sleep_usecs[d] : d \in others}) :
              sleep_usecs' = [sleep_usecs EXCEPT ![c] = k]
  /\ status' = [status EXCEPT ![c] = @ \cup {"SLEEPING"}]
  /\ UNCHANGED <<now, fault, live, frame, ops, ready, waitVars, loopVars,
                 epollVars, kernelVars>>

\* nty_coroutine_detach
Detach(c) ==
  /\ "detach" \in Api /\ Running(c)
  /\ status' = [status EXCEPT ![c] = @ \cup {"DETACH"}]
  /\ UNCHANGED <<now, fault, live, frame, ops, ready, timerVars, waitVars,
                 loopVars, epollVars, kernelVars>>

\* epoll_ctl on sched->poller_fd (kernel)
EpollAdd(f) ==
  /\ epollset' = epollset \cup ({f} \cap open)
  /\ UNCHANGED rdy

EpollDelMissing(f) == UNCHANGED <<epollset, rdy>> \* mutant
EpollDel(f) ==
  /\ epollset' = epollset \ {f}
  /\ rdy' = rdy \ {f}

\* nty_schedule_desched_wait, for the waiter d it found.  The status is
\* cleared before desched_sleepdown tests SLEEPING, so the timer of d stays.
DeschedWaitKeepsStatus(d) == waiting' = waiting \ {d} /\ UNCHANGED status \* mutant
DeschedWaitKeepsNode(d) == \* mutant: the RB_REMOVE is missing
  UNCHANGED waiting /\ status' = [status EXCEPT ![d] = {}]
DeschedWait(d) ==
  /\ waiting' = waiting \ {d}
  /\ status' = [status EXCEPT ![d] = {}]

\* nty_schedule_sched_wait with timeout 1, as every caller has it, so that it
\* arms no timer.  It sets no bit for POLLIN and bit 0, which is WAIT_READ, for
\* POLLOUT: it ors the enumerators, not their BITs.
SchedWait(c, f, event) ==
  /\ fault' = IF status[c] \cap {"WAIT_READ", "WAIT_WRITE"} # {} THEN "wait_state"
              ELSE IF WaitersOn(f) # {} THEN "wait_insert" ELSE "none"
  /\ status' = [status EXCEPT ![c] =
                  IF event = "POLLOUT" THEN @ \cup {"WAIT_READ"} ELSE @]
  /\ fd' = [fd EXCEPT ![c] = f]
  /\ waiting' = IF fault' = "none" THEN waiting \cup {c} ELSE waiting

\* nty_poll_inner up to the yield, on one descriptor.  The result of epoll_ctl
\* is ignored: a descriptor that is refused is waited on all the same.
Poll(c, f, event) ==
  /\ "poll" \in Api /\ Running(c)
  /\ MayPoll(f) /\ MayUse(c, f)
  /\ EpollAdd(f)
  /\ SchedWait(c, f, event)
  /\ IF fault' = "none"
       THEN frame' = [frame EXCEPT ![c] = "poll"] /\ Yield(c)
       ELSE UNCHANGED <<frame, ops, loopVars>>
  /\ UNCHANGED <<now, live, ready, timerVars, epollVars, open>>

\* nty_poll_inner after the yield
PollEnd(c) ==
  /\ fault = "none" /\ curr = c /\ frame[c] = "poll"
  /\ EpollDel(fd[c])
  /\ frame' = [frame EXCEPT ![c] = "body"]
  /\ IF WaitersOn(fd[c]) = {}
       THEN fault' = "desched_wait" /\ UNCHANGED <<waiting, status>>
       ELSE (\E d \in WaitersOn(fd[c]) : DeschedWait(d)) /\ UNCHANGED fault
  /\ UNCHANGED <<now, live, ops, ready, timerVars, fd, loopVars, epollVars, open>>

\* socket and accept give the body a descriptor, close takes it back; closing
\* removes it from every interest list (kernel)
Socket(c, f) ==
  /\ "socket" \in Api /\ Running(c) /\ f \notin open
  /\ open' = open \cup {f}
  /\ UNCHANGED <<now, fault, coVars, ready, timerVars, waitVars, loopVars,
                 epollVars, epollset, rdy>>

Close(c, f) ==
  /\ "socket" \in Api /\ Running(c) /\ f \in open /\ MayUse(c, f)
  /\ open' = open \ {f}
  /\ epollset' = epollset \ {f}
  /\ rdy' = rdy \ {f}
  /\ UNCHANGED <<now, fault, coVars, ready, timerVars, waitVars, loopVars, epollVars>>

\* The body returns: _exec sets EXITED, FDEOF and DETACH and yields, and the
\* end of nty_coroutine_resume, which finds EXITED and DETACH, frees it
Exit(c) ==
  /\ Running(c) /\ MayLeave(c)
  /\ Free(c)
  /\ Yield(c)
  /\ UNCHANGED <<now, fault, ready, sleeping, waiting, epollVars, kernelVars>>

Body ==
  \E c \in Co :
    \/ Sleep0(c)
    \/ Renice(c)
    \/ \E msecs \in Msecs : Sleep(c, msecs)
    \/ Detach(c)
    \/ \E f \in Fd, event \in {"POLLIN", "POLLOUT"} : Poll(c, f, event)
    \/ PollEnd(c)
    \/ \E f \in Fd : Socket(c, f) \/ Close(c, f)
    \/ Exit(c)

-----------------------------------------------------------------------------
(* The loop of nty_schedule_run.                                           *)

AtLoop(p) == fault = "none" /\ curr = NIL /\ phase = p

GoTo(p) == phase' = p /\ UNCHANGED <<curr, lastReady>>

\* main calls nty_schedule_run, after the first nty_coroutine_create made the
\* scheduler
Run ==
  /\ AtLoop("main") /\ live # {}
  /\ GoTo("check")
  /\ UNCHANGED <<now, fault, coVars, ready, timerVars, waitVars, epollVars, kernelVars>>

IsDoneWaitersIgnored == sleeping = {} /\ ready = << >> \* mutant
IsDone == waiting = {} /\ sleeping = {} /\ ready = << >>

\* while (!nty_schedule_isdone(sched)), then nty_schedule_free
Check ==
  /\ AtLoop("check")
  /\ GoTo(IF IsDone THEN "done" ELSE "expired")
  /\ UNCHANGED <<now, fault, coVars, ready, timerVars, waitVars, epollVars, kernelVars>>

DueStrictly(c) == sleep_usecs[c] < now \* mutant: < for <=
Due(c) == sleep_usecs[c] <= now

\* 1. expired: nty_schedule_expired takes the first sleeper when it is due
Expire(c) ==
  /\ AtLoop("expired")
  /\ c \in FirstSleeper /\ Due(c)
  /\ sleeping' = sleeping \ {c}
  /\ Resume(c, status[c])
  /\ UNCHANGED <<now, fault, live, ops, ready, sleep_usecs, waitVars, phase,
                 lastReady, epollVars, kernelVars>>

NoneExpired ==
  /\ AtLoop("expired")
  /\ \A c \in FirstSleeper : ~Due(c)
  /\ phase' = "ready"
  /\ lastReady' = IF ready = << >> THEN NIL ELSE ready[Len(ready)]
  /\ UNCHANGED <<now, fault, coVars, ready, timerVars, waitVars, curr,
                 epollVars, kernelVars>>

\* 2. ready queue: take the head; a coroutine marked FDEOF is freed and ends
\* the pass, any other is resumed
TakeReady ==
  /\ AtLoop("ready") /\ ready # << >>
  /\ ready' = Dequeued
  /\ LET c == Head(ready)
     IN  IF "FDEOF" \in status[c]
           THEN /\ Free(c)
                /\ phase' = "epoll" /\ lastReady' = NIL
                /\ UNCHANGED curr
           ELSE /\ Resume(c, status[c])
                /\ UNCHANGED <<live, sleep_usecs, fd, phase, lastReady>>
  /\ UNCHANGED <<now, fault, ops, sleeping, waiting, epollVars, kernelVars>>

NoneReady ==
  /\ AtLoop("ready") /\ ready = << >>
  /\ phase' = "epoll" /\ lastReady' = NIL
  /\ UNCHANGED <<now, fault, coVars, ready, timerVars, waitVars, curr,
                 epollVars, kernelVars>>

\* 3. nty_schedule_epoll: nty_schedule_min_timeout, then either return at once
\* with no events or call epoll_wait
MinTimeouts ==
  IF sleeping = {} THEN {DefaultTimeout}
  ELSE {Remaining(sleep_usecs[c], now) : c \in FirstSleeper}

EpollCall ==
  /\ AtLoop("epoll")
  /\ \E usecs \in MinTimeouts :
       IF usecs # 0 /\ ready = << >>
         THEN /\ GoTo("blocked")
              /\ epollSince' = now
              /\ epollUsecs' = EpollUsecs(usecs)
         ELSE GoTo("events") /\ UNCHANGED <<epollSince, epollUsecs>>
  /\ pending' = {}
  /\ UNCHANGED <<now, fault, coVars, ready, timerVars, waitVars, kernelVars>>

ReportedOne == IF rdy = {} THEN {} ELSE {CHOOSE f \in rdy : TRUE} \* mutant: maxevents 1
Reported == rdy

\* epoll_wait returns every registered descriptor that is ready, or none when
\* the timeout, if there is one, has passed
EpollReturn ==
  /\ AtLoop("blocked")
  /\ \/ rdy # {}
     \/ epollUsecs >= 0 /\ now >= epollSince + epollUsecs
  /\ pending' = Reported
  /\ GoTo("events")
  /\ epollSince' = 0 /\ epollUsecs' = 0
  /\ UNCHANGED <<now, fault, coVars, ready, timerVars, waitVars, kernelVars>>

\* EINTR: nty_schedule_epoll calls epoll_wait again with the same timeout
Interrupt ==
  /\ Signals /\ AtLoop("blocked")
  /\ epollSince' = now
  /\ UNCHANGED <<now, fault, coVars, ready, timerVars, waitVars, loopVars,
                 pending, epollUsecs, kernelVars>>

\* nty_schedule_search_wait finds the waiter and clears its status, without a
\* test for NULL; a hang-up then sets FDEOF
EventStatus(hup) == IF hup THEN {"FDEOF"} ELSE {}
SearchWait(f, hup) ==
  IF WaitersOn(f) = {}
    THEN fault' = "search_wait" /\ UNCHANGED <<curr, status, frame>>
    ELSE (\E c \in WaitersOn(f) : Resume(c, EventStatus(hup))) /\ UNCHANGED fault

\* One event, with or without EPOLLHUP.  The kernel orders eventlist as it
\* likes, so the events are a set.
Event(f, hup) ==
  /\ AtLoop("events") /\ f \in pending
  /\ pending' = pending \ {f}
  /\ SearchWait(f, hup)
  /\ UNCHANGED <<now, live, ops, ready, timerVars, waitVars, phase, lastReady,
                 epollSince, epollUsecs, kernelVars>>

NoMoreEvents ==
  /\ AtLoop("events") /\ pending = {}
  /\ GoTo("check")
  /\ UNCHANGED <<now, fault, coVars, ready, timerVars, waitVars, epollVars, kernelVars>>

Loop ==
  \/ Run \/ Check \/ NoneExpired \/ TakeReady \/ NoneReady
  \/ EpollCall \/ EpollReturn \/ NoMoreEvents
  \/ \E c \in Co : Expire(c)
  \/ \E f \in Fd, hup \in BOOLEAN : Event(f, hup)

-----------------------------------------------------------------------------
(* The environment.                                                        *)

Alive == fault = "none" /\ phase # "done"

\* gettimeofday, taken to be monotonic
Tick ==
  /\ Alive
  /\ now' \in {t \in Instants : t > now}
  /\ UNCHANGED <<fault, coVars, ready, timerVars, waitVars, loopVars, epollVars,
                 kernelVars>>

\* A registered descriptor has its event, or a hang-up, to report: at once or
\* when the peer acts.  Registration is level triggered, so it stays reported
\* until EPOLL_CTL_DEL or close.
KernelReady(f) ==
  /\ Alive /\ f \in epollset \ rdy
  /\ rdy' = rdy \cup {f}
  /\ UNCHANGED <<now, fault, coVars, ready, timerVars, waitVars, loopVars,
                 epollVars, open, epollset>>

\* nty_schedule_run has returned, or the process has aborted, or epoll_wait has
\* no timeout or one that the last of Instants (a bound of the model) is too
\* early to end
Terminated ==
  /\ ~Alive \/ (phase = "blocked" /\ \A t \in Instants : t <= now)
  /\ UNCHANGED vars

Next ==
  \/ \E c \in Co : Create(c)
  \/ Body
  \/ Loop
  \/ Interrupt
  \/ Tick
  \/ \E f \in Fd : KernelReady(f)
  \/ Terminated

Spec == Init /\ [][Next]_vars

\* The loop runs whenever it can; nty_poll_inner runs to its end; the clock
\* advances; and the contract of cooperative scheduling: a body does not run
\* for ever without a call that yields.
BodyYields ==
  \E c \in Co : \/ Sleep0(c) \/ Exit(c)
                \/ \E f \in Fd, event \in {"POLLIN", "POLLOUT"} : Poll(c, f, event)

Fairness ==
  /\ WF_vars(Loop)
  /\ WF_vars(\E c \in Co : PollEnd(c))
  /\ WF_vars(BodyYields)
  /\ WF_vars(Tick)

FairSpec == Spec /\ Fairness

-----------------------------------------------------------------------------
(* Safety.  The properties of the scheduler hold of bodies that keep their *)
(* obligations: Misuse = {}.                                               *)

\* Every variable has its C type's meaning; ops stays below the renice limit.
TypeOK ==
  /\ now \in Nat
  /\ fault \in Faults
  /\ live \subseteq Co
  /\ status \in [Co -> SUBSET Flags]
  /\ frame \in [Co -> Frames]
  /\ ops \in [Co -> 0..4]
  /\ ready \in Seq(Co)
  /\ sleeping \subseteq Co /\ sleep_usecs \in [Co -> Nat]
  /\ waiting \subseteq Co /\ fd \in [Co -> Fd \cup {NIL}]
  /\ curr \in Co \cup {NIL} /\ phase \in Phases /\ lastReady \in Co \cup {NIL}
  /\ pending \subseteq Fd /\ epollSince \in Nat /\ epollUsecs \in Int
  /\ open \subseteq Fd /\ epollset \subseteq Fd /\ rdy \subseteq Fd

ReadyDistinct == \A i, j \in 1..Len(ready) : ready[i] = ready[j] => i = j

\* A coroutine is where its stack says it is, and nowhere else: a created or
\* requeued one is in the ready queue, once; one suspended in nty_poll_inner
\* is in the waiting tree until it has been resumed; one whose body runs is
\* curr_thread; a freed one is in no structure (no dangling pointer in ready,
\* waiting or sleeping, no element twice in the TAILQ, no coroutine lost).
OnePlace ==
  /\ ReadyDistinct
  /\ \A c \in Co :
       /\ c \in Queued <=> frame[c] \in {"start", "requeue"}
       /\ c \in waiting <=> frame[c] = "poll"
       /\ frame[c] = "body" => curr = c
       /\ curr = c => frame[c] \in {"body", "poll"}
       /\ c \in sleeping => frame[c] \in {"body", "poll"}
       /\ c \in live <=> frame[c] # "none"

\* nty_schedule_run returns, and nty_schedule_free frees the scheduler, only
\* when every coroutine has returned and been freed.
NothingLeft == phase = "done" => live = {}

\* The interest list of the poller is the set of descriptors waited on, one
\* waiter each: EPOLL_CTL_ADD and DEL of nty_poll_inner pair with sched_wait
\* and desched_wait through every interleaving of coroutines.
RegistrationMatchesWaiters ==
  /\ epollset = {fd[c] : c \in waiting}
  /\ \A c, d \in waiting : fd[c] = fd[d] => c = d

\* While the events of one epoll_wait are handled, every event left has a
\* waiter other than the running coroutine, so nty_schedule_search_wait never
\* dereferences NULL although the coroutines resumed before may poll, close
\* and exit.
EventsHaveWaiters == \A f \in pending : \E c \in waiting \ {curr} : fd[c] = f

\* No assert of sched_wait and no null dereference of search_wait or
\* desched_wait is reached.
AssertsHold == fault = "none"

\* nty_coroutine_resume builds a new context exactly for the coroutines that
\* never ran: a suspended one never carries NEW, which would restart it from
\* its first line and lose its stack.
ContextKept == \A c \in live : ("NEW" \in status[c]) = (frame[c] = "start")

\* A hang-up flag never reaches the ready queue, whose loop would free the
\* coroutine that carries it in the middle of its body.
EofNeverQueued == \A c \in Queued : "FDEOF" \notin status[c]

\* The key of a node of the sleeping tree is the key of no other coroutine,
\* in the tree or not: RB_FIND in sched_sleepdown, which looks c up by its
\* last deadline, finds c itself or nothing.
TimerKeysDistinct ==
  /\ \A c \in sleeping :
       0 < sleep_usecs[c] /\ \A d \in Co \ {c} : sleep_usecs[c] # sleep_usecs[d]
  /\ \A c \in Co \ sleeping : sleep_usecs[c] <= now

\* A timer leaves the tree only by expiring, at or after its deadline, or by
\* its own coroutine arming it again: no other sleep takes it out.
TimersNotStolen ==
  [][\A c \in sleeping \ sleeping' : sleep_usecs[c] <= now /\ curr' = c]_vars

\* While the ready loop has something to run, the coroutine that was last in
\* the queue when the pass began is still queued or is running: the test
\* "co == last_co_ready" is yet to come, and the pass is bounded.
PassBounded ==
  phase = "ready" /\ (ready # << >> \/ curr # NIL) =>
    lastReady # NIL /\ (lastReady \in Queued \/ curr = lastReady)

\* The time given to epoll_wait ends at or before the earliest deadline, so
\* blocking never makes a timer late (without signals: see Interrupt); only a
\* deadline that is more milliseconds away than an int holds makes the timeout
\* negative, and epoll_wait deaf to every timer.
EpollNeverOversleeps ==
  phase = "blocked" =>
    \A c \in sleeping :
      IF epollUsecs >= 0 THEN epollSince + epollUsecs <= sleep_usecs[c]
                         ELSE epollSince + IntMax * 1000 < sleep_usecs[c]

-----------------------------------------------------------------------------
(* Liveness, of FairSpec.                                                  *)

\* Every queued coroutine is resumed, as long as the first stage of the loop
\* ends again and again: it reads the clock anew for every timer it takes, so
\* bodies whose next timer is due by the time they yield keep the loop there.
ReadyRuns ==
  []<>(phase = "ready") => \A c \in Co : (c \in Queued) ~> (curr = c)

\* epoll_wait was given a negative timeout: see EpollMsecs
Deaf == phase = "blocked" /\ epollUsecs < 0

\* A coroutine whose timer is due is resumed, or has set another timer, unless
\* the loop stays in an epoll_wait without a timeout.
SleeperWakes ==
  \/ <>[]Deaf
  \/ \A c \in Co : (c \in sleeping /\ sleep_usecs[c] <= now) ~>
                    (curr = c \/ c \notin sleeping)

\* Every coroutine whose descriptor is ready is resumed, as long as the ready
\* queue runs empty again and again: nty_schedule_epoll asks for events only
\* then, so bodies that requeue themselves for ever starve all others.
IoServed ==
  []<>(phase = "blocked") =>
    \A c \in Co : (c \in waiting /\ fd[c] \in rdy) ~> (curr = c)
=============================================================================
