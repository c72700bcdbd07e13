------------------------------ MODULE NtyTimer ------------------------------
(***************************************************************************)
(* The time arithmetic of the scheduler: how a sleep becomes a deadline,   *)
(* how the earliest deadline becomes the time the scheduler may block, and *)
(* how that time is handed to epoll_wait.  All values are microseconds     *)
(* since sched->birth unless a name says otherwise.                        *)
(***************************************************************************)
EXTENDS Integers

CONSTANT IntMax  \* the largest int, 2^31 - 1 in the build

\* nty_schedule_create: sched->default_timeout = 3000000u
DefaultTimeout == 3000000

ASSUME IntAssumption == IntMax \in Nat /\ IntMax >= DefaultTimeout \div 1000

\* nty_schedule_sched_sleepdown: now + msecs * 1000u.  The product is a
\* uint64_t; it wraps only for msecs >= 2^64 / 1000, which is left out.
Deadline(now, msecs) == now + msecs * 1000

\* nty_schedule_min_timeout, for the least sleep_usecs of the tree
Remaining(deadline, now) == IF deadline > now THEN deadline - now ELSE 0

\* nty_schedule_epoll: the struct timespec built from usecs.  From one second
\* up, tv_nsec keeps only usecs % 1000: the milliseconds are dropped.
Timespec(usecs) ==
  LET sec == usecs \div 1000000
  IN  [tv_sec  |-> sec,
       tv_nsec |-> IF sec # 0 THEN (usecs % 1000) * 1000 ELSE usecs * 1000]

\* nty_epoller_wait: tv_sec*1000.0 + tv_nsec/1000000.0, truncated to the int
\* parameter of epoll_wait.  A value outside the range of int converts to
\* INT_MIN on x86, the build's processor.
Milliseconds(t) == t.tv_sec * 1000 + t.tv_nsec \div 1000000
EpollMsecsRoundedUp(t) == t.tv_sec * 1000 + (t.tv_nsec + 999999) \div 1000000 \* mutant
EpollMsecs(t) == IF Milliseconds(t) <= IntMax THEN Milliseconds(t) ELSE -(IntMax + 1)

\* How long epoll_wait may block, in microseconds, when asked for usecs; a
\* negative timeout blocks until there is an event
EpollUsecs(usecs) == EpollMsecs(Timespec(usecs)) * 1000
=============================================================================
