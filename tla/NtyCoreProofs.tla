--------------------------- MODULE NtyCoreProofs ---------------------------
(***************************************************************************)
(* Theorems about the core of the library: the scheduler (NtyScheduler),   *)
(* for every set of coroutines, descriptors, sleep times and instants, and *)
(* the socket calls on top of it (NtySocket), for every length of data and *)
(* every size of a socket buffer.                                          *)
(***************************************************************************)
EXTENDS NtySocket, SequenceTheorems, TLAPS

-----------------------------------------------------------------------------
(* The scheduler                                                           *)

USE DEF ReniceLimit, InitStatus, Enqueued, Dequeued

\* The time epoll_wait is given is never more than the time asked for, and none
\* is given only for a time beyond the range of int.
LEMMA EpollUsecsFacts ==
  ASSUME NEW u \in Nat
  PROVE  /\ EpollUsecs(u) \in Int /\ EpollUsecs(u) <= u
         /\ EpollUsecs(u) < 0 => IntMax * 1000 < u
<1> DEFINE ms == Milliseconds(Timespec(u))
<1>1. ms \in Nat /\ ms * 1000 <= u
  BY DEF Milliseconds, Timespec
<1>2. EpollUsecs(u) = (IF ms <= IntMax THEN ms ELSE -(IntMax + 1)) * 1000
  BY DEF EpollUsecs, EpollMsecs
<1> HIDE DEF ms
<1>3. IntMax \in Nat
  BY IntAssumption
<1> QED
  BY <1>1, <1>2, <1>3

LEMMA DeadlineType == \A t \in Nat, m \in Msecs : Deadline(t, m) \in Nat /\ Deadline(t, m) > t
  BY ConstantAssumption DEF Deadline

LEMMA MinTimeoutsType == TypeOK => MinTimeouts \subseteq Nat
  BY DEF TypeOK, MinTimeouts, DefaultTimeout, Remaining, FirstSleeper

\* The ready queue: what its operations do to the set of queued coroutines.
LEMMA QueueType == ASSUME TypeOK PROVE Queued \subseteq Co
  BY DEF TypeOK, Queued

\* The renice counter: what TypeOK says of it.
LEMMA OpsType == ASSUME TypeOK PROVE ops \in [Co -> 0..4]
  BY DEF TypeOK

\* Every step keeps the types.
LEMMA TypeNext == TypeOK /\ [Next]_vars => TypeOK'
<1> SUFFICES ASSUME TypeOK, [Next]_vars PROVE TypeOK'
  OBVIOUS
<1>0. ops \in [Co -> 0..4] /\ (\A c \in Co : ops[c] + 1 < 5 => ops[c] + 1 \in 0..4)
  BY OpsType
<1> USE ConstantAssumption DEF TypeOK, Flags, Frames, Phases, Faults, coVars,
      timerVars, waitVars, loopVars, epollVars, kernelVars
<1>1. ASSUME NEW c \in Co, Create(c) PROVE TypeOK'
  BY <1>1 DEF Create
<1>2. ASSUME NEW c \in Co, Sleep0(c) PROVE TypeOK'
  BY <1>2 DEF Sleep0, Running, Requeue, Yield
<1>3. ASSUME NEW c \in Co, Renice(c) PROVE TypeOK'
  <2>1. CASE ops[c] + 1 < 5
    <3>1. /\ ops' = [ops EXCEPT ![c] = @ + 1]
          /\ UNCHANGED <<now, fault, live, status, frame, ready, timerVars,
                         waitVars, loopVars, epollVars, kernelVars>>
      BY <1>3, <2>1 DEF Renice
    <3>2. ops[c] + 1 \in 0..4
      BY <2>1, <1>0
    <3>3. ops' \in [Co -> 0..4]
      BY <3>1, <3>2, <1>0
    <3> QED
      BY <3>1, <3>3
  <2>2. CASE ~(ops[c] + 1 < 5)
    <3>1. Requeue(c)
      BY <1>3, <2>2 DEF Renice
    <3> QED
      BY <3>1 DEF Requeue, Yield
  <2> QED
    BY <2>1, <2>2
<1>4. ASSUME NEW c \in Co, NEW msecs \in Msecs, Sleep(c, msecs) PROVE TypeOK'
  <2> DEFINE want == Deadline(now, msecs)
             others == sleeping \ Found(c, want)
  <2>1. PICK k \in FirstFree(want, {sleep_usecs[d] : d \in others}) :
          sleep_usecs' = [sleep_usecs EXCEPT ![c] = k]
    BY <1>4 DEF Sleep
  <2>2. k \in Nat
    BY <2>1, DeadlineType DEF FirstFree
  <2>3. sleeping' = others \cup {c}
    BY <1>4 DEF Sleep
  <2> QED
    BY <1>4, <2>1, <2>2, <2>3 DEF Sleep
<1>5. ASSUME NEW c \in Co, Detach(c) PROVE TypeOK'
  BY <1>5 DEF Detach, Running
<1>6. ASSUME NEW c \in Co, NEW f \in Fd, NEW event \in {"POLLIN", "POLLOUT"},
             Poll(c, f, event)
      PROVE TypeOK'
  <2>1. /\ fault' \in Faults /\ epollset' \subseteq Fd /\ status' \in [Co -> SUBSET Flags]
        /\ fd' \in [Co -> Fd \cup {NIL}]
        /\ UNCHANGED <<now, live, ready, timerVars, epollVars, open, rdy>>
    BY <1>6 DEF Poll, SchedWait, EpollAdd
  <2>2. CASE fault' = "none"
    <3>1. /\ waiting' = waiting \cup {c} /\ frame' = [frame EXCEPT ![c] = "poll"]
          /\ Yield(c)
      BY <1>6, <2>2 DEF Poll, SchedWait
    <3> QED
      BY <2>1, <3>1 DEF Yield
  <2>3. CASE fault' # "none"
    <3>1. UNCHANGED <<waiting, frame, ops, loopVars>>
      BY <1>6, <2>3 DEF Poll, SchedWait
    <3> QED
      BY <2>1, <3>1
  <2> QED
    BY <2>2, <2>3
<1>7. ASSUME NEW c \in Co, PollEnd(c) PROVE TypeOK'
  <2>1. CASE WaitersOn(fd[c]) = {}
    BY <1>7, <2>1 DEF PollEnd, EpollDel
  <2>2. CASE WaitersOn(fd[c]) # {}
    <3>1. PICK d \in WaitersOn(fd[c]) : DeschedWait(d)
      BY <1>7, <2>2 DEF PollEnd
    <3> QED
      BY <1>7, <2>2, <3>1 DEF PollEnd, EpollDel, DeschedWait, WaitersOn
  <2> QED
    BY <2>1, <2>2
<1>8. ASSUME NEW c \in Co, NEW f \in Fd, Socket(c, f) \/ Close(c, f) PROVE TypeOK'
  BY <1>8 DEF Socket, Close
<1>9. ASSUME NEW c \in Co, Exit(c) PROVE TypeOK'
  BY <1>9 DEF Exit, Running, Free, Yield
<1>10. CASE Run \/ Check \/ NoneReady \/ NoMoreEvents
  BY <1>10 DEF Run, Check, NoneReady, NoMoreEvents, GoTo
<1>11. CASE NoneExpired
  BY <1>11 DEF NoneExpired
<1>12. CASE TakeReady
  <2> DEFINE c == Head(ready)
  <2>1. c \in Co /\ Tail(ready) \in Seq(Co)
    BY <1>12 DEF TakeReady
  <2>2. CASE "FDEOF" \in status[c]
    <3> HIDE DEF c
    <3>1. Free(c) /\ phase' = "epoll" /\ lastReady' = NIL /\ UNCHANGED curr
      BY <1>12, <2>2 DEF TakeReady, c
    <3> QED
      BY <1>12, <2>1, <3>1 DEF TakeReady, Free
  <2>3. CASE "FDEOF" \notin status[c]
    <3> HIDE DEF c
    <3>1. Resume(c, status[c])
      BY <1>12, <2>3 DEF TakeReady, c
    <3>2. UNCHANGED <<now, fault, live, ops, sleeping, sleep_usecs, waiting, fd, phase,
                      lastReady, epollVars, kernelVars>>
      BY <1>12, <2>3 DEF TakeReady, c
    <3> QED
      BY <1>12, <2>1, <3>1, <3>2 DEF TakeReady, Resume
  <2> QED
    BY <2>2, <2>3
<1>13. CASE EpollCall
  <2>1. PICK usecs \in MinTimeouts : epollUsecs' \in {epollUsecs, EpollUsecs(usecs)}
    BY <1>13 DEF EpollCall
  <2>2. epollUsecs' \in Int
    BY <2>1, MinTimeoutsType, EpollUsecsFacts
  <2> QED
    BY <1>13, <2>2 DEF EpollCall, GoTo
<1>14. CASE EpollReturn \/ Interrupt
  BY <1>14 DEF EpollReturn, Interrupt, Reported, GoTo
<1>15. ASSUME NEW c \in Co, Expire(c) PROVE TypeOK'
  BY <1>15 DEF Expire, Resume
<1>16. ASSUME NEW f \in Fd, NEW hup \in BOOLEAN, Event(f, hup) PROVE TypeOK'
  <2>1. CASE WaitersOn(f) = {}
    BY <1>16, <2>1 DEF Event, SearchWait, EventStatus
  <2>2. CASE WaitersOn(f) # {}
    <3>1. PICK c \in WaitersOn(f) : Resume(c, IF hup THEN {"FDEOF"} ELSE {})
      BY <1>16, <2>2 DEF Event, SearchWait, EventStatus
    <3> QED
      BY <1>16, <2>2, <3>1 DEF Event, SearchWait, EventStatus, Resume, WaitersOn
  <2> QED
    BY <2>1, <2>2
<1>17. CASE Tick
  BY <1>17 DEF Tick
<1>18. ASSUME NEW f \in Fd, KernelReady(f) PROVE TypeOK'
  BY <1>18 DEF KernelReady
<1>19. CASE Terminated \/ UNCHANGED vars
  BY <1>19 DEF Terminated, vars
<1> HIDE DEF TypeOK
<1> QED
  BY <1>1, <1>2, <1>3, <1>4, <1>5, <1>6, <1>7, <1>8, <1>9, <1>10, <1>11, <1>12,
     <1>13, <1>14, <1>15, <1>16, <1>17, <1>18, <1>19 DEF Next, Body, Loop

-----------------------------------------------------------------------------
(* The inductive invariant of bodies that keep their obligations.          *)

\* What the status bits say of a coroutine at each control point.
StatusSound ==
  \A c \in Co :
    /\ frame[c] = "start" => status[c] = {"NEW"}
    /\ frame[c] # "start" => "NEW" \notin status[c]
    /\ frame[c] \in {"requeue", "body"} =>
         status[c] \cap {"WAIT_READ", "WAIT_WRITE", "FDEOF"} = {}

\* Where the loop can be while a coroutine runs or events are left.
LoopSound ==
  /\ curr # NIL => phase \in {"expired", "ready", "events"}
  /\ lastReady # NIL => phase = "ready"
  /\ pending # {} => phase = "events"
  /\ rdy \subseteq epollset

Inv ==
  /\ TypeOK /\ OnePlace /\ NothingLeft
  /\ RegistrationMatchesWaiters /\ EventsHaveWaiters /\ AssertsHold
  /\ StatusSound /\ LoopSound /\ PassBounded /\ TimerKeysDistinct

(* The ready queue as a set.                                               *)

LEMMA AppendQueued ==
  ASSUME ready \in Seq(Co), NEW c \in Co, ready' = Append(ready, c)
  PROVE  /\ Queued' = Queued \cup {c}
         /\ ReadyDistinct /\ c \notin Queued => ReadyDistinct'
         /\ ready' # << >>
<1>1. /\ Len(ready) \in Nat /\ Len(ready') = Len(ready) + 1
      /\ \A i \in 1..Len(ready) : ready'[i] = ready[i]
      /\ ready'[Len(ready) + 1] = c
  OBVIOUS
<1>2. Queued' = Queued \cup {c}
  BY <1>1 DEF Queued
<1>3. ASSUME ReadyDistinct, c \notin Queued PROVE ReadyDistinct'
  BY <1>1, <1>3 DEF ReadyDistinct, Queued
<1> QED
  BY <1>1, <1>2, <1>3

LEMMA TailQueued ==
  ASSUME ready \in Seq(Co), ready # << >>, ready' = Tail(ready), ReadyDistinct
  PROVE  Head(ready) \in Queued /\ Queued' = Queued \ {Head(ready)} /\ ReadyDistinct'
<1>1. /\ Len(ready) \in Nat \ {0} /\ Len(ready') = Len(ready) - 1
      /\ \A i \in 1..Len(ready') : ready'[i] = ready[i + 1]
      /\ Head(ready) = ready[1]
  OBVIOUS
<1>2. \A i \in 2..Len(ready) : ready[i] # ready[1] /\ ready[i] = ready'[i - 1]
  BY <1>1 DEF ReadyDistinct
<1>3. Queued' = Queued \ {Head(ready)}
  <2>1. ASSUME NEW x \in Queued' PROVE x \in Queued \ {Head(ready)}
    BY <1>1, <2>1 DEF Queued, ReadyDistinct
  <2>2. ASSUME NEW x \in Queued \ {Head(ready)} PROVE x \in Queued'
    <3>1. PICK i \in 1..Len(ready) : x = ready[i]
      BY <2>2 DEF Queued
    <3>2. i \in 2..Len(ready) /\ (i - 1) \in 1..Len(ready')
      BY <1>1, <2>2, <3>1
    <3> QED
      BY <1>2, <3>1, <3>2 DEF Queued
  <2> QED
    BY <2>1, <2>2
<1>4. ReadyDistinct'
  BY <1>1 DEF ReadyDistinct
<1>5. Head(ready) \in Queued
  BY <1>1 DEF Queued
<1> QED
  BY <1>3, <1>4, <1>5

LEMMA LastQueued ==
  ASSUME ready \in Seq(Co)
  PROVE  /\ ready = << >> => Queued = {}
         /\ ready # << >> => ready[Len(ready)] \in Queued
  BY DEF Queued

LEMMA SameQueued ==
  ASSUME ready' = ready PROVE Queued' = Queued /\ ReadyDistinct' = ReadyDistinct
  BY DEF Queued, ReadyDistinct

-----------------------------------------------------------------------------
(* What the actions with a fault branch, a search or a choice amount to in *)
(* a state of the invariant.                                               *)

LEMMA TakeReadyEffect ==
  ASSUME Inv, TakeReady
  PROVE  \E c \in Queued :
           /\ c \in Co /\ curr = NIL /\ phase = "ready" /\ curr' = c
           /\ Queued' = Queued \ {c} /\ ReadyDistinct'
           /\ frame' = [frame EXCEPT ![c] = "body"]
           /\ status' = [status EXCEPT ![c] =
                           IF frame[c] = "start" THEN {"READY"} ELSE @]
           /\ UNCHANGED <<now, fault, live, ops, sleeping, sleep_usecs, waiting, fd, phase,
                          lastReady, epollVars, kernelVars>>
<1> DEFINE c == Head(ready)
<1>1. c \in Queued /\ Queued' = Queued \ {c} /\ ReadyDistinct' /\ c \in Co
  BY TailQueued DEF TakeReady, Inv, TypeOK, OnePlace
<1>2. frame[c] \in {"start", "requeue"}
  BY <1>1 DEF Inv, OnePlace
<1>3. /\ "FDEOF" \notin status[c] /\ status[c] \in SUBSET Flags
      /\ "NEW" \in status[c] <=> frame[c] = "start"
  BY <1>1, <1>2 DEF Inv, TypeOK, StatusSound
<1>4. /\ Resume(c, status[c]) /\ AtLoop("ready")
      /\ UNCHANGED <<now, fault, live, ops, sleeping, sleep_usecs, waiting, fd, phase,
                     lastReady, epollVars, kernelVars>>
  BY <1>3 DEF TakeReady
<1> HIDE DEF c
<1>5. frame' = [frame EXCEPT ![c] = "body"]
  BY <1>2, <1>4 DEF Resume
<1>6. status' = [status EXCEPT ![c] = IF frame[c] = "start" THEN {"READY"} ELSE @]
  BY <1>3, <1>4 DEF Resume
<1> QED
  BY <1>1, <1>4, <1>5, <1>6 DEF Resume, AtLoop

LEMMA ExpireEffect ==
  ASSUME Inv, NEW c \in Co, Expire(c)
  PROVE  /\ c \in waiting /\ c \in sleeping /\ sleep_usecs[c] <= now
         /\ curr = NIL /\ phase = "expired" /\ curr' = c
         /\ sleeping' = sleeping \ {c}
         /\ UNCHANGED <<now, fault, live, status, frame, ops, ready, sleep_usecs, waitVars,
                        phase, lastReady, epollVars, kernelVars>>
<1>1. /\ c \in sleeping /\ sleep_usecs[c] <= now /\ curr = NIL /\ phase = "expired"
      /\ sleeping' = sleeping \ {c} /\ Resume(c, status[c])
      /\ UNCHANGED <<now, fault, live, ops, ready, sleep_usecs, waitVars,
                     phase, lastReady, epollVars, kernelVars>>
  BY DEF Expire, FirstSleeper, Due, AtLoop
<1>2. NIL \notin Co
  BY ConstantAssumption
<1>3. frame[c] = "poll" /\ c \in waiting
  BY <1>1, <1>2 DEF Inv, OnePlace
<1>4. "NEW" \notin status[c]
  BY <1>3 DEF Inv, StatusSound
<1>5. frame' = frame /\ status' = status /\ curr' = c
  BY <1>1, <1>3, <1>4 DEF Resume, Inv, TypeOK
<1> QED
  BY <1>1, <1>3, <1>5

LEMMA EventEffect ==
  ASSUME Inv, NEW f \in Fd, NEW hup \in BOOLEAN, Event(f, hup)
  PROVE  \E c \in waiting :
           /\ c \in Co /\ fd[c] = f /\ curr = NIL /\ phase = "events" /\ curr' = c
           /\ pending' = pending \ {f}
           /\ \E st \in {{}, {"FDEOF"}} : status' = [status EXCEPT ![c] = st]
           /\ UNCHANGED <<now, fault, live, frame, ops, ready, timerVars, waitVars,
                          phase, lastReady, epollSince, epollUsecs, kernelVars>>
<1>1. WaitersOn(f) # {}
  BY DEF Event, SearchWait, EventStatus, Inv, EventsHaveWaiters, WaitersOn
<1>2. PICK c \in WaitersOn(f) : Resume(c, IF hup THEN {"FDEOF"} ELSE {})
  BY <1>1 DEF Event, SearchWait, EventStatus
<1>3. /\ c \in waiting /\ c \in Co /\ fd[c] = f /\ frame[c] = "poll"
  BY DEF WaitersOn, Inv, TypeOK, OnePlace
<1>4. frame' = frame /\ curr' = c
  BY <1>2, <1>3 DEF Resume, Inv, TypeOK
<1>5. \E st \in {{}, {"FDEOF"}} : status' = [status EXCEPT ![c] = st]
  BY <1>2, <1>3 DEF Resume
<1> QED
  BY <1>1, <1>3, <1>4, <1>5 DEF Event, SearchWait, EventStatus, AtLoop

LEMMA PollEffect ==
  ASSUME Misuse = {}, Inv, NEW c \in Co, NEW f \in Fd, NEW event, Poll(c, f, event)
  PROVE  /\ frame[c] = "body" /\ c \notin waiting /\ curr = c
         /\ \A d \in waiting : fd[d] # f
         /\ waiting' = waiting \cup {c} /\ fd' = [fd EXCEPT ![c] = f]
         /\ frame' = [frame EXCEPT ![c] = "poll"]
         /\ epollset' = epollset \cup {f} /\ rdy' = rdy
         /\ fault' = "none" /\ Yield(c)
         /\ status' \in {status, [status EXCEPT ![c] = @ \cup {"WAIT_READ"}]}
         /\ UNCHANGED <<now, live, ready, timerVars, epollVars, open>>
<1>1. frame[c] = "body" /\ curr = c /\ f \in open /\ WaitersOn(f) \subseteq {c}
  BY DEF Poll, SchedWait, Running, MayPoll, MayUse
<1>2. c \notin waiting
  BY <1>1 DEF Inv, OnePlace
<1>3. WaitersOn(f) = {} /\ \A d \in waiting : fd[d] # f
  BY <1>1, <1>2 DEF WaitersOn
<1>4. status[c] \cap {"WAIT_READ", "WAIT_WRITE"} = {}
  BY <1>1 DEF Inv, StatusSound
<1>5. fault' = "none"
  BY <1>3, <1>4 DEF Poll, SchedWait
<1>6. status' \in {status, [status EXCEPT ![c] = @ \cup {"WAIT_READ"}]}
  <2>1. CASE event = "POLLOUT"
    BY <2>1 DEF Poll, SchedWait
  <2>2. CASE event # "POLLOUT"
    <3>1. status' = [status EXCEPT ![c] = @]
      BY <2>2 DEF Poll, SchedWait
    <3> QED
      BY <3>1 DEF Inv, TypeOK
  <2> QED
    BY <2>1, <2>2
<1>7. epollset' = epollset \cup {f} /\ rdy' = rdy
  BY <1>1 DEF Poll, SchedWait, EpollAdd
<1> QED
  BY <1>1, <1>2, <1>3, <1>5, <1>6, <1>7 DEF Poll, SchedWait

LEMMA PollEndEffect ==
  ASSUME Inv, NEW c \in Co, PollEnd(c)
  PROVE  /\ c \in waiting /\ frame[c] = "poll" /\ curr = c
         /\ waiting' = waiting \ {c} /\ frame' = [frame EXCEPT ![c] = "body"]
         /\ status' = [status EXCEPT ![c] = {}]
         /\ epollset' = epollset \ {fd[c]} /\ rdy' = rdy \ {fd[c]}
         /\ UNCHANGED <<now, fault, live, ops, ready, timerVars, fd, loopVars, epollVars, open>>
<1>1. frame[c] = "poll" /\ curr = c /\ c \in waiting
  BY DEF PollEnd, Inv, OnePlace
<1>2. WaitersOn(fd[c]) = {c}
  BY <1>1 DEF WaitersOn, Inv, RegistrationMatchesWaiters
<1>3. DeschedWait(c) /\ UNCHANGED fault
  BY <1>2 DEF PollEnd
<1> QED
  BY <1>1, <1>3 DEF PollEnd, DeschedWait, EpollDel

LEMMA SleepEffect ==
  ASSUME Inv, NEW c \in Co, NEW msecs \in Msecs, Sleep(c, msecs)
  PROVE  /\ curr = c /\ frame[c] = "body"
         /\ sleeping' = sleeping \cup {c}
         /\ \E k \in Nat : /\ k > now /\ sleep_usecs' = [sleep_usecs EXCEPT ![c] = k]
                           /\ \A d \in sleeping \ {c} : sleep_usecs[d] # k
         /\ status' = [status EXCEPT ![c] = @ \cup {"SLEEPING"}]
         /\ UNCHANGED <<now, fault, live, frame, ops, ready, waitVars, loopVars,
                        epollVars, kernelVars>>
<1> DEFINE want == Deadline(now, msecs)
           others == sleeping \ Found(c, want)
<1>1. PICK k \in FirstFree(want, {sleep_usecs[d] : d \in others}) :
        sleep_usecs' = [sleep_usecs EXCEPT ![c] = k]
  BY DEF Sleep
<1>2. want \in Nat /\ want > now
  BY DeadlineType DEF Inv, TypeOK
<1>3. k \in Nat /\ k > now /\ k \notin {sleep_usecs[d] : d \in others}
  <2> HIDE DEF want, others
  <2> QED
    BY <1>1, <1>2 DEF FirstFree, Inv, TypeOK
<1>4. SameDeadline(c) \subseteq {c}
  BY DEF SameDeadline, Inv, TimerKeysDistinct, TypeOK
<1>5. others \cup {c} = sleeping \cup {c} /\ sleeping \ {c} \subseteq others
  BY <1>4 DEF Found
<1> QED
  BY <1>1, <1>3, <1>5 DEF Sleep, Running

LEMMA RequeueEffect ==
  ASSUME Misuse = {}, Inv, NEW c \in Co, curr = c, frame[c] = "body", Requeue(c)
  PROVE  /\ c \notin sleeping /\ Queued' = Queued \cup {c} /\ ReadyDistinct' /\ ready' # << >>
         /\ frame' = [frame EXCEPT ![c] = "requeue"] /\ Yield(c)
         /\ UNCHANGED <<now, fault, live, status, timerVars, waitVars, epollVars, kernelVars>>
<1>1. c \notin Queued
  BY DEF Inv, OnePlace
<1> QED
  BY <1>1, AppendQueued DEF Requeue, MayLeave, Inv, OnePlace, TypeOK

LEMMA CloseEffect ==
  ASSUME Misuse = {}, Inv, NEW c \in Co, NEW f \in Fd, Close(c, f)
  PROVE  UNCHANGED <<now, fault, coVars, ready, timerVars, waitVars, loopVars, epollVars,
                     epollset, rdy>>
<1>1. WaitersOn(f) \subseteq {c} /\ c \notin waiting
  BY DEF Close, MayUse, Running, Inv, OnePlace
<1>2. f \notin epollset /\ f \notin rdy
  BY <1>1 DEF WaitersOn, Inv, RegistrationMatchesWaiters, LoopSound
<1> QED
  BY <1>2 DEF Close

-----------------------------------------------------------------------------
(* Each part of the invariant, step by step.                               *)

Rest ==
  /\ OnePlace /\ NothingLeft
  /\ RegistrationMatchesWaiters /\ EventsHaveWaiters /\ AssertsHold
  /\ StatusSound /\ LoopSound /\ PassBounded /\ TimerKeysDistinct

LEMMA CreateInv ==
  ASSUME Misuse = {}, Inv, NEW c \in Co, Create(c) PROVE Rest'
<1> USE ConstantAssumption DEF Inv, Rest, coVars, timerVars, waitVars, loopVars, epollVars, kernelVars
<1>1. c \notin live /\ frame[c] = "none"
  BY DEF Create, OnePlace
<1>2. Queued' = Queued \cup {c} /\ ReadyDistinct' /\ ready' # << >>
  BY <1>1, AppendQueued DEF Create, OnePlace, TypeOK
<1>3. OnePlace'
  BY <1>1, <1>2 DEF Create, OnePlace, TypeOK
<1>4. NothingLeft'
  BY DEF Create, NothingLeft, LoopSound
<1>5. RegistrationMatchesWaiters' /\ EventsHaveWaiters'
  BY <1>1 DEF Create, RegistrationMatchesWaiters, EventsHaveWaiters, OnePlace, TypeOK
<1>6. StatusSound'
  BY DEF Create, StatusSound, TypeOK
<1>7. PassBounded'
  BY <1>2 DEF Create, PassBounded, TypeOK
<1>8. TimerKeysDistinct'
  BY <1>1 DEF Create, TimerKeysDistinct, OnePlace, TypeOK
<1>9. LoopSound' /\ AssertsHold'
  BY DEF Create, LoopSound, AssertsHold
<1> QED
  BY <1>3, <1>4, <1>5, <1>6, <1>7, <1>8, <1>9

LEMMA RequeueInv ==
  ASSUME Misuse = {}, Inv, NEW c \in Co, curr = c, frame[c] = "body", Requeue(c)
  PROVE  Rest'
<1> USE ConstantAssumption DEF Inv, Rest, coVars, timerVars, waitVars, loopVars, epollVars, kernelVars
<1> USE RequeueEffect
<1>3. OnePlace'
  BY DEF Yield, OnePlace, TypeOK
<1>4. NothingLeft'
  BY DEF Yield, NothingLeft, LoopSound
<1>5. RegistrationMatchesWaiters' /\ EventsHaveWaiters'
  <2>1. UNCHANGED <<waiting, fd, epollset, pending>> /\ curr' = NIL
    BY DEF Yield
  <2> HIDE RequeueEffect
  <2> QED
    BY <2>1 DEF RegistrationMatchesWaiters, EventsHaveWaiters, TypeOK
<1>6. StatusSound'
  BY DEF StatusSound, TypeOK
<1>7. PassBounded' /\ LoopSound'
  BY DEF Yield, EndsPass, PassBounded, LoopSound, TypeOK
<1>8. TimerKeysDistinct' /\ AssertsHold'
  BY DEF TimerKeysDistinct, AssertsHold
<1> QED
  BY <1>3, <1>4, <1>5, <1>6, <1>7, <1>8

LEMMA SleepInv ==
  ASSUME Inv, NEW c \in Co, NEW msecs \in Msecs, Sleep(c, msecs) PROVE Rest'
<1> USE ConstantAssumption DEF Inv, Rest, coVars, timerVars, waitVars, loopVars, epollVars, kernelVars
<1> USE SleepEffect
<1>2. Queued' = Queued /\ ReadyDistinct' = ReadyDistinct
  BY SameQueued
<1>3. OnePlace'
  BY <1>2 DEF OnePlace, TypeOK
<1>4. NothingLeft' /\ RegistrationMatchesWaiters' /\ EventsHaveWaiters'
  BY DEF NothingLeft, RegistrationMatchesWaiters, EventsHaveWaiters
<1>6. StatusSound'
  <2>1. \A d \in Co \ {c} : status'[d] = status[d]
    BY DEF TypeOK
  <2>2. status'[c] = status[c] \cup {"SLEEPING"} /\ frame' = frame /\ frame[c] = "body"
    BY DEF TypeOK
  <2> HIDE SleepEffect
  <2> QED
    BY <2>1, <2>2 DEF StatusSound
<1>7. PassBounded' /\ LoopSound' /\ AssertsHold'
  BY <1>2 DEF PassBounded, LoopSound, AssertsHold
<1>8. TimerKeysDistinct'
  <2>1. PICK k \in Nat :
          /\ k > now /\ sleep_usecs' = [sleep_usecs EXCEPT ![c] = k]
          /\ \A d \in sleeping \ {c} : sleep_usecs[d] # k
    OBVIOUS
  <2>2. /\ sleep_usecs'[c] = k /\ now' = now /\ sleeping' = sleeping \cup {c}
        /\ \A d \in Co \ {c} : sleep_usecs'[d] = sleep_usecs[d]
    BY <2>1 DEF TypeOK
  <2>3. \A d \in Co \ {c} : sleep_usecs[d] # k
    BY <2>1 DEF TimerKeysDistinct, TypeOK
  <2> QED
    BY <2>1, <2>2, <2>3 DEF TimerKeysDistinct, TypeOK
<1> QED
  BY <1>3, <1>4, <1>6, <1>7, <1>8

LEMMA PollInv ==
  ASSUME Misuse = {}, Inv, NEW c \in Co, NEW f \in Fd, NEW event, Poll(c, f, event)
  PROVE  Rest'
<1> USE ConstantAssumption DEF Inv, Rest, coVars, timerVars, waitVars, loopVars, epollVars, kernelVars
<1> USE PollEffect
<1>2. Queued' = Queued /\ ReadyDistinct' = ReadyDistinct
  BY SameQueued
<1>3. OnePlace'
  BY <1>2 DEF Yield, OnePlace, TypeOK
<1>4. NothingLeft'
  BY DEF Yield, NothingLeft, LoopSound
<1>5. RegistrationMatchesWaiters'
  BY DEF RegistrationMatchesWaiters, TypeOK
<1>6. EventsHaveWaiters'
  BY DEF Yield, EventsHaveWaiters, TypeOK
<1>7. StatusSound'
  <2>1. \A d \in Co \ {c} : status'[d] = status[d] /\ frame'[d] = frame[d]
    BY DEF TypeOK
  <2>2. frame[c] = "body" /\ "NEW" \notin status[c]
    BY DEF StatusSound
  <2>3. status'[c] \in {status[c], status[c] \cup {"WAIT_READ"}} /\ frame'[c] = "poll"
    <3>1. /\ status' \in {status, [status EXCEPT ![c] = @ \cup {"WAIT_READ"}]}
          /\ frame' = [frame EXCEPT ![c] = "poll"]
      OBVIOUS
    <3>2. c \in DOMAIN status /\ c \in DOMAIN frame
      BY DEF TypeOK
    <3> QED
      BY ONLY <3>1, <3>2
  <2>4. "NEW" \notin status'[c] /\ frame'[c] \notin {"start", "requeue", "body"}
    BY <2>2, <2>3
  <2> QED
    BY <2>1, <2>4 DEF StatusSound
<1>8. PassBounded' /\ LoopSound'
  BY <1>2, LastQueued DEF Yield, EndsPass, PassBounded, LoopSound, TypeOK
<1>9. TimerKeysDistinct' /\ AssertsHold'
  BY DEF TimerKeysDistinct, AssertsHold
<1> QED
  BY <1>3, <1>4, <1>5, <1>6, <1>7, <1>8, <1>9

LEMMA PollEndInv ==
  ASSUME Inv, NEW c \in Co, PollEnd(c) PROVE Rest'
<1> USE ConstantAssumption DEF Inv, Rest, coVars, timerVars, waitVars, loopVars, epollVars, kernelVars
<1> USE PollEndEffect
<1>2. Queued' = Queued /\ ReadyDistinct' = ReadyDistinct
  BY SameQueued
<1>3. OnePlace'
  BY <1>2 DEF OnePlace, TypeOK
<1>4. NothingLeft' /\ AssertsHold' /\ TimerKeysDistinct'
  BY DEF NothingLeft, AssertsHold, TimerKeysDistinct
<1>5. RegistrationMatchesWaiters'
  BY DEF RegistrationMatchesWaiters, TypeOK
<1>6. EventsHaveWaiters'
  BY DEF EventsHaveWaiters
<1>7. StatusSound'
  <2>1. \A d \in Co \ {c} : status'[d] = status[d] /\ frame'[d] = frame[d]
    BY DEF TypeOK
  <2>2. status'[c] = {} /\ frame'[c] = "body"
    BY DEF TypeOK
  <2>3. ASSUME NEW d \in Co, d # c
        PROVE  status'[d] = status[d] /\ frame'[d] = frame[d]
    BY <2>1, <2>3
  <2> QED
    BY <2>2, <2>3 DEF StatusSound
<1>8. PassBounded' /\ LoopSound'
  BY <1>2 DEF PassBounded, LoopSound
<1> QED
  BY <1>3, <1>4, <1>5, <1>6, <1>7, <1>8

LEMMA ExitInv ==
  ASSUME Misuse = {}, Inv, NEW c \in Co, Exit(c) PROVE Rest'
<1> USE ConstantAssumption DEF Inv, Rest, coVars, timerVars, waitVars, loopVars, epollVars, kernelVars
<1>1. /\ curr = c /\ frame[c] = "body" /\ c \notin sleeping /\ Free(c) /\ Yield(c)
      /\ UNCHANGED <<now, fault, ready, sleeping, waiting, epollVars, kernelVars>>
  BY DEF Exit, Running, MayLeave
<1>2. Queued' = Queued /\ ReadyDistinct' = ReadyDistinct
  BY <1>1, SameQueued
<1>3. OnePlace'
  BY <1>1, <1>2 DEF Yield, Free, OnePlace, TypeOK
<1>4. NothingLeft'
  BY <1>1 DEF Yield, Free, NothingLeft, LoopSound
<1>5. c \notin waiting
  BY <1>1 DEF OnePlace
<1>6. RegistrationMatchesWaiters' /\ EventsHaveWaiters'
  BY <1>1, <1>5 DEF Yield, Free, RegistrationMatchesWaiters, EventsHaveWaiters, TypeOK
<1>7. StatusSound'
  BY <1>1 DEF Free, StatusSound, TypeOK
<1>8. PassBounded' /\ LoopSound'
  BY <1>1, <1>2, LastQueued DEF Yield, EndsPass, PassBounded, LoopSound, TypeOK
<1>9. TimerKeysDistinct' /\ AssertsHold'
  BY <1>1 DEF Free, TimerKeysDistinct, AssertsHold, TypeOK
<1> QED
  BY <1>3, <1>4, <1>6, <1>7, <1>8, <1>9

LEMMA TakeReadyInv ==
  ASSUME Inv, TakeReady PROVE Rest'
<1> USE ConstantAssumption DEF Inv, Rest, coVars, timerVars, waitVars, loopVars, epollVars, kernelVars
<1>1. PICK c \in Queued :
           /\ c \in Co /\ curr = NIL /\ phase = "ready" /\ curr' = c
           /\ Queued' = Queued \ {c} /\ ReadyDistinct'
           /\ frame' = [frame EXCEPT ![c] = "body"]
           /\ status' = [status EXCEPT ![c] =
                           IF frame[c] = "start" THEN {"READY"} ELSE @]
           /\ UNCHANGED <<now, fault, live, ops, sleeping, sleep_usecs, waiting, fd, phase,
                          lastReady, epollVars, kernelVars>>
  BY TakeReadyEffect
<1>2. frame[c] \in {"start", "requeue"}
  BY <1>1 DEF OnePlace
<1>3. OnePlace'
  BY <1>1, <1>2 DEF OnePlace, TypeOK
<1>4. NothingLeft' /\ AssertsHold' /\ TimerKeysDistinct' /\ LoopSound'
  BY <1>1 DEF NothingLeft, AssertsHold, TimerKeysDistinct, LoopSound
<1>5. RegistrationMatchesWaiters'
  BY <1>1 DEF RegistrationMatchesWaiters
<1>6. EventsHaveWaiters'
  BY <1>1 DEF EventsHaveWaiters, LoopSound
<1>7. StatusSound'
  BY <1>1, <1>2 DEF StatusSound, TypeOK
<1>8. PassBounded'
  BY <1>1 DEF PassBounded, TakeReady
<1> QED
  BY <1>3, <1>4, <1>5, <1>6, <1>7, <1>8

LEMMA ExpireInv ==
  ASSUME Inv, NEW c \in Co, Expire(c) PROVE Rest'
<1> USE ConstantAssumption DEF Inv, Rest, coVars, timerVars, waitVars, loopVars, epollVars, kernelVars
<1> USE ExpireEffect
<1>2. Queued' = Queued /\ ReadyDistinct' = ReadyDistinct
  BY SameQueued
<1>3. OnePlace'
  BY <1>2 DEF OnePlace
<1>4. NothingLeft' /\ AssertsHold' /\ LoopSound' /\ PassBounded' /\ StatusSound'
  BY DEF NothingLeft, AssertsHold, LoopSound, PassBounded, StatusSound
<1>5. RegistrationMatchesWaiters' /\ EventsHaveWaiters'
  BY DEF RegistrationMatchesWaiters, EventsHaveWaiters, LoopSound
<1>6. TimerKeysDistinct'
  BY DEF TimerKeysDistinct, TypeOK
<1> QED
  BY <1>3, <1>4, <1>5, <1>6

LEMMA EventInv ==
  ASSUME Inv, NEW f \in Fd, NEW hup \in BOOLEAN, Event(f, hup) PROVE Rest'
<1> USE ConstantAssumption DEF Inv, Rest, coVars, timerVars, waitVars, loopVars, epollVars, kernelVars
<1>1. PICK c \in waiting :
           /\ c \in Co /\ fd[c] = f /\ curr = NIL /\ phase = "events" /\ curr' = c
           /\ pending' = pending \ {f}
           /\ \E st \in {{}, {"FDEOF"}} : status' = [status EXCEPT ![c] = st]
           /\ UNCHANGED <<now, fault, live, frame, ops, ready, timerVars, waitVars,
                          phase, lastReady, epollSince, epollUsecs, kernelVars>>
  BY EventEffect
<1>2. Queued' = Queued /\ ReadyDistinct' = ReadyDistinct
  BY <1>1, SameQueued
<1>3. frame[c] = "poll"
  BY <1>1 DEF OnePlace
<1>4. OnePlace'
  BY <1>1, <1>2, <1>3 DEF OnePlace
<1>5. NothingLeft' /\ AssertsHold' /\ LoopSound' /\ PassBounded' /\ TimerKeysDistinct'
  BY <1>1 DEF NothingLeft, AssertsHold, LoopSound, PassBounded, TimerKeysDistinct
<1>6. RegistrationMatchesWaiters' /\ EventsHaveWaiters'
  BY <1>1 DEF RegistrationMatchesWaiters, EventsHaveWaiters
<1>7. StatusSound'
  BY <1>1, <1>3 DEF StatusSound, TypeOK
<1> QED
  BY <1>4, <1>5, <1>6, <1>7

\* The steps that neither switch nor queue nor free a coroutine: what they
\* leave alone carries all parts of the invariant but the loop's own.
LEMMA QuietInv ==
  ASSUME Inv, now' \in Nat, now <= now',
         UNCHANGED <<fault, live, frame, ready, timerVars, waitVars, curr, epollset>>
  PROVE  /\ OnePlace' /\ RegistrationMatchesWaiters' /\ AssertsHold' /\ TimerKeysDistinct'
         /\ Queued' = Queued
         /\ status' = status => StatusSound'
<1> USE DEF Inv, timerVars, waitVars
<1>1. Queued' = Queued /\ ReadyDistinct' = ReadyDistinct
  BY SameQueued
<1>2. OnePlace'
  BY <1>1 DEF OnePlace
<1>3. RegistrationMatchesWaiters' /\ AssertsHold'
  BY DEF RegistrationMatchesWaiters, AssertsHold
<1>4. TimerKeysDistinct'
  BY DEF TimerKeysDistinct, TypeOK
<1>5. status' = status => StatusSound'
  BY DEF StatusSound
<1> QED
  BY <1>1, <1>2, <1>3, <1>4, <1>5

\* A running coroutine that changes only its own flags or counter, or opens
\* or closes a descriptor nobody waits on.
LEMMA BodyInv ==
  ASSUME Inv, NEW c \in Co, frame[c] = "body",
         UNCHANGED <<now, fault, live, frame, ready, timerVars, waitVars, loopVars,
                     epollVars, epollset, rdy>>,
         status' \in {status, [status EXCEPT ![c] = @ \cup {"DETACH"}]}
  PROVE  Rest'
<1> USE DEF Inv, Rest, timerVars, waitVars, loopVars, epollVars
<1>1. /\ OnePlace' /\ RegistrationMatchesWaiters' /\ AssertsHold' /\ TimerKeysDistinct'
      /\ Queued' = Queued
  BY QuietInv DEF TypeOK
<1>2. NothingLeft' /\ EventsHaveWaiters' /\ LoopSound' /\ PassBounded'
  BY <1>1 DEF NothingLeft, EventsHaveWaiters, LoopSound, PassBounded
<1>3. /\ \A d \in Co \ {c} : status'[d] = status[d]
      /\ status'[c] \in {status[c], status[c] \cup {"DETACH"}}
  BY DEF TypeOK
<1>4. frame' = frame
  OBVIOUS
<1>5. StatusSound'
  <2>1. ASSUME NEW d \in Co \ {c}
        PROVE  status'[d] = status[d] /\ frame'[d] = frame[d]
    BY <1>3, <1>4
  <2>2. /\ "NEW" \notin status'[c]
        /\ status'[c] \cap {"WAIT_READ", "WAIT_WRITE", "FDEOF"} = {}
    BY <1>3 DEF StatusSound
  <2> QED
    BY <1>4, <2>1, <2>2 DEF StatusSound
<1> QED
  BY <1>1, <1>2, <1>5

\* Steps of the loop, the clock and the kernel.
LEMMA LoopInv ==
  ASSUME Inv,
         \/ Run \/ Check \/ NoneExpired \/ NoneReady \/ EpollCall \/ EpollReturn
         \/ NoMoreEvents \/ Interrupt \/ Tick \/ Terminated \/ UNCHANGED vars
         \/ \E f \in Fd : KernelReady(f)
  PROVE  Rest'
<1> USE DEF Inv, Rest, coVars, timerVars, waitVars, loopVars, epollVars, kernelVars
<1>1. /\ UNCHANGED <<fault, live, status, frame, ready, timerVars, waitVars, curr, epollset>>
      /\ now' \in Nat /\ now <= now'
  <2>1. CASE Run \/ Check \/ NoMoreEvents
    BY <2>1 DEF Run, Check, NoMoreEvents, GoTo, TypeOK
  <2>2. CASE NoneExpired \/ NoneReady
    BY <2>2 DEF NoneExpired, NoneReady, TypeOK
  <2>3. CASE EpollCall
    BY <2>3 DEF EpollCall, GoTo, TypeOK
  <2>4. CASE EpollReturn \/ Interrupt
    BY <2>4 DEF EpollReturn, Interrupt, GoTo, TypeOK
  <2>5. CASE Tick
    BY <2>5, ConstantAssumption DEF Tick, TypeOK
  <2>6. CASE Terminated \/ UNCHANGED vars \/ \E f \in Fd : KernelReady(f)
    BY <2>6 DEF Terminated, KernelReady, vars, TypeOK
  <2> QED
    BY <2>1, <2>2, <2>3, <2>4, <2>5, <2>6
<1>2. /\ OnePlace' /\ RegistrationMatchesWaiters' /\ AssertsHold' /\ TimerKeysDistinct'
      /\ Queued' = Queued /\ StatusSound'
  BY <1>1, QuietInv
<1>3. CASE Run \/ NoneReady \/ EpollCall \/ NoMoreEvents
  <2>1. /\ curr = NIL /\ curr' = NIL /\ pending' = {} /\ rdy' = rdy
        /\ phase' \in {"check", "epoll", "blocked", "events"} /\ lastReady' = NIL
    BY <1>3 DEF Run, NoneReady, EpollCall, NoMoreEvents, GoTo, AtLoop, LoopSound
  <2> QED
    BY <1>1, <1>2, <2>1 DEF NothingLeft, EventsHaveWaiters, LoopSound, PassBounded
<1>4. CASE Check
  <2>1. /\ curr = NIL /\ phase = "check" /\ lastReady = NIL /\ pending = {}
        /\ UNCHANGED <<curr, lastReady, pending, rdy>>
        /\ phase' = IF IsDone THEN "done" ELSE "expired"
    BY <1>4 DEF Check, GoTo, AtLoop, LoopSound
  <2>2. ASSUME IsDone PROVE live = {}
    <3>1. waiting = {} /\ Queued = {}
      BY <2>2, LastQueued DEF IsDone, TypeOK
    <3> QED
      BY <2>1, <3>1, ConstantAssumption DEF OnePlace, TypeOK, Frames
  <2> QED
    BY <1>1, <1>2, <2>1, <2>2 DEF NothingLeft, EventsHaveWaiters, LoopSound, PassBounded
<1>5. CASE NoneExpired
  <2>1. /\ curr = NIL /\ curr' = NIL /\ pending = {} /\ UNCHANGED <<pending, rdy>>
        /\ phase' = "ready"
        /\ lastReady' = IF ready = << >> THEN NIL ELSE ready[Len(ready)]
    BY <1>5 DEF NoneExpired, AtLoop, LoopSound
  <2>2. ready # << >> => ready[Len(ready)] \in Queued /\ ready[Len(ready)] \in Co
    BY LastQueued, QueueType DEF TypeOK
  <2> QED
    BY <1>1, <1>2, <2>1, <2>2, ConstantAssumption
    DEF NothingLeft, EventsHaveWaiters, LoopSound, PassBounded
<1>6. CASE EpollReturn
  <2>1. /\ curr = NIL /\ curr' = NIL /\ lastReady' = lastReady /\ rdy' = rdy
        /\ phase = "blocked" /\ phase' = "events" /\ pending' = rdy
    BY <1>6 DEF EpollReturn, Reported, AtLoop, GoTo
  <2>2. EventsHaveWaiters'
    <3>1. \A f \in rdy : \E c \in waiting : fd[c] = f /\ c \in Co
      BY DEF LoopSound, RegistrationMatchesWaiters, TypeOK
    <3> QED
      BY <1>1, <2>1, <3>1, ConstantAssumption DEF EventsHaveWaiters
  <2> QED
    BY <1>1, <1>2, <2>1, <2>2 DEF NothingLeft, LoopSound, PassBounded
<1>7. CASE Interrupt \/ Tick \/ Terminated \/ UNCHANGED vars \/ \E f \in Fd : KernelReady(f)
  <2>1. UNCHANGED <<loopVars, pending>> /\ rdy' \subseteq epollset
    BY <1>7 DEF Interrupt, Tick, Terminated, KernelReady, vars, LoopSound
  <2> QED
    BY <1>1, <1>2, <2>1 DEF NothingLeft, EventsHaveWaiters, LoopSound, PassBounded
<1> QED
  BY <1>3, <1>4, <1>5, <1>6, <1>7

\* The invariant is inductive.
LEMMA InvNext == ASSUME Misuse = {}, Inv, [Next]_vars PROVE Inv'
<1>1. TypeOK'
  BY TypeNext DEF Inv
<1>2. ASSUME NEW c \in Co, Sleep0(c) \/ Renice(c) PROVE Rest'
  <2>1. CASE Sleep0(c)
    BY <2>1, RequeueInv DEF Sleep0, Running
  <2>2. CASE Renice(c) /\ ops[c] + 1 < 5
    <3>1. /\ frame[c] = "body"
          /\ UNCHANGED <<now, fault, live, status, frame, ready, timerVars,
                         waitVars, loopVars, epollVars, epollset, rdy>>
      BY <2>2 DEF Renice, Running, kernelVars
    <3> QED
      BY <3>1, BodyInv
  <2>3. CASE Renice(c) /\ ~(ops[c] + 1 < 5)
    BY <2>3, RequeueInv DEF Renice, Running
  <2> QED
    BY <1>2, <2>1, <2>2, <2>3
<1>3. ASSUME NEW c \in Co, Detach(c) PROVE Rest'
  <2>1. /\ frame[c] = "body"
        /\ status' = [status EXCEPT ![c] = @ \cup {"DETACH"}]
        /\ UNCHANGED <<now, fault, live, frame, ready, timerVars, waitVars, loopVars,
                       epollVars, epollset, rdy>>
    BY <1>3 DEF Detach, Running, kernelVars
  <2> QED
    BY <2>1, BodyInv
<1>4. ASSUME NEW c \in Co, NEW f \in Fd, Socket(c, f) PROVE Rest'
  BY <1>4, BodyInv DEF Socket, Running, coVars
<1>5. ASSUME NEW c \in Co, NEW f \in Fd, Close(c, f) PROVE Rest'
  BY <1>5, CloseEffect, BodyInv DEF Close, Running, coVars
<1>6. Rest'
  BY <1>2, <1>3, <1>4, <1>5, CreateInv, SleepInv, PollInv, PollEndInv, ExitInv,
     TakeReadyInv, ExpireInv, EventInv, LoopInv DEF Next, Body, Loop
<1> QED
  BY <1>1, <1>6 DEF Inv, Rest

LEMMA InvInit == Init => Inv
<1> SUFFICES ASSUME Init PROVE Inv
  OBVIOUS
<1> USE ConstantAssumption DEF Init
<1>1. TypeOK
  BY DEF TypeOK, Frames, Phases, Faults, Flags
<1>2. Queued = {} /\ ReadyDistinct
  BY DEF Queued, ReadyDistinct
<1>3. OnePlace
  BY <1>2 DEF OnePlace
<1> QED
  BY <1>1, <1>3
  DEF Inv, NothingLeft, RegistrationMatchesWaiters, EventsHaveWaiters, AssertsHold,
      StatusSound, LoopSound, PassBounded, TimerKeysDistinct

-----------------------------------------------------------------------------
(* The theorems.                                                           *)

\* Every state of the scheduler is well typed, whatever the bodies do; in
\* particular renice keeps its counter below the limit.
THEOREM TypeCorrect == Spec => []TypeOK
<1>1. Init => TypeOK
  BY InvInit DEF Inv
<1> QED
  BY <1>1, TypeNext, PTL DEF Spec

\* The inductive invariant holds of bodies that keep their obligations.
THEOREM Invariance == ASSUME Misuse = {} PROVE Spec => []Inv
<1>1. Inv /\ [Next]_vars => Inv'
  BY InvNext
<1> QED
  BY <1>1, InvInit, PTL DEF Spec

\* No coroutine is lost, queued twice, or left dangling in a structure after
\* nty_coroutine_free.
THEOREM OnePlaceHolds == ASSUME Misuse = {} PROVE Spec => []OnePlace
<1>1. Inv => OnePlace
  BY DEF Inv
<1> QED
  BY <1>1, Invariance, PTL

\* nty_schedule_run returns only when every coroutine has been freed.
THEOREM NothingLeftHolds == ASSUME Misuse = {} PROVE Spec => []NothingLeft
<1>1. Inv => NothingLeft
  BY DEF Inv
<1> QED
  BY <1>1, Invariance, PTL

\* The poller's interest list is the set of descriptors waited on, and each
\* event of a batch still has its waiter when its turn comes.
THEOREM EventsFindWaiters ==
  ASSUME Misuse = {} PROVE Spec => [](RegistrationMatchesWaiters /\ EventsHaveWaiters)
<1>1. Inv => RegistrationMatchesWaiters /\ EventsHaveWaiters
  BY DEF Inv
<1> QED
  BY <1>1, Invariance, PTL

\* No assert of sched_wait fails, and search_wait and desched_wait never
\* dereference NULL.
THEOREM NoFault == ASSUME Misuse = {} PROVE Spec => []AssertsHold
<1>1. Inv => AssertsHold
  BY DEF Inv
<1> QED
  BY <1>1, Invariance, PTL

\* A coroutine that has run is never given a fresh context, and none is freed
\* from the ready queue because of a hang-up.
THEOREM StatusHolds == ASSUME Misuse = {} PROVE Spec => [](ContextKept /\ EofNeverQueued)
<1>1. Inv => ContextKept /\ EofNeverQueued
  <2> SUFFICES ASSUME Inv PROVE ContextKept /\ EofNeverQueued
    OBVIOUS
  <2>1. ContextKept
    BY DEF Inv, TypeOK, ContextKept, StatusSound
  <2>2. ASSUME NEW c \in Queued PROVE "FDEOF" \notin status[c]
    <3>1. c \in Co /\ frame[c] \in {"start", "requeue"}
      BY QueueType DEF Inv, OnePlace
    <3> QED
      BY <3>1 DEF Inv, StatusSound
  <2> QED
    BY <2>1, <2>2 DEF EofNeverQueued
<1> QED
  BY <1>1, Invariance, PTL

\* The test of FDEOF in the ready pass of nty_schedule_run frees no coroutine that
\* has work left: a hang-up seen by epoll_wait is gone when its coroutine requeues.
THEOREM EofNeverQueuedHolds == ASSUME Misuse = {} PROVE Spec => []EofNeverQueued
  BY StatusHolds, PTL

\* The end of a ready pass is always ahead of it.
THEOREM PassBoundedHolds == ASSUME Misuse = {} PROVE Spec => []PassBounded
<1>1. Inv => PassBounded
  BY DEF Inv
<1> QED
  BY <1>1, Invariance, PTL

\* No coroutine's sleep takes another's timer out of the tree.
THEOREM TimersKept == ASSUME Misuse = {} PROVE Spec => TimersNotStolen
<1>1. ASSUME Inv, [Next]_vars, NEW c \in sleeping \ sleeping'
      PROVE  sleep_usecs[c] <= now /\ curr' = c
  <2>1. CASE \E d \in Co : Expire(d)
    BY <1>1, <2>1, ExpireEffect
  <2>2. CASE \E d \in Co, msecs \in Msecs : Sleep(d, msecs)
    BY <1>1, <2>2, SleepEffect
  <2>3. CASE ~ \E d \in Co : Expire(d) \/ \E msecs \in Msecs : Sleep(d, msecs)
    <3>1. sleeping' = sleeping
      BY <1>1, <2>3 DEF Next, Body, Loop, Create, Sleep0, Renice, Requeue, Detach, Poll, SchedWait,
         PollEnd, Socket, Close, Exit, Run, Check, NoneExpired, TakeReady, NoneReady,
         EpollCall, EpollReturn, NoMoreEvents, Event, Interrupt, Tick, KernelReady,
         Terminated, vars, timerVars
    <3> QED
      BY <1>1, <3>1
  <2> QED
    BY <2>1, <2>2, <2>3
<1>2. Inv /\ [Next]_vars => [\A c \in sleeping \ sleeping' : sleep_usecs[c] <= now /\ curr' = c]_vars
  BY <1>1
<1> QED
  BY <1>2, Invariance, PTL DEF Spec, TimersNotStolen

\* What nty_epoller_wait passes to epoll_wait is never more than the time the
\* scheduler asked for, and is negative, which blocks without a timeout, exactly
\* when the milliseconds of that time exceed the range of int.
THEOREM EpollRoundsDown ==
  \A usecs \in Nat :
    /\ EpollUsecs(usecs) <= usecs
    /\ EpollUsecs(usecs) < 0 <=> Milliseconds(Timespec(usecs)) > IntMax
<1> SUFFICES ASSUME NEW usecs \in Nat
             PROVE  EpollUsecs(usecs) < 0 <=> Milliseconds(Timespec(usecs)) > IntMax
  BY EpollUsecsFacts
<1> DEFINE ms == Milliseconds(Timespec(usecs))
<1>1. ms \in Nat
  BY DEF Milliseconds, Timespec
<1>2. EpollUsecs(usecs) = (IF ms <= IntMax THEN ms ELSE -(IntMax + 1)) * 1000
  BY DEF EpollUsecs, EpollMsecs
<1> HIDE DEF ms
<1>3. IntMax \in Nat
  BY IntAssumption
<1>4. EpollUsecs(usecs) < 0 <=> ms > IntMax
  BY <1>1, <1>2, <1>3
<1> QED
  BY <1>4 DEF ms

\* Blocking in epoll_wait never makes a timer late when no signal interrupts,
\* unless every timer is further away than the milliseconds of an int reach.
THEOREM NeverOversleeps ==
  ASSUME Misuse = {}, Signals = FALSE PROVE Spec => []EpollNeverOversleeps
<1>1. Init => EpollNeverOversleeps
  BY DEF Init, EpollNeverOversleeps
<1>2. ASSUME Inv, EpollNeverOversleeps, [Next]_vars PROVE EpollNeverOversleeps'
  <2>1. CASE EpollCall
    <3> SUFFICES ASSUME phase' = "blocked", NEW c \in sleeping'
                 PROVE  IF epollUsecs' >= 0 THEN epollSince' + epollUsecs' <= sleep_usecs'[c]
                        ELSE epollSince' + IntMax * 1000 < sleep_usecs'[c]
      BY DEF EpollNeverOversleeps
    <3>1. PICK usecs \in MinTimeouts : usecs # 0 /\ epollUsecs' = EpollUsecs(usecs)
      BY <2>1 DEF EpollCall, GoTo
    <3>2. epollSince' = now /\ sleeping' = sleeping /\ sleep_usecs' = sleep_usecs
      BY <2>1 DEF EpollCall, GoTo, timerVars
    <3>3. /\ usecs \in Nat /\ epollUsecs' <= usecs /\ epollUsecs' \in Int
          /\ epollUsecs' < 0 => IntMax * 1000 < usecs
      BY <1>2, <3>1, MinTimeoutsType, EpollUsecsFacts DEF Inv
    <3>4. now + usecs <= sleep_usecs[c]
      BY <1>2, <3>1, <3>2 DEF MinTimeouts, Remaining, FirstSleeper, Inv, TypeOK
    <3>5. now \in Nat /\ sleep_usecs[c] \in Nat /\ IntMax * 1000 \in Int
      BY <1>2, <3>2, IntAssumption DEF Inv, TypeOK
    <3> HIDE DEF EpollNeverOversleeps
    <3> QED
      BY <3>2, <3>3, <3>4, <3>5
  <2>2. CASE ~EpollCall
    <3> USE ConstantAssumption DEF coVars, timerVars, loopVars, epollVars
    <3>1. ASSUME NEW c \in Co, Create(c) \/ curr = c,
                 Create(c) \/ Sleep0(c) \/ Renice(c) \/ Detach(c) \/ PollEnd(c) \/ Exit(c)
                   \/ (\E msecs \in Msecs : Sleep(c, msecs))
                   \/ (\E f \in Fd, event \in {"POLLIN", "POLLOUT"} : Poll(c, f, event))
                   \/ (\E f \in Fd : Socket(c, f) \/ Close(c, f))
          PROVE  phase # "blocked" /\ phase' # "blocked"
      <4>1. phase # "blocked"
        BY <1>2, <3>1 DEF Create, Inv, LoopSound
      <4>2. phase' \in {phase, "epoll"}
        BY <3>1 DEF Create, Sleep0, Renice, Requeue, Detach, PollEnd, Exit, Sleep, Poll, SchedWait,
           Socket, Close, Yield
      <4> QED
        BY <4>1, <4>2
    <3>2. CASE \/ Run \/ Check \/ NoneExpired \/ TakeReady \/ NoneReady \/ EpollReturn
               \/ NoMoreEvents \/ (\E c \in Co : Expire(c))
               \/ (\E f \in Fd, hup \in BOOLEAN : Event(f, hup))
      <4>1. phase' # "blocked"
        BY <3>2 DEF Run, Check, NoneExpired, TakeReady, NoneReady, EpollReturn, NoMoreEvents,
           Expire, Event, AtLoop, GoTo
      <4> QED
        BY <4>1 DEF EpollNeverOversleeps
    <3>3. CASE Tick \/ Terminated \/ UNCHANGED vars \/ \E f \in Fd : KernelReady(f)
      BY <1>2, <3>3 DEF Tick, Terminated, KernelReady, vars, EpollNeverOversleeps
    <3>4. ASSUME NEW c \in Co,
                 \/ Sleep0(c) \/ Renice(c) \/ Detach(c) \/ PollEnd(c) \/ Exit(c)
                 \/ \E msecs \in Msecs : Sleep(c, msecs)
                 \/ \E f \in Fd, event \in {"POLLIN", "POLLOUT"} : Poll(c, f, event)
                 \/ \E f \in Fd : Socket(c, f) \/ Close(c, f)
          PROVE  curr = c
      BY <3>4 DEF Sleep0, Renice, Detach, PollEnd, Exit, Sleep, Poll, SchedWait, Socket, Close, Running
    <3>5. CASE (\E c \in Co : Create(c)) \/ Body
      <4>1. phase' # "blocked"
        BY <3>1, <3>4, <3>5 DEF Body
      <4> QED
        BY <4>1 DEF EpollNeverOversleeps
    <3>6. ~Interrupt
      BY DEF Interrupt
    <3> HIDE DEF coVars, timerVars, loopVars, epollVars
    <3> QED
      BY <1>2, <2>2, <3>2, <3>3, <3>5, <3>6 DEF Next, Loop
  <2> QED
    BY <2>1, <2>2
<1> QED
  BY <1>1, <1>2, Invariance, PTL DEF Spec

HIDE DEF ReniceLimit, InitStatus, Enqueued, Dequeued

-----------------------------------------------------------------------------
(* The socket calls: the invariant                                         *)

Activations == [nty : BOOLEAN, at : {"try", "poll", "sys", "abort"}, sent : Nat]

AllErrnos == Errnos \cup {"none", "EPIPE", "EAGAIN", "EALREADY", "EINPROGRESS", "EMFILE",
                         "ECONNABORTED"}

CallRecords ==
  [hook : Hooks \cup {"none"}, f : Fd \cup {NIL}, len : Nat, took : Nat, early : BOOLEAN,
   frames : Seq(Activations), ret : Int, errno : AllErrnos]

\* The kernel's side of the sockets
NetOK ==
  /\ nonblock \subseteq Fd
  /\ inq \in [Fd -> Nat] /\ room \in [Fd -> Nat]
  /\ err \in [Fd -> {"none", "EPIPE"} \cup Errnos]
  /\ link \in [Fd -> {"fresh", "connecting", "up"}]
  /\ \A f \in Fd \ Streams : link[f] = "up" /\ err[f] # "EPIPE"
  /\ open \ FromMain \subseteq nonblock

\* A call is one activation, or that of an nty_ function and of its hook
ShapeOK(c) ==
  LET k == call[c]
      n == Len(k.frames)
  IN  /\ n <= 2
      /\ n = 2 => /\ k.frames[1].nty = TRUE /\ k.frames[2].nty = FALSE
                  /\ k.frames[1].at \in {"try", "sys"}
      /\ k.hook = "none" => k = NoCall
      /\ n > 0 /\ k.frames[1].at = "try" => k.hook = "send"
      /\ n = 2 /\ k.frames[2].at = "try" => k.hook = "send"
      /\ k.hook # "none" => k.f \in KindFor(k.hook) /\ k.len > 0
      /\ k.hook \in DataHooks => link[k.f] = "up"

\* A coroutine in a call runs, or waits on the descriptor of the call, which is
\* open and no other coroutine's
PlaceOK(c) ==
  LET k == call[c]
  IN  /\ k.hook # "none" => frame[c] \in {"body", "poll"} /\ k.f \in open
      /\ frame[c] = "poll" => InCall(c, "poll") /\ fd[c] = k.f
      /\ curr = c /\ frame[c] = "poll" => phase \in {"expired", "events"}
Apart ==
  \A c, d \in Co : c # d /\ call[c].hook # "none" /\ call[d].hook # "none" =>
                     call[c].f # call[d].f

\* The activation i has sent nothing: send has yet to try, the hook of sendto
\* returns after one system call, and a datagram is sent whole
Unsent(k, i) ==
  \/ k.frames[i].at = "try"
  \/ k.hook = "sendto" /\ (k.frames[i].nty = FALSE \/ k.f \in Dgrams)

\* What the activations of a call have sent is what the kernel took
SentOK(c) ==
  LET k == call[c]
      n == Len(k.frames)
  IN  k.hook \in {"send", "sendto"} =>
        /\ n > 0 => k.took < k.len
        /\ n = 1 => k.frames[1].at = "abort" \/ k.took = k.frames[1].sent
        /\ n = 2 => k.took = k.frames[1].sent + k.frames[2].sent
        /\ n > 0 /\ Unsent(k, 1) => k.frames[1].sent = 0
        /\ n = 2 /\ Unsent(k, 2) => k.frames[2].sent = 0
        /\ n = 0 => k.took = (IF k.ret > 0 THEN k.ret ELSE 0) \/ CountLost(c)

\* The event a call waits for has come
Come(c) ==
  call[c].hook = "accept" \/ HasEvent(call[c].f, EventOf(call[c].hook))

\* epoll_wait has an event of the coroutine to report, or has reported it
Woken(c) == fd[c] \in rdy \cup pending \/ (curr = c /\ phase = "events")

\* A coroutine that no timer has woken goes on only when its event has come
WokenOK(c) ==
  LET k == call[c]
  IN  ~k.early =>
        /\ frame[c] = "poll" /\ Woken(c) => Come(c)
        /\ frame[c] = "body" /\ InCall(c, "sys") /\ ~Top(c).nty => Come(c)
        /\ HasReturned(c) =>
             /\ k.errno \notin {"EAGAIN", "EALREADY"}
             /\ k.hook = "send" /\ k.ret < k.len => err[k.f] # "none"

CallOK(c) == ShapeOK(c) /\ PlaceOK(c) /\ SentOK(c) /\ WokenOK(c)

SockInv ==
  /\ call \in [Co -> CallRecords] /\ NetOK /\ Apart
  /\ \A c \in Co : CallOK(c)

Whole == SockInv /\ (Inv \/ fault = "errno")

-----------------------------------------------------------------------------
(* What other steps leave to a call *)

\* A step that is not of d's call: what it may change for d
Kept(d) ==
  /\ call'[d] = call[d]
  /\ call[d].hook = "none" => frame'[d] # "poll"
  /\ call[d].hook # "none" =>
       /\ frame'[d] = frame[d] /\ fd'[d] = fd[d] /\ call[d].f \in open'
       /\ link[call[d].f] = "up" => link'[call[d].f] = "up"
       /\ err[call[d].f] # "none" => err'[call[d].f] # "none"
       /\ Come(d) => Come(d)'
       /\ curr' = d /\ frame[d] = "poll" => phase' \in {"expired", "events"}
       /\ frame[d] = "poll" /\ Woken(d)' => Woken(d) \/ Come(d)'

LEMMA KeptOK ==
  ASSUME NEW d \in Co, CallOK(d), Kept(d) PROVE CallOK(d)'
<1>1. CASE call[d].hook = "none"
  <2>1. call[d] = NoCall /\ call'[d] = NoCall /\ frame'[d] # "poll"
    BY <1>1 DEF CallOK, ShapeOK, Kept
  <2>2. /\ NoCall.hook = "none" /\ NoCall.frames = << >> /\ Len(NoCall.frames) = 0
    BY DEF NoCall
  <2>3. ShapeOK(d)'
    BY <2>1, <2>2 DEF ShapeOK, DataHooks
  <2>4. PlaceOK(d)'
    BY <2>1, <2>2 DEF PlaceOK
  <2>5. SentOK(d)' /\ WokenOK(d)'
    BY <2>1, <2>2 DEF SentOK, WokenOK, InCall, HasReturned
  <2> QED
    BY <2>3, <2>4, <2>5 DEF CallOK
<1>2. CASE call[d].hook # "none"
  <2>1. ShapeOK(d)'
    BY <1>2 DEF CallOK, ShapeOK, Kept
  <2>2. PlaceOK(d)'
    BY <1>2 DEF CallOK, PlaceOK, Kept, InCall, Top
  <2>3. SentOK(d)'
    BY <1>2 DEF CallOK, SentOK, Kept, Unsent, CountLost
  <2>4. WokenOK(d)'
    <3>1. /\ frame'[d] = frame[d] /\ call'[d] = call[d]
          /\ Come(d) => Come(d)'
          /\ frame[d] = "poll" /\ Woken(d)' => Woken(d) \/ Come(d)'
          /\ err[call[d].f] # "none" => err'[call[d].f] # "none"
      BY <1>2 DEF Kept
    <3>2. Top(d)' = Top(d)
      BY <3>1 DEF Top
    <3>3. (InCall(d, "sys")' <=> InCall(d, "sys")) /\ (HasReturned(d)' <=> HasReturned(d))
      BY <3>1, <3>2 DEF InCall, HasReturned
    <3> SUFFICES ASSUME ~call[d].early PROVE WokenOK(d)'
      BY <3>1 DEF WokenOK
    <3>4. /\ frame[d] = "poll" /\ Woken(d) => Come(d)
          /\ frame[d] = "body" /\ InCall(d, "sys") /\ ~Top(d).nty => Come(d)
          /\ HasReturned(d) =>
               /\ call[d].errno \notin {"EAGAIN", "EALREADY"}
               /\ call[d].hook = "send" /\ call[d].ret < call[d].len => err[call[d].f] # "none"
      BY DEF CallOK, WokenOK
    <3> QED
      BY <3>1, <3>2, <3>3, <3>4 DEF WokenOK
  <2> QED
    BY <2>1, <2>2, <2>3, <2>4 DEF CallOK
<1> QED
  BY <1>1, <1>2

\* A step that leaves every call as it is
LEMMA AllKept ==
  ASSUME SockInv, call' = call, NetOK', \A d \in Co : Kept(d) PROVE SockInv'
<1>1. Apart'
  BY DEF SockInv, Apart
<1>2. \A d \in Co : CallOK(d)'
  BY KeptOK DEF SockInv
<1> QED
  BY <1>1, <1>2 DEF SockInv

\* A step of c's own call
LEMMA OneCall ==
  ASSUME SockInv, NEW c \in Co, NEW k \in CallRecords, call' = [call EXCEPT ![c] = k],
         NetOK', CallOK(c)', \A d \in Co \ {c} : Kept(d),
         k.hook # "none" => \A d \in Co \ {c} : call[d].hook # "none" => call[d].f # k.f
  PROVE  SockInv'
<1>1. call' \in [Co -> CallRecords]
  BY DEF SockInv
<1>2. call'[c] = k /\ \A d \in Co \ {c} : call'[d] = call[d]
  BY DEF SockInv
<1>3. Apart'
  BY <1>2 DEF SockInv, Apart
<1>4. \A d \in Co : CallOK(d)'
  BY KeptOK DEF SockInv
<1> QED
  BY <1>1, <1>3, <1>4 DEF SockInv

-----------------------------------------------------------------------------
(* The steps of the scheduler *)

LEMMA SchedSteps ==
  ASSUME SockInv, Inv, UNCHANGED sockVars, open' = open,
         \A d \in Co :
           \/ frame[d] \notin {"body", "poll"} /\ frame'[d] # "poll"
           \/ call[d] = NoCall /\ frame'[d] # "poll"
           \/ /\ frame'[d] = frame[d] /\ fd'[d] = fd[d]
              /\ curr' = d /\ frame[d] = "poll" => phase' \in {"expired", "events"}
              /\ frame[d] = "poll" /\ Woken(d)' => Woken(d) \/ Come(d)'
  PROVE  SockInv'
<1>1. call' = call /\ UNCHANGED <<nonblock, inq, room, err, link>>
  BY DEF sockVars
<1>2. NetOK'
  BY <1>1 DEF SockInv, NetOK
<1>3. ASSUME NEW d \in Co PROVE Kept(d)
  <2>1. CallOK(d)
    BY DEF SockInv
  <2>2. Come(d)' <=> Come(d)
    BY <1>1 DEF Come, HasEvent
  <2>3. CASE call[d].hook # "none"
    <3>1. frame[d] \in {"body", "poll"} /\ call[d] # NoCall /\ call[d].f \in open
      BY <2>1, <2>3 DEF CallOK, PlaceOK, NoCall
    <3> QED
      BY <1>1, <2>2, <2>3, <3>1 DEF Kept
  <2>4. CASE call[d].hook = "none"
    <3>1. frame[d] # "poll"
      BY <2>1, <2>4 DEF CallOK, PlaceOK, ShapeOK, InCall, NoCall
    <3> QED
      BY <1>1, <2>4, <3>1 DEF Kept
  <2> QED
    BY <2>3, <2>4
<1> QED
  BY <1>1, <1>2, <1>3, AllKept

\* Where a step leaves the places of all coroutines but one alone
LEMMA SameWoken ==
  ASSUME NEW d, fd'[d] = fd[d], rdy' \subseteq rdy, pending' \subseteq pending \cup rdy,
         curr' # d \/ (curr' = curr /\ phase' = phase)
  PROVE  Woken(d)' => Woken(d)
  BY DEF Woken

LEMMA BodySteps ==
  ASSUME SockInv, Inv, UNCHANGED sockVars, NEW c \in Co,
         Create(c) \/ Leave(c) \/ \E msecs \in Msecs : FreeToAct(c) /\ Sleep(c, msecs)
  PROVE  SockInv'
<1> USE ConstantAssumption DEF kernelVars, epollVars, loopVars
<1>1. CASE Create(c)
  <2>1. /\ frame[c] = "none" /\ frame' = [frame EXCEPT ![c] = "start"]
        /\ fd' = [fd EXCEPT ![c] = NIL]
        /\ UNCHANGED <<curr, phase, pending, rdy, open>>
    BY <1>1 DEF Create, Inv, OnePlace
  <2>2. frame'[c] # "poll"
    BY <2>1 DEF Inv, TypeOK
  <2>3. ASSUME NEW d \in Co \ {c}
        PROVE  frame'[d] = frame[d] /\ fd'[d] = fd[d] /\ (Woken(d)' => Woken(d))
    BY <2>1, SameWoken DEF Inv, TypeOK
  <2>4. \A d \in Co : curr' = d /\ frame[d] = "poll" => phase' \in {"expired", "events"}
    BY <2>1 DEF SockInv, CallOK, PlaceOK
  <2> QED
    BY <2>1, <2>2, <2>3, <2>4, SchedSteps
<1>2. CASE Leave(c)
  <2>1. /\ call[c] = NoCall /\ frame' = [frame EXCEPT ![c] = "none"]
        /\ fd' = [fd EXCEPT ![c] = NIL] /\ curr' = NIL
        /\ UNCHANGED <<pending, rdy, open>>
    BY <1>2 DEF Leave, FreeToAct, Exit, Free, Yield
  <2>2. frame'[c] # "poll"
    BY <2>1 DEF Inv, TypeOK
  <2>3. ASSUME NEW d \in Co \ {c}
        PROVE  /\ frame'[d] = frame[d] /\ fd'[d] = fd[d] /\ (Woken(d)' => Woken(d))
               /\ curr' # d
    BY <2>1, SameWoken DEF Inv, TypeOK
  <2> QED
    BY <2>1, <2>2, <2>3, SchedSteps
<1>3. CASE \E msecs \in Msecs : FreeToAct(c) /\ Sleep(c, msecs)
  <2>1. UNCHANGED <<frame, fd, curr, phase, pending, rdy, open>>
    BY <1>3 DEF Sleep, waitVars
  <2>2. \A d \in Co : /\ Woken(d)' => Woken(d)
                      /\ curr' = d /\ frame[d] = "poll" => phase' \in {"expired", "events"}
    BY <2>1, SameWoken DEF SockInv, CallOK, PlaceOK
  <2> QED
    BY <2>1, <2>2, SchedSteps
<1> QED
  BY <1>1, <1>2, <1>3

LEMMA LoopSteps ==
  ASSUME SockInv, Inv, UNCHANGED sockVars, Loop \/ Tick \/ Terminated PROVE SockInv'
<1> USE ConstantAssumption DEF kernelVars, epollVars, loopVars, waitVars, coVars
<1>0. \A d \in Co : curr = d /\ frame[d] = "poll" => phase \in {"expired", "events"}
  BY DEF SockInv, CallOK, PlaceOK
<1>1. CASE TakeReady
  <2>1. PICK c \in Queued :
           /\ c \in Co /\ curr' = c /\ frame' = [frame EXCEPT ![c] = "body"]
           /\ UNCHANGED <<fd, pending, rdy, open>>
    BY <1>1, TakeReadyEffect
  <2>2. frame[c] \notin {"body", "poll"} /\ frame'[c] = "body"
    BY <2>1 DEF Inv, OnePlace, TypeOK
  <2>3. ASSUME NEW d \in Co \ {c}
        PROVE  /\ frame'[d] = frame[d] /\ fd'[d] = fd[d] /\ (Woken(d)' => Woken(d))
               /\ curr' # d
    BY <2>1, SameWoken DEF Inv, TypeOK
  <2> QED
    BY <2>1, <2>2, <2>3, SchedSteps
<1>2. ASSUME NEW c \in Co, Expire(c) PROVE SockInv'
  <2>1. /\ curr' = c /\ phase' = "expired" /\ UNCHANGED <<frame, fd, pending, rdy, open>>
    BY <1>2, ExpireEffect
  <2>2. \A d \in Co : Woken(d)' => Woken(d)
    BY <2>1 DEF Woken
  <2> QED
    BY <2>1, <2>2, SchedSteps
<1>3. ASSUME NEW f \in Fd, NEW hup \in BOOLEAN, Event(f, hup) PROVE SockInv'
  <2>1. PICK c \in Co :
          /\ fd[c] = f /\ f \in pending /\ phase' = "events" /\ curr' = c
          /\ pending' = pending \ {f} /\ UNCHANGED <<frame, fd, rdy, open>>
    BY <1>3, EventEffect DEF Event
  <2>2. \A d \in Co : Woken(d)' => Woken(d)
    BY <2>1 DEF Woken
  <2> QED
    BY <2>1, <2>2, SchedSteps
<1>4. CASE Run \/ Check \/ NoneExpired \/ NoneReady \/ EpollCall \/ EpollReturn \/ NoMoreEvents
  <2>1. /\ curr' = NIL /\ UNCHANGED <<frame, fd, rdy, open>>
        /\ pending' \subseteq pending \cup rdy
    BY <1>4 DEF Run, Check, NoneExpired, NoneReady, EpollCall, EpollReturn, NoMoreEvents, AtLoop,
                GoTo, Reported
  <2>2. \A d \in Co : curr' # d /\ (Woken(d)' => Woken(d))
    BY <2>1 DEF Woken
  <2> QED
    BY <2>1, <2>2, SchedSteps
<1>5. CASE Tick \/ Terminated
  <2>1. UNCHANGED <<frame, fd, curr, phase, pending, rdy, open>>
    BY <1>5 DEF Tick, Terminated, vars
  <2>2. \A d \in Co : Woken(d)' => Woken(d)
    BY <2>1 DEF Woken
  <2> QED
    BY <1>0, <2>1, <2>2, SchedSteps
<1> QED
  BY <1>1, <1>2, <1>3, <1>4, <1>5 DEF Loop

\* The kernel reports an event to the one coroutine that waits on the descriptor
LEMMA ReportStep ==
  ASSUME SockInv, Inv, NEW f \in Fd, Report(f) PROVE SockInv'
<1>1. /\ UNCHANGED <<frame, fd, curr, phase, pending, open>> /\ rdy' = rdy \cup {f}
      /\ UNCHANGED sockVars
  BY DEF Report, KernelReady, coVars, waitVars, loopVars, epollVars
<1>2. PICK c \in waiting : fd[c] = f /\ HasEvent(f, EventOf(call[c].hook))
  BY DEF Report, WaitersOn
<1>3. c \in Co /\ frame[c] = "poll" /\ call[c].f = f
  BY <1>2 DEF Inv, TypeOK, OnePlace, SockInv, CallOK, PlaceOK
<1>4. Come(c)'
  BY <1>1, <1>2, <1>3 DEF Come, HasEvent, sockVars
<1>5. ASSUME NEW d \in Co, frame[d] = "poll", Woken(d)' PROVE Woken(d) \/ Come(d)'
  <2>1. CASE fd[d] = f
    <3>1. d = c
      BY <1>2, <1>5, <2>1 DEF Inv, OnePlace, RegistrationMatchesWaiters
    <3> QED
      BY <1>4, <3>1
  <2>2. CASE fd[d] # f
    BY <1>1, <1>5, <2>2 DEF Woken
  <2> QED
    BY <2>1, <2>2
<1>6. \A d \in Co : curr' = d /\ frame[d] = "poll" => phase' \in {"expired", "events"}
  BY <1>1 DEF SockInv, CallOK, PlaceOK
<1> QED
  BY <1>1, <1>5, <1>6, SchedSteps

-----------------------------------------------------------------------------
(* The descriptors and the network *)

\* While c runs, every other coroutine that is in a call waits
LEMMA OthersWait ==
  ASSUME SockInv, Inv, NEW c \in Co, curr = c, NEW d \in Co \ {c}, call[d].hook # "none"
  PROVE  /\ frame[d] = "poll" /\ d \in waiting /\ fd[d] = call[d].f /\ call[d].f \in open
         /\ call[d].f \in Fd
<1>1. frame[d] \in {"body", "poll"} /\ call[d].f \in open
  BY DEF SockInv, CallOK, PlaceOK
<1>2. frame[d] = "poll" /\ d \in waiting
  BY <1>1 DEF Inv, OnePlace
<1> QED
  BY <1>1, <1>2 DEF SockInv, CallOK, PlaceOK, Inv, TypeOK

LEMMA KindFacts ==
  ASSUME NEW hook \in Hooks
  PROVE  /\ KindFor(hook) \subseteq Fd
         /\ hook \in {"recv", "send", "connect"} => KindFor(hook) = Streams
         /\ hook \in {"recvfrom", "sendto"} => KindFor(hook) = Dgrams \cup Streams
         /\ hook = "accept" => KindFor(hook) = Listeners
  BY SocketAssumption DEF KindFor, Hooks, DataHooks

LEMMA KernelSteps ==
  ASSUME SockInv, NetOK', call' = call, UNCHANGED <<frame, fd, curr, phase, pending>>,
         rdy' \subseteq rdy,
         \A d \in Co : call[d].hook # "none" =>
           /\ call[d].f \in open'
           /\ link[call[d].f] = "up" => link'[call[d].f] = "up"
           /\ err[call[d].f] # "none" => err'[call[d].f] # "none"
           /\ Come(d) => Come(d)'
  PROVE  SockInv'
<1>1. ASSUME NEW d \in Co PROVE Kept(d)
  <2>1. CallOK(d)
    BY DEF SockInv
  <2>2. Woken(d)' => Woken(d)
    BY DEF Woken
  <2>3. call[d].hook = "none" => frame[d] # "poll"
    BY <2>1 DEF CallOK, PlaceOK, ShapeOK, InCall, NoCall
  <2>4. curr = d /\ frame[d] = "poll" => phase \in {"expired", "events"}
    BY <2>1 DEF CallOK, PlaceOK
  <2> QED
    BY <2>2, <2>3, <2>4 DEF Kept
<1> QED
  BY <1>1, AllKept

\* A step that changes nothing of the descriptors that calls are on
LEMMA ElsewhereSteps ==
  ASSUME SockInv, NetOK', call' = call, UNCHANGED <<frame, fd, curr, phase, pending>>,
         rdy' \subseteq rdy, NEW f \in Fd,
         open \ {f} \subseteq open',
         \A g \in Fd \ {f} : /\ inq'[g] = inq[g] /\ room'[g] = room[g]
                             /\ err'[g] = err[g] /\ link'[g] = link[g],
         \A d \in Co : call[d].hook # "none" => call[d].f # f
  PROVE  SockInv'
<1>1. ASSUME NEW d \in Co, call[d].hook # "none"
      PROVE  call[d].f \in open /\ call[d].f \in Fd \ {f}
  <2>1. call[d].f \in open /\ call[d].f \in KindFor(call[d].hook) /\ call[d].hook \in Hooks
    BY <1>1 DEF SockInv, CallOK, PlaceOK, ShapeOK, CallRecords
  <2> QED
    BY <1>1, <2>1, KindFacts
<1>2. ASSUME NEW d \in Co, call[d].hook # "none" PROVE Come(d) => Come(d)'
  BY <1>1, <1>2 DEF Come, HasEvent
<1> QED
  BY <1>1, <1>2, KernelSteps

LEMMA OpenCloseSteps ==
  ASSUME Misuse = {}, SockInv, Inv, NEW c \in Co, NEW f \in Fd, SockOpen(c, f) \/ SockClose(c, f)
  PROVE  SockInv'
<1> USE SocketAssumption DEF coVars, waitVars, loopVars, epollVars
<1>1. /\ curr = c /\ call[c] = NoCall /\ call' = call
      /\ UNCHANGED <<frame, fd, curr, phase, pending>> /\ rdy' \subseteq rdy
  BY DEF SockOpen, SockClose, FreeToAct, Running, Socket, Close
<1>2. ASSUME NEW d \in Co, call[d].hook # "none" PROVE call[d].f # f
  <2>1. d # c
    BY <1>1, <1>2 DEF NoCall
  <2>2. frame[d] = "poll" /\ d \in waiting /\ fd[d] = call[d].f /\ call[d].f \in open
    BY <1>1, <1>2, <2>1, OthersWait
  <2>3. CASE SockOpen(c, f)
    BY <2>2, <2>3 DEF SockOpen, Socket
  <2>4. CASE SockClose(c, f)
    BY <2>1, <2>2, <2>4 DEF SockClose, Close, MayUse, WaitersOn
  <2> QED
    BY <2>3, <2>4
<1>3. NetOK'
  <2>1. CASE SockOpen(c, f)
    BY <2>1 DEF SockOpen, Socket, SockInv, NetOK
  <2>2. CASE SockClose(c, f)
    BY <2>2 DEF SockClose, Close, SockInv, NetOK
  <2> QED
    BY <2>1, <2>2
<1>4. /\ open \ {f} \subseteq open'
      /\ \A g \in Fd \ {f} : /\ inq'[g] = inq[g] /\ room'[g] = room[g]
                             /\ err'[g] = err[g] /\ link'[g] = link[g]
  BY DEF SockOpen, SockClose, Socket, Close, SockInv, NetOK
<1> QED
  BY <1>1, <1>2, <1>3, <1>4, ElsewhereSteps

LEMMA MainOpensStep ==
  ASSUME SockInv, Inv, NEW f \in Fd, MainOpens(f) PROVE SockInv'
<1> USE SocketAssumption DEF coVars, waitVars, loopVars, epollVars, sockVars
<1>1. /\ f \in FromMain \ open /\ open' = open \cup {f} /\ UNCHANGED sockVars
      /\ UNCHANGED <<frame, fd, curr, phase, pending, rdy>>
  BY DEF MainOpens
<1>2. NetOK'
  BY <1>1 DEF SockInv, NetOK
<1>3. \A d \in Co : call[d].hook # "none" => call[d].f # f
  BY <1>1 DEF SockInv, CallOK, PlaceOK
<1> QED
  BY <1>1, <1>2, <1>3, ElsewhereSteps

LEMMA NetworkSteps ==
  ASSUME SockInv, Inv, NEW f \in Fd, Network(f) PROVE SockInv'
<1> USE SocketAssumption DEF coVars, waitVars, loopVars, epollVars, kernelVars
<1>1. /\ UNCHANGED <<frame, fd, curr, phase, pending, open, call, nonblock>> /\ rdy' \subseteq rdy
  BY DEF Network, PeerSends, PeerReads, PeerFails, Connected, OtherAccepts, vars
<1>2. NetOK'
  <2>1. CASE PeerSends(f)
    BY <1>1, <2>1 DEF PeerSends, SockInv, NetOK
  <2>2. CASE PeerReads(f)
    BY <1>1, <2>2 DEF PeerReads, SockInv, NetOK
  <2>3. CASE PeerFails(f)
    BY <1>1, <2>3 DEF PeerFails, SockInv, NetOK
  <2>4. CASE Connected(f)
    BY <1>1, <2>4 DEF Connected, SockInv, NetOK
  <2>5. CASE OtherAccepts(f)
    BY <1>1, <2>5 DEF OtherAccepts, SockInv, NetOK
  <2> QED
    BY <2>1, <2>2, <2>3, <2>4, <2>5 DEF Network
<1>3. \A g \in Fd : /\ link[g] = "up" => link'[g] = "up"
                    /\ link[g] = "fresh" => link'[g] = "fresh"
                    /\ err[g] # "none" => err'[g] # "none"
                    /\ room[g] > 0 => room'[g] > 0
                    /\ g \notin Listeners /\ inq[g] > 0 => inq'[g] > 0
  <2>1. CASE PeerSends(f)
    BY <2>1 DEF PeerSends, SockInv, NetOK
  <2>2. CASE PeerReads(f)
    BY <2>2 DEF PeerReads, SockInv, NetOK
  <2>3. CASE PeerFails(f)
    BY <2>3 DEF PeerFails, SockInv, NetOK
  <2>4. CASE Connected(f)
    BY <2>4 DEF Connected, SockInv, NetOK
  <2>5. CASE OtherAccepts(f)
    BY <2>5 DEF OtherAccepts, SockInv, NetOK
  <2> QED
    BY <2>1, <2>2, <2>3, <2>4, <2>5 DEF Network
<1>4. ASSUME NEW d \in Co, call[d].hook # "none"
      PROVE  /\ call[d].f \in open /\ call[d].f \in Fd
             /\ Come(d) => Come(d)'
  <2>1. call[d].f \in open /\ call[d].f \in KindFor(call[d].hook) /\ call[d].hook \in Hooks
    BY <1>4 DEF SockInv, CallOK, PlaceOK, ShapeOK, CallRecords
  <2>2. call[d].f \in Fd /\ (call[d].hook # "accept" => call[d].f \notin Listeners)
    BY <2>1, KindFacts DEF Hooks, DataHooks
  <2>3. Come(d) => Come(d)'
    BY <1>1, <1>3, <2>2 DEF Come, HasEvent
  <2> QED
    BY <2>1, <2>2, <2>3
<1> QED
  BY <1>1, <1>2, <1>3, <1>4, KernelSteps

-----------------------------------------------------------------------------
(* One activation, or two *)

LEMMA OneFrame ==
  ASSUME NEW S, NEW a \in S
  PROVE  /\ <<a>> \in Seq(S) /\ Len(<<a>>) = 1 /\ <<a>>[1] = a /\ <<a>> # << >>
         /\ Last(<<a>>) = a
<1>1. <<a>> \in Seq(S) /\ Len(<<a>>) = 1 /\ <<a>>[1] = a
  OBVIOUS
<1>2. <<a>> # << >>
  BY <1>1
<1> QED
  BY <1>1, <1>2 DEF Last

LEMMA FramesType ==
  ASSUME NEW S, NEW s \in Seq(S)
  PROVE  /\ Len(s) \in Nat /\ (s = << >> <=> Len(s) = 0)
         /\ \A i \in 1..Len(s) : s[i] \in S
         /\ s # << >> => Last(s) \in S /\ Last(s) = s[Len(s)]
  BY DEF Last

LEMMA TwoFrames ==
  ASSUME NEW S, NEW s \in Seq(S), Len(s) = 1, NEW a \in S
  PROVE  /\ Append(s, a) \in Seq(S) /\ Len(Append(s, a)) = 2
         /\ Append(s, a)[1] = s[1] /\ Append(s, a)[2] = a
         /\ Append(s, a) # << >> /\ Last(Append(s, a)) = a
<1> DEFINE u == Append(s, a)
<1>1. u \in Seq(S)
  OBVIOUS
<1>2. Len(u) = 2
  OBVIOUS
<1>3. u[1] = s[1]
  OBVIOUS
<1>4. u[2] = a
  <2>1. u[Len(s) + 1] = a
    BY ONLY s \in Seq(S), a \in S, AppendProperties
  <2>2. Len(s) + 1 = 2
    OBVIOUS
  <2> HIDE DEF u
  <2> QED
    BY ONLY <2>1, <2>2
<1> HIDE DEF u
<1>5. u # << >> /\ Last(u) = u[Len(u)]
  BY ONLY <1>1, <1>2, FramesType
<1>6. Last(u) = a
  BY ONLY <1>2, <1>4, <1>5
<1> QED
  BY ONLY <1>1, <1>2, <1>3, <1>4, <1>5, <1>6 DEF u

-----------------------------------------------------------------------------
(* The steps of a call *)

\* What a call does on its descriptor, or on none, is nothing to the others
LEMMA OthersKept ==
  ASSUME SockInv, Inv, NEW c \in Co, curr = c,
         \A d \in Co \ {c} : call'[d] = call[d] /\ frame'[d] = frame[d] /\ fd'[d] = fd[d],
         curr' \in {c, NIL}, rdy' \subseteq rdy, pending' = pending, open \subseteq open',
         \A g \in open : \/ call[c].hook # "none" /\ g = call[c].f
                         \/ /\ inq'[g] = inq[g] /\ room'[g] = room[g]
                            /\ err'[g] = err[g] /\ link'[g] = link[g]
  PROVE  \A d \in Co \ {c} : Kept(d)
<1> SUFFICES ASSUME NEW d \in Co \ {c} PROVE Kept(d)
  OBVIOUS
<1>1. call'[d] = call[d] /\ frame'[d] = frame[d] /\ fd'[d] = fd[d] /\ curr' # d /\ CallOK(d)
  BY ConstantAssumption DEF SockInv
<1>2. CASE call[d].hook = "none"
  <2>1. frame[d] # "poll"
    BY <1>1, <1>2 DEF CallOK, PlaceOK, ShapeOK, InCall, NoCall
  <2> QED
    BY <1>1, <1>2, <2>1 DEF Kept
<1>3. CASE call[d].hook # "none"
  <2> DEFINE g == call[d].f
  <2>1. g \in open /\ g \in open'
    BY <1>3, OthersWait
  <2>2. ~(call[c].hook # "none" /\ g = call[c].f)
    BY <1>3 DEF SockInv, Apart
  <2>3. inq'[g] = inq[g] /\ room'[g] = room[g] /\ err'[g] = err[g] /\ link'[g] = link[g]
    BY <2>1, <2>2
  <2>4. Come(d) => Come(d)'
    BY <1>1, <2>3 DEF Come, HasEvent
  <2>5. Woken(d)' => Woken(d)
    BY <1>1 DEF Woken
  <2> QED
    BY <1>1, <1>3, <2>1, <2>3, <2>4, <2>5 DEF Kept
<1> QED
  BY <1>2, <1>3

\* The same of a step that is of the call alone
LEMMA CallAlone ==
  ASSUME SockInv, Inv, NEW c \in Co, curr = c, UNCHANGED <<vars, netVars>>,
         NEW k \in CallRecords, call' = [call EXCEPT ![c] = k], CallOK(c)',
         k.hook = "none" \/ (call[c].hook # "none" /\ k.f = call[c].f)
           \/ (\A d \in Co \ {c} : call[d].hook # "none" => call[d].f # k.f)
  PROVE  SockInv'
<1> USE DEF vars, netVars, coVars, waitVars, loopVars, epollVars, kernelVars
<1>1. \A d \in Co \ {c} : call'[d] = call[d]
  BY DEF SockInv
<1>2. \A d \in Co \ {c} : Kept(d)
  BY <1>1, OthersKept
<1>3. NetOK'
  BY DEF SockInv, NetOK
<1>4. k.hook # "none" => \A d \in Co \ {c} : call[d].hook # "none" => call[d].f # k.f
  BY DEF SockInv, Apart
<1> QED
  BY <1>2, <1>3, <1>4, OneCall

LEMMA ShapeIntro ==
  ASSUME NEW c, NEW k, NEW n, call'[c] = k, Len(k.frames) = n, n <= 2, k.hook # "none",
         n = 2 => /\ k.frames[1].nty = TRUE /\ k.frames[2].nty = FALSE
                  /\ k.frames[1].at \in {"try", "sys"},
         n > 0 /\ k.frames[1].at = "try" => k.hook = "send",
         n = 2 /\ k.frames[2].at = "try" => k.hook = "send",
         k.f \in KindFor(k.hook), k.len > 0,
         k.hook \in DataHooks => link'[k.f] = "up"
  PROVE  ShapeOK(c)'
  BY DEF ShapeOK

LEMMA SentOne ==
  ASSUME NEW c, NEW k, call'[c] = k, Len(k.frames) = 1,
         k.hook \in {"send", "sendto"} =>
           /\ k.took < k.len /\ (k.frames[1].at = "abort" \/ k.took = k.frames[1].sent)
           /\ Unsent(k, 1) => k.frames[1].sent = 0
  PROVE  SentOK(c)'
<1>1. 1 # 2 /\ 1 # 0 /\ 1 > 0
  OBVIOUS
<1> QED
  BY <1>1 DEF SentOK

LEMMA SentTwo ==
  ASSUME NEW c, NEW k, call'[c] = k, Len(k.frames) = 2,
         k.hook \in {"send", "sendto"} =>
           /\ k.took < k.len /\ k.took = k.frames[1].sent + k.frames[2].sent
           /\ Unsent(k, 1) => k.frames[1].sent = 0
           /\ Unsent(k, 2) => k.frames[2].sent = 0
  PROVE  SentOK(c)'
<1>1. 1 # 2 /\ 2 # 0 /\ 2 > 0
  OBVIOUS
<1> QED
  BY <1>1 DEF SentOK

LEMMA SentNone ==
  ASSUME NEW c, NEW k, call'[c] = k, Len(k.frames) = 0,
         k.hook \in {"send", "sendto"} =>
           k.took = (IF k.ret > 0 THEN k.ret ELSE 0) \/ CountLost(c)'
  PROVE  SentOK(c)'
<1>1. 1 # 0 /\ 2 # 0 /\ ~(0 > 0)
  OBVIOUS
<1> QED
  BY <1>1 DEF SentOK

LEMMA BeginStep ==
  ASSUME Misuse = {}, SockInv, Inv, NEW c \in Co, NEW hook \in Hooks, NEW nty \in BOOLEAN,
         NEW f \in Fd, NEW len \in Nat \ {0}, Begin(c, hook, nty, f, len)
  PROVE  SockInv'
<1> DEFINE a == Frame(hook, nty)
           k == [NoCall EXCEPT !.hook = hook, !.f = f, !.len = len, !.frames = <<a>>]
<1>1. /\ curr = c /\ frame[c] = "body" /\ f \in open /\ f \in KindFor(hook)
      /\ WaitersOn(f) \subseteq {c} /\ UNCHANGED <<vars, netVars>>
      /\ hook \in DataHooks => link[f] = "up"
      /\ call' = [call EXCEPT ![c] = k]
  BY DEF Begin, FreeToAct, Running, MayUse
<1>2. /\ a \in Activations /\ a.at \in {"try", "poll"} /\ a.sent = 0
      /\ a.at = "try" => hook = "send"
  BY DEF Frame, Entry, Activations
<1> HIDE DEF a
<1>n. NoCall \in CallRecords /\ NoCall.took = 0 /\ NoCall.early = FALSE
  BY DEF NoCall, CallRecords, AllErrnos
<1>a. PICK s \in Seq(Activations) :
        s = <<a>> /\ Len(s) = 1 /\ s[1] = a /\ s # << >> /\ Last(s) = a
  BY <1>2, OneFrame
<1>3. /\ k.hook = hook /\ k.f = f /\ k.len = len /\ k.took = 0 /\ k.early = FALSE
      /\ k.frames = s
  BY <1>n, <1>a DEF CallRecords
<1>4. k \in CallRecords
  BY <1>n, <1>a DEF CallRecords
<1> HIDE DEF k
<1>5. call'[c] = k /\ frame'[c] = "body" /\ open' = open /\ link' = link
  BY <1>1 DEF SockInv, vars, netVars, coVars, kernelVars
<1>6. ShapeOK(c)'
  <2>1. 1 <= 2 /\ 1 # 2 /\ len > 0 /\ hook # "none"
    BY DEF Hooks, DataHooks
  <2>2. /\ k.f \in KindFor(k.hook) /\ k.len > 0 /\ k.hook # "none"
        /\ k.hook \in DataHooks => link'[k.f] = "up"
        /\ k.frames[1].at = "try" => k.hook = "send"
    BY <2>1, <1>1, <1>2, <1>3, <1>a, <1>5
  <2>3. Len(k.frames) = 1 /\ call'[c] = k
    BY <1>3, <1>a, <1>5
  <2> QED
    BY ONLY <2>1, <2>2, <2>3, ShapeIntro
<1>7. PlaceOK(c)'
  BY <1>1, <1>3, <1>a, <1>5 DEF PlaceOK
<1>8. SentOK(c)'
  <2>1. s[1].sent = 0 /\ k.took < k.len
    BY <1>2, <1>3, <1>a
  <2>2. k.took = s[1].sent
    BY <2>1, <1>3
  <2> QED
    BY <2>1, <2>2, <1>3, <1>a, <1>5, SentOne
<1>9. WokenOK(c)'
  BY <1>2, <1>3, <1>a, <1>5 DEF WokenOK, InCall, Top, HasReturned
<1>10. \A d \in Co \ {c} : call[d].hook # "none" => call[d].f # k.f
  BY <1>1, <1>3, OthersWait DEF WaitersOn
<1> QED
  BY <1>1, <1>4, <1>6, <1>7, <1>8, <1>9, <1>10, CallAlone DEF CallOK

LEMMA ReturnedStep ==
  ASSUME SockInv, Inv, NEW c \in Co, Returned(c) PROVE SockInv'
<1>1. /\ curr = c /\ frame[c] = "body" /\ call' = [call EXCEPT ![c] = NoCall]
      /\ UNCHANGED <<vars, netVars>>
  BY DEF Returned, Running
<1>2. NoCall \in CallRecords /\ NoCall.hook = "none" /\ NoCall.frames = << >>
  BY DEF NoCall, CallRecords, AllErrnos
<1>3. call'[c] = NoCall /\ frame'[c] = "body" /\ Len(<< >>) = 0
  BY <1>1 DEF SockInv, vars, coVars
<1>4. CallOK(c)'
  BY <1>2, <1>3
  DEF CallOK, ShapeOK, DataHooks, PlaceOK, SentOK, WokenOK, InCall, HasReturned
<1> QED
  BY <1>1, <1>2, <1>4, CallAlone

LEMMA EnterHookStep ==
  ASSUME SockInv, Inv, NEW c \in Co, EnterHook(c) PROVE SockInv'
<1> DEFINE s == call[c].frames
           a == Frame(call[c].hook, FALSE)
           t == Append(s, a)
           k == [call[c] EXCEPT !.frames = t]
<1>1. /\ curr = c /\ frame[c] = "body" /\ UNCHANGED <<vars, netVars>>
      /\ s # << >> /\ Last(s).at \in {"try", "sys"} /\ Last(s).nty
      /\ call' = [call EXCEPT ![c] = k]
  BY DEF EnterHook, Running, Top
<1>2. call[c] \in CallRecords /\ s \in Seq(Activations) /\ CallOK(c)
  BY DEF SockInv, CallRecords
<1>3. Len(s) = 1 /\ Last(s) = s[1]
  <2>1. Len(s) <= 2 /\ (Len(s) = 2 => s[2].nty = FALSE)
    BY <1>2 DEF CallOK, ShapeOK
  <2>2. PICK n \in Nat \ {0} : n = Len(s) /\ Last(s) = s[n]
    BY <1>1, <1>2, FramesType
  <2> HIDE DEF s
  <2>3. n # 2
    BY <1>1, <2>1, <2>2
  <2>4. n <= 2
    BY <2>1, <2>2
  <2>5. n = 1
    BY <2>3, <2>4
  <2> QED
    BY <2>2, <2>5
<1>4. /\ a \in Activations /\ a.at \in {"try", "poll"} /\ a.sent = 0 /\ a.nty = FALSE
      /\ a.at = "try" => call[c].hook = "send"
  BY DEF Frame, Entry, Activations
<1>5. t \in Seq(Activations) /\ Len(t) = 2 /\ t[1] = s[1] /\ t[2] = a /\ t # << >> /\ Last(t) = a
  <2> HIDE DEF s, a
  <2>1. s \in Seq(Activations)
    BY <1>2
  <2>2. Len(s) = 1
    BY <1>3
  <2>3. a \in Activations
    BY <1>4
  <2>4. t \in Seq(Activations) /\ Len(t) = 2
    BY ONLY <2>1, <2>2, <2>3, TwoFrames
  <2>5. t[1] = s[1] /\ t[2] = a
    BY ONLY <2>1, <2>2, <2>3, TwoFrames
  <2>6. t # << >> /\ Last(t) = a
    BY ONLY <2>1, <2>2, <2>3, TwoFrames
  <2> QED
    BY <2>4, <2>5, <2>6
<1>6. call[c].hook # "none"
  BY <1>1, <1>2 DEF CallOK, ShapeOK, NoCall
<1> HIDE DEF a, t
<1>7. /\ k \in CallRecords /\ k.frames = t /\ k.hook = call[c].hook /\ k.f = call[c].f
      /\ k.len = call[c].len /\ k.took = call[c].took /\ k.early = call[c].early
  BY <1>2, <1>5 DEF CallRecords
<1> HIDE DEF k
<1>8. call'[c] = k /\ UNCHANGED <<frame, open, link>>
  BY <1>1 DEF SockInv, vars, netVars, coVars, kernelVars
<1>9. ShapeOK(c)'
  <2>1. /\ k.f \in KindFor(k.hook) /\ k.len > 0
        /\ k.hook \in DataHooks => link[k.f] = "up"
    BY <1>2, <1>6, <1>7 DEF CallOK, ShapeOK
  <2>2. t[1].nty = TRUE /\ t[2].nty = FALSE /\ t[1].at \in {"try", "sys"}
    <3>1. s[1] \in Activations
      BY <1>2, <1>3, FramesType
    <3> QED
      BY <1>1, <1>3, <1>4, <1>5, <3>1 DEF Activations
  <2>3. t[1].at = "try" => k.hook = "send"
    <3>1. PICK n \in Nat : n = 1 /\ n > 0 /\ n = Len(s)
      BY <1>3
    <3>2. s[1].at = "try" => call[c].hook = "send"
      BY <1>2, <3>1 DEF CallOK, ShapeOK
    <3> QED
      BY <1>5, <1>7, <3>2
  <2>4. t[2].at = "try" => k.hook = "send"
    BY <1>4, <1>5, <1>6, <1>7
  <2>5. /\ call'[c] = k /\ Len(k.frames) = 2 /\ 2 <= 2 /\ 2 > 0 /\ k.hook # "none"
        /\ k.frames[1].nty = TRUE /\ k.frames[2].nty = FALSE /\ k.frames[1].at \in {"try", "sys"}
        /\ k.frames[1].at = "try" => k.hook = "send"
        /\ k.frames[2].at = "try" => k.hook = "send"
        /\ k.f \in KindFor(k.hook) /\ k.len > 0
        /\ k.hook \in DataHooks => link'[k.f] = "up"
    BY <1>5, <1>6, <1>7, <1>8, <2>1, <2>2, <2>3, <2>4
  <2> QED
    BY ONLY <2>5, ShapeIntro
<1>10. PlaceOK(c)'
  BY <1>1, <1>2, <1>7, <1>8 DEF CallOK, PlaceOK
<1>11. SentOK(c)'
  <2>1. k.hook \in {"send", "sendto"} =>
          /\ k.took = s[1].sent /\ k.took < k.len
          /\ Unsent(k, 1) => s[1].sent = 0
    <3>1. PICK n \in Nat : n = 1 /\ n > 0 /\ n = Len(s)
      BY <1>3
    <3>2. Unsent(k, 1) => Unsent(call[c], 1)
      BY <1>5, <1>7 DEF Unsent
    <3>3. s[1].at # "abort"
      BY <1>1, <1>3
    <3> QED
      BY <1>2, <1>7, <3>1, <3>2, <3>3 DEF CallOK, SentOK
  <2>2. s[1].sent \in Nat
    <3>1. s[1] \in Activations
      BY <1>2, <1>3, FramesType
    <3> QED
      BY <3>1 DEF Activations
  <2> HIDE DEF s
  <2>3. s[1].sent + 0 = s[1].sent
    BY <2>2
  <2> QED
    BY <1>4, <1>5, <1>7, <1>8, <2>1, <2>3, SentTwo
<1>12. WokenOK(c)'
  BY <1>1, <1>4, <1>5, <1>7, <1>8 DEF WokenOK, InCall, Top, HasReturned
<1> QED
  BY <1>1, <1>6, <1>7, <1>9, <1>10, <1>11, <1>12, CallAlone DEF CallOK

LEMMA CallPollStep ==
  ASSUME Misuse = {}, SockInv, Inv, NEW c \in Co, CallPoll(c) PROVE SockInv'
<1> DEFINE k == call[c]
           f == call[c].f
<1> USE DEF waitVars, loopVars, epollVars
<1>1. InCall(c, "poll") /\ Poll(c, f, EventOf(k.hook)) /\ UNCHANGED sockVars
  BY DEF CallPoll
<1>2. k \in CallRecords /\ CallOK(c)
  BY DEF SockInv
<1>3. k.hook # "none"
  BY <1>1, <1>2 DEF CallOK, ShapeOK, InCall, NoCall
<1>4. k.hook \in Hooks /\ f \in Fd /\ f \in open
  <2>1. k.hook \in Hooks /\ f \in KindFor(k.hook) /\ f \in open
    BY <1>2, <1>3 DEF CallRecords, CallOK, ShapeOK, PlaceOK
  <2> QED
    BY <2>1, KindFacts
<1>5. /\ frame[c] = "body" /\ curr = c /\ \A d \in waiting : fd[d] # f
      /\ fd' = [fd EXCEPT ![c] = f] /\ frame' = [frame EXCEPT ![c] = "poll"]
      /\ rdy' = rdy /\ pending' = pending /\ open' = open /\ curr' = NIL
  BY <1>1, <1>4, PollEffect DEF Yield
<1>6. fd'[c] = f /\ frame'[c] = "poll" /\ curr' # c
  BY <1>5, ConstantAssumption DEF Inv, TypeOK
<1>7. ~Woken(c)'
  <2>1. f \notin pending
    BY <1>5 DEF Inv, EventsHaveWaiters
  <2>2. f \notin rdy
    BY <1>5 DEF Inv, LoopSound, RegistrationMatchesWaiters
  <2> QED
    BY <1>5, <1>6, <2>1, <2>2 DEF Woken
<1>8. call' = call /\ UNCHANGED <<nonblock, inq, room, err, link>>
  BY <1>1 DEF sockVars
<1>9. CallOK(c)'
  <2>1. ShapeOK(c)' /\ SentOK(c)'
    BY <1>2, <1>8 DEF CallOK, ShapeOK, SentOK, Unsent, CountLost
  <2>2. PlaceOK(c)'
    BY <1>1, <1>4, <1>5, <1>6, <1>8 DEF PlaceOK, InCall, Top
  <2>3. WokenOK(c)'
    <3>1. ~HasReturned(c)'
      BY <1>1, <1>8 DEF InCall, HasReturned
    <3> QED
      BY <1>6, <1>7, <3>1 DEF WokenOK
  <2> QED
    BY <2>1, <2>2, <2>3 DEF CallOK
<1>10. NetOK'
  BY <1>5, <1>8 DEF SockInv, NetOK
<1>11. \A d \in Co \ {c} : call'[d] = call[d] /\ frame'[d] = frame[d] /\ fd'[d] = fd[d]
  BY <1>5, <1>8 DEF Inv, TypeOK
<1>12. \A d \in Co \ {c} : Kept(d)
  BY <1>5, <1>8, <1>11, OthersKept
<1>13. call' = [call EXCEPT ![c] = k]
  BY <1>8 DEF SockInv
<1>14. \A d \in Co \ {c} : call[d].hook # "none" => call[d].f # k.f
  BY <1>3 DEF SockInv, Apart
<1> QED
  BY <1>2, <1>9, <1>10, <1>12, <1>13, <1>14, OneCall

LEMMA ReplaceTop ==
  ASSUME NEW S, NEW s \in Seq(S), s # << >>, NEW e \in S
  PROVE  /\ ReplaceAt(s, Len(s), e) \in Seq(S) /\ Len(ReplaceAt(s, Len(s), e)) = Len(s)
         /\ ReplaceAt(s, Len(s), e)[Len(s)] = e
         /\ \A i \in 1..Len(s) : i # Len(s) => ReplaceAt(s, Len(s), e)[i] = s[i]
         /\ ReplaceAt(s, Len(s), e) # << >> /\ Last(ReplaceAt(s, Len(s), e)) = e
<1> DEFINE t == ReplaceAt(s, Len(s), e)
<1>1. PICK n \in Nat \ {0} : n = Len(s)
  BY FramesType
<1>2. t = [s EXCEPT ![n] = e]
  BY <1>1 DEF ReplaceAt
<1>3. t \in Seq(S) /\ Len(t) = n
  BY <1>1, <1>2
<1>4. t[n] = e /\ \A i \in 1..n : i # n => t[i] = s[i]
  BY <1>1, <1>2
<1> HIDE DEF t
<1>5. t # << >> /\ Last(t) = e
  BY <1>3, <1>4, FramesType
<1> QED
  BY <1>1, <1>3, <1>4, <1>5 DEF t

LEMMA CallPolledStep ==
  ASSUME SockInv, Inv, NEW c \in Co, CallPolled(c) PROVE SockInv'
<1> DEFINE s == call[c].frames
           e == [Last(s) EXCEPT !.at = "sys"]
           t == ReplaceAt(s, Len(s), e)
           k == [call[c] EXCEPT !.frames = t, !.early = call[c].early \/ phase = "expired"]
<1> USE DEF waitVars, loopVars, epollVars, netVars
<1>1. InCall(c, "poll") /\ PollEnd(c) /\ UNCHANGED netVars
  BY DEF CallPolled
<1>2. call[c] \in CallRecords /\ s \in Seq(Activations) /\ CallOK(c) /\ call \in [Co -> CallRecords]
  BY DEF SockInv, CallRecords
<1>3. call' = [call EXCEPT ![c] = k]
  <2>1. call' = [[call EXCEPT ![c].frames = t] EXCEPT ![c].early = @ \/ phase = "expired"]
    BY DEF CallPolled, SetTop
  <2> HIDE DEF t
  <2> QED
    BY <1>2, <2>1 DEF CallRecords
<1>4. /\ s # << >> /\ Last(s) \in Activations /\ Last(s) = s[Len(s)] /\ Last(s).at = "poll"
  BY <1>1, <1>2, FramesType DEF InCall, Top
<1>5. e \in Activations /\ e.nty = Last(s).nty /\ e.sent = Last(s).sent /\ e.at = "sys"
  BY <1>4 DEF Activations
<1>6. /\ t \in Seq(Activations) /\ Len(t) = Len(s) /\ t[Len(s)] = e
      /\ \A i \in 1..Len(s) : i # Len(s) => t[i] = s[i]
      /\ t # << >> /\ Last(t) = e
  <2> HIDE DEF s, e
  <2>1. s \in Seq(Activations) /\ s # << >> /\ e \in Activations
    BY <1>2, <1>4, <1>5
  <2>2. t \in Seq(Activations) /\ Len(t) = Len(s) /\ t[Len(s)] = e
    BY ONLY <2>1, ReplaceTop
  <2>3. \A i \in 1..Len(s) : i # Len(s) => t[i] = s[i]
    BY ONLY <2>1, ReplaceTop
  <2>4. t # << >> /\ Last(t) = e
    BY ONLY <2>1, ReplaceTop
  <2> QED
    BY <2>2, <2>3, <2>4
<1>7. PICK n \in {1, 2} : n = Len(s)
  <2>1. Len(s) <= 2
    BY <1>2 DEF CallOK, ShapeOK
  <2>2. PICK n \in Nat \ {0} : n = Len(s)
    BY <1>2, <1>4, FramesType
  <2>3. n <= 2
    BY <2>1, <2>2
  <2>4. n = 1 \/ n = 2
    BY <2>3
  <2> QED
    BY <2>2, <2>4
<1>8. call[c].hook # "none"
  BY <1>2, <1>4 DEF CallOK, ShapeOK, NoCall
<1> HIDE DEF t, e
<1>9. /\ k \in CallRecords /\ k.frames = t /\ k.hook = call[c].hook /\ k.f = call[c].f
      /\ k.len = call[c].len /\ k.took = call[c].took
      /\ k.early = (call[c].early \/ phase = "expired")
  <2>1. (call[c].early \/ phase = "expired") \in BOOLEAN
    OBVIOUS
  <2> QED
    BY <1>2, <1>6, <2>1 DEF CallRecords
<1> HIDE DEF k
<1>10. /\ curr = c /\ frame[c] = "poll" /\ frame' = [frame EXCEPT ![c] = "body"]
       /\ rdy' = rdy \ {fd[c]} /\ UNCHANGED <<fd, curr, phase, pending, open>>
  BY <1>1, PollEndEffect
<1>11. call'[c] = k /\ frame'[c] = "body" /\ link' = link
  BY <1>1, <1>2, <1>3, <1>10 DEF Inv, TypeOK
<1>12. ShapeOK(c)'
  <2>1. /\ k.f \in KindFor(k.hook) /\ k.len > 0
        /\ k.hook \in DataHooks => link'[k.f] = "up"
    BY <1>2, <1>8, <1>9, <1>11 DEF CallOK, ShapeOK
  <2>2. n = 2 => t[1].nty = TRUE /\ t[2].nty = FALSE /\ t[1].at \in {"try", "sys"}
    <3>1. n = 2 => s[1].nty = TRUE /\ s[2].nty = FALSE /\ s[1].at \in {"try", "sys"}
      BY <1>2, <1>7 DEF CallOK, ShapeOK
    <3>2. n = 2 => t[1] = s[1] /\ t[2].nty = s[2].nty
      BY <1>4, <1>5, <1>6, <1>7
    <3> QED
      BY <3>1, <3>2
  <2>3. Len(t) = n /\ n <= 2
    BY <1>6, <1>7
  <2>4. /\ t[1].at = "try" => k.hook = "send"
        /\ n = 2 => t[2].at = "sys"
    <3>1. n > 0
      BY <1>7
    <3>2. s[1].at = "try" => k.hook = "send"
      BY <1>2, <1>7, <1>9, <3>1 DEF CallOK, ShapeOK
    <3>3. n = 1 => t[1] = e
      BY <1>6, <1>7
    <3>4. n = 2 => t[1] = s[1] /\ t[2] = e
      BY <1>6, <1>7
    <3> QED
      BY <1>5, <3>2, <3>3, <3>4
  <2> QED
    BY <1>8, <1>9, <1>11, <2>1, <2>2, <2>3, <2>4, ShapeIntro
<1>13. PlaceOK(c)'
  BY <1>2, <1>8, <1>9, <1>10, <1>11 DEF CallOK, PlaceOK
<1>14. SentOK(c)'
  <2>1. CASE n = 1
    <3>1. Len(t) = 1 /\ t[1] = e /\ e.sent = s[1].sent
      BY <1>4, <1>5, <1>6, <1>7, <2>1
    <3>2. k.hook \in {"send", "sendto"} =>
            k.took < k.len /\ k.took = s[1].sent /\ (Unsent(k, 1) => s[1].sent = 0)
      <4>1. n > 0 /\ n = Len(s)
        BY <1>7
      <4>2. Unsent(k, 1) => Unsent(call[c], 1)
        BY <1>4, <1>5, <1>7, <1>9, <2>1, <3>1 DEF Unsent
      <4>3. s[1].at # "abort"
        BY <1>4, <1>7, <2>1
      <4> QED
        BY <1>2, <1>9, <2>1, <4>1, <4>2, <4>3 DEF CallOK, SentOK
    <3> QED
      BY <1>5, <1>9, <1>11, <3>1, <3>2, SentOne
  <2>2. CASE n = 2
    <3>1. Len(t) = 2 /\ t[2] = e /\ e.sent = s[2].sent /\ t[1] = s[1]
      BY <1>4, <1>5, <1>6, <1>7, <2>2
    <3>2. k.hook \in {"send", "sendto"} =>
            /\ k.took < k.len /\ k.took = s[1].sent + s[2].sent
            /\ Unsent(k, 1) => s[1].sent = 0
            /\ Unsent(k, 2) => s[2].sent = 0
      <4>1. n > 0 /\ n = Len(s)
        BY <1>7
      <4>2. /\ Unsent(k, 1) => Unsent(call[c], 1)
            /\ Unsent(k, 2) => Unsent(call[c], 2)
        BY <1>4, <1>5, <1>7, <1>9, <2>2, <3>1 DEF Unsent
      <4> QED
        BY <1>2, <1>9, <2>2, <4>1, <4>2 DEF CallOK, SentOK
    <3> QED
      BY <1>5, <1>9, <1>11, <3>1, <3>2, SentTwo
  <2> QED
    BY <2>1, <2>2
<1>15. WokenOK(c)'
  <2>1. ~HasReturned(c)'
    BY <1>6, <1>9, <1>11 DEF HasReturned
  <2>2. ASSUME ~k.early PROVE Come(c)'
    <3>1. ~call[c].early /\ phase = "events"
      BY <1>2, <1>9, <1>10, <2>2 DEF CallOK, PlaceOK
    <3>2. Come(c)
      BY <1>2, <1>10, <3>1 DEF CallOK, WokenOK, Woken
    <3> QED
      BY <1>1, <1>9, <1>11, <3>2 DEF Come, HasEvent
  <2> QED
    BY <1>11, <2>1, <2>2 DEF WokenOK
<1>16. CallOK(c)'
  BY <1>12, <1>13, <1>14, <1>15 DEF CallOK
<1>17. NetOK'
  BY <1>1, <1>10 DEF SockInv, NetOK
<1>18. \A d \in Co \ {c} : call'[d] = call[d] /\ frame'[d] = frame[d] /\ fd'[d] = fd[d]
  BY <1>2, <1>3, <1>10 DEF Inv, TypeOK
<1>19. \A d \in Co \ {c} : Kept(d)
  BY <1>1, <1>10, <1>18, OthersKept
<1>20. \A d \in Co \ {c} : call[d].hook # "none" => call[d].f # k.f
  BY <1>8, <1>9 DEF SockInv, Apart
<1> QED
  BY <1>3, <1>9, <1>16, <1>17, <1>19, <1>20, OneCall

-----------------------------------------------------------------------------
(* What an activation makes of a result *)

Results == [at : {"poll", "ret", "abort"}, sent : Nat, ret : Int]

LEMMA ResultFacts ==
  ASSUME NEW x \in Nat, NEW r \in Int
  PROVE  /\ Again(x) \in Results /\ Again(x).at = "poll" /\ Again(x).sent = x
         /\ Ret(r) \in Results /\ Ret(r).at = "ret" /\ Ret(r).ret = r
         /\ Abort \in Results /\ Abort.at = "abort" /\ Abort.sent = 0
  BY DEF Results, Again, Ret, Abort

LEMMA AfterCases ==
  ASSUME NEW k, NEW len, NEW r, NEW e
  PROVE  /\ After("recv", k, len, r, e) = AfterRecv(r)
         /\ After("send", k, len, r, e) = AfterSend(k, len, r)
         /\ After("accept", k, len, r, e) = (IF r < 0 THEN AcceptFails(e) ELSE Ret(r))
         /\ After("connect", k, len, r, e) = AfterConnect(r, e)
         /\ k.nty = TRUE => After("sendto", k, len, r, e) = AfterNtySendto(k, len, r, e)
         /\ k.nty = FALSE => After("sendto", k, len, r, e) = AfterSendto(r, e)
         /\ After("recvfrom", k, len, r, e) = AfterDatagram(r, e)
  BY DEF After

\* The datagram calls
LEMMA DatagramFacts ==
  ASSUME NEW r \in Int, NEW e
  PROVE  /\ AfterDatagram(r, e) \in Results
         /\ AfterDatagram(r, e).at = "abort" =>
              /\ r < 0 /\ e \notin {"EAGAIN", "ECONNRESET"} /\ AfterDatagram(r, e).sent = 0
         /\ AfterDatagram(r, e).at # "poll"
         /\ AfterDatagram(r, e).at = "ret" =>
              \/ AfterDatagram(r, e).ret = r /\ (r >= 0 \/ e = "EAGAIN")
              \/ r < 0 /\ e = "ECONNRESET" /\ AfterDatagram(r, e).ret = 0
<1>1. CASE r >= 0 \/ e = "EAGAIN"
  <2>1. AfterDatagram(r, e) = Ret(r)
    BY <1>1 DEF AfterDatagram
  <2> QED
    BY <1>1, <2>1, ResultFacts
<1>2. CASE r < 0 /\ e = "ECONNRESET"
  <2>1. AfterDatagram(r, e) = Ret(0)
    BY <1>2 DEF AfterDatagram
  <2> QED
    BY <1>2, <2>1, ResultFacts
<1>3. CASE r < 0 /\ e \notin {"EAGAIN", "ECONNRESET"}
  <2>1. AfterDatagram(r, e) = Abort
    BY <1>3 DEF AfterDatagram
  <2> QED
    BY <1>3, <2>1, ResultFacts
<1> QED
  BY <1>1, <1>2, <1>3

\* nty_sendto, which had sent less than len and is told r
LEMMA NtySendtoFacts ==
  ASSUME NEW k \in Activations, NEW len \in Nat, k.sent < len, NEW r \in Int, NEW e,
         r <= len - k.sent
  PROVE  /\ AfterNtySendto(k, len, r, e) \in Results
         /\ AfterNtySendto(k, len, r, e).at = "abort" => r <= 0 /\ AfterNtySendto(k, len, r, e).sent = 0
         /\ AfterNtySendto(k, len, r, e).at = "poll" =>
              /\ AfterNtySendto(k, len, r, e).sent = k.sent + (IF r > 0 THEN r ELSE 0)
              /\ AfterNtySendto(k, len, r, e).sent < len
         /\ AfterNtySendto(k, len, r, e).at = "ret" =>
              \/ r > 0 /\ AfterNtySendto(k, len, r, e).ret = k.sent + r
              \/ r <= 0 /\ e = "ECONNRESET" /\ AfterNtySendto(k, len, r, e).ret = r
<1>0. k.sent \in Nat
  BY DEF Activations
<1>1. CASE r > 0
  <2>1. k.sent + r \in Nat /\ k.sent + r \in Int
    BY <1>0, <1>1
  <2>2. CASE k.sent + r < len
    <3>1. AfterNtySendto(k, len, r, e) = Again(k.sent + r)
      BY <1>1, <2>2 DEF AfterNtySendto, Advance
    <3> QED
      BY <1>1, <2>1, <2>2, <3>1, ResultFacts
  <2>3. CASE ~(k.sent + r < len)
    <3>1. AfterNtySendto(k, len, r, e) = Ret(k.sent + r)
      BY <1>1, <2>3 DEF AfterNtySendto, Advance
    <3> QED
      BY <1>1, <2>1, <3>1, ResultFacts
  <2> QED
    BY <2>2, <2>3
<1>2. CASE r <= 0 /\ e = "EAGAIN"
  <2>1. AfterNtySendto(k, len, r, e) = Again(k.sent)
    BY <1>2 DEF AfterNtySendto
  <2> QED
    BY <1>0, <1>2, <2>1, ResultFacts
<1>3. CASE r <= 0 /\ e = "ECONNRESET"
  <2>1. AfterNtySendto(k, len, r, e) = Ret(r)
    BY <1>3 DEF AfterNtySendto
  <2> QED
    BY <1>3, <2>1, ResultFacts
<1>4. CASE r <= 0 /\ e \notin {"EAGAIN", "ECONNRESET"}
  <2>1. AfterNtySendto(k, len, r, e) = Abort
    BY <1>4 DEF AfterNtySendto
  <2> QED
    BY <1>4, <2>1, ResultFacts
<1> QED
  BY <1>1, <1>2, <1>3, <1>4

\* The result a of an activation of send that was asked for len, had sent less
\* and has now sent x
SendOutcome(k, len, r, x, a) ==
  /\ a \in Results /\ a.at # "abort"
  /\ a.at = "poll" => a.sent = x /\ x < len
  /\ a.at = "ret" =>
       /\ (a.ret = -1 /\ x = 0) \/ (a.ret = x /\ 0 < x /\ x <= len)
       /\ a.ret < len => r = -1 /\ k.at = "sys"

LEMMA SendFacts ==
  ASSUME NEW k \in Activations, k.at \in {"try", "sys"}, k.at = "try" => k.sent = 0,
         NEW len \in Nat, k.sent < len, NEW r \in Int,
         r = -1 \/ (0 < r /\ r <= len - k.sent),
         NEW x, x = k.sent + (IF r > 0 THEN r ELSE 0), NEW a, a = AfterSend(k, len, r)
  PROVE  SendOutcome(k, len, r, x, a)
<1> USE DEF SendOutcome
<1>0. k.sent \in Nat /\ x \in Nat /\ 0 \in Nat /\ -1 \in Int
  BY DEF Activations
<1>1. CASE r > 0
  <2>1. x = k.sent + r /\ x <= len /\ 0 < x
    BY <1>0, <1>1
  <2>2. AfterSend(k, len, r) = Advance(x, len)
    <3>1. CASE k.at = "try"
      <4>1. x = r
        BY <2>1, <3>1
      <4> QED
        BY <1>1, <3>1, <4>1 DEF AfterSend
    <3>2. CASE k.at = "sys"
      BY <1>1, <2>1, <3>2 DEF AfterSend
    <3> QED
      BY <3>1, <3>2
  <2>3. CASE x < len
    <3>1. AfterSend(k, len, r) = Again(x)
      BY <2>2, <2>3 DEF Advance
    <3> QED
      BY <1>0, <2>3, <3>1, ResultFacts
  <2>4. CASE ~(x < len)
    <3>1. AfterSend(k, len, r) = Ret(x) /\ x = len
      BY <1>0, <2>1, <2>2, <2>4 DEF Advance
    <3> QED
      BY <1>0, <2>1, <3>1, ResultFacts
  <2> QED
    BY <2>3, <2>4
<1>2. CASE r = -1
  <2>1. x = k.sent
    BY <1>0, <1>2
  <2>2. CASE k.at = "try"
    <3>1. AfterSend(k, len, r) = Again(0) /\ x = 0 /\ 0 < len
      BY <1>2, <2>1, <2>2 DEF AfterSend, Advance
    <3> QED
      BY <1>0, <3>1, ResultFacts
  <2>3. CASE k.at = "sys"
    <3>1. AfterSend(k, len, r) = SendBreak(x, r)
      BY <1>2, <2>1, <2>3 DEF AfterSend
    <3>2. CASE x = 0
      <4>1. a = Ret(r)
        BY <3>1, <3>2 DEF SendBreak
      <4>2. a \in Results /\ a.at = "ret" /\ a.ret = r
        BY <4>1, ResultFacts
      <4>3. a.at # "poll" /\ a.at # "abort"
        BY <4>2
      <4> QED
        BY <1>2, <2>3, <3>2, <4>2, <4>3
    <3>3. CASE x # 0
      <4>1. AfterSend(k, len, r) = Ret(x) /\ 0 < x /\ x <= len
        BY <1>0, <1>2, <2>1, <3>1, <3>3 DEF SendBreak
      <4> QED
        BY <1>0, <1>2, <2>3, <4>1, ResultFacts
    <3> QED
      BY <3>2, <3>3
  <2> QED
    BY <2>2, <2>3
<1> QED
  BY <1>1, <1>2

-----------------------------------------------------------------------------
(* The result of a system call *)

\* What the kernel took of the data
Took(c, r) == IF r > 0 /\ call[c].hook \in {"send", "sendto"} THEN r ELSE 0

\* The activation m of the call goes on as b says
Delivered(c, m, b, r, e) ==
  /\ fault' = IF b.at = "abort" THEN "errno" ELSE "none"
  /\ call' = [call EXCEPT ![c] =
                [call[c] EXCEPT
                   !.frames = IF b.at = "ret" THEN << >>
                              ELSE Append(SubSeq(call[c].frames, 1, m - 1),
                                          [call[c].frames[m] EXCEPT !.at = b.at, !.sent = b.sent]),
                   !.ret = b.ret, !.errno = IF b.at = "poll" THEN "none" ELSE e,
                   !.took = call[c].took + Took(c, r)]]

\* The first result is that of the innermost activation; the nty_ function below
\* it, if any, takes what it returns
InnerResult(c, n, r, e) ==
  After(call[c].hook, call[c].frames[n], LengthOf(call[c], n), r, e)
OuterResult(c, n, r, e) ==
  After(call[c].hook, call[c].frames[1], call[c].len, InnerResult(c, n, r, e).ret, e)

LEMMA DeliverCases ==
  ASSUME call \in [Co -> CallRecords], NEW c \in Co, NEW n \in {1, 2}, n = Len(call[c].frames),
         NEW r, NEW e, Deliver(c, r, e)
  PROVE  \/ /\ InnerResult(c, n, r, e).at # "ret"
            /\ Delivered(c, n, InnerResult(c, n, r, e), r, e)
         \/ /\ InnerResult(c, n, r, e).at = "ret" /\ n = 1
            /\ Delivered(c, 1, InnerResult(c, 1, r, e), r, e)
         \/ /\ InnerResult(c, n, r, e).at = "ret" /\ n = 2
            /\ Delivered(c, 1, OuterResult(c, n, r, e), r, e)
<1> DEFINE s == call[c].frames
           a == InnerResult(c, n, r, e)
           b == IF n = 2 /\ a.at = "ret" THEN OuterResult(c, n, r, e) ELSE a
           depth == IF n = 2 /\ a.at = "ret" THEN 1 ELSE n
           fs == IF b.at = "ret" THEN << >>
                 ELSE Append(SubSeq(s, 1, depth - 1), [s[depth] EXCEPT !.at = b.at, !.sent = b.sent])
           en == IF b.at = "poll" THEN "none" ELSE e
<1>1. /\ fault' = IF b.at = "abort" THEN "errno" ELSE "none"
      /\ call' = [call EXCEPT ![c].frames = fs, ![c].ret = b.ret, ![c].errno = en,
                              ![c].took = @ + Took(c, r)]
  BY DEF Deliver, InnerResult, OuterResult, Took
<1> HIDE DEF fs, en, b
<1>2. call' = [call EXCEPT ![c] = [call[c] EXCEPT !.frames = fs, !.ret = b.ret, !.errno = en,
                                                   !.took = call[c].took + Took(c, r)]]
  BY <1>1 DEF CallRecords
<1>3. Delivered(c, depth, b, r, e)
  BY <1>1, <1>2 DEF Delivered, fs, en
<1>4. CASE a.at # "ret"
  <2>1. b = a /\ depth = n
    BY <1>4 DEF b
  <2> QED
    BY <1>3, <1>4, <2>1
<1>5. CASE a.at = "ret" /\ n = 1
  <2>1. b = a /\ depth = 1
    BY <1>5 DEF b
  <2> QED
    BY <1>3, <1>5, <2>1
<1>6. CASE a.at = "ret" /\ n = 2
  <2>1. b = OuterResult(c, n, r, e) /\ depth = 1
    BY <1>6 DEF b
  <2> QED
    BY <1>3, <1>6, <2>1
<1> QED
  BY <1>4, <1>5, <1>6

LEMMA TopFrames ==
  ASSUME NEW S, NEW s \in Seq(S), NEW m \in {1, 2}, m <= Len(s), NEW h \in S,
         NEW t, t = Append(SubSeq(s, 1, m - 1), h)
  PROVE  /\ t \in Seq(S) /\ Len(t) = m /\ t[m] = h /\ (m = 2 => t[1] = s[1])
         /\ t # << >> /\ Last(t) = h
<1> DEFINE p == SubSeq(s, 1, m - 1)
<1>0. Len(s) \in Nat /\ m - 1 \in 0..Len(s) /\ m - 1 \in Int /\ m \in Int
  BY FramesType
<1>1. p \in Seq(S) /\ Len(p) = m - 1 /\ (m = 2 => p[1] = s[1])
  <2>1. \A i \in 1..(m - 1) : s[i] \in S
    BY <1>0, FramesType
  <2>2. CASE m = 1
    <3>1. p = << >>
      BY <2>2
    <3> QED
      BY <2>2, <3>1
  <2>3. CASE m = 2
    BY <1>0, <2>1, <2>3
  <2> QED
    BY <2>2, <2>3
<1> HIDE DEF p
<1>2. t \in Seq(S) /\ Len(t) = Len(p) + 1 /\ t[Len(p) + 1] = h
  BY <1>1, AppendProperties DEF p
<1>3. \A i \in 1..Len(p) : t[i] = p[i]
  BY <1>1, AppendProperties DEF p
<1>4. Len(t) = m /\ t[m] = h
  BY <1>0, <1>1, <1>2
<1>5. m = 2 => t[1] = s[1]
  BY <1>1, <1>3
<1>6. t # << >> /\ Last(t) = h
  <2>0. t = Append(p, h) /\ p \in Seq(S) /\ h \in S
    BY <1>1 DEF p
  <2>1. t # << >>
    BY ONLY <2>0, AppendProperties
  <2>2. Last(t) = t[Len(t)]
    BY ONLY <1>2, <2>1, FramesType
  <2> QED
    BY ONLY <1>4, <2>1, <2>2
<1> QED
  BY <1>2, <1>4, <1>5, <1>6

\* The system call of the running coroutine: what the invariant says of the call
LEMMA SysPlace ==
  ASSUME SockInv, NEW c \in Co, NEW hook, NEW f, AtSys(c, hook, f)
  PROVE  /\ curr = c /\ frame[c] = "body" /\ call[c].hook = hook /\ call[c].f = f
         /\ fault = "none" /\ hook \in Hooks /\ f \in KindFor(hook) /\ f \in Fd /\ f \in open
         /\ call[c].frames \in Seq(Activations) /\ call[c].frames # << >>
         /\ call[c].took \in Nat /\ call[c].len \in Nat \ {0}
         /\ hook \in DataHooks => link[f] = "up"
<1>1. /\ curr = c /\ frame[c] = "body" /\ call[c].hook = hook /\ call[c].f = f /\ fault = "none"
      /\ call[c].frames # << >>
  BY DEF AtSys, Running, InCall
<1>2. /\ call[c] \in CallRecords /\ call[c].frames \in Seq(Activations) /\ call[c].took \in Nat
      /\ call[c].len \in Nat
  BY DEF SockInv, CallRecords
<1>3. CallOK(c)
  BY DEF SockInv
<1>4. call[c].hook # "none"
  BY <1>1, <1>3 DEF CallOK, ShapeOK, NoCall
<1>5. hook \in Hooks /\ f \in KindFor(hook) /\ f \in open /\ call[c].len > 0
  BY <1>1, <1>2, <1>3, <1>4 DEF CallOK, ShapeOK, PlaceOK, CallRecords
<1>6. f \in Fd
  BY <1>5, KindFacts
<1>7. hook \in DataHooks => link[f] = "up"
  BY <1>1, <1>3 DEF CallOK, ShapeOK
<1> QED
  BY <1>1, <1>2, <1>5, <1>6, <1>7

LEMMA SysFrames ==
  ASSUME SockInv, NEW c \in Co, NEW hook, NEW f, AtSys(c, hook, f)
  PROVE  \E n \in {1, 2} :
           /\ n = Len(call[c].frames)
           /\ call[c].frames[n] \in Activations /\ call[c].frames[1] \in Activations
           /\ call[c].frames[n].nty = FALSE /\ call[c].frames[n].at \in {"try", "sys"}
           /\ Top(c) = call[c].frames[n]
           /\ hook # "send" => call[c].frames[n].at = "sys"
           /\ n = 2 => /\ call[c].frames[1].nty = TRUE
                       /\ call[c].frames[1].at \in {"try", "sys"}
           /\ ~call[c].early /\ call[c].frames[n].at = "sys" => Come(c)
<1> DEFINE s == call[c].frames
<1>1. /\ frame[c] = "body" /\ call[c].hook = hook /\ s # << >>
      /\ Top(c).at \in {"try", "sys"} /\ ~Top(c).nty
  BY DEF AtSys, Running, InCall
<1>2. s \in Seq(Activations)
  BY DEF SockInv, CallRecords
<1>3. CallOK(c)
  BY DEF SockInv
<1>4. PICK n \in {1, 2} : n = Len(s)
  <2>1. Len(s) <= 2
    BY <1>3 DEF CallOK, ShapeOK
  <2>2. PICK n \in Nat \ {0} : n = Len(s)
    BY <1>1, <1>2, FramesType
  <2>3. n <= 2
    BY <2>1, <2>2
  <2>4. n = 1 \/ n = 2
    BY <2>3
  <2> QED
    BY <2>2, <2>4
<1>5. Top(c) = s[n] /\ s[n] \in Activations /\ s[1] \in Activations
  <2>1. Last(s) = s[Len(s)] /\ \A i \in 1..Len(s) : s[i] \in Activations
    BY <1>1, <1>2, FramesType
  <2> QED
    BY <1>4, <2>1 DEF Top
<1>6. s[n].nty = FALSE
  BY <1>1, <1>5 DEF Activations
<1>7. n = 2 => s[1].nty = TRUE /\ s[1].at \in {"try", "sys"}
  BY <1>3, <1>4 DEF CallOK, ShapeOK
<1>8. hook # "send" => s[n].at = "sys"
  <2>1. n > 0
    BY <1>4
  <2>2. /\ s[1].at = "try" => call[c].hook = "send"
        /\ n = 2 /\ s[2].at = "try" => call[c].hook = "send"
    BY <1>3, <1>4, <2>1 DEF CallOK, ShapeOK
  <2> QED
    BY <1>1, <1>4, <1>5, <2>2
<1>9. ~call[c].early /\ s[n].at = "sys" => Come(c)
  BY <1>1, <1>3, <1>5 DEF CallOK, WokenOK, InCall
<1> QED
  BY <1>1, <1>4, <1>5, <1>6, <1>7, <1>8, <1>9

\* A step that leaves the scheduler and every open descriptor but f as they are
OnlyAt(f) ==
  /\ SchedulerUnchanged /\ NetOK' /\ open \subseteq open'
  /\ \A g \in open : \/ g = f
                     \/ /\ inq'[g] = inq[g] /\ room'[g] = room[g]
                        /\ err'[g] = err[g] /\ link'[g] = link[g]
  /\ link[f] = "up" => link'[f] = "up"

\* The result r, by which the activation m goes on as b says, leaves the account
\* of a send right
SentStays(c, m, b, r, e) ==
  call[c].hook \in {"send", "sendto"} =>
    /\ b.at = "ret" =>
         \/ call[c].took + Took(c, r) = IF b.ret > 0 THEN b.ret ELSE 0
         \/ /\ call[c].hook = "sendto" /\ call[c].f \in Streams /\ e = "ECONNRESET" /\ b.ret = 0
            /\ call[c].took + Took(c, r) < call[c].len
    /\ b.at # "ret" =>
         /\ call[c].took + Took(c, r) < call[c].len
         /\ m = 1 => b.at = "abort" \/ call[c].took + Took(c, r) = b.sent
         /\ m = 2 => call[c].took + Took(c, r) = call[c].frames[1].sent + b.sent
         /\ call[c].hook = "sendto" /\ (call[c].frames[m].nty = FALSE \/ call[c].f \in Dgrams) =>
              b.sent = 0

\* and it tells the body of no spurious failure
WokenStays(c, b, e) ==
  b.at = "ret" /\ ~call[c].early =>
    /\ e \notin {"EAGAIN", "EALREADY"}
    /\ call[c].hook = "send" /\ b.ret < call[c].len => err'[call[c].f] # "none"

\* The step of a system call, from what its result means for the call
LEMMA DeliverStep ==
  ASSUME SockInv, Inv, NEW c \in Co, NEW hook, NEW f, AtSys(c, hook, f),
         NEW n \in {1, 2}, n = Len(call[c].frames), NEW m \in {1, 2}, m <= n,
         NEW b \in Results, NEW r \in Int, NEW e \in AllErrnos, Delivered(c, m, b, r, e),
         OnlyAt(f), SentStays(c, m, b, r, e), WokenStays(c, b, e)
  PROVE  SockInv'
<1> DEFINE s == call[c].frames
           h == [s[m] EXCEPT !.at = b.at, !.sent = b.sent]
           t == Append(SubSeq(s, 1, m - 1), h)
           fs == IF b.at = "ret" THEN << >> ELSE t
           en == IF b.at = "poll" THEN "none" ELSE e
           x == call[c].took + Took(c, r)
           k == [call[c] EXCEPT !.frames = fs, !.ret = b.ret, !.errno = en, !.took = x]
<1>1. /\ curr = c /\ frame[c] = "body" /\ call[c].hook = hook /\ call[c].f = f
      /\ hook \in Hooks /\ f \in KindFor(hook) /\ f \in open
      /\ s \in Seq(Activations) /\ call[c].took \in Nat /\ call[c].len \in Nat \ {0}
      /\ hook \in DataHooks => link[f] = "up"
  <2>1. SockInv /\ c \in Co /\ AtSys(c, hook, f)
    OBVIOUS
  <2> QED
    BY ONLY <2>1, SysPlace
<1>o. /\ SchedulerUnchanged /\ NetOK' /\ open \subseteq open'
      /\ \A g \in open : \/ g = f
                         \/ /\ inq'[g] = inq[g] /\ room'[g] = room[g]
                            /\ err'[g] = err[g] /\ link'[g] = link[g]
      /\ link[f] = "up" => link'[f] = "up"
  BY DEF OnlyAt
<1>2. call[c] \in CallRecords /\ call \in [Co -> CallRecords] /\ CallOK(c)
  BY DEF SockInv
<1>3. call' = [call EXCEPT ![c] = k]
  BY DEF Delivered
<1>4. x \in Nat
  BY <1>1 DEF Took
<1>5. \/ h \in Activations /\ h.nty = s[m].nty /\ h.at = b.at /\ h.sent = b.sent
      \/ b.at = "ret"
  <2>1. s[m] \in Activations
    BY <1>1, FramesType
  <2> QED
    BY <2>1 DEF Activations, Results
<1>6. b.at # "ret" =>
        /\ t \in Seq(Activations) /\ Len(t) = m /\ t[m] = h /\ (m = 2 => t[1] = s[1])
        /\ t # << >> /\ Last(t) = h
  <2> SUFFICES ASSUME b.at # "ret"
               PROVE  /\ t \in Seq(Activations) /\ Len(t) = m /\ t[m] = h
                      /\ (m = 2 => t[1] = s[1]) /\ t # << >> /\ Last(t) = h
    OBVIOUS
  <2> HIDE DEF h, s
  <2>1. h \in Activations
    BY <1>5
  <2>2. s \in Seq(Activations) /\ m \in {1, 2} /\ m <= Len(s)
    BY <1>1 DEF s
  <2>3. t = Append(SubSeq(s, 1, m - 1), h)
    OBVIOUS
  <2> HIDE DEF t
  <2>4. t \in Seq(Activations) /\ Len(t) = m
    BY ONLY <2>1, <2>2, <2>3, TopFrames
  <2>5. t[m] = h /\ (m = 2 => t[1] = s[1])
    BY ONLY <2>1, <2>2, <2>3, TopFrames
  <2>6. t # << >>
    <3>1. t = << >> <=> Len(t) = 0
      BY ONLY <2>4, FramesType
    <3> QED
      BY ONLY <2>2, <2>4, <3>1
  <2>7. Last(t) = h
    <3>1. Last(t) = t[Len(t)]
      BY ONLY <2>4, <2>6, FramesType
    <3> QED
      BY ONLY <2>4, <2>5, <3>1
  <2> QED
    BY <2>4, <2>5, <2>6, <2>7
<1> HIDE DEF t, h, x
<1>7. fs \in Seq(Activations) /\ en \in AllErrnos /\ b.ret \in Int
  BY <1>6 DEF AllErrnos, Results
<1> HIDE DEF fs, en
<1>8. /\ k \in CallRecords /\ k.frames = fs /\ k.hook = hook /\ k.f = f /\ k.len = call[c].len
      /\ k.early = call[c].early /\ k.took = x /\ k.ret = b.ret /\ k.errno = en
  BY <1>1, <1>2, <1>4, <1>7 DEF CallRecords
<1> HIDE DEF k
<1>9. /\ call'[c] = k /\ UNCHANGED <<frame, fd, curr, phase, pending, rdy>> /\ hook # "none"
  BY <1>o, <1>1, <1>2, <1>3 DEF SchedulerUnchanged, coVars, waitVars, loopVars, epollVars, Hooks, DataHooks
<1>10. /\ k.f \in KindFor(k.hook) /\ k.len > 0 /\ k.hook # "none"
       /\ k.hook \in DataHooks => link'[k.f] = "up"
  BY <1>o, <1>1, <1>8, <1>9
<1>11. PlaceOK(c)'
  BY <1>o, <1>1, <1>8, <1>9 DEF PlaceOK
<1>12. ASSUME b.at = "ret" PROVE CallOK(c)'
  <2>1. k.frames = << >> /\ Len(k.frames) = 0 /\ k.errno = e
    BY <1>8, <1>12 DEF fs, en
  <2>2. ShapeOK(c)'
    <3>1. 0 <= 2 /\ 0 # 2 /\ ~(0 > 0)
      OBVIOUS
    <3> QED
      BY ONLY <1>9, <1>10, <2>1, <3>1, ShapeIntro
  <2>3. SentOK(c)'
    <3>1. k.hook \in {"send", "sendto"} =>
            \/ k.took = IF k.ret > 0 THEN k.ret ELSE 0
            \/ /\ k.hook = "sendto" /\ k.f \in Streams /\ k.errno = "ECONNRESET" /\ k.ret = 0
               /\ k.took < k.len
      BY <1>1, <1>8, <1>12, <2>1 DEF x, SentStays
    <3>2. k.hook \in {"send", "sendto"} =>
            k.took = (IF k.ret > 0 THEN k.ret ELSE 0) \/ CountLost(c)'
      BY ONLY <1>9, <3>1 DEF CountLost
    <3> QED
      BY ONLY <1>9, <2>1, <3>2, SentNone
  <2>4. WokenOK(c)'
    BY <1>8, <1>9, <1>12, <2>1, <1>1 DEF WokenOK, InCall, WokenStays
  <2> QED
    BY <1>11, <2>2, <2>3, <2>4 DEF CallOK
<1>13. ASSUME b.at # "ret" PROVE CallOK(c)'
  <2>1. /\ k.frames = t /\ t \in Seq(Activations) /\ Len(t) = m /\ t[m] = h
        /\ m = 2 => t[1] = s[1]
        /\ t # << >> /\ Last(t) = h
    BY <1>6, <1>8, <1>13 DEF fs
  <2>2. h.nty = s[m].nty /\ h.at = b.at /\ h.sent = b.sent /\ h.at \in {"poll", "abort"}
    BY <1>5, <1>13 DEF Results
  <2>3. ASSUME m = 1 PROVE ShapeOK(c)' /\ SentOK(c)'
    <3>1. Len(k.frames) = 1 /\ k.frames[1] = h
      BY <2>1, <2>3
    <3>2. ShapeOK(c)'
      <4>1. 1 <= 2 /\ 1 # 2
        OBVIOUS
      <4>2. k.frames[1].at # "try"
        BY <2>2, <3>1
      <4> QED
        BY ONLY <1>9, <1>10, <3>1, <4>1, <4>2, ShapeIntro
    <3>3. SentOK(c)'
      <4>1. k.hook \in {"send", "sendto"} =>
              /\ k.took < k.len /\ (k.frames[1].at = "abort" \/ k.took = k.frames[1].sent)
              /\ Unsent(k, 1) => k.frames[1].sent = 0
        <5>1. k.frames[1].at # "try" /\ k.frames[1].at = b.at /\ k.frames[1].nty = s[1].nty
              /\ k.frames[1].sent = b.sent
          BY <2>2, <2>3, <3>1
        <5> QED
          BY <1>1, <1>8, <1>13, <2>3, <5>1 DEF x, SentStays, Unsent
      <4> QED
        BY ONLY <1>9, <3>1, <4>1, SentOne
    <3> QED
      BY <3>2, <3>3
  <2>4. ASSUME m = 2 PROVE ShapeOK(c)' /\ SentOK(c)'
    <3>0. n = 2 /\ Len(s) = 2
      <4>1. n \in {1, 2} /\ m \in {1, 2} /\ m <= n /\ m = 2
        BY <2>4
      <4>2. n = 2
        BY ONLY <4>1
      <4> QED
        BY <4>2
    <3>1. Len(k.frames) = 2 /\ k.frames[2] = h /\ k.frames[1] = s[1]
      BY <2>1, <2>4
    <3>2. ShapeOK(c)'
      <4>1. 2 <= 2 /\ 2 > 0
        OBVIOUS
      <4>2. k.frames[2].at # "try"
        BY <2>2, <3>1
      <4>3. /\ s[1].nty = TRUE /\ s[2].nty = FALSE /\ s[1].at \in {"try", "sys"}
            /\ s[1].at = "try" => call[c].hook = "send"
        BY <1>2, <3>0, <4>1 DEF CallOK, ShapeOK
      <4>4. /\ k.frames[1].nty = TRUE /\ k.frames[2].nty = FALSE
            /\ k.frames[1].at \in {"try", "sys"}
            /\ k.frames[1].at = "try" => k.hook = "send"
        BY <1>1, <1>8, <2>2, <2>4, <3>1, <4>3
      <4> QED
        BY ONLY <1>9, <1>10, <3>1, <4>1, <4>2, <4>4, ShapeIntro
    <3>3. SentOK(c)'
      <4>1. k.hook \in {"send", "sendto"} =>
              /\ k.took < k.len /\ k.took = k.frames[1].sent + k.frames[2].sent
              /\ Unsent(k, 2) => k.frames[2].sent = 0
        <5>1. k.frames[2].at # "try" /\ k.frames[2].nty = s[2].nty /\ k.frames[2].sent = b.sent
          BY <2>2, <2>4, <3>1
        <5> QED
          BY <1>1, <1>8, <1>13, <2>4, <3>1, <5>1 DEF x, SentStays, Unsent
      <4>3. k.hook \in {"send", "sendto"} => (Unsent(k, 1) => k.frames[1].sent = 0)
        <5>1. 2 > 0
          OBVIOUS
        <5>2. Unsent(k, 1) => Unsent(call[c], 1)
          BY <1>1, <1>8, <3>1 DEF Unsent
        <5> QED
          BY <1>1, <1>2, <1>8, <3>0, <3>1, <5>1, <5>2 DEF CallOK, SentOK
      <4> QED
        BY ONLY <1>9, <3>1, <4>1, <4>3, SentTwo
    <3> QED
      BY <3>2, <3>3
  <2>5. WokenOK(c)'
    <3>1. ~InCall(c, "sys")' /\ ~HasReturned(c)' /\ frame'[c] = "body"
      BY <1>1, <1>9, <2>1, <2>2 DEF InCall, Top, HasReturned
    <3> QED
      BY <3>1 DEF WokenOK
  <2> QED
    BY <1>11, <2>3, <2>4, <2>5 DEF CallOK
<1>14. CallOK(c)'
  BY <1>12, <1>13
<1>15. \A d \in Co \ {c} : call'[d] = call[d] /\ frame'[d] = frame[d] /\ fd'[d] = fd[d]
  BY <1>2, <1>3, <1>9
<1>16. \A d \in Co \ {c} : Kept(d)
  BY <1>o, <1>1, <1>9, <1>15, OthersKept
<1>17. \A d \in Co \ {c} : call[d].hook # "none" => call[d].f # k.f
  BY <1>1, <1>8, <1>9 DEF SockInv, Apart
<1> QED
  BY <1>o, <1>3, <1>8, <1>14, <1>16, <1>17, OneCall

LEMMA PlainFacts ==
  ASSUME NEW hook \in Hooks \ {"send", "sendto"}, NEW k, NEW len, NEW r \in Int, NEW e
  PROVE  /\ After(hook, k, len, r, e) \in Results
         /\ hook = "accept" /\ r < 0 /\ After(hook, k, len, r, e).at = "ret" => e # "EAGAIN"
<1>0. 0 \in Nat /\ -1 \in Int
  OBVIOUS
<1>1. CASE hook = "recv"
  <2>1. After(hook, k, len, r, e) = Ret(r)
    BY <1>1 DEF After, AfterRecv
  <2> QED
    BY <1>1, <2>1, ResultFacts
<1>2. CASE hook = "accept"
  <2>1. CASE r < 0 /\ e = "EAGAIN"
    <3>1. After(hook, k, len, r, e) = Again(0)
      BY <1>2, <2>1 DEF After, AcceptFails
    <3> QED
      BY <1>0, <3>1, ResultFacts
  <2>2. CASE r < 0 /\ e # "EAGAIN"
    <3>1. After(hook, k, len, r, e) = Ret(-1)
      BY <1>2, <2>2 DEF After, AcceptFails
    <3> QED
      BY <1>0, <2>2, <3>1, ResultFacts
  <2>3. CASE ~(r < 0)
    <3>1. After(hook, k, len, r, e) = Ret(r)
      BY <1>2, <2>3 DEF After
    <3> QED
      BY <2>3, <3>1, ResultFacts
  <2> QED
    BY <2>1, <2>2, <2>3
<1>3. CASE hook = "connect"
  <2>1. After(hook, k, len, r, e) \in {Again(0), Ret(r)}
    BY <1>3 DEF After, AfterConnect
  <2> QED
    BY <1>0, <1>3, <2>1, ResultFacts
<1>4. CASE hook = "recvfrom"
  <2>1. After(hook, k, len, r, e) = AfterDatagram(r, e)
    BY <1>4 DEF After
  <2> QED
    BY <1>4, <2>1, DatagramFacts
<1> QED
  BY <1>1, <1>2, <1>3, <1>4 DEF Hooks, DataHooks

\* recv, recvfrom, accept and connect
LEMMA PlainStep ==
  ASSUME SockInv, Inv, NEW c \in Co, NEW hook \in Hooks \ {"send", "sendto"}, NEW f,
         AtSys(c, hook, f), NEW r \in Int, NEW e \in AllErrnos, Deliver(c, r, e), OnlyAt(f),
         ~call[c].early =>
           \/ e \notin {"EAGAIN", "EALREADY"}
           \/ hook = "accept" /\ r < 0 /\ e = "EAGAIN"
  PROVE  SockInv'
<1> DEFINE s == call[c].frames
<1>1. PICK n \in {1, 2} : n = Len(s)
  BY SysFrames
<1>2. call[c].hook = hook
  BY SysPlace
<1> DEFINE a == InnerResult(c, n, r, e)
           b == OuterResult(c, n, r, e)
<1>3. \/ a.at # "ret" /\ Delivered(c, n, a, r, e)
      \/ a.at = "ret" /\ n = 1 /\ Delivered(c, 1, a, r, e)
      \/ a.at = "ret" /\ n = 2 /\ Delivered(c, 1, b, r, e)
  <2>1. call \in [Co -> CallRecords]
    BY DEF SockInv
  <2> QED
    BY ONLY <1>1, <2>1, c \in Co, n \in {1, 2}, Deliver(c, r, e), DeliverCases
<1>4. a \in Results /\ (hook = "accept" /\ r < 0 /\ a.at = "ret" => e # "EAGAIN")
  BY <1>2, PlainFacts DEF InnerResult
<1>5. b \in Results
  <2>1. a.ret \in Int
    BY <1>4 DEF Results
  <2> HIDE DEF a
  <2>2. b = After(hook, s[1], call[c].len, a.ret, e)
    BY <1>2 DEF OuterResult, a
  <2> QED
    BY <2>1, <2>2, PlainFacts
<1>6. PICK m \in {1, 2}, d \in Results : m <= n /\ Delivered(c, m, d, r, e) /\ (d.at = "ret" => a.at = "ret")
  <2> HIDE DEF a, b
  <2>1. CASE a.at # "ret" /\ Delivered(c, n, a, r, e)
    BY <1>4, <2>1
  <2>2. CASE a.at = "ret" /\ n = 1 /\ Delivered(c, 1, a, r, e)
    BY <1>4, <2>2
  <2>3. CASE a.at = "ret" /\ n = 2 /\ Delivered(c, 1, b, r, e)
    BY <1>5, <2>3
  <2> QED
    BY <1>3, <2>1, <2>2, <2>3
<1>7. d.at = "ret" /\ ~call[c].early => e \notin {"EAGAIN", "EALREADY"}
  BY <1>4, <1>6
<1>8. SentStays(c, m, d, r, e) /\ WokenStays(c, d, e)
  BY <1>2, <1>7 DEF SentStays, WokenStays
<1> HIDE DEF a, b
<1> QED
  <2>1. /\ SockInv /\ Inv /\ c \in Co /\ AtSys(c, hook, f) /\ n \in {1, 2} /\ m \in {1, 2}
        /\ d \in Results /\ r \in Int /\ e \in AllErrnos /\ OnlyAt(f)
    OBVIOUS
  <2> QED
    BY ONLY <1>1, <1>6, <1>8, <2>1, DeliverStep

\* What the invariant says of the account of a call that is sending
LEMMA Sending ==
  ASSUME SockInv, NEW c \in Co, NEW hook \in {"send", "sendto"}, NEW f, AtSys(c, hook, f),
         NEW n \in {1, 2}, n = Len(call[c].frames)
  PROVE  /\ call[c].took < call[c].len
         /\ n = 1 => call[c].took = call[c].frames[1].sent
         /\ n = 2 => call[c].took = call[c].frames[1].sent + call[c].frames[2].sent
         /\ Unsent(call[c], 1) => call[c].frames[1].sent = 0
         /\ n = 2 /\ Unsent(call[c], 2) => call[c].frames[2].sent = 0
<1>1. SentOK(c) /\ call[c].hook = hook
  BY SysPlace DEF SockInv, CallOK
<1>2. n > 0
  OBVIOUS
<1>3. n = 1 => call[c].frames[1].at # "abort"
  BY SysFrames
<1> QED
  BY <1>1, <1>2, <1>3 DEF SentOK

LEMMA SendStep ==
  ASSUME SockInv, Inv, NEW c \in Co, NEW f, AtSys(c, "send", f),
         NEW r \in Int, NEW e \in AllErrnos, Deliver(c, r, e), OnlyAt(f),
         r = -1 \/ (0 < r /\ r <= Left(c)),
         r # -1 => e = "none",
         r = -1 /\ ~call[c].early /\ Top(c).at = "sys" =>
           e \notin {"EAGAIN", "EALREADY"} /\ err'[f] # "none"
  PROVE  SockInv'
<1> DEFINE s == call[c].frames
           len == call[c].len
           x == IF r > 0 THEN r ELSE 0
<1>1. PICK n \in {1, 2} : /\ n = Len(s) /\ s[n] \in Activations /\ s[1] \in Activations
                          /\ s[n].at \in {"try", "sys"} /\ Top(c) = s[n]
                          /\ n = 2 => s[1].at \in {"try", "sys"}
  BY SysFrames
<1>2. call[c].hook = "send" /\ call[c].f = f /\ call[c].took \in Nat /\ len \in Nat \ {0}
  BY SysPlace
<1>3. s[1].sent \in Nat /\ s[n].sent \in Nat /\ x \in Nat
  BY <1>1 DEF Activations
<1>4. /\ call[c].took < len
      /\ n = 1 => call[c].took = s[1].sent
      /\ n = 2 => call[c].took = s[1].sent + s[2].sent
      /\ s[1].at = "try" => s[1].sent = 0
      /\ n = 2 /\ s[2].at = "try" => s[2].sent = 0
  BY <1>1, Sending DEF Unsent
<1>5. Took(c, r) = x
  BY <1>2 DEF Took
<1>L. Left(c) = LengthOf(call[c], n) - s[n].sent
  BY <1>1 DEF Left
<1> DEFINE a == InnerResult(c, n, r, e)
           b == OuterResult(c, n, r, e)
<1>6. \/ a.at # "ret" /\ Delivered(c, n, a, r, e)
      \/ a.at = "ret" /\ n = 1 /\ Delivered(c, 1, a, r, e)
      \/ a.at = "ret" /\ n = 2 /\ Delivered(c, 1, b, r, e)
  <2>1. call \in [Co -> CallRecords]
    BY DEF SockInv
  <2> QED
    BY ONLY <1>1, <2>1, c \in Co, n \in {1, 2}, Deliver(c, r, e), DeliverCases
<1>7. a = AfterSend(s[n], LengthOf(call[c], n), r)
  BY <1>2 DEF InnerResult, After
<1>8. ASSUME NEW m \in {1, 2}, NEW d \in Results, m <= n, Delivered(c, m, d, r, e),
             SentStays(c, m, d, r, e), WokenStays(c, d, e)
      PROVE  SockInv'
  <2>1. /\ SockInv /\ Inv /\ c \in Co /\ AtSys(c, "send", f) /\ n \in {1, 2}
        /\ r \in Int /\ e \in AllErrnos /\ OnlyAt(f)
    OBVIOUS
  <2> QED
    BY ONLY <1>1, <1>8, <2>1, DeliverStep
<1> HIDE DEF x, a, b
<1>9. CASE n = 1
  <2> DEFINE y == s[1].sent + x
  <2>1. LengthOf(call[c], n) = len
    BY <1>2, <1>9 DEF LengthOf
  <2>a. SendOutcome(s[1], len, r, y, a)
    <3>1. /\ s[1] \in Activations /\ s[1].at \in {"try", "sys"}
          /\ s[1].at = "try" => s[1].sent = 0
          /\ len \in Nat /\ s[1].sent < len /\ r \in Int
          /\ r = -1 \/ (0 < r /\ r <= len - s[1].sent)
          /\ y = s[1].sent + (IF r > 0 THEN r ELSE 0)
          /\ a = AfterSend(s[1], len, r)
      BY <1>1, <1>2, <1>4, <1>7, <1>9, <1>L, <2>1 DEF x
    <3> HIDE DEF y, s, len
    <3> QED
      BY ONLY <3>1, SendFacts
  <2>2. /\ a \in Results /\ a.at # "abort"
        /\ a.at = "poll" => a.sent = y /\ y < len
        /\ a.at = "ret" =>
             /\ (a.ret = -1 /\ y = 0) \/ (a.ret = y /\ 0 < y /\ y <= len)
             /\ a.ret < len => r = -1 /\ s[1].at = "sys"
    BY <2>a DEF SendOutcome
  <2>3. call[c].took + Took(c, r) = y /\ y \in Nat
    BY <1>3, <1>4, <1>5, <1>9
  <2>4. SentStays(c, 1, a, r, e)
    <3> HIDE DEF y
    <3> QED
      BY <1>2, <2>2, <2>3 DEF SentStays, Results
  <2>5. WokenStays(c, a, e)
    <3> SUFFICES ASSUME a.at = "ret", ~call[c].early
                 PROVE  e \notin {"EAGAIN", "EALREADY"} /\ (a.ret < len => err'[f] # "none")
      BY <1>2 DEF WokenStays
    <3>1. CASE r = -1
      <4>1. y = s[1].sent /\ a.ret < len
        BY <1>2, <1>3, <1>4, <1>9, <2>2, <3>1 DEF x
      <4>2. Top(c).at = "sys"
        BY <1>1, <1>9, <2>2, <4>1
      <4> QED
        BY <3>1, <4>2
    <3>2. CASE r # -1
      BY <2>2, <3>2
    <3> QED
      BY <3>1, <3>2
  <2>6. Delivered(c, 1, a, r, e)
    BY <1>6, <1>9
  <2> QED
    BY <1>8, <1>9, <2>2, <2>4, <2>5, <2>6
<1>10. CASE n = 2
  <2> DEFINE y == s[2].sent + x
             w == s[1].sent + y
             l == len - s[1].sent
  <2>0. s[2].sent \in Nat /\ s[2] \in Activations /\ s[2].at \in {"try", "sys"}
    BY <1>1, <1>3, <1>10
  <2>1. LengthOf(call[c], n) = l /\ l \in Nat /\ s[2].sent < l /\ s[1].sent < len
    BY <1>2, <1>3, <1>4, <1>10, <2>0 DEF LengthOf
  <2>a. SendOutcome(s[2], l, r, y, a)
    <3>1. /\ s[2] \in Activations /\ s[2].at \in {"try", "sys"}
          /\ s[2].at = "try" => s[2].sent = 0
          /\ l \in Nat /\ s[2].sent < l /\ r \in Int
          /\ r = -1 \/ (0 < r /\ r <= l - s[2].sent)
          /\ y = s[2].sent + (IF r > 0 THEN r ELSE 0)
          /\ a = AfterSend(s[2], l, r)
      BY <1>1, <1>4, <1>7, <1>10, <1>L, <2>0, <2>1 DEF x
    <3> HIDE DEF y, s, l
    <3> QED
      BY ONLY <3>1, SendFacts
  <2>2. /\ a \in Results /\ a.at # "abort"
        /\ a.at = "poll" => a.sent = y /\ y < l
        /\ a.at = "ret" =>
             /\ (a.ret = -1 /\ y = 0) \/ (a.ret = y /\ 0 < y /\ y <= l)
             /\ a.ret < l => r = -1 /\ s[2].at = "sys"
    BY <2>a DEF SendOutcome
  <2>3. call[c].took + Took(c, r) = w /\ y \in Nat /\ w \in Nat
    BY <1>3, <1>4, <1>5, <1>10, <2>0
  <2>4. a.at # "ret" => /\ w < len /\ a.sent = y
    BY <1>2, <1>3, <2>2, <2>3 DEF Results
  <2>5. CASE a.at # "ret"
    <3>1. SentStays(c, 2, a, r, e)
      <4> HIDE DEF w, y
      <4>1. w = s[1].sent + y
        BY DEF w
      <4> QED
        BY <1>2, <2>3, <2>4, <2>5, <4>1 DEF SentStays
    <3>2. WokenStays(c, a, e) /\ Delivered(c, 2, a, r, e)
      BY <1>6, <1>10, <2>5 DEF WokenStays
    <3> QED
      BY <1>8, <1>10, <2>2, <3>1, <3>2
  <2>6. CASE a.at = "ret"
    <3>1. (a.ret = -1 /\ y = 0) \/ (a.ret = y /\ 0 < y /\ y <= l)
      BY <2>2, <2>6
    <3>2. w = s[1].sent + (IF a.ret > 0 THEN a.ret ELSE 0)
      BY <1>3, <2>3, <3>1
    <3>3. b = AfterSend(s[1], len, a.ret)
      BY <1>2 DEF b, a, OuterResult, After
    <3>a. SendOutcome(s[1], len, a.ret, w, b)
      <4>1. /\ s[1] \in Activations /\ s[1].at \in {"try", "sys"}
            /\ s[1].at = "try" => s[1].sent = 0
            /\ len \in Nat /\ s[1].sent < len /\ a.ret \in Int
            /\ a.ret = -1 \/ (0 < a.ret /\ a.ret <= len - s[1].sent)
        BY <1>1, <1>2, <1>4, <1>10, <2>1, <2>2, <3>1 DEF Results
      <4> HIDE DEF w, y, s, len
      <4> QED
        BY ONLY <4>1, <3>2, <3>3, SendFacts
    <3>4. /\ b \in Results /\ b.at # "abort"
          /\ b.at = "poll" => b.sent = w /\ w < len
          /\ b.at = "ret" =>
               /\ (b.ret = -1 /\ w = 0) \/ (b.ret = w /\ 0 < w /\ w <= len)
               /\ b.ret < len => a.ret = -1 /\ s[1].at = "sys"
      BY <3>a DEF SendOutcome
    <3>5. SentStays(c, 1, b, r, e)
      <4> HIDE DEF w, y
      <4> QED
        BY <1>2, <2>3, <3>4 DEF SentStays, Results
    <3>6. WokenStays(c, b, e)
      <4> SUFFICES ASSUME b.at = "ret", ~call[c].early
                   PROVE  e \notin {"EAGAIN", "EALREADY"} /\ (b.ret < len => err'[f] # "none")
        BY <1>2 DEF WokenStays
      <4>1. CASE r = -1
        <5>1. y = s[2].sent /\ a.ret < l
          BY <2>0, <2>1, <2>2, <2>6, <4>1 DEF x
        <5>2. Top(c).at = "sys"
          BY <1>1, <1>10, <2>2, <2>6, <5>1
        <5> QED
          BY <4>1, <5>2
      <4>2. CASE r # -1
        <5>1. a.ret # -1
          BY <2>1, <2>2, <2>6, <4>2
        <5> QED
          BY <3>4, <4>2, <5>1
      <4> QED
        BY <4>1, <4>2
    <3>7. Delivered(c, 1, b, r, e)
      BY <1>6, <1>10, <2>6
    <3> QED
      BY <1>8, <1>10, <3>4, <3>5, <3>6, <3>7
  <2> QED
    BY <2>5, <2>6
<1> QED
  BY <1>9, <1>10

LEMMA SendtoStep ==
  ASSUME SockInv, Inv, NEW c \in Co, NEW f, AtSys(c, "sendto", f),
         NEW r \in Int, NEW e \in AllErrnos, Deliver(c, r, e), OnlyAt(f),
         r = -1 \/ (0 < r /\ r <= Left(c)),
         f \in Dgrams /\ r # -1 => r = Left(c),
         r # -1 => e = "none",
         r = -1 /\ ~call[c].early => e \notin {"EAGAIN", "EALREADY"}
  PROVE  SockInv'
<1> DEFINE s == call[c].frames
           len == call[c].len
           x == IF r > 0 THEN r ELSE 0
<1>1. PICK n \in {1, 2} : /\ n = Len(s) /\ s[n] \in Activations /\ s[1] \in Activations
                          /\ s[n].nty = FALSE /\ Top(c) = s[n]
                          /\ n = 2 => s[1].nty = TRUE
  BY SysFrames
<1>2. /\ call[c].hook = "sendto" /\ call[c].f = f /\ call[c].took \in Nat /\ len \in Nat \ {0}
      /\ f \in Dgrams \/ f \in Streams
  <2>1. f \in KindFor("sendto") /\ "sendto" \in Hooks
    BY SysPlace
  <2> QED
    BY <2>1, SysPlace, KindFacts
<1>3. /\ call[c].took < len /\ call[c].took = s[1].sent /\ s[n].sent = 0
      /\ f \in Dgrams => s[1].sent = 0
      /\ s[1].sent \in Nat /\ s[1].sent < len
  <2>1. /\ call[c].took < len
        /\ n = 1 => call[c].took = s[1].sent
        /\ n = 2 => call[c].took = s[1].sent + s[2].sent
        /\ Unsent(call[c], 1) => s[1].sent = 0
        /\ n = 2 /\ Unsent(call[c], 2) => s[2].sent = 0
    BY <1>1, Sending
  <2>2. /\ Unsent(call[c], n)
        /\ f \in Dgrams => Unsent(call[c], 1)
    BY <1>1, <1>2 DEF Unsent
  <2>3. s[1].sent \in Nat
    BY <1>1 DEF Activations
  <2>4. s[n].sent = 0
    BY <2>1, <2>2
  <2> QED
    BY <1>1, <2>1, <2>2, <2>3, <2>4
<1>4. /\ r = -1 \/ (0 < r /\ r <= len - s[1].sent)
      /\ f \in Dgrams => r = -1 \/ r = len
  <2>1. Left(c) = LengthOf(call[c], n) - s[n].sent
    BY <1>1 DEF Left
  <2>2. Left(c) = len - s[1].sent
    BY <1>1, <1>2, <1>3, <2>1 DEF LengthOf
  <2> QED
    BY <1>2, <1>3, <2>2
<1>5. call[c].took + Took(c, r) = s[1].sent + x /\ x \in Nat
  BY <1>2, <1>3 DEF Took
<1> DEFINE a == InnerResult(c, n, r, e)
           b == OuterResult(c, n, r, e)
<1>6. \/ a.at # "ret" /\ Delivered(c, n, a, r, e)
      \/ a.at = "ret" /\ n = 1 /\ Delivered(c, 1, a, r, e)
      \/ a.at = "ret" /\ n = 2 /\ Delivered(c, 1, b, r, e)
  <2>1. call \in [Co -> CallRecords]
    BY DEF SockInv
  <2> QED
    BY ONLY <1>1, <2>1, c \in Co, n \in {1, 2}, Deliver(c, r, e), DeliverCases
<1>7. a = AfterDatagram(r, e)
  BY <1>1, <1>2 DEF InnerResult, After, AfterSendto
<1>8. ASSUME NEW m \in {1, 2}, NEW d \in Results, m <= n, Delivered(c, m, d, r, e),
             SentStays(c, m, d, r, e), WokenStays(c, d, e)
      PROVE  SockInv'
  <2>1. /\ SockInv /\ Inv /\ c \in Co /\ AtSys(c, "sendto", f) /\ n \in {1, 2}
        /\ r \in Int /\ e \in AllErrnos /\ OnlyAt(f)
    OBVIOUS
  <2> QED
    BY ONLY <1>1, <1>8, <2>1, DeliverStep
<1>9. ASSUME NEW d PROVE WokenStays(c, d, e)
  BY <1>2 DEF WokenStays
<1>10. /\ a \in Results
       /\ a.at = "abort" => r < 0 /\ a.sent = 0
       /\ a.at # "poll"
       /\ a.at = "ret" => \/ a.ret = r /\ (r >= 0 \/ e = "EAGAIN")
                          \/ r < 0 /\ e = "ECONNRESET" /\ a.ret = 0
  BY <1>7, DatagramFacts
<1>11. b = AfterNtySendto(s[1], len, a.ret, e) \/ n = 1
  BY <1>1, <1>2 DEF OuterResult, After
<1> HIDE DEF a, b, x
<1>12. CASE a.at # "ret"
  <2>1. r = -1 /\ a.sent = 0 /\ a.at = "abort" /\ x = 0
    BY <1>4, <1>10, <1>12 DEF Results, x
  <2>2. SentStays(c, n, a, r, e)
    <3>1. call[c].took + Took(c, r) = s[1].sent /\ s[1].sent + 0 = s[1].sent
      BY <1>3, <1>5, <2>1
    <3> QED
      BY <1>2, <1>3, <1>12, <2>1, <3>1 DEF SentStays
  <2>3. n <= n /\ Delivered(c, n, a, r, e)
    BY <1>6, <1>12
  <2> QED
    BY <1>8, <1>9, <1>10, <2>2, <2>3
<1>13. CASE a.at = "ret" /\ n = 1
  <2>1. s[1].sent + x = IF a.ret > 0 THEN a.ret ELSE 0
    <3>1. s[1].sent = 0
      BY <1>3, <1>13
    <3> QED
      BY <1>4, <1>10, <1>13, <3>1 DEF x
  <2>2. SentStays(c, 1, a, r, e)
    BY <1>2, <1>5, <1>13, <2>1 DEF SentStays
  <2>3. 1 <= n /\ Delivered(c, 1, a, r, e)
    BY <1>6, <1>13
  <2> QED
    BY <1>8, <1>9, <1>10, <2>2, <2>3
<1>14. CASE a.at = "ret" /\ n = 2
  <2>1. /\ a.ret \in Int /\ a.ret <= len - s[1].sent
        /\ x = (IF a.ret > 0 THEN a.ret ELSE 0)
        /\ a.ret <= 0 /\ e = "ECONNRESET" => a.ret = 0
        /\ f \in Dgrams /\ a.ret > 0 => a.ret = len
    BY <1>2, <1>3, <1>4, <1>10, <1>14 DEF Results, x
  <2>2. /\ b \in Results
        /\ b.at = "abort" => a.ret <= 0 /\ b.sent = 0
        /\ b.at = "poll" => b.sent = s[1].sent + x /\ b.sent < len
        /\ b.at = "ret" => \/ a.ret > 0 /\ b.ret = s[1].sent + a.ret
                           \/ a.ret <= 0 /\ e = "ECONNRESET" /\ b.ret = a.ret
    <3>1. b = AfterNtySendto(s[1], len, a.ret, e) /\ s[1] \in Activations /\ len \in Nat
      BY <1>1, <1>2, <1>11, <1>14
    <3>2. s[1].sent < len
      BY <1>3
    <3> HIDE DEF s, len
    <3> QED
      BY ONLY <2>1, <3>1, <3>2, NtySendtoFacts
  <2>3. SentStays(c, 1, b, r, e)
    <3>1. CASE b.at = "ret"
      <4>1. CASE a.ret > 0
        <5>1. b.ret = s[1].sent + x /\ b.ret > 0
          BY <1>3, <2>1, <2>2, <3>1, <4>1
        <5> QED
          BY <1>2, <1>5, <3>1, <5>1 DEF SentStays
      <4>2. CASE ~(a.ret > 0)
        <5>1. x = 0 /\ e = "ECONNRESET" /\ b.ret = 0
          BY <2>1, <2>2, <3>1, <4>2
        <5>2. s[1].sent + x = s[1].sent
          BY <1>3, <5>1
        <5>3. CASE f \in Dgrams
          BY <1>2, <1>3, <1>5, <3>1, <5>1, <5>2, <5>3 DEF SentStays
        <5>4. CASE f \in Streams
          BY <1>2, <1>3, <1>5, <3>1, <5>1, <5>2, <5>4 DEF SentStays
        <5> QED
          BY <1>2, <5>3, <5>4
      <4> QED
        BY <4>1, <4>2
    <3>2. CASE b.at = "poll"
      <4>1. f \in Dgrams => b.sent = 0
        BY <1>2, <1>3, <2>1, <2>2, <3>2
      <4>2. s[1].nty = TRUE
        BY <1>1, <1>14
      <4> QED
        BY <1>2, <1>5, <2>2, <3>2, <4>1, <4>2 DEF SentStays
    <3>3. CASE b.at = "abort"
      <4>1. s[1].sent + x < len /\ b.sent = 0
        BY <1>3, <2>1, <2>2, <3>3
      <4> QED
        BY <1>2, <1>5, <3>3, <4>1 DEF SentStays
    <3> QED
      BY <2>2, <3>1, <3>2, <3>3 DEF Results
  <2>4. 1 <= n /\ Delivered(c, 1, b, r, e)
    BY <1>6, <1>14
  <2> QED
    BY <1>8, <1>9, <2>2, <2>3, <2>4
<1> QED
  BY <1>1, <1>12, <1>13, <1>14

\* A coroutine that makes the system call with no event has been woken by a timer
LEMMA WithoutEvent ==
  ASSUME SockInv, NEW c \in Co, NEW hook \in Hooks \ {"accept"}, NEW f, AtSys(c, hook, f),
         ~HasEvent(f, EventOf(hook)), hook # "send" \/ Top(c).at = "sys"
  PROVE  call[c].early
<1>1. call[c].hook = hook /\ call[c].f = f
  BY SysPlace
<1>2. ~Come(c)
  BY <1>1 DEF Come
<1>3. ~call[c].early => Come(c)
  BY SysFrames
<1> QED
  BY <1>2, <1>3

LEMMA SysFailsStep ==
  ASSUME SockInv, Inv, NEW c \in Co, NEW f \in Fd, SysFails(c, f) PROVE SockInv'
<1>1. PICK hook \in Hooks \ {"accept"} : AtSys(c, hook, f)
  BY DEF SysFails
<1>2. f \in KindFor(hook) /\ f \in open
  BY <1>1, SysPlace
<1>3. f \in Streams \/ f \in Dgrams
  BY <1>1, <1>2, KindFacts DEF Hooks, DataHooks
<1> DEFINE e == err[f]
<1>4. /\ e # "none" /\ Deliver(c, -1, e) /\ SchedulerUnchanged
      /\ err' = [err EXCEPT ![f] = IF f \in Dgrams THEN "none" ELSE "EPIPE"]
      /\ UNCHANGED <<nonblock, inq, room, link, open>>
  BY DEF SysFails
<1>5. e \in AllErrnos /\ e \notin {"EAGAIN", "EALREADY"}
  BY SocketAssumption DEF SockInv, NetOK, AllErrnos
<1>6. NetOK'
  BY <1>3, <1>4, SocketAssumption DEF SockInv, NetOK
<1>7. OnlyAt(f)
  BY <1>4, <1>6 DEF OnlyAt, SockInv, NetOK, Inv, TypeOK
<1>8. f \in Streams => err'[f] = "EPIPE"
  BY <1>4, SocketAssumption DEF SockInv, NetOK
<1> HIDE DEF e
<1>9. -1 \in Int
  OBVIOUS
<1>10. CASE hook = "send"
  <2>1. err'[f] # "none"
    BY <1>2, <1>8, <1>10, KindFacts
  <2> QED
    BY <1>1, <1>4, <1>5, <1>7, <1>9, <1>10, <2>1, SendStep
<1>11. CASE hook = "sendto"
  BY <1>1, <1>4, <1>5, <1>7, <1>9, <1>11, SendtoStep
<1>12. CASE hook \notin {"send", "sendto"}
  BY <1>1, <1>4, <1>5, <1>7, <1>9, <1>12, PlainStep
<1> QED
  BY <1>10, <1>11, <1>12

\* What the invariant says of a system call that reports no error
LEMMA KernelFails ==
  ASSUME SockInv, Inv, NEW f \in Fd, UNCHANGED <<netVars, open>>, SchedulerUnchanged
  PROVE  OnlyAt(f)
<1>1. UNCHANGED <<nonblock, inq, room, err, link, open>>
  BY DEF netVars
<1>2. NetOK'
  BY <1>1 DEF SockInv, NetOK
<1> QED
  BY <1>1, <1>2 DEF OnlyAt

LEMMA SysSendStep ==
  ASSUME SockInv, Inv, NEW c \in Co, NEW f \in Fd, SysSend(c, f) PROVE SockInv'
<1>1. PICK hook \in {"send", "sendto"} : AtSys(c, hook, f)
  BY DEF SysSend
<1>2. f \in KindFor(hook) /\ f \in open /\ hook \in Hooks \ {"accept"}
  BY <1>1, SysPlace DEF Hooks, DataHooks
<1>4. link[f] = "up" /\ err[f] = "none" /\ SchedulerUnchanged
  <2>1. link[f] = "up"
    BY <1>1, SysPlace DEF DataHooks
  <2> QED
    BY <2>1 DEF SysSend
<1>5. -1 \in Int /\ "EAGAIN" \in AllErrnos /\ "none" \in AllErrnos
  BY DEF AllErrnos
<1>6. CASE room[f] = 0 /\ Fails(c, "EAGAIN")
  <2>1. Deliver(c, -1, "EAGAIN") /\ UNCHANGED <<netVars, open>>
    BY <1>6 DEF Fails
  <2>2. OnlyAt(f)
    BY <1>4, <2>1, KernelFails
  <2>3. ~HasEvent(f, EventOf(hook))
    BY <1>1, <1>4, <1>6 DEF HasEvent, EventOf
  <2>4. hook # "send" \/ Top(c).at = "sys" => call[c].early
    BY <1>1, <1>2, <2>3, WithoutEvent
  <2>5. CASE hook = "send"
    BY <1>1, <1>5, <2>1, <2>2, <2>4, <2>5, SendStep
  <2>6. CASE hook = "sendto"
    BY <1>1, <1>5, <2>1, <2>2, <2>4, <2>6, SendtoStep
  <2> QED
    BY <2>5, <2>6
<1>7. ASSUME NEW n \in 1..Left(c),
             IF f \in Dgrams THEN n = Left(c) /\ room[f] > 0 ELSE n <= room[f],
             Deliver(c, n, "none"),
             room' = [room EXCEPT ![f] = @ - (IF f \in Dgrams THEN 1 ELSE n)],
             UNCHANGED <<nonblock, inq, err, link, open>>
      PROVE  SockInv'
  <2>1. n \in Int /\ n # -1 /\ 0 < n /\ n <= Left(c)
    BY <1>7
  <2>2. NetOK'
    BY <1>7, <2>1 DEF SockInv, NetOK
  <2>3. OnlyAt(f)
    BY <1>4, <1>7, <2>2 DEF OnlyAt, SockInv, NetOK, Inv, TypeOK
  <2>4. CASE hook = "send"
    BY <1>1, <1>5, <1>7, <2>1, <2>3, <2>4, SendStep
  <2>5. CASE hook = "sendto"
    <3>1. f \in Dgrams => n = Left(c)
      BY <1>7
    <3> QED
      BY <1>1, <1>5, <1>7, <2>1, <2>3, <2>5, <3>1, SendtoStep
  <2> QED
    BY <2>4, <2>5
<1> QED
  BY <1>6, <1>7 DEF SysSend

LEMMA SysRecvStep ==
  ASSUME SockInv, Inv, NEW c \in Co, NEW f \in Fd, SysRecv(c, f) PROVE SockInv'
<1>1. PICK hook \in {"recv", "recvfrom"} : AtSys(c, hook, f)
  BY DEF SysRecv
<1>2. f \in KindFor(hook) /\ f \in open /\ hook \in Hooks \ {"accept", "send", "sendto"}
  BY <1>1, SysPlace DEF Hooks, DataHooks
<1>3. link[f] = "up" /\ SchedulerUnchanged
  <2>1. link[f] = "up"
    BY <1>1, SysPlace DEF DataHooks
  <2> QED
    BY <2>1 DEF SysRecv
<1>4. -1 \in Int /\ 0 \in Int /\ 1 \in Int /\ "EAGAIN" \in AllErrnos /\ "none" \in AllErrnos
  BY DEF AllErrnos
<1>5. CASE Deliver(c, 0, "none") /\ UNCHANGED <<netVars, open>>
  <2>1. OnlyAt(f)
    BY <1>3, <1>5, KernelFails
  <2> QED
    BY <1>1, <1>2, <1>4, <1>5, <2>1, PlainStep
<1>6. CASE err[f] = "none" /\ inq[f] = 0 /\ Fails(c, "EAGAIN")
  <2>1. Deliver(c, -1, "EAGAIN") /\ UNCHANGED <<netVars, open>>
    BY <1>6 DEF Fails
  <2>2. OnlyAt(f)
    BY <1>3, <2>1, KernelFails
  <2>3. ~HasEvent(f, EventOf(hook))
    BY <1>1, <1>3, <1>6 DEF HasEvent, EventOf
  <2>4. call[c].early
    BY <1>1, <1>2, <2>3, WithoutEvent
  <2> QED
    BY <1>1, <1>2, <1>4, <2>1, <2>2, <2>4, PlainStep
<1>7. CASE /\ inq[f] > 0 /\ Deliver(c, 1, "none") /\ inq' = [inq EXCEPT ![f] = @ - 1]
           /\ UNCHANGED <<nonblock, room, err, link, open>>
  <2>1. NetOK'
    BY <1>7 DEF SockInv, NetOK
  <2>2. OnlyAt(f)
    BY <1>3, <1>7, <2>1 DEF OnlyAt, SockInv, NetOK, Inv, TypeOK
  <2> QED
    BY <1>1, <1>2, <1>4, <1>7, <2>2, PlainStep
<1> QED
  BY <1>5, <1>6, <1>7 DEF SysRecv

LEMMA SysAcceptStep ==
  ASSUME SockInv, Inv, NEW c \in Co, NEW f \in Fd, SysAccept(c, f) PROVE SockInv'
<1>1. AtSys(c, "accept", f) /\ SchedulerUnchanged
  BY DEF SysAccept
<1>2. f \in open /\ f \in KindFor("accept") /\ "accept" \in Hooks \ {"send", "sendto"}
  BY <1>1, SysPlace DEF Hooks, DataHooks
<1>3. f \in Listeners
  BY <1>2, KindFacts
<1>4. /\ -1 \in Int /\ 1 \in Int /\ -1 < 0
      /\ {"EAGAIN", "none", "EMFILE", "ECONNABORTED"} \subseteq AllErrnos
  BY DEF AllErrnos
<1>5. ASSUME NEW e \in {"EAGAIN", "EMFILE"}, Fails(c, e) PROVE SockInv'
  <2>1. Deliver(c, -1, e) /\ UNCHANGED <<netVars, open>>
    BY <1>5 DEF Fails
  <2>2. OnlyAt(f)
    BY <1>1, <2>1, KernelFails
  <2> QED
    BY <1>1, <1>2, <1>4, <1>5, <2>1, <2>2, PlainStep
<1>6. CASE /\ inq[f] > 0 /\ Deliver(c, -1, "ECONNABORTED") /\ inq' = [inq EXCEPT ![f] = @ - 1]
           /\ UNCHANGED <<nonblock, room, err, link, open>>
  <2>1. NetOK'
    BY <1>6 DEF SockInv, NetOK
  <2>2. OnlyAt(f)
    BY <1>1, <1>6, <2>1 DEF OnlyAt, SockInv, NetOK, Inv, TypeOK
  <2> QED
    BY <1>1, <1>2, <1>4, <1>6, <2>2, PlainStep
<1>7. ASSUME NEW g \in Streams \ open, inq[f] > 0, Deliver(c, 1, "none"),
             open' = open \cup {g}, Accepted(g),
             inq' = [inq EXCEPT ![f] = @ - 1, ![g] = 0], room' = [room EXCEPT ![g] = Cap],
             err' = [err EXCEPT ![g] = "none"], link' = [link EXCEPT ![g] = "up"]
      PROVE  SockInv'
  <2>1. g \in Fd /\ g # f /\ nonblock' = nonblock \cup {g}
    BY <1>2, <1>7, SocketAssumption DEF Accepted
  <2>2. NetOK'
    BY <1>7, <2>1, SocketAssumption DEF SockInv, NetOK
  <2>3. OnlyAt(f)
    BY <1>1, <1>7, <2>1, <2>2 DEF OnlyAt, SockInv, NetOK, Inv, TypeOK
  <2> QED
    BY <1>1, <1>2, <1>4, <1>7, <2>3, PlainStep
<1> QED
  BY <1>5, <1>6, <1>7 DEF SysAccept

LEMMA SysConnectStep ==
  ASSUME SockInv, Inv, NEW c \in Co, NEW f \in Fd, SysConnect(c, f) PROVE SockInv'
<1>1. AtSys(c, "connect", f) /\ err[f] = "none" /\ SchedulerUnchanged
  BY DEF SysConnect
<1>2. /\ f \in open /\ f \in KindFor("connect")
      /\ "connect" \in Hooks \ {"send", "sendto"} /\ "connect" \in Hooks \ {"accept"}
  BY <1>1, SysPlace DEF Hooks, DataHooks
<1>3. f \in Streams
  BY <1>2, KindFacts
<1>4. /\ -1 \in Int /\ 0 \in Int
      /\ {"EINPROGRESS", "EALREADY", "none"} \subseteq AllErrnos
  BY DEF AllErrnos
<1>5. CASE /\ link[f] = "fresh" /\ Deliver(c, -1, "EINPROGRESS")
           /\ link' = [link EXCEPT ![f] = "connecting"]
           /\ UNCHANGED <<nonblock, inq, room, err, open>>
  <2>1. NetOK'
    BY <1>3, <1>5 DEF SockInv, NetOK
  <2>2. OnlyAt(f)
    BY <1>1, <1>5, <2>1 DEF OnlyAt, SockInv, NetOK, Inv, TypeOK
  <2> QED
    BY <1>1, <1>2, <1>4, <1>5, <2>2, PlainStep
<1>6. CASE link[f] = "connecting" /\ Fails(c, "EALREADY")
  <2>1. Deliver(c, -1, "EALREADY") /\ UNCHANGED <<netVars, open>>
    BY <1>6 DEF Fails
  <2>2. OnlyAt(f)
    BY <1>1, <2>1, KernelFails
  <2>3. ~HasEvent(f, EventOf("connect"))
    BY <1>1, <1>6 DEF HasEvent, EventOf
  <2>4. call[c].early
    BY <1>1, <1>2, <2>3, WithoutEvent
  <2> QED
    BY <1>1, <1>2, <1>4, <2>1, <2>2, <2>4, PlainStep
<1>7. CASE Deliver(c, 0, "none") /\ UNCHANGED <<netVars, open>>
  <2>1. OnlyAt(f)
    BY <1>1, <1>7, KernelFails
  <2> QED
    BY <1>1, <1>2, <1>4, <1>7, <2>1, PlainStep
<1> QED
  BY <1>5, <1>6, <1>7 DEF SysConnect

-----------------------------------------------------------------------------
(* Every step *)

\* After an assert the process is over
LEMMA Stopped ==
  ASSUME fault # "none", [NextSocket]_allVars PROVE UNCHANGED allVars
<1>1. CASE NextSocket
  <2>1. ASSUME NEW c \in Co
        PROVE  /\ ~Create(c) /\ ~FreeToAct(c) /\ ~CallStep(c) /\ ~NewCall(c) /\ ~Leave(c)
               /\ \A f \in Fd : ~SockOpen(c, f) /\ ~SockClose(c, f)
    <3>1. ~Running(c)
      BY DEF Running
    <3>2. ~FreeToAct(c)
      BY <3>1 DEF FreeToAct
    <3>3. \A hook, f : ~AtSys(c, hook, f)
      BY <3>1 DEF AtSys
    <3>4. \A f \in Fd : ~Sys(c, f)
      BY <3>3 DEF Sys, SysFails, SysSend, SysRecv, SysAccept, SysConnect
    <3>5. ~CallPoll(c) /\ ~CallPolled(c) /\ ~EnterHook(c) /\ ~Returned(c)
      BY <3>1 DEF CallPoll, Poll, CallPolled, PollEnd, EnterHook, Returned
    <3>6. ~NewCall(c) /\ ~Leave(c) /\ \A f \in Fd : ~SockOpen(c, f) /\ ~SockClose(c, f)
      BY <3>2 DEF NewCall, Begin, Leave, SockOpen, SockClose
    <3> QED
      BY <3>2, <3>4, <3>5, <3>6 DEF Create, CallStep
  <2>2. ~Loop /\ ~Tick
    BY DEF Loop, Tick, Alive, Run, Check, NoneExpired, TakeReady, NoneReady, EpollCall, EpollReturn,
           NoMoreEvents, Expire, Event, AtLoop
  <2>3. \A f \in Fd : ~MainOpens(f) /\ ~Network(f) /\ ~Report(f)
    BY DEF MainOpens, AtLoop, Network, PeerSends, PeerReads, PeerFails, Connected, OtherAccepts,
           Established, Report, KernelReady, Alive
  <2>4. Terminated /\ UNCHANGED sockVars
    BY <1>1, <2>1, <2>2, <2>3 DEF NextSocket
  <2> QED
    BY <2>4 DEF Terminated, allVars
<1> QED
  BY <1>1

LEMMA SameState ==
  ASSUME SockInv, UNCHANGED allVars PROVE SockInv' /\ (Inv => Inv') /\ fault' = fault
<1>1. UNCHANGED vars /\ UNCHANGED sockVars
  BY DEF allVars
<1>2. /\ UNCHANGED <<frame, fd, curr, phase, pending, rdy, open, fault>>
      /\ UNCHANGED <<call, nonblock, inq, room, err, link>>
  BY <1>1 DEF vars, sockVars, coVars, waitVars, loopVars, epollVars, kernelVars
<1>3. NetOK'
  BY <1>2 DEF SockInv, NetOK
<1>4. ASSUME NEW d \in Co, call[d].hook # "none"
      PROVE  call[d].f \in open' /\ (Come(d) => Come(d)')
  BY <1>2, <1>4 DEF SockInv, CallOK, PlaceOK, Come, HasEvent
<1>5. SockInv'
  BY <1>2, <1>3, <1>4, KernelSteps
<1>6. Inv => Inv'
  <2>1. ASSUME Inv PROVE TypeOK' /\ Rest'
    BY <1>1, <2>1, TypeNext, LoopInv DEF Inv
  <2> QED
    BY <2>1 DEF Inv, Rest
<1> QED
  BY <1>2, <1>5, <1>6

LEMMA SockNext ==
  ASSUME Misuse = {}, SockInv, Inv, NextSocket PROVE SockInv'
<1>1. ASSUME NEW c \in Co,
             \/ Create(c) /\ UNCHANGED sockVars
             \/ Leave(c)
             \/ \E msecs \in Msecs : FreeToAct(c) /\ Sleep(c, msecs) /\ UNCHANGED sockVars
      PROVE  SockInv'
  BY <1>1, BodySteps DEF Leave
<1>2. ASSUME NEW c \in Co, NewCall(c) PROVE SockInv'
  <2>1. PICK hook \in Hooks, nty \in BOOLEAN, f \in Fd :
          \E len \in (IF hook \in {"send", "sendto"} THEN Lengths ELSE {1}) :
            Begin(c, hook, nty, f, len)
    BY <1>2 DEF NewCall
  <2>2. PICK len \in Nat \ {0} : Begin(c, hook, nty, f, len)
    <3>1. Lengths \subseteq Nat \ {0}
      BY SocketAssumption
    <3> QED
      BY <2>1, <3>1
  <2> QED
    BY <2>2, BeginStep
<1>3. ASSUME NEW c \in Co, CallStep(c) PROVE SockInv'
  BY <1>3, CallPollStep, CallPolledStep, EnterHookStep, ReturnedStep, SysFailsStep, SysSendStep,
     SysRecvStep, SysAcceptStep, SysConnectStep DEF CallStep, Sys
<1>4. ASSUME NEW c \in Co, NEW f \in Fd, SockOpen(c, f) \/ SockClose(c, f) PROVE SockInv'
  BY <1>4, OpenCloseSteps
<1>5. CASE (Loop \/ Tick \/ Terminated) /\ UNCHANGED sockVars
  BY <1>5, LoopSteps
<1>6. ASSUME NEW f \in Fd, MainOpens(f) \/ Network(f) \/ Report(f) PROVE SockInv'
  BY <1>6, MainOpensStep, NetworkSteps, ReportStep
<1> QED
  BY <1>1, <1>2, <1>3, <1>4, <1>5, <1>6 DEF NextSocket

\* A step the scheduler does not take: a system call, or one of the kernel's own
LEMMA OtherInv ==
  ASSUME Inv, rdy' \subseteq rdy, open' \subseteq Fd,
         UNCHANGED <<now, fault, coVars, ready, timerVars, waitVars, loopVars, epollVars, epollset>>
  PROVE  Inv'
<1> USE DEF coVars, timerVars, waitVars, loopVars, epollVars
<1>1. TypeOK'
  BY DEF Inv, TypeOK
<1>2. /\ OnePlace' /\ RegistrationMatchesWaiters' /\ AssertsHold' /\ TimerKeysDistinct'
      /\ Queued' = Queued /\ StatusSound'
  <2>1. now' \in Nat /\ now <= now'
    BY DEF Inv, TypeOK
  <2> QED
    BY <2>1, QuietInv
<1>3. NothingLeft' /\ EventsHaveWaiters' /\ LoopSound' /\ PassBounded'
  BY <1>2 DEF Inv, NothingLeft, EventsHaveWaiters, LoopSound, PassBounded
<1> QED
  BY <1>1, <1>2, <1>3 DEF Inv

LEMMA SysInv ==
  ASSUME SockInv, Inv, NEW c \in Co, NEW f \in Fd, Sys(c, f)
  PROVE  /\ fault' = "none" => Inv'
         /\ fault' \in {"none", "errno"}
<1>1. SchedulerUnchanged /\ open' \subseteq Fd
  <2>1. CASE SysFails(c, f)
    BY <2>1 DEF SysFails, Inv, TypeOK
  <2>2. CASE SysSend(c, f)
    BY <2>2 DEF SysSend, Fails, Inv, TypeOK
  <2>3. CASE SysRecv(c, f)
    BY <2>3 DEF SysRecv, Fails, Inv, TypeOK
  <2>4. CASE SysAccept(c, f)
    BY <2>4, SocketAssumption DEF SysAccept, Fails, Inv, TypeOK
  <2>5. CASE SysConnect(c, f)
    BY <2>5 DEF SysConnect, Fails, Inv, TypeOK
  <2> QED
    BY <2>1, <2>2, <2>3, <2>4, <2>5 DEF Sys
<1>2. \E r, e : Deliver(c, r, e)
  BY DEF Sys, SysFails, SysSend, SysRecv, SysAccept, SysConnect, Fails
<1>3. fault' \in {"none", "errno"}
  <2>1. PICK r, e : Deliver(c, r, e)
    BY <1>2
  <2> QED
    BY <2>1, Zenon DEF Deliver
<1>4. fault = "none"
  BY DEF Inv, AssertsHold
<1> QED
  BY <1>1, <1>3, <1>4, OtherInv DEF SchedulerUnchanged

\* A step keeps the scheduler's invariant, unless a call reaches its assert
LEMMA InvStep ==
  ASSUME Misuse = {}, SockInv, Inv, NextSocket
  PROVE  Inv' \/ \E c \in Co, f \in Fd : Sys(c, f) /\ fault' = "errno"
<1>1. ASSUME [Next]_vars PROVE Inv'
  BY <1>1, InvNext
<1>2. ASSUME NEW c \in Co,
             \/ Create(c) \/ NewCall(c) \/ Leave(c)
             \/ \E msecs \in Msecs : Sleep(c, msecs)
             \/ \E f \in Fd : SockOpen(c, f) \/ SockClose(c, f)
      PROVE  [Next]_vars
  BY <1>2 DEF Next, Body, NewCall, Begin, Leave, SockOpen, SockClose
<1>3. ASSUME NEW c \in Co, CallPoll(c) \/ CallPolled(c) \/ EnterHook(c) \/ Returned(c) PROVE Inv'
  <2>1. CASE CallPoll(c)
    <3>1. call[c].hook # "none" /\ call[c].hook \in Hooks \cup {"none"}
      BY <2>1 DEF CallPoll, InCall, SockInv, CallOK, ShapeOK, NoCall, CallRecords
    <3>2. call[c].f \in KindFor(call[c].hook)
      BY <3>1 DEF SockInv, CallOK, ShapeOK
    <3>3. call[c].f \in Fd /\ EventOf(call[c].hook) \in {"POLLIN", "POLLOUT"}
      BY <3>1, <3>2, KindFacts DEF EventOf
    <3>4. Next
      BY <2>1, <3>3 DEF CallPoll, Next, Body
    <3> QED
      BY <1>1, <3>4
  <2>2. CASE CallPolled(c)
    <3>1. Next
      BY <2>2 DEF CallPolled, Next, Body
    <3> QED
      BY <1>1, <3>1
  <2>3. CASE EnterHook(c) \/ Returned(c)
    BY <1>1, <2>3 DEF EnterHook, Returned
  <2> QED
    BY <1>3, <2>1, <2>2, <2>3
<1>4. ASSUME NEW c \in Co, NEW f \in Fd, Sys(c, f) PROVE Inv' \/ fault' = "errno"
  BY <1>4, SysInv
<1>5. ASSUME (Loop \/ Tick \/ Terminated) /\ UNCHANGED sockVars PROVE Inv'
  BY <1>1, <1>5 DEF Next
<1>6. ASSUME NEW f \in Fd, MainOpens(f) \/ Network(f) \/ Report(f) PROVE Inv'
  <2>1. CASE MainOpens(f)
    BY <2>1, OtherInv DEF MainOpens, Inv, TypeOK
  <2>2. CASE OtherAccepts(f)
    BY <2>2, OtherInv DEF OtherAccepts, Inv, TypeOK
  <2>3. CASE PeerSends(f) \/ PeerReads(f) \/ PeerFails(f) \/ Connected(f)
    BY <1>1, <2>3 DEF PeerSends, PeerReads, PeerFails, Connected
  <2>4. CASE Report(f)
    BY <1>1, <2>4 DEF Report, Next
  <2> QED
    BY <1>6, <2>1, <2>2, <2>3, <2>4 DEF Network
<1> QED
  BY <1>1, <1>2, <1>3, <1>4, <1>5, <1>6 DEF NextSocket, CallStep

LEMMA WholeNext ==
  ASSUME Misuse = {}, Whole, [NextSocket]_allVars PROVE Whole'
<1>1. CASE fault # "none"
  <2>1. UNCHANGED allVars
    BY <1>1, Stopped
  <2> QED
    BY <2>1, SameState DEF Whole
<1>2. CASE fault = "none" /\ UNCHANGED allVars
  BY <1>2, SameState DEF Whole
<1>3. CASE fault = "none" /\ NextSocket
  <2>1. SockInv /\ Inv
    BY <1>3 DEF Whole
  <2>2. SockInv'
    BY <1>3, <2>1, SockNext
  <2>3. Inv' \/ fault' = "errno"
    BY <1>3, <2>1, InvStep
  <2> QED
    BY <2>2, <2>3 DEF Whole
<1> QED
  BY <1>1, <1>2, <1>3

LEMMA WholeInit == InitSocket => Whole
<1> SUFFICES ASSUME InitSocket PROVE Whole
  OBVIOUS
<1>1. Inv
  BY InvInit DEF InitSocket
<1>2. NoCall \in CallRecords /\ NoCall.hook = "none" /\ NoCall.frames = << >>
  BY DEF NoCall, CallRecords, AllErrnos
<1>3. /\ \A c \in Co : call[c] = NoCall /\ frame[c] = "none"
      /\ call \in [Co -> CallRecords]
  BY <1>2 DEF InitSocket, Init
<1>4. NetOK
  <2>1. open = {}
    BY SocketAssumption DEF InitSocket, Init
  <2> QED
    BY <2>1, SocketAssumption DEF InitSocket, NetOK
<1>5. ASSUME NEW c \in Co PROVE CallOK(c)
  <2>1. call[c] = NoCall /\ frame[c] = "none" /\ Len(<< >>) = 0
    BY <1>3
  <2> QED
    BY <1>2, <2>1
    DEF CallOK, ShapeOK, DataHooks, PlaceOK, SentOK, WokenOK, InCall, HasReturned
<1>6. Apart
  BY <1>2, <1>3 DEF Apart
<1> QED
  BY <1>1, <1>3, <1>4, <1>5, <1>6 DEF Whole, SockInv

-----------------------------------------------------------------------------
(* The theorems *)

\* Whatever coroutines call, wait, send in parts, fail, time out and close, and
\* whatever the network does, the calls keep their account of what was sent, go
\* on only when their event has come or a timer has woken them, and the scheduler
\* below keeps its invariant until an assert ends the process.
THEOREM SocketInvariance == ASSUME Misuse = {} PROVE SpecSocket => []Whole
<1>1. InitSocket => Whole
  BY WholeInit
<1>2. Whole /\ [NextSocket]_allVars => Whole'
  BY WholeNext
<1> QED
  BY <1>1, <1>2, PTL DEF SpecSocket

\* What send, nty_send, sendto and nty_sendto return is what the kernel took, for
\* every length, every way the kernel splits it and every failure in between, on
\* datagrams and streams; only nty_sendto on a stream that is reset half-way returns
\* 0 for what it has sent.
THEOREM SendExactHolds == ASSUME Misuse = {} PROVE SpecSocket => []SendExact
<1>1. ASSUME Whole PROVE SendExact
  <2> SUFFICES ASSUME NEW c \in Co, HasReturned(c), call[c].hook \in {"send", "sendto"}
               PROVE  call[c].took = (IF call[c].ret > 0 THEN call[c].ret ELSE 0) \/ CountLost(c)
    BY DEF SendExact
  <2>1. SentOK(c) /\ call[c].frames = << >>
    BY <1>1 DEF Whole, SockInv, CallOK, HasReturned
  <2>2. Len(call[c].frames) = 0
    BY <2>1
  <2> QED
    BY <2>1, <2>2 DEF SentOK
<1> QED
  BY <1>1, SocketInvariance, PTL

\* No body is told EAGAIN or EALREADY, and no send is short on a connection that
\* works, unless a timer the coroutine left armed woke it.
THEOREM NoSpuriousFailureHolds == ASSUME Misuse = {} PROVE SpecSocket => []NoSpuriousFailure
<1>1. ASSUME Whole PROVE NoSpuriousFailure
  BY <1>1 DEF Whole, SockInv, CallOK, WokenOK, NoSpuriousFailure
<1> QED
  BY <1>1, SocketInvariance, PTL

\* Only accept on a listener that main opened before the scheduler existed is made
\* on a descriptor without O_NONBLOCK, and can block the thread.
THEOREM ThreadNeverBlocksHolds == ASSUME Misuse = {} PROVE SpecSocket => []ThreadNeverBlocks
<1>1. ASSUME Whole PROVE ThreadNeverBlocks
  <2> SUFFICES ASSUME NEW c \in Co, NEW f \in Fd, AtSys(c, call[c].hook, f)
               PROVE  f \in nonblock \/ f \in FromMain
    BY DEF ThreadNeverBlocks
  <2>1. f \in open
    BY <1>1, SysPlace DEF Whole
  <2> QED
    BY <1>1, <2>1 DEF Whole, SockInv, NetOK
<1> QED
  BY <1>1, SocketInvariance, PTL

-----------------------------------------------------------------------------
(* The asserts on errno *)

\* The result of an activation that reaches an assert
LEMMA AbortFacts ==
  ASSUME NEW hook \in Hooks, NEW k, NEW len, NEW r \in Int, NEW e,
         After(hook, k, len, r, e).at = "abort"
  PROVE  /\ hook \in {"sendto", "recvfrom"} /\ e \notin {"EAGAIN", "ECONNRESET"}
         /\ r < 0 \/ (hook = "sendto" /\ r = 0)
<1> DEFINE a == After(hook, k, len, r, e)
<1>1. ASSUME NEW y, a \in {Again(y), Ret(y)} PROVE FALSE
  BY <1>1 DEF Again, Ret
<1>2. CASE hook \in {"recv", "send", "accept", "connect"}
  <2>1. CASE hook = "recv"
    BY <1>1, <2>1 DEF After, AfterRecv
  <2>2. CASE hook = "send"
    <3>1. a = AfterSend(k, len, r)
      BY <2>2 DEF After
    <3>2. \E y : AfterSend(k, len, r) \in {Again(y), Ret(y)}
      BY DEF AfterSend, Advance, SendBreak
    <3> QED
      BY <1>1, <3>1, <3>2
  <2>3. CASE hook = "accept"
    BY <1>1, <2>3 DEF After, AcceptFails
  <2>4. CASE hook = "connect"
    BY <1>1, <2>4 DEF After, AfterConnect
  <2> QED
    BY <1>2, <2>1, <2>2, <2>3, <2>4
<1>3. CASE hook \in {"sendto", "recvfrom"}
  <2>1. a = AfterDatagram(r, e) \/ (a = AfterNtySendto(k, len, r, e) /\ hook = "sendto")
    BY <1>3 DEF After, AfterSendto
  <2>2. CASE a = AfterDatagram(r, e)
    BY <1>3, <2>2, DatagramFacts
  <2>3. CASE a = AfterNtySendto(k, len, r, e) /\ hook = "sendto"
    <3>1. ~(r > 0)
      BY <1>1, <2>3 DEF AfterNtySendto, Advance
    <3>2. e # "EAGAIN" /\ e # "ECONNRESET"
      BY <1>1, <2>3, <3>1 DEF AfterNtySendto
    <3>3. r < 0 \/ r = 0
      BY <3>1
    <3> QED
      BY <2>3, <3>2, <3>3
  <2> QED
    BY <2>1, <2>2, <2>3
<1> QED
  BY <1>2, <1>3 DEF Hooks, DataHooks

\* A call that ends the process was told of an error it does not handle
Aborted ==
  fault = "errno" =>
    \E c \in Co : /\ curr = c /\ call[c].hook \in {"sendto", "recvfrom"}
                  /\ call[c].errno \notin {"none", "EAGAIN", "ECONNRESET"}

LEMMA DeliverAborts ==
  ASSUME SockInv, NEW c \in Co, NEW hook, NEW f, AtSys(c, hook, f), SchedulerUnchanged,
         NEW r \in Int, NEW e, Deliver(c, r, e), r < 0 => e # "none", hook = "sendto" => r # 0
  PROVE  Aborted'
<1> SUFFICES ASSUME fault' = "errno" PROVE Aborted'
  BY DEF Aborted
<1> DEFINE s == call[c].frames
<1>1. PICK n \in {1, 2} : n = Len(s) /\ s[n].nty = FALSE
  BY SysFrames
<1>2. call[c].hook = hook /\ hook \in Hooks /\ curr = c
  BY SysPlace
<1> DEFINE a == InnerResult(c, n, r, e)
           b == OuterResult(c, n, r, e)
<1>0. call \in [Co -> CallRecords]
  BY DEF SockInv
<1>3. \/ a.at # "ret" /\ Delivered(c, n, a, r, e)
      \/ a.at = "ret" /\ n = 1 /\ Delivered(c, 1, a, r, e)
      \/ a.at = "ret" /\ n = 2 /\ Delivered(c, 1, b, r, e)
  BY ONLY <1>0, <1>1, c \in Co, n \in {1, 2}, Deliver(c, r, e), DeliverCases
<1>4. a = After(hook, s[n], LengthOf(call[c], n), r, e) /\ b = After(hook, s[1], call[c].len, a.ret, e)
  BY <1>2 DEF InnerResult, OuterResult
<1> HIDE DEF a, b
<1>5. ASSUME a.at = "ret", b.at = "abort" PROVE FALSE
  <2>0. a.ret \in Int
    <3>1. CASE hook \in {"sendto", "recvfrom"}
      <4>1. a = AfterDatagram(r, e)
        BY <1>1, <1>4, <3>1 DEF After, AfterSendto
      <4> QED
        BY <4>1, DatagramFacts DEF Results
    <3>2. CASE hook \notin {"send", "sendto"}
      BY <1>2, <1>4, <3>2, PlainFacts DEF Results
    <3>3. CASE hook = "send"
      <4>1. b = AfterSend(s[1], call[c].len, a.ret)
        BY <1>4, <3>3 DEF After
      <4>2. \E y : AfterSend(s[1], call[c].len, a.ret) \in {Again(y), Ret(y)}
        BY DEF AfterSend, Advance, SendBreak
      <4> QED
        BY <1>5, <4>1, <4>2 DEF Again, Ret
    <3> QED
      BY <3>1, <3>2, <3>3
  <2>1. /\ hook \in {"sendto", "recvfrom"} /\ e \notin {"EAGAIN", "ECONNRESET"}
        /\ a.ret < 0 \/ (hook = "sendto" /\ a.ret = 0)
    BY <1>2, <1>4, <1>5, <2>0, AbortFacts
  <2>2. a = AfterDatagram(r, e)
    BY <1>1, <1>4, <2>1 DEF After, AfterSendto
  <2>3. a.ret = r /\ r >= 0
    BY <1>5, <2>1, <2>2, DatagramFacts
  <2> QED
    BY <2>1, <2>3
<1>6. a.at = "abort" /\ Delivered(c, n, a, r, e)
  BY <1>3, <1>5 DEF Delivered
<1>7. hook \in {"sendto", "recvfrom"} /\ e \notin {"none", "EAGAIN", "ECONNRESET"}
  BY <1>2, <1>4, <1>6, AbortFacts
<1>8. call'[c].hook = hook /\ call'[c].errno = e
  <2>1. call[c] \in CallRecords
    BY <1>0
  <2> QED
    BY <1>0, <1>2, <1>6, <2>1 DEF Delivered, CallRecords
<1>9. curr' = c
  BY <1>2 DEF SchedulerUnchanged, loopVars
<1> QED
  BY <1>7, <1>8, <1>9 DEF Aborted

LEMMA SysAborts ==
  ASSUME SockInv, NEW c \in Co, NEW f \in Fd, Sys(c, f) PROVE Aborted'
<1>0. -1 \in Int /\ 0 \in Int /\ 1 \in Int /\ -1 < 0 /\ ~(0 < 0) /\ ~(1 < 0)
  OBVIOUS
<1>1. CASE SysFails(c, f)
  <2>1. PICK hook \in Hooks \ {"accept"} : AtSys(c, hook, f)
    BY <1>1 DEF SysFails
  <2>2. err[f] # "none" /\ Deliver(c, -1, err[f]) /\ SchedulerUnchanged
    BY <1>1 DEF SysFails
  <2> QED
    BY <1>0, <2>1, <2>2, DeliverAborts
<1>2. CASE SysSend(c, f)
  <2>1. PICK hook \in {"send", "sendto"} : AtSys(c, hook, f)
    BY <1>2 DEF SysSend
  <2>2. SchedulerUnchanged /\ (Deliver(c, -1, "EAGAIN") \/ \E n \in 1..Left(c) : Deliver(c, n, "none"))
    BY <1>2 DEF SysSend, Fails
  <2>3. CASE Deliver(c, -1, "EAGAIN")
    BY <1>0, <2>1, <2>2, <2>3, DeliverAborts
  <2>4. CASE \E n \in 1..Left(c) : Deliver(c, n, "none")
    <3>1. PICK n \in 1..Left(c) : Deliver(c, n, "none")
      BY <2>4
    <3>2. n \in Int /\ n # 0 /\ ~(n < 0)
      OBVIOUS
    <3> QED
      BY <2>1, <2>2, <3>1, <3>2, DeliverAborts
  <2> QED
    BY <2>2, <2>3, <2>4
<1>3. CASE SysRecv(c, f)
  <2>1. PICK hook \in {"recv", "recvfrom"} : AtSys(c, hook, f)
    BY <1>3 DEF SysRecv
  <2>2. /\ SchedulerUnchanged
        /\ Deliver(c, 0, "none") \/ Deliver(c, -1, "EAGAIN") \/ Deliver(c, 1, "none")
    BY <1>3 DEF SysRecv, Fails
  <2> QED
    BY <1>0, <2>1, <2>2, DeliverAborts
<1>4. CASE SysAccept(c, f) \/ SysConnect(c, f)
  <2>1. PICK hook \in {"accept", "connect"} : AtSys(c, hook, f)
    BY <1>4 DEF SysAccept, SysConnect
  <2>2. PICK r, e : r \in {-1, 0, 1} /\ Deliver(c, r, e) /\ (r = -1 => e # "none")
    BY <1>4 DEF SysAccept, SysConnect, Fails
  <2>3. SchedulerUnchanged
    BY <1>4 DEF SysAccept, SysConnect
  <2>4. r \in Int /\ (r < 0 => e # "none") /\ hook # "sendto"
    BY <2>1, <2>2
  <2> QED
    BY <2>1, <2>2, <2>3, <2>4, DeliverAborts
<1> QED
  BY <1>1, <1>2, <1>3, <1>4 DEF Sys

\* The library's asserts end the process only in sendto, recvfrom and their nty_
\* functions, and only when the kernel has just reported an error other than EAGAIN
\* and ECONNRESET, whatever errors the network has.
THEOREM AbortsOnlyOnOtherErrorsHolds ==
  ASSUME Misuse = {} PROVE SpecSocket => []AbortsOnlyOnOtherErrors
<1>1. InitSocket => Aborted
  BY DEF InitSocket, Init, Aborted
<1>2. Whole /\ Aborted /\ [NextSocket]_allVars => Aborted'
  <2> SUFFICES ASSUME Whole, Aborted, [NextSocket]_allVars PROVE Aborted'
    OBVIOUS
  <2>1. CASE UNCHANGED allVars
    BY <2>1 DEF allVars, vars, sockVars, loopVars, Aborted
  <2>2. CASE fault # "none"
    BY <2>1, <2>2, Stopped
  <2>3. CASE NextSocket /\ fault = "none"
    <3>1. SockInv /\ Inv
      BY <2>3 DEF Whole
    <3>2. Inv' \/ \E c \in Co, f \in Fd : Sys(c, f) /\ fault' = "errno"
      BY <2>3, <3>1, InvStep
    <3>3. CASE Inv'
      BY <3>3 DEF Inv, AssertsHold, Aborted
    <3>4. CASE \E c \in Co, f \in Fd : Sys(c, f)
      BY <3>1, <3>4, SysAborts
    <3> QED
      BY <3>2, <3>3, <3>4
  <2> QED
    BY <2>1, <2>2, <2>3
<1>3. Whole /\ Aborted => AbortsOnlyOnOtherErrors
  BY DEF Whole, Inv, AssertsHold, Aborted, AbortsOnlyOnOtherErrors
<1> QED
  BY <1>1, <1>2, <1>3, SocketInvariance, PTL DEF SpecSocket
=============================================================================
