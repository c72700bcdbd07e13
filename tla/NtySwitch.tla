------------------------------ MODULE NtySwitch ------------------------------
(***************************************************************************)
(* The ready queue and the shared stack together: a coroutine is linked    *)
(* into the queue by pointers inside its own block while others run on the *)
(* stack it will be copied back to.  The elements of the queue are the     *)
(* coroutines.                                                             *)
(***************************************************************************)
EXTENDS NtyStack, NtyTailQueue

ASSUME SwitchAssumption == Elem = Co

switchVars == <<mem, sp, curr, state, stack, arg, given, read, own,
                first, last, next, prev, q>>

InQueue(c) == \E i \in 1..Len(q) : q[i] = c

InitSwitch == Init /\ InitQueue

\* nty_coroutine_create: calloc, then TAILQ_INSERT_TAIL
CreateReady(c, p) == Create(c, p) /\ InsertTail(c)

\* Stage 2 of nty_schedule_run: the first of the queue is taken out and resumed
RunFirst(c) ==
  /\ First = c /\ RemoveFirst
  /\ Resume(c) \/ \E w \in Word : Start(c, w)

\* Stages 1 and 3: a timer or an event resumes a coroutine, which is then not
\* in the queue
RunWoken(c) == ~InQueue(c) /\ Resume(c) /\ UNCHANGED queueVars

\* nty_coroutine_sleep(0) and nty_coroutine_renice: into the queue, and yield
Requeue(c) == Yield(c) /\ InsertTail(c)

\* nty_coroutine_yield inside nty_poll_inner
Suspend(c) == Yield(c) /\ UNCHANGED queueVars

\* The rest of a body
Work(c) ==
  /\ \/ Pop(c) \/ Exit(c)
     \/ \E w \in Word : Push(c, w) \/ \E p \in 1..Depth : Assign(c, p, w)
  /\ UNCHANGED queueVars

NextSwitch ==
  \E c \in Co :
    \/ \E p \in 0..Depth : CreateReady(c, p)
    \/ RunFirst(c) \/ RunWoken(c) \/ Requeue(c) \/ Suspend(c) \/ Work(c)

SpecSwitch == InitSwitch /\ [][NextSwitch]_switchVars
=============================================================================
