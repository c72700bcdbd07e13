------------------------------ MODULE NtyStack ------------------------------
(***************************************************************************)
(* The shared stack of the ucontext build: every coroutine of a thread     *)
(* runs on sched->stack.  nty_coroutine_yield copies the used part into    *)
(* co->stack, nty_coroutine_resume copies it back.                         *)
(*                                                                         *)
(* Words of sched->stack are numbered from the top, where a stack begins:  *)
(* 1 is the first word a coroutine pushes.  The scheduler has a stack of   *)
(* its own, and resumes coroutines in any order: NtyScheduler says which.  *)
(***************************************************************************)
EXTENDS Integers, Sequences

CONSTANTS
  Co, NIL,
  Word,    \* what a word of the stack can hold
  Depth,   \* sched->stack_size, in words
  ByAddress  \* do creators pass the address of a local as arg?

ASSUME StackAssumption ==
  NIL \notin Co /\ Depth \in Nat \ {0} /\ Word # {} /\ ByAddress \in BOOLEAN

VARIABLES
  mem,    \* sched->stack
  sp,     \* the words in use by the running coroutine: top - &dummy
  curr,   \* sched->curr_thread
  state,  \* "none", "new", "suspended" or "running"
  stack,  \* co->stack, lowest address first; its length is co->stack_size
  arg,    \* the word that co->arg points to, 0 for one that is not on the stack
  given,  \* history: what *arg was when the coroutine was created
  read,   \* history: what the coroutine read there when it started
  own     \* history: the words each coroutine has on its stack

vars == <<mem, sp, curr, state, stack, arg, given, read, own>>

Init ==
  /\ mem \in [1..Depth -> Word] /\ sp = 0 /\ curr = NIL
  /\ state = [c \in Co |-> "none"] /\ stack = [c \in Co |-> << >>]
  /\ arg = [c \in Co |-> 0] /\ given = [c \in Co |-> NIL] /\ read = [c \in Co |-> NIL]
  /\ own = [c \in Co |-> << >>]

\* _save_stack: the words from top - stack_size on, that is from sp up to 1.
\* The buffer is reallocated when it is too small.
SaveKeepsSize(c) == \* mutant: co->stack_size is set in the if only
  LET size == IF Len(stack[c]) < sp THEN sp ELSE Len(stack[c])
  IN  [i \in 1..size |-> mem[IF sp - i + 1 < 1 THEN 1 ELSE sp - i + 1]]
Save(c) == [i \in 1..sp |-> mem[sp - i + 1]]

\* _load_stack: co->stack ends at the top
Load(c) ==
  LET size == Len(stack[c])
  IN  [p \in 1..Depth |-> IF p <= size THEN stack[c][size - p + 1] ELSE mem[p]]

\* nty_coroutine_create, by main or by a coroutine, which may pass the address
\* of one of its locals
Create(c, p) ==
  /\ state[c] = "none"
  /\ p # 0 => ByAddress /\ curr # NIL /\ p <= sp
  /\ state' = [state EXCEPT ![c] = "new"]
  /\ stack' = [stack EXCEPT ![c] = << >>]
  /\ arg' = [arg EXCEPT ![c] = p]
  /\ given' = [given EXCEPT ![c] = IF p = 0 THEN NIL ELSE mem[p]]
  /\ read' = [read EXCEPT ![c] = NIL]
  /\ UNCHANGED <<mem, sp, curr, own>>

\* nty_coroutine_resume of a new coroutine: makecontext, then _exec and the
\* first words of the function, which then looks at its argument
Start(c, w) ==
  /\ curr = NIL /\ state[c] = "new"
  /\ curr' = c /\ sp' = 1
  /\ mem' = [mem EXCEPT ![1] = w]
  /\ state' = [state EXCEPT ![c] = "running"]
  /\ read' = [read EXCEPT ![c] = IF arg[c] = 0 THEN NIL ELSE mem'[arg[c]]]
  /\ own' = [own EXCEPT ![c] = <<w>>]
  /\ UNCHANGED <<stack, arg, given>>

\* nty_coroutine_resume of another: _load_stack
Resume(c) ==
  /\ curr = NIL /\ state[c] = "suspended"
  /\ curr' = c /\ sp' = Len(stack[c])
  /\ mem' = Load(c)
  /\ state' = [state EXCEPT ![c] = "running"]
  /\ UNCHANGED <<stack, arg, given, read, own>>

\* The body calls a function, returns from one, assigns to a local
Push(c, w) ==
  /\ curr = c /\ sp < Depth
  /\ sp' = sp + 1 /\ mem' = [mem EXCEPT ![sp + 1] = w]
  /\ own' = [own EXCEPT ![c] = Append(@, w)]
  /\ UNCHANGED <<curr, state, stack, arg, given, read>>

Pop(c) ==
  /\ curr = c /\ sp > 1
  /\ sp' = sp - 1
  /\ own' = [own EXCEPT ![c] = SubSeq(@, 1, sp - 1)]
  /\ UNCHANGED <<mem, curr, state, stack, arg, given, read>>

Assign(c, p, w) ==
  /\ curr = c /\ p <= sp
  /\ mem' = [mem EXCEPT ![p] = w]
  /\ own' = [own EXCEPT ![c] = [@ EXCEPT ![p] = w]]
  /\ UNCHANGED <<sp, curr, state, stack, arg, given, read>>

\* nty_coroutine_yield
Yield(c) ==
  /\ curr = c
  /\ stack' = [stack EXCEPT ![c] = Save(c)]
  /\ curr' = NIL /\ sp' = 0
  /\ state' = [state EXCEPT ![c] = "suspended"]
  /\ UNCHANGED <<mem, arg, given, read, own>>

\* _exec after the function has returned: EXITED, so nothing is saved, and
\* nty_coroutine_resume frees the coroutine
Exit(c) ==
  /\ curr = c
  /\ curr' = NIL /\ sp' = 0
  /\ state' = [state EXCEPT ![c] = "none"]
  /\ stack' = [stack EXCEPT ![c] = << >>]
  /\ own' = [own EXCEPT ![c] = << >>]
  /\ arg' = [arg EXCEPT ![c] = 0] /\ given' = [given EXCEPT ![c] = NIL]
  /\ read' = [read EXCEPT ![c] = NIL]
  /\ UNCHANGED mem

Next ==
  \E c \in Co :
    \/ \E p \in 0..Depth : Create(c, p)
    \/ Resume(c) \/ Pop(c) \/ Yield(c) \/ Exit(c)
    \/ \E w \in Word : Start(c, w) \/ Push(c, w) \/ \E p \in 1..Depth : Assign(c, p, w)

Spec == Init /\ [][Next]_vars

-----------------------------------------------------------------------------
TypeOK ==
  /\ mem \in [1..Depth -> Word] /\ sp \in 0..Depth /\ curr \in Co \cup {NIL}
  /\ state \in [Co -> {"none", "new", "suspended", "running"}]
  /\ stack \in [Co -> Seq(Word)] /\ own \in [Co -> Seq(Word)]
  /\ arg \in [Co -> 0..Depth]

\* A running coroutine finds on the shared stack what it left there, however
\* many others, with deeper or shallower stacks, ran in between.
StackIntact ==
  curr # NIL => /\ sp = Len(own[curr])
                /\ \A p \in 1..sp : mem[p] = own[curr][p]

\* The samples pass the address of a local to a new coroutine, which reads its
\* descriptor there: "int fd = *(int *)arg".
ArgumentSurvives ==
  \A c \in Co : state[c] \in {"running", "suspended"} => read[c] = given[c]
=============================================================================
