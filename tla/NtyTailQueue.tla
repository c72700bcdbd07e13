---------------------------- MODULE NtyTailQueue ----------------------------
(***************************************************************************)
(* The TAILQ macros of nty_queue.h as the scheduler uses them on           *)
(* sched->ready, pointer by pointer.  q is a history variable: the         *)
(* sequence that NtyScheduler has in place of the pointers.                *)
(*                                                                         *)
(* The address of a next field is written as the element that has it, and  *)
(* HEAD is the address of the head, whose two fields lie like those of an  *)
(* element: TAILQ_LAST depends on it.                                      *)
(***************************************************************************)
EXTENDS Naturals, Sequences

CONSTANTS Elem, HEAD, NULL

ASSUME ElemAssumption == HEAD \notin Elem /\ NULL \notin Elem /\ HEAD # NULL

VARIABLES
  first,  \* head->tqh_first
  last,   \* head->tqh_last, the address of the last next field
  next,   \* elm->ready_next.tqe_next
  prev,   \* elm->ready_next.tqe_prev, the address of the previous next field
  q

queueVars == <<first, last, next, prev, q>>

\* *a, and the second word of the struct at a
Deref(a) == IF a = HEAD THEN first ELSE next[a]
SecondWord(a) == IF a = HEAD THEN last ELSE prev[a]

\* TAILQ_EMPTY, TAILQ_FIRST
Empty == first = NULL
First == first

\* TAILQ_LAST
LastOneDeref == Deref(last) \* mutant: the cast to a head is missing
Last == Deref(SecondWord(last))

\* TAILQ_INIT; the fields of an element in no queue are calloc's
InitQueue ==
  /\ first = NULL /\ last = HEAD
  /\ next = [e \in Elem |-> NULL] /\ prev = [e \in Elem |-> NULL]
  /\ q = << >>

\* TAILQ_INSERT_TAIL of an element in no queue
InsertTail(e) ==
  /\ \A i \in 1..Len(q) : q[i] # e
  /\ prev' = [prev EXCEPT ![e] = last]
  /\ IF last = HEAD
       THEN first' = e /\ next' = [next EXCEPT ![e] = NULL]
       ELSE next' = [next EXCEPT ![e] = NULL, ![last] = e] /\ UNCHANGED first
  /\ last' = e
  /\ q' = Append(q, e)

\* The if of TAILQ_REMOVE: what pointed back to e points to what is before e
UnlinkBackNoTail(e) == \* mutant: head->tqh_last is left alone
  IF next[e] # NULL THEN prev' = [prev EXCEPT ![next[e]] = prev[e]] /\ UNCHANGED last
                    ELSE UNCHANGED <<prev, last>>
UnlinkBack(e) ==
  IF next[e] # NULL THEN prev' = [prev EXCEPT ![next[e]] = prev[e]] /\ UNCHANGED last
                    ELSE last' = prev[e] /\ UNCHANGED prev

\* TAILQ_REMOVE of TAILQ_FIRST; TRASHIT does nothing in this build
RemoveFirst ==
  LET e == First
  IN  /\ ~Empty
      /\ UnlinkBack(e)
      /\ IF prev[e] = HEAD
           THEN first' = next[e] /\ UNCHANGED next
           ELSE next' = [next EXCEPT ![prev[e]] = next[e]] /\ UNCHANGED first
      /\ q' = Tail(q)

NextQueue == RemoveFirst \/ \E e \in Elem : InsertTail(e)

SpecQueue == InitQueue /\ [][NextQueue]_queueVars

-----------------------------------------------------------------------------
\* The variables are pointers to elements and addresses of next fields.
TypeQueue ==
  /\ first \in Elem \cup {NULL} /\ last \in Elem \cup {HEAD}
  /\ next \in [Elem -> Elem \cup {NULL}] /\ prev \in [Elem -> Elem \cup {HEAD, NULL}]
  /\ q \in Seq(Elem)

\* The pointers represent the sequence: following tqe_next from tqh_first gives
\* q, tqe_prev leads back along it, and tqh_last is at its end.  With it the
\* sequence of NtyScheduler stands for the real queue.
Linked ==
  /\ first = IF q = << >> THEN NULL ELSE q[1]
  /\ last = IF q = << >> THEN HEAD ELSE q[Len(q)]
  /\ \A i \in 1..Len(q) :
       /\ next[q[i]] = IF i = Len(q) THEN NULL ELSE q[i + 1]
       /\ prev[q[i]] = IF i = 1 THEN HEAD ELSE q[i - 1]

\* TAILQ_LAST, which reads an element through a pointer to a head, gives the
\* last element, and NULL for the empty queue: last_co_ready is right.
LastIsTail == Last = IF q = << >> THEN NULL ELSE q[Len(q)]
=============================================================================
