--------------------------- MODULE NtyHttpdProofs ---------------------------
(***************************************************************************)
(* The accept lock of sample/ntyco_httpd.c excludes, what epoll_wait has   *)
(* reported is still so when its coroutine is resumed, and the counts of   *)
(* connections are exact, for every number of processes and connections on *)
(* at most TOTALFDS processors: there the counts leave the lock alone      *)
(* (SlotsAssumption).                                                      *)
(***************************************************************************)
EXTENDS NtyHttpd, FiniteSetTheorems, TLAPS

-----------------------------------------------------------------------------
(* Queues that hold nothing twice: what Append and Tail do to them *)

Elems(s) == {s[i] : i \in 1..Len(s)}
Distinct(s) == \A i, j \in 1..Len(s) : s[i] = s[j] => i = j

\* Adding at the end
LEMMA AppendFacts ==
  ASSUME NEW S, NEW s \in Seq(S), NEW x \in S
  PROVE  /\ Append(s, x) \in Seq(S) /\ Append(s, x) # << >>
         /\ Elems(Append(s, x)) = Elems(s) \cup {x}
         /\ Distinct(s) /\ x \notin Elems(s) => Distinct(Append(s, x))
<1> DEFINE t == Append(s, x)
<1>1. /\ t \in Seq(S) /\ t # << >> /\ Len(s) \in Nat /\ Len(t) = Len(s) + 1
      /\ \A i \in 1..Len(s) : t[i] = s[i]
      /\ t[Len(s) + 1] = x
  OBVIOUS
<1> HIDE DEF t
<1>2. Elems(t) = Elems(s) \cup {x}
  BY <1>1 DEF Elems
<1>3. Distinct(s) /\ x \notin Elems(s) => Distinct(t)
  BY <1>1 DEF Elems, Distinct
<1> QED
  BY <1>1, <1>2, <1>3 DEF t

\* Taking the first
LEMMA TailFacts ==
  ASSUME NEW S, NEW s \in Seq(S), s # << >>, Distinct(s)
  PROVE  /\ Tail(s) \in Seq(S) /\ Head(s) \in S /\ Head(s) \in Elems(s)
         /\ Elems(Tail(s)) = Elems(s) \ {Head(s)}
         /\ Distinct(Tail(s))
<1> DEFINE t == Tail(s)
<1>1. /\ t \in Seq(S) /\ Len(s) \in Nat \ {0} /\ Len(t) = Len(s) - 1
      /\ \A i \in 1..Len(t) : t[i] = s[i + 1] /\ i + 1 \in 1..Len(s)
      /\ \A i \in 2..Len(s) : s[i] = t[i - 1] /\ i - 1 \in 1..Len(t)
      /\ Head(s) = s[1] /\ Head(s) \in S
  OBVIOUS
<1> HIDE DEF t
<1>2. Elems(t) = Elems(s) \ {s[1]} /\ s[1] \in Elems(s)
  BY <1>1 DEF Elems, Distinct
<1>3. Distinct(t)
  BY <1>1 DEF Distinct
<1> QED
  BY <1>1, <1>2, <1>3 DEF t

-----------------------------------------------------------------------------
(* The inductive invariant *)

\* Where the server coroutine is: a process between two accesses to the shared
\* memory has its server coroutine neither in the ready queue nor in the batch
Control ==
  \A p \in Proc :
    /\ pc[p] \in {"lock", "inc"} => srv[p] = "loop"
    /\ pc[p] = "unlock" => srv[p] = "accept2" /\ SERVER \notin events[p]
    /\ SERVER \in Elems(ready[p]) => srv[p] = "loop" /\ pc[p] \notin {"lock", "inc"}

\* A queued coroutine is queued once, by the process of its connection
Queues ==
  \A p \in Proc :
    /\ Distinct(ready[p])
    /\ \A c \in Conn : c \in Elems(ready[p]) => owner[c] = p /\ co[c] = "new"

\* The queue of the listening socket
Backlog ==
  /\ Distinct(backlog)
  /\ \A c \in Conn : c \in Elems(backlog) => owner[c] = NONE /\ peer[c] # "away"

\* A connection that its process has accepted and not yet given a coroutine
Accepted ==
  \A p \in Proc :
    /\ clientfd[p] # NONE => /\ pc[p] \in {"unlock", "inc"}
                             /\ owner[clientfd[p]] = p /\ co[clientfd[p]] = "none"
    /\ pc[p] = "inc" => clientfd[p] # NONE

Unowned == \A c \in Conn : owner[c] = NONE => co[c] = "none"

\* MutualExclusion, one process at a time
InAccept(p) == srv[p] \in {"accept1", "accept2"}
Exclusive ==
  /\ \A p \in Proc : InAccept(p) => accept_mtx = 1
  /\ \A p, q \in Proc : InAccept(p) /\ InAccept(q) => p = q
  /\ accept_mtx = 1 => \E p \in Proc : InAccept(p)

Inv ==
  /\ TypeOK /\ Exclusive /\ EventsFresh
  /\ Control /\ Queues /\ Backlog /\ Accepted /\ Unowned

LEMMA ExclusiveSuffices == TypeOK /\ Exclusive => MutualExclusion
<1> SUFFICES ASSUME TypeOK, Exclusive PROVE MutualExclusion
  OBVIOUS
<1>1. ASSUME accept_mtx = 0 PROVE Holders = {}
  BY <1>1 DEF Exclusive, InAccept, Holders
<1>2. ASSUME accept_mtx = 1 PROVE \E p \in Holders : Holders = {p}
  <2>1. PICK p \in Proc : InAccept(p)
    BY <1>2 DEF Exclusive
  <2>2. p \in Holders /\ Holders = {p}
    BY <2>1 DEF Exclusive, InAccept, Holders
  <2> QED
    BY <2>2
<1> QED
  BY <1>1, <1>2 DEF MutualExclusion

-----------------------------------------------------------------------------
(* Types *)

LEMMA TypeNext == TypeOK /\ Accepted /\ [Next]_vars => TypeOK'
<1> SUFFICES ASSUME TypeOK, Accepted, [Next]_vars PROVE TypeOK'
  OBVIOUS
<1> USE HttpdAssumption DEF TypeOK, shmVars, netVars, procVars
<1>1. ASSUME NEW p \in Proc, Epoll(p) PROVE TypeOK'
  BY <1>1 DEF Epoll, Reported, Open, Top
<1>2. ASSUME NEW p \in Proc, ServerResumed(p) PROVE TypeOK'
  BY <1>2 DEF ServerResumed, Top
<1>3. ASSUME NEW p \in Proc, RequestStarts(p) PROVE TypeOK'
  BY <1>3 DEF RequestStarts, Top
<1>4. ASSUME NEW p \in Proc, Locks(p) PROVE TypeOK'
  BY <1>4 DEF Locks
<1>5. ASSUME NEW p \in Proc, LockFails(p) PROVE TypeOK'
  BY <1>5 DEF LockFails
<1>6. ASSUME NEW p \in Proc, AcceptAgain(p) PROVE TypeOK'
  BY <1>6 DEF AcceptAgain, Event, Top
<1>7. ASSUME NEW p \in Proc, Accepts(p) PROVE TypeOK'
  <2> backlog # << >> /\ backlog \in Seq(Conn)
    BY <1>7 DEF Accepts
  <2> DEFINE k == Head(backlog)
             t == Tail(backlog)
  <2>1. k \in Conn /\ t \in Seq(Conn)
    OBVIOUS
  <2> HIDE DEF k, t
  <2>2. /\ backlog' \in {backlog, t}
        /\ clientfd' \in {[clientfd EXCEPT ![p] = k], [clientfd EXCEPT ![p] = NONE]}
        /\ owner' \in {owner, [owner EXCEPT ![k] = p]}
        /\ peer' \in {peer, [peer EXCEPT ![k] = "away"]}
    BY <1>7 DEF Accepts, k, t
  <2>3. /\ [clientfd EXCEPT ![p] = k] \in [Proc -> Conn \cup {NONE}]
        /\ [clientfd EXCEPT ![p] = NONE] \in [Proc -> Conn \cup {NONE}]
    BY <2>1
  <2>4. [owner EXCEPT ![k] = p] \in [Conn -> Proc \cup {NONE}]
    BY <2>1
  <2>5. [peer EXCEPT ![k] = "away"] \in [Conn -> {"away", "up", "eof", "reset", "gone"}]
    BY <2>1
  <2>6. backlog' \in Seq(Conn) /\ clientfd' \in [Proc -> Conn \cup {NONE}]
    BY <2>1, <2>2, <2>3
  <2>7. /\ owner' \in [Conn -> Proc \cup {NONE}]
        /\ peer' \in [Conn -> {"away", "up", "eof", "reset", "gone"}]
    BY <2>2, <2>4, <2>5
  <2>8. pc' = [pc EXCEPT ![p] = "unlock"] /\ events' = [events EXCEPT ![p] = @ \ {SERVER}]
    BY <1>7 DEF Accepts, Event
  <2>9. UNCHANGED <<accept_mtx, totalfds, dead, srv, ready, co, input, full>>
    BY <1>7 DEF Accepts
  <2> QED
    BY <2>6, <2>7, <2>8, <2>9
<1>8. ASSUME NEW p \in Proc, Unlock(p) PROVE TypeOK'
  BY <1>8 DEF Unlock, unlock
<1>9. ASSUME NEW p \in Proc, Inc(p) PROVE TypeOK'
  BY <1>9 DEF Inc, INC_COUNTFD, atomic_add, Accepted
<1>10. ASSUME NEW p \in Proc, Dec(p) PROVE TypeOK'
  BY <1>10 DEF Dec, DEC_COUNTFD, atomic_sub
<1>11. ASSUME NEW p \in Proc, NEW c \in Conn, RecvAgain(p, c) PROVE TypeOK'
  BY <1>11 DEF RecvAgain, Event, Top
<1>12. ASSUME NEW p \in Proc, NEW c \in Conn, Serves(p, c) PROVE TypeOK'
  BY <1>12 DEF Serves, Event, Top
<1>13. ASSUME NEW p \in Proc, NEW c \in Conn, SendsRest(p, c) PROVE TypeOK'
  BY <1>13 DEF SendsRest, Event, Top
<1>14. ASSUME NEW p \in Proc, NEW c \in Conn, Closes(p, c) PROVE TypeOK'
  BY <1>14 DEF Closes, Event, Top
<1>15. ASSUME NEW p \in Proc, NEW c \in Conn, SigPipe(p, c) PROVE TypeOK'
  BY <1>15 DEF SigPipe, Event, Top
<1>16. ASSUME NEW c \in Conn, Connects(c) PROVE TypeOK'
  BY <1>16 DEF Connects
<1>17. ASSUME NEW c \in Conn, Requests(c) PROVE TypeOK'
  BY <1>17 DEF Requests
<1>18. ASSUME NEW c \in Conn, Reads(c) PROVE TypeOK'
  BY <1>18 DEF Reads
<1>19. ASSUME NEW c \in Conn, Leaves(c) PROVE TypeOK'
  BY <1>19 DEF Leaves
<1>20. CASE UNCHANGED vars
  BY <1>20 DEF vars
<1> QED
  BY <1>1, <1>2, <1>3, <1>4, <1>5, <1>6, <1>7, <1>8, <1>9, <1>10,
     <1>11, <1>12, <1>13, <1>14, <1>15, <1>16, <1>17, <1>18, <1>19, <1>20
     DEF Next, Process, ServerStep, RequestStep, Client

-----------------------------------------------------------------------------
(* One lemma per action; TypeNext gives TypeOK' *)

LEMMA EpollInv ==
  ASSUME Inv, TypeOK', NEW p \in Proc, Epoll(p) PROVE Inv'
<1> USE HttpdAssumption DEF Inv, TypeOK, shmVars, netVars, procVars
<1>1. EventsFresh'
  BY DEF Epoll, EventsFresh, Reported, Open, Top, Alive
<1>2. Control'
  BY DEF Epoll, Control, Reported, Open, Top, Alive
<1>3. Exclusive' /\ Queues' /\ Backlog' /\ Accepted' /\ Unowned'
  BY DEF Epoll, Reported, Open, Top, Exclusive, InAccept, Queues, Backlog, Accepted, Unowned
<1> QED
  BY <1>1, <1>2, <1>3

LEMMA ServerResumedInv ==
  ASSUME Inv, TypeOK', NEW p \in Proc, ServerResumed(p) PROVE Inv'
<1> USE HttpdAssumption DEF Inv, TypeOK, shmVars, netVars, procVars
<1>0. /\ Head(ready[p]) \in Elems(ready[p]) /\ Distinct(Tail(ready[p]))
      /\ Head(ready[p]) \in Conn \cup {SERVER}
      /\ Elems(Tail(ready[p])) = Elems(ready[p]) \ {Head(ready[p])}
  BY TailFacts DEF ServerResumed, Queues
<1>1. Control'
  BY <1>0 DEF ServerResumed, Control, Top, Alive
<1>2. Queues'
  BY <1>0 DEF ServerResumed, Queues, Top, Alive
<1>3. Accepted'
  BY <1>0 DEF ServerResumed, Accepted, Top, Alive
<1>4. Exclusive' /\ EventsFresh' /\ Backlog' /\ Unowned'
  BY DEF ServerResumed, Top, Exclusive, InAccept, EventsFresh, Reported, Open, Backlog, Unowned
<1> QED
  BY <1>1, <1>2, <1>3, <1>4

LEMMA RequestStartsInv ==
  ASSUME Inv, TypeOK', NEW p \in Proc, RequestStarts(p) PROVE Inv'
<1> USE HttpdAssumption DEF Inv, TypeOK, shmVars, netVars, procVars
<1>0. /\ Head(ready[p]) \in Elems(ready[p]) /\ Distinct(Tail(ready[p]))
      /\ Head(ready[p]) \in Conn \cup {SERVER}
      /\ Elems(Tail(ready[p])) = Elems(ready[p]) \ {Head(ready[p])}
  BY TailFacts DEF RequestStarts, Queues
<1>1. EventsFresh'
  BY <1>0 DEF RequestStarts, EventsFresh, Reported, Open, Top, Queues, Alive
<1>2. Control'
  BY <1>0 DEF RequestStarts, Control, Top, Alive
<1>3. Queues'
  BY <1>0 DEF RequestStarts, Queues, Top, Alive
<1>4. Accepted'
  BY <1>0 DEF RequestStarts, Accepted, Top, Queues, Alive
<1>5. Unowned'
  BY <1>0 DEF RequestStarts, Unowned, Top, Queues, Alive
<1>6. Exclusive' /\ Backlog'
  BY DEF RequestStarts, Top, Exclusive, InAccept, Backlog
<1> QED
  BY <1>1, <1>2, <1>3, <1>4, <1>5, <1>6

LEMMA LocksInv ==
  ASSUME Inv, TypeOK', NEW p \in Proc, Locks(p) PROVE Inv'
<1> USE HttpdAssumption DEF Inv, TypeOK, shmVars, netVars, procVars
<1>1. Exclusive'
  BY DEF Locks, Exclusive, InAccept, Control, CmpxchgStores
<1>2. EventsFresh'
  BY DEF Locks, EventsFresh, Reported, Open, Control
<1>3. Control'
  BY DEF Locks, Control
<1>4. Queues' /\ Backlog' /\ Accepted' /\ Unowned'
  BY DEF Locks, Queues, Backlog, Accepted, Unowned
<1> QED
  BY <1>1, <1>2, <1>3, <1>4

LEMMA LockFailsInv ==
  ASSUME Inv, TypeOK', NEW p \in Proc, LockFails(p) PROVE Inv'
<1> USE HttpdAssumption DEF Inv, TypeOK, shmVars, netVars, procVars
<1>0. /\ Elems(Append(ready[p], SERVER)) = Elems(ready[p]) \cup {SERVER}
      /\ Distinct(Append(ready[p], SERVER))
  BY AppendFacts DEF LockFails, Queues, Control
<1>1. Control'
  BY <1>0 DEF LockFails, Control
<1>2. Queues'
  BY <1>0 DEF LockFails, Queues
<1>3. Exclusive' /\ EventsFresh' /\ Backlog' /\ Accepted' /\ Unowned'
  BY DEF LockFails, Exclusive, InAccept, EventsFresh, Reported, Open, Backlog, Accepted, Unowned
<1> QED
  BY <1>1, <1>2, <1>3

LEMMA AcceptAgainInv ==
  ASSUME Inv, TypeOK', NEW p \in Proc, AcceptAgain(p) PROVE Inv'
<1> USE HttpdAssumption DEF Inv, TypeOK, shmVars, netVars, procVars
<1>1. Exclusive'
  BY DEF AcceptAgain, Exclusive, InAccept, Event, Top, Alive
<1>2. EventsFresh'
  BY DEF AcceptAgain, EventsFresh, Reported, Open, Event, Top, Alive
<1>3. Control'
  BY DEF AcceptAgain, Control, Event, Top, Alive
<1>4. Queues' /\ Backlog' /\ Accepted' /\ Unowned'
  BY DEF AcceptAgain, Event, Top, Queues, Backlog, Accepted, Unowned
<1> QED
  BY <1>1, <1>2, <1>3, <1>4

LEMMA AcceptsInv ==
  ASSUME Inv, TypeOK', NEW p \in Proc, Accepts(p) PROVE Inv'
<1> USE HttpdAssumption DEF Inv, TypeOK, shmVars, netVars, procVars
<1> DEFINE k == Head(backlog)
           t == Tail(backlog)
<1>0. /\ k \in Elems(backlog) /\ Distinct(t) /\ k \in Conn /\ Elems(t) = Elems(backlog) \ {k}
      /\ owner[k] = NONE /\ co[k] = "none" /\ k \in Conn
  BY TailFacts DEF Accepts, Backlog, Unowned
<1> HIDE DEF k, t
<1>a. /\ srv[p] = "accept2" /\ SERVER \in events[p] /\ pc[p] = "sched" /\ p \notin dead
      /\ events' = [events EXCEPT ![p] = @ \ {SERVER}] /\ pc' = [pc EXCEPT ![p] = "unlock"]
      /\ UNCHANGED <<accept_mtx, dead, srv, ready, co, input, full>>
  BY DEF Accepts, Event, Top, Alive
<1>b. \/ /\ clientfd' = [clientfd EXCEPT ![p] = k] /\ owner' = [owner EXCEPT ![k] = p]
         /\ backlog' = t /\ peer' = peer
      \/ clientfd' = [clientfd EXCEPT ![p] = NONE] /\ UNCHANGED <<backlog, owner, peer>>
      \/ /\ clientfd' = [clientfd EXCEPT ![p] = NONE] /\ owner' = owner
         /\ backlog' = t /\ peer' = [peer EXCEPT ![k] = "away"]
  BY DEF Accepts, k, t
<1>1. Exclusive'
  BY <1>a DEF Exclusive, InAccept
<1>2. EventsFresh'
  <2> SUFFICES ASSUME NEW q \in Proc \ dead', NEW x \in events'[q] PROVE x \in Reported(q)'
    BY DEF EventsFresh
  <2>1. x \in Reported(q)
    BY <1>a DEF EventsFresh
  <2>2. CASE x = SERVER
    BY <1>a, <2>1, <2>2 DEF Reported, Exclusive, InAccept, Open
  <2>3. CASE x # SERVER
    BY <1>0, <1>a, <1>b, <2>1, <2>3 DEF Reported, Open
  <2> QED
    BY <2>2, <2>3
<1>3. Control'
  BY <1>a DEF Control
<1>4. Queues'
  BY <1>0, <1>a, <1>b DEF Queues
<1>5. Backlog'
  BY <1>0, <1>b DEF Backlog
<1>6. Accepted'
  BY <1>0, <1>a, <1>b DEF Accepted
<1>7. Unowned'
  BY <1>0, <1>a, <1>b DEF Unowned
<1> QED
  BY <1>1, <1>2, <1>3, <1>4, <1>5, <1>6, <1>7

LEMMA UnlockInv ==
  ASSUME Inv, TypeOK', NEW p \in Proc, Unlock(p) PROVE Inv'
<1> USE HttpdAssumption DEF Inv, TypeOK, shmVars, netVars, procVars
<1>0. PICK s \in {"loop", "ended"} : srv' = [srv EXCEPT ![p] = s]
  BY DEF Unlock
<1>c. InAccept(p) /\ SERVER \notin events[p]
  BY DEF Unlock, Control, InAccept
<1>1. Exclusive'
  BY <1>c, <1>0 DEF Unlock, Exclusive, InAccept, unlock, Control
<1>2. EventsFresh'
  BY <1>c, <1>0 DEF Unlock, EventsFresh, Reported, Open, unlock, Control
<1>3. Control'
  BY <1>c, <1>0 DEF Unlock, Control, unlock
<1>4. Accepted'
  BY <1>c, <1>0 DEF Unlock, Accepted, unlock
<1>5. Queues' /\ Backlog' /\ Unowned'
  BY DEF Unlock, unlock, Queues, Backlog, Unowned
<1> QED
  BY <1>1, <1>2, <1>3, <1>4, <1>5

LEMMA IncInv ==
  ASSUME Inv, TypeOK', NEW p \in Proc, Inc(p) PROVE Inv'
<1> USE HttpdAssumption DEF Inv, TypeOK, shmVars, netVars, procVars
<1>c. clientfd[p] \in Conn /\ clientfd[p] \notin Elems(ready[p])
  BY DEF Inc, Queues, Accepted
<1>0. /\ Elems(Append(ready[p], clientfd[p])) = Elems(ready[p]) \cup {clientfd[p]}
      /\ Distinct(Append(ready[p], clientfd[p]))
  BY <1>c, AppendFacts DEF Queues
<1>1. EventsFresh'
  BY <1>c, <1>0 DEF Inc, EventsFresh, Reported, Open, INC_COUNTFD, atomic_add, Accepted
<1>2. Control'
  BY <1>c, <1>0 DEF Inc, Control, INC_COUNTFD, atomic_add
<1>3. Queues'
  BY <1>c, <1>0 DEF Inc, Queues, INC_COUNTFD, atomic_add, Accepted
<1>4. Accepted'
  BY <1>c, <1>0 DEF Inc, Accepted, INC_COUNTFD, atomic_add
<1>5. Unowned'
  BY <1>c, <1>0 DEF Inc, Unowned, INC_COUNTFD, atomic_add, Accepted
<1>6. Exclusive' /\ Backlog'
  BY DEF Inc, INC_COUNTFD, atomic_add, Exclusive, InAccept, Backlog
<1> QED
  BY <1>1, <1>2, <1>3, <1>4, <1>5, <1>6

LEMMA DecInv ==
  ASSUME Inv, TypeOK', NEW p \in Proc, Dec(p) PROVE Inv'
<1> USE HttpdAssumption DEF Inv, TypeOK, shmVars, netVars, procVars
<1>1. Exclusive' /\ EventsFresh' /\ Control' /\ Queues' /\ Backlog' /\ Accepted' /\ Unowned'
  BY DEF Dec, DEC_COUNTFD, atomic_sub, Exclusive, InAccept, EventsFresh, Reported, Open,
         Control, Queues, Backlog, Accepted, Unowned
<1> QED
  BY <1>1

LEMMA RecvAgainInv ==
  ASSUME Inv, TypeOK', NEW p \in Proc, NEW c \in Conn, RecvAgain(p, c) PROVE Inv'
<1> USE HttpdAssumption DEF Inv, TypeOK, shmVars, netVars, procVars
<1>1. EventsFresh'
  BY DEF RecvAgain, EventsFresh, Reported, Open, Event, Top, Alive
<1>2. Queues'
  BY DEF RecvAgain, Queues, Event, Top, Alive
<1>3. Accepted'
  BY DEF RecvAgain, Accepted, Event, Top, Alive
<1>4. Unowned'
  BY DEF RecvAgain, Unowned, Event, Top, Alive
<1>5. Exclusive' /\ Control' /\ Backlog'
  BY DEF RecvAgain, Event, Top, Exclusive, InAccept, Control, Backlog
<1> QED
  BY <1>1, <1>2, <1>3, <1>4, <1>5

LEMMA ServesInv ==
  ASSUME Inv, TypeOK', NEW p \in Proc, NEW c \in Conn, Serves(p, c) PROVE Inv'
<1> USE HttpdAssumption DEF Inv, TypeOK, shmVars, netVars, procVars
<1>1. EventsFresh'
  BY DEF Serves, EventsFresh, Reported, Open, Event, Top, Alive
<1>2. Queues'
  BY DEF Serves, Queues, Event, Top, Alive
<1>3. Backlog'
  BY DEF Serves, Backlog, Event, Top, Alive
<1>4. Accepted'
  BY DEF Serves, Accepted, Event, Top, Alive
<1>5. Unowned'
  BY DEF Serves, Unowned, Event, Top, Alive
<1>6. Exclusive' /\ Control'
  BY DEF Serves, Event, Top, Exclusive, InAccept, Control
<1> QED
  BY <1>1, <1>2, <1>3, <1>4, <1>5, <1>6

LEMMA SendsRestInv ==
  ASSUME Inv, TypeOK', NEW p \in Proc, NEW c \in Conn, SendsRest(p, c) PROVE Inv'
<1> USE HttpdAssumption DEF Inv, TypeOK, shmVars, netVars, procVars
<1>1. EventsFresh'
  BY DEF SendsRest, EventsFresh, Reported, Open, Event, Top, Alive
<1>2. Queues'
  BY DEF SendsRest, Queues, Event, Top, Alive
<1>3. Accepted'
  BY DEF SendsRest, Accepted, Event, Top, Alive
<1>4. Unowned'
  BY DEF SendsRest, Unowned, Event, Top, Alive
<1>5. Exclusive' /\ Control' /\ Backlog'
  BY DEF SendsRest, Event, Top, Exclusive, InAccept, Control, Backlog
<1> QED
  BY <1>1, <1>2, <1>3, <1>4, <1>5

LEMMA ClosesInv ==
  ASSUME Inv, TypeOK', NEW p \in Proc, NEW c \in Conn, Closes(p, c) PROVE Inv'
<1> USE HttpdAssumption DEF Inv, TypeOK, shmVars, netVars, procVars
<1>1. EventsFresh'
  BY DEF Closes, EventsFresh, Reported, Open, Event, Top, Alive
<1>2. Queues'
  BY DEF Closes, Queues, Event, Top, Alive
<1>3. Backlog'
  BY DEF Closes, Backlog, Event, Top, EventsFresh, Reported, Open, Alive
<1>4. Accepted'
  BY DEF Closes, Accepted, Event, Top, Alive
<1>5. Unowned'
  BY DEF Closes, Unowned, Event, Top, Alive
<1>6. Exclusive' /\ Control'
  BY DEF Closes, Event, Top, Exclusive, InAccept, Control
<1> QED
  BY <1>1, <1>2, <1>3, <1>4, <1>5, <1>6

LEMMA SigPipeInv ==
  ASSUME Inv, TypeOK', NEW p \in Proc, NEW c \in Conn, SigPipe(p, c) PROVE Inv'
<1> USE HttpdAssumption DEF Inv, TypeOK, shmVars, netVars, procVars
<1>1. EventsFresh'
  BY DEF SigPipe, EventsFresh, Reported, Open, Event, Top, Alive
<1>2. Backlog'
  BY DEF SigPipe, Backlog, Event, Top, Alive
<1>3. Exclusive' /\ Control' /\ Queues' /\ Accepted' /\ Unowned'
  BY DEF SigPipe, Event, Top, Exclusive, InAccept, Control, Queues, Accepted, Unowned
<1> QED
  BY <1>1, <1>2, <1>3

LEMMA ConnectsInv ==
  ASSUME Inv, TypeOK', NEW c \in Conn, Connects(c) PROVE Inv'
<1> USE HttpdAssumption DEF Inv, TypeOK, shmVars, netVars, procVars
<1>c. c \notin Elems(backlog)
  BY DEF Connects, Backlog
<1>0. /\ Elems(Append(backlog, c)) = Elems(backlog) \cup {c}
      /\ Distinct(Append(backlog, c)) /\ Append(backlog, c) # << >>
  <2>1. backlog \in Seq(Conn) /\ Distinct(backlog)
    BY DEF Backlog
  <2> QED
    BY ONLY <1>c, <2>1, c \in Conn, AppendFacts
<1>1. EventsFresh'
  BY <1>c, <1>0 DEF Connects, EventsFresh, Reported, Open
<1>2. Backlog'
  BY <1>c, <1>0 DEF Connects, Backlog
<1>3. Exclusive' /\ Control' /\ Queues' /\ Accepted' /\ Unowned'
  BY DEF Connects, Exclusive, InAccept, Control, Queues, Accepted, Unowned
<1> QED
  BY <1>1, <1>2, <1>3

LEMMA RequestsInv ==
  ASSUME Inv, TypeOK', NEW c \in Conn, Requests(c) PROVE Inv'
<1> USE HttpdAssumption DEF Inv, TypeOK, shmVars, netVars, procVars
<1>1. EventsFresh'
  BY DEF Requests, EventsFresh, Reported, Open
<1>2. Exclusive' /\ Control' /\ Queues' /\ Backlog' /\ Accepted' /\ Unowned'
  BY DEF Requests, Exclusive, InAccept, Control, Queues, Backlog, Accepted, Unowned
<1> QED
  BY <1>1, <1>2

LEMMA ReadsInv ==
  ASSUME Inv, TypeOK', NEW c \in Conn, Reads(c) PROVE Inv'
<1> USE HttpdAssumption DEF Inv, TypeOK, shmVars, netVars, procVars
<1>1. EventsFresh'
  BY DEF Reads, EventsFresh, Reported, Open
<1>2. Exclusive' /\ Control' /\ Queues' /\ Backlog' /\ Accepted' /\ Unowned'
  BY DEF Reads, Exclusive, InAccept, Control, Queues, Backlog, Accepted, Unowned
<1> QED
  BY <1>1, <1>2

LEMMA LeavesInv ==
  ASSUME Inv, TypeOK', NEW c \in Conn, Leaves(c) PROVE Inv'
<1> USE HttpdAssumption DEF Inv, TypeOK, shmVars, netVars, procVars
<1>1. EventsFresh'
  BY DEF Leaves, EventsFresh, Reported, Open
<1>2. Backlog'
  BY DEF Leaves, Backlog
<1>3. Exclusive' /\ Control' /\ Queues' /\ Accepted' /\ Unowned'
  BY DEF Leaves, Exclusive, InAccept, Control, Queues, Accepted, Unowned
<1> QED
  BY <1>1, <1>2, <1>3

-----------------------------------------------------------------------------
LEMMA InvInit == Init => Inv
<1> SUFFICES ASSUME Init PROVE Inv
  OBVIOUS
<1> USE HttpdAssumption DEF Init, init_shmvalue
<1>1. TypeOK
  BY DEF TypeOK
<1>2. Exclusive /\ EventsFresh /\ Accepted /\ Unowned
  BY DEF Exclusive, InAccept, EventsFresh, Accepted, Unowned
<1>3. Control /\ Queues /\ Backlog
  BY DEF Control, Queues, Backlog, Elems, Distinct
<1> QED
  BY <1>1, <1>2, <1>3 DEF Inv

LEMMA InvNext == Inv /\ [Next]_vars => Inv'
<1> SUFFICES ASSUME Inv, [Next]_vars PROVE Inv'
  OBVIOUS
<1>1. TypeOK'
  BY TypeNext DEF Inv
<1>2. ASSUME NEW p \in Proc, Process(p) PROVE Inv'
  BY <1>1, <1>2, EpollInv, ServerResumedInv, RequestStartsInv, LocksInv, LockFailsInv,
     AcceptAgainInv, AcceptsInv, UnlockInv, IncInv, DecInv,
     RecvAgainInv, ServesInv, SendsRestInv, ClosesInv, SigPipeInv
     DEF Process, ServerStep, RequestStep
<1>3. ASSUME NEW c \in Conn, Client(c) PROVE Inv'
  BY <1>1, <1>3, ConnectsInv, RequestsInv, ReadsInv, LeavesInv DEF Client
<1>4. CASE UNCHANGED vars
  BY <1>4 DEF vars, shmVars, netVars, procVars, Inv, TypeOK, Exclusive, InAccept, EventsFresh,
              Reported, Open, Control, Queues, Backlog, Accepted, Unowned
<1> QED
  BY <1>2, <1>3, <1>4 DEF Next

\* Through every interleaving of the processes of ntyco_httpd.c, their coroutines
\* and the clients, and whichever process a signal ends: the lock word agrees with
\* the coroutine that holds it, and no connection is queued, accepted or waited
\* for twice.  On at most sixteen processors, like all theorems here.
THEOREM Invariance == Spec => []Inv
  BY InvInit, InvNext, PTL DEF Spec

\* The accept lock that the processes share excludes: nty_accept is called by
\* one process at a time, whichever of them a signal has ended, for any number of
\* processes on at most sixteen processors (with 21, a count is the lock word).
THEOREM LockExcludes == Spec => []MutualExclusion
<1>1. Inv => MutualExclusion
  BY ExclusiveSuffices DEF Inv
<1> QED
  BY <1>1, Invariance, PTL

\* No event of a batch is stale when its coroutine is resumed: the accept, recv
\* and send that follow do not return EAGAIN, for any number of processes that
\* share the listening socket, on at most sixteen processors.
THEOREM EventsStayFresh == Spec => []EventsFresh
<1>1. Inv => EventsFresh
  BY DEF Inv
<1> QED
  BY <1>1, Invariance, PTL

-----------------------------------------------------------------------------
(* The counts of connections *)

LEMMA CountsFinite ==
  \A s \in Slots : IsFiniteSet(Counted(s)) /\ IsFiniteSet(Overcounted(s))
<1> TAKE s \in Slots
<1>1. Counted(s) \in SUBSET Conn /\ Overcounted(s) \in SUBSET Proc
  BY DEF Counted, Overcounted
<1> QED
  BY <1>1, HttpdAssumption, FS_Subset

\* A step that counts nothing and leaves what is to be counted
LEMMA CountsUnchanged ==
  ASSUME CountExact, totalfds' = totalfds,
         \A s \in Slots : Counted(s)' = Counted(s) /\ Overcounted(s)' = Overcounted(s)
  PROVE  CountExact'
  BY DEF CountExact

\* What is counted depends on who owns a connection and on where the processes
\* are between accept and INC_COUNTFD and between close and DEC_COUNTFD
LEMMA CountsDependOn ==
  ASSUME owner' = owner,
         \A p \in Proc : /\ pc[p] \in {"unlock", "inc"} <=> pc'[p] \in {"unlock", "inc"}
                         /\ pc[p] = "dec" <=> pc'[p] = "dec"
                         /\ pc[p] \in {"unlock", "inc"} => clientfd'[p] = clientfd[p]
  PROVE  \A s \in Slots : Counted(s)' = Counted(s) /\ Overcounted(s)' = Overcounted(s)
<1>1. Uncounted' = Uncounted
  BY DEF Uncounted
<1> QED
  BY <1>1 DEF Counted, Overcounted

\* A step of one process changes the count of its slot alone
LEMMA CountsAt ==
  ASSUME CountExact, NEW k \in Slots,
         totalfds'[k] = Cardinality(Counted(k)') + Cardinality(Overcounted(k)'),
         \A s \in Slots \ {k} : /\ totalfds'[s] = totalfds[s]
                                 /\ Counted(s)' = Counted(s) /\ Overcounted(s)' = Overcounted(s)
  PROVE  CountExact'
<1> SUFFICES ASSUME NEW s \in Slots, s # k
             PROVE  totalfds'[s] = Cardinality(Counted(s)') + Cardinality(Overcounted(s)')
  BY DEF CountExact
<1> QED
  BY DEF CountExact

LEMMA CountAt ==
  ASSUME TypeOK, CountExact, NEW k \in Slots
  PROVE  /\ IsFiniteSet(Counted(k)) /\ IsFiniteSet(Overcounted(k))
         /\ Cardinality(Counted(k)) \in Nat /\ Cardinality(Overcounted(k)) \in Nat
         /\ totalfds[k] = Cardinality(Counted(k)) + Cardinality(Overcounted(k))
  BY CountsFinite, FS_CardinalityType DEF CountExact

LEMMA AcceptsCount ==
  ASSUME Inv, CountExact, NEW p \in Proc, Accepts(p) PROVE CountExact'
<1> USE HttpdAssumption DEF Inv, TypeOK
<1> DEFINE k == Head(backlog)
<1>0. k \in Conn /\ owner[k] = NONE
  BY TailFacts DEF Accepts, Backlog
<1> HIDE DEF k
<1>1. /\ pc[p] = "sched" /\ pc' = [pc EXCEPT ![p] = "unlock"] /\ totalfds' = totalfds
      /\ \/ clientfd' = [clientfd EXCEPT ![p] = k] /\ owner' = [owner EXCEPT ![k] = p]
         \/ clientfd' = [clientfd EXCEPT ![p] = NONE] /\ owner' = owner
  BY DEF Accepts, Event, Top, shmVars, k
<1>2. Uncounted' = Uncounted \cup {clientfd'[p]}
  BY <1>1 DEF Uncounted
<1>3. \A s \in Slots : Counted(s)' = Counted(s) /\ Overcounted(s)' = Overcounted(s)
  BY <1>0, <1>1, <1>2 DEF Counted, Overcounted
<1> QED
  BY <1>1, <1>3, CountsUnchanged

LEMMA IncCount ==
  ASSUME Inv, CountExact, NEW p \in Proc, Inc(p) PROVE CountExact'
<1> USE HttpdAssumption DEF Inv, TypeOK
<1>k. PICK k \in Slots : k = slot[p]
  OBVIOUS
<1>c. PICK c \in Conn : c = clientfd[p]
  BY DEF Inc, Accepted
<1>0. owner[c] = p /\ \A q \in Proc \ {p} : clientfd[q] # c
  BY <1>c DEF Inc, Accepted
<1>1. /\ pc[p] = "inc" /\ pc' = [pc EXCEPT ![p] = "lock"] /\ owner' = owner
      /\ totalfds' = [totalfds EXCEPT ![k] = @ + 1]
      /\ clientfd' = [clientfd EXCEPT ![p] = NONE]
  BY <1>k DEF Inc, INC_COUNTFD, atomic_add, netVars
<1>2. c \in Uncounted /\ Uncounted' = Uncounted \ {c}
  BY <1>0, <1>1, <1>c DEF Uncounted
<1>3. /\ c \notin Counted(k) /\ Counted(k)' = Counted(k) \cup {c}
      /\ Overcounted(k)' = Overcounted(k)
      /\ \A s \in Slots \ {k} : /\ totalfds'[s] = totalfds[s]
                                /\ Counted(s)' = Counted(s) /\ Overcounted(s)' = Overcounted(s)
  BY <1>0, <1>1, <1>2, <1>k DEF Counted, Overcounted
<1>4. totalfds'[k] = totalfds[k] + 1
  BY <1>1
<1> HIDE DEF Inv, TypeOK
<1>5. Cardinality(Counted(k) \cup {c}) = Cardinality(Counted(k)) + 1
  BY <1>3, CountsFinite, FS_AddElement
<1>6. totalfds'[k] = Cardinality(Counted(k)') + Cardinality(Overcounted(k)')
  BY <1>3, <1>4, <1>5, CountAt DEF Inv
<1> QED
  BY <1>3, <1>6, CountsAt

LEMMA ClosesCount ==
  ASSUME Inv, CountExact, NEW p \in Proc, NEW c \in Conn, Closes(p, c)
  PROVE  CountExact'
<1> USE HttpdAssumption DEF Inv, TypeOK
<1>k. PICK k \in Slots : k = slot[p]
  OBVIOUS
<1>0. owner[c] = p /\ co[c] = "recv2"
  BY DEF Closes, Event, Top, Alive, EventsFresh, Reported, Open
<1>1. /\ pc[p] = "sched" /\ pc' = [pc EXCEPT ![p] = "dec"]
      /\ owner' = [owner EXCEPT ![c] = NONE] /\ clientfd' = clientfd /\ totalfds' = totalfds
  BY DEF Closes, Event, Top, shmVars
<1>2. Uncounted' = Uncounted /\ c \notin Uncounted
  <2>1. ASSUME NEW q \in Proc, clientfd[q] = c PROVE FALSE
    <3>1. co[c] = "none"
      BY <2>1 DEF Accepted
    <3> QED
      BY <1>0, <3>1
  <2>2. \A q \in Proc : pc[q] \in {"unlock", "inc"} <=> pc'[q] \in {"unlock", "inc"}
    BY <1>1
  <2> QED
    BY <1>1, <2>1, <2>2 DEF Uncounted
<1>3. /\ c \in Counted(k) /\ Counted(k)' = Counted(k) \ {c}
      /\ p \notin Overcounted(k) /\ Overcounted(k)' = Overcounted(k) \cup {p}
      /\ \A s \in Slots \ {k} : /\ totalfds'[s] = totalfds[s]
                                /\ Counted(s)' = Counted(s) /\ Overcounted(s)' = Overcounted(s)
  BY <1>0, <1>1, <1>2, <1>k DEF Counted, Overcounted
<1> HIDE DEF Inv, TypeOK
<1>4. Cardinality(Counted(k) \ {c}) = Cardinality(Counted(k)) - 1
  BY <1>3, CountsFinite, FS_RemoveElement
<1>5. Cardinality(Overcounted(k) \cup {p}) = Cardinality(Overcounted(k)) + 1
  BY <1>3, CountsFinite, FS_AddElement
<1>6. totalfds'[k] = Cardinality(Counted(k)') + Cardinality(Overcounted(k)')
  BY <1>1, <1>3, <1>4, <1>5, CountAt DEF Inv
<1> QED
  BY <1>3, <1>6, CountsAt

LEMMA DecCount ==
  ASSUME Inv, CountExact, NEW p \in Proc, Dec(p) PROVE CountExact'
<1> USE HttpdAssumption DEF Inv, TypeOK
<1>k. PICK k \in Slots : k = slot[p]
  OBVIOUS
<1>1. /\ pc[p] = "dec" /\ pc' = [pc EXCEPT ![p] = "sched"]
      /\ totalfds' = [totalfds EXCEPT ![k] = @ - 1]
      /\ owner' = owner /\ clientfd' = clientfd
  BY <1>k DEF Dec, DEC_COUNTFD, atomic_sub, netVars
<1>2. Uncounted' = Uncounted
  BY <1>1 DEF Uncounted
<1>3. /\ p \in Overcounted(k) /\ Overcounted(k)' = Overcounted(k) \ {p}
      /\ Counted(k)' = Counted(k)
      /\ \A s \in Slots \ {k} : /\ totalfds'[s] = totalfds[s]
                                /\ Counted(s)' = Counted(s) /\ Overcounted(s)' = Overcounted(s)
  BY <1>1, <1>2, <1>k DEF Counted, Overcounted
<1>4. totalfds'[k] = totalfds[k] - 1
  BY <1>1
<1> HIDE DEF Inv, TypeOK
<1>5. Cardinality(Overcounted(k) \ {p}) = Cardinality(Overcounted(k)) - 1
  BY <1>3, CountsFinite, FS_RemoveElement
<1>6. totalfds'[k] = Cardinality(Counted(k)') + Cardinality(Overcounted(k)')
  BY <1>3, <1>4, <1>5, CountAt DEF Inv
<1> QED
  BY <1>3, <1>6, CountsAt

LEMMA CountInit == Init => CountExact
<1> SUFFICES ASSUME Init, NEW s \in Slots
             PROVE  totalfds[s] = Cardinality(Counted(s)) + Cardinality(Overcounted(s))
  BY DEF CountExact
<1>1. Counted(s) = {} /\ Overcounted(s) = {} /\ totalfds[s] = 0
  BY DEF Init, init_shmvalue, Counted, Overcounted
<1> QED
  BY <1>1, FS_EmptySet

LEMMA CountNext == Inv /\ CountExact /\ [Next]_vars => CountExact'
<1> SUFFICES ASSUME Inv, CountExact, [Next]_vars PROVE CountExact'
  OBVIOUS
<1>1. ASSUME NEW p \in Proc,
             \/ Epoll(p) \/ ServerResumed(p) \/ RequestStarts(p) \/ Locks(p) \/ LockFails(p)
             \/ AcceptAgain(p) \/ Unlock(p)
      PROVE  CountExact'
  <2>1. totalfds' = totalfds /\ owner' = owner /\ clientfd' = clientfd
    BY <1>1 DEF Epoll, ServerResumed, RequestStarts, Locks, LockFails, AcceptAgain, Unlock,
                shmVars, netVars
  <2>2. \A q \in Proc : /\ pc[q] = "dec" <=> pc'[q] = "dec"
                        /\ pc[q] = "inc" => pc'[q] = "inc"
                        /\ pc'[q] = "unlock" => pc[q] = "unlock"
                        /\ pc'[q] = "inc" => pc[q] \in {"unlock", "inc"}
    BY <1>1 DEF Epoll, ServerResumed, RequestStarts, Locks, LockFails, AcceptAgain, Unlock,
                Top, Event, Inv, TypeOK
  <2>3. \A q \in Proc : clientfd[q] # NONE /\ pc[q] \in {"unlock", "inc"}
                           => pc'[q] \in {"unlock", "inc"}
    BY <1>1 DEF Epoll, ServerResumed, RequestStarts, Locks, LockFails, AcceptAgain, Unlock,
                Top, Event, Inv, TypeOK
  <2>4. \A c \in Conn : c \in Uncounted <=> c \in Uncounted'
    BY <2>1, <2>2, <2>3, HttpdAssumption DEF Uncounted
  <2>5. \A s \in Slots : Counted(s)' = Counted(s) /\ Overcounted(s)' = Overcounted(s)
    BY <2>1, <2>2, <2>4 DEF Counted, Overcounted
  <2> QED
    BY <2>1, <2>5, CountsUnchanged
<1>2. ASSUME NEW p \in Proc, NEW c \in Conn,
             RecvAgain(p, c) \/ Serves(p, c) \/ SendsRest(p, c) \/ SigPipe(p, c)
      PROVE  CountExact'
  <2>1. UNCHANGED <<totalfds, owner, clientfd, pc>>
    BY <1>2 DEF RecvAgain, Serves, SendsRest, SigPipe, shmVars, netVars
  <2> QED
    BY <2>1, CountsDependOn, CountsUnchanged
<1>3. ASSUME NEW p \in Proc, Process(p) PROVE CountExact'
  BY <1>1, <1>2, <1>3, AcceptsCount, IncCount, ClosesCount, DecCount
     DEF Process, ServerStep, RequestStep
<1>4. ASSUME NEW c \in Conn, Client(c) PROVE CountExact'
  <2>1. UNCHANGED <<totalfds, owner, clientfd, pc>>
    BY <1>4 DEF Client, Connects, Requests, Reads, Leaves, shmVars, procVars
  <2> QED
    BY <2>1, CountsDependOn, CountsUnchanged
<1>5. CASE UNCHANGED vars
  <2>1. UNCHANGED <<totalfds, owner, clientfd, pc>>
    BY <1>5 DEF vars, shmVars, netVars, procVars
  <2> QED
    BY <2>1, CountsDependOn, CountsUnchanged
<1> QED
  BY <1>3, <1>4, <1>5 DEF Next

\* totalfds is exact: INC_COUNTFD and DEC_COUNTFD of processes that share a slot lose
\* no update, for every number of processes and connections and up to sixteen
\* slots, and the connections of a process that a signal has ended stay counted.
THEOREM CountsExact == Spec => []CountExact
  BY CountInit, CountNext, Invariance, PTL DEF Spec
=============================================================================
