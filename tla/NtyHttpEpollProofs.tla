------------------------- MODULE NtyHttpEpollProofs -------------------------
(***************************************************************************)
(* The events that a process of sample/nty_http_epoll.c still has to       *)
(* handle are never stale, and the counts in shared memory lose nothing,   *)
(* for every number of processes and connections on at most TOTALFDS       *)
(* processors (SlotsAssumption).                                           *)
(***************************************************************************)
EXTENDS NtyHttpEpoll, FiniteSetTheorems, TLAPS

-----------------------------------------------------------------------------
(* Queues that hold nothing twice: what Append and Tail do to them *)

Elems(s) == {s[i] : i \in 1..Len(s)}
Distinct(s) == \A i, j \in 1..Len(s) : s[i] = s[j] => i = j

\* Adding at the end
LEMMA AppendFacts ==
  ASSUME NEW S, NEW s \in Seq(S), NEW x \in S
  PROVE  /\ Append(s, x) \in Seq(S) /\ Append(s, x) # << >>
         /\ Elems(Append(s, x)) = Elems(s) \cup {x}
         /\ Distinct(s) /\ x \notin Elems(s) => Distinct(Append(s, x))
<1> DEFINE t == Append(s, x)
<1>1. /\ t \in Seq(S) /\ t # << >> /\ Len(s) \in Nat /\ Len(t) = Len(s) + 1
      /\ \A i \in 1..Len(s) : t[i] = s[i]
      /\ t[Len(s) + 1] = x
  OBVIOUS
<1> HIDE DEF t
<1>2. Elems(t) = Elems(s) \cup {x}
  BY <1>1 DEF Elems
<1>3. Distinct(s) /\ x \notin Elems(s) => Distinct(t)
  BY <1>1 DEF Elems, Distinct
<1> QED
  BY <1>1, <1>2, <1>3 DEF t

\* Taking the first
LEMMA TailFacts ==
  ASSUME NEW S, NEW s \in Seq(S), s # << >>, Distinct(s)
  PROVE  /\ Tail(s) \in Seq(S) /\ Head(s) \in S /\ Head(s) \in Elems(s)
         /\ Elems(Tail(s)) = Elems(s) \ {Head(s)}
         /\ Distinct(Tail(s))
<1> DEFINE t == Tail(s)
<1>1. /\ t \in Seq(S) /\ Len(s) \in Nat \ {0} /\ Len(t) = Len(s) - 1
      /\ \A i \in 1..Len(t) : t[i] = s[i + 1] /\ i + 1 \in 1..Len(s)
      /\ \A i \in 2..Len(s) : s[i] = t[i - 1] /\ i - 1 \in 1..Len(t)
      /\ Head(s) = s[1] /\ Head(s) \in S
  OBVIOUS
<1> HIDE DEF t
<1>2. Elems(t) = Elems(s) \ {s[1]} /\ s[1] \in Elems(s)
  BY <1>1 DEF Elems, Distinct
<1>3. Distinct(t)
  BY <1>1 DEF Distinct
<1> QED
  BY <1>1, <1>2, <1>3 DEF t

-----------------------------------------------------------------------------
(* The inductive invariant *)

\* epoll_wait reports a descriptor once
OneEvent == \A p \in Proc : \A e, f \in batch[p] : e[1] = f[1] => e = f

\* The queue of the listening socket holds connections that nobody has
Backlog ==
  /\ Distinct(backlog)
  /\ \A c \in Conn : c \in Elems(backlog) => owner[c] = NONE /\ peer[c] # "away"

Inv == TypeOK /\ BatchFresh /\ OneEvent /\ Backlog

Peers == {"away", "up", "eof", "reset", "lost", "broken", "gone"}

-----------------------------------------------------------------------------
(* Types *)

LEMMA TypeNext == TypeOK /\ [Next]_vars => TypeOK'
<1> SUFFICES ASSUME TypeOK, [Next]_vars PROVE TypeOK'
  OBVIOUS
<1> USE EpollAssumption DEF TypeOK, shmVars, netVars, history
<1>1. ASSUME NEW p \in Proc, EpollWait(p) PROVE TypeOK'
  <2>1. PICK branch \in [Reported(p) -> {"IN", "OUT", "HUP"}] :
          batch' = [batch EXCEPT ![p] =
                      {<<c, branch[c]>> : c \in Reported(p)}
                        \cup {<<l, "IN">> : l \in {x \in {LISTENER} : backlog # << >>}}]
    BY <1>1 DEF EpollWait
  <2>2. Reported(p) \subseteq Conn
    BY DEF Reported, Open
  <2>3. batch' \in [Proc -> SUBSET ((Conn \cup {LISTENER}) \X {"IN", "OUT", "HUP"})]
    BY <2>1, <2>2
  <2>4. armed' \in [Conn -> {"off", "in", "out", "level"}]
    BY <1>1 DEF EpollWait
  <2> QED
    BY <1>1, <2>3, <2>4 DEF EpollWait
<1>2. ASSUME NEW p \in Proc, BatchDone(p) PROVE TypeOK'
  BY <1>2 DEF BatchDone
<1>3. ASSUME NEW p \in Proc, LockFails(p) PROVE TypeOK'
  BY <1>3 DEF LockFails, Takes
<1>4. ASSUME NEW p \in Proc, Locks(p) PROVE TypeOK'
  BY <1>4 DEF Locks, Takes
<1>5. ASSUME NEW p \in Proc, Accepts(p) PROVE TypeOK'
  <2>1. CASE backlog = << >>
    BY <1>5, <2>1 DEF Accepts
  <2>2. CASE backlog # << >>
    <3> DEFINE k == Head(backlog)
               t == Tail(backlog)
    <3>1. k \in Conn /\ t \in Seq(Conn)
      BY <2>2
    <3> HIDE DEF k, t
    <3>2. /\ backlog' \in {backlog, t} /\ owner' \in {owner, [owner EXCEPT ![k] = p]}
          /\ res' \in {[res EXCEPT ![p] = k], [res EXCEPT ![p] = "error"]}
          /\ peer' \in {peer, [peer EXCEPT ![k] = "away"]}
      BY <1>5, <2>2 DEF Accepts, k, t
    <3>3. /\ [res EXCEPT ![p] = k] \in [Proc -> Conn \cup {"EAGAIN", "error"}]
          /\ [res EXCEPT ![p] = "error"] \in [Proc -> Conn \cup {"EAGAIN", "error"}]
      BY <3>1
    <3>4. [owner EXCEPT ![k] = p] \in [Conn -> Proc \cup {NONE}]
      BY <3>1
    <3>5. [peer EXCEPT ![k] = "away"] \in [Conn -> Peers] /\ peer \in [Conn -> Peers]
      BY <3>1 DEF Peers
    <3>6. backlog' \in Seq(Conn)
      BY <3>1, <3>2
    <3>7. res' \in [Proc -> Conn \cup {"EAGAIN", "error"}]
      BY <3>2, <3>3
    <3>8. owner' \in [Conn -> Proc \cup {NONE}]
      BY <3>2, <3>4
    <3>9. peer' \in [Conn -> Peers]
      BY <3>2, <3>5
    <3>10. pc' \in [Proc -> {"wait", "batch", "accept", "unlock", "inc", "dec"}]
      BY <1>5 DEF Accepts
    <3>11. UNCHANGED <<shmVars, ended, batch, armed, input, full, history>>
      BY <1>5 DEF Accepts
    <3> QED
      BY <3>6, <3>7, <3>8, <3>9, <3>10, <3>11 DEF Peers
  <2> QED
    BY <2>1, <2>2
<1>6. ASSUME NEW p \in Proc, Unlock(p) PROVE TypeOK'
  <2>1. PICK l \in {"wait", "batch", "inc"} : pc' = [pc EXCEPT ![p] = l]
    BY <1>6 DEF Unlock
  <2>2. /\ accept_mtx' = 0
        /\ UNCHANGED <<totalfds, res, armed, backlog, owner, history>>
        /\ Ends(p) \/ UNCHANGED <<ended, peer, input, full, batch>>
    BY <1>6 DEF Unlock, unlock
  <2>3. CASE Ends(p)
    BY <2>1, <2>2, <2>3 DEF Ends
  <2>4. CASE UNCHANGED <<ended, peer, input, full, batch>>
    BY <2>1, <2>2, <2>4
  <2> QED
    BY <2>2, <2>3, <2>4
<1>7. ASSUME NEW p \in Proc, Inc(p) PROVE TypeOK'
  <2>1. armed' \in [Conn -> {"off", "in", "out", "level"}]
    BY <1>7 DEF Inc
  <2>2. totalfds' \in [Slots -> Int]
    BY <1>7 DEF Inc, INC_COUNTFD, atomic_add
  <2> QED
    BY <1>7, <2>1, <2>2 DEF Inc
<1>8. ASSUME NEW p \in Proc, Dec(p) PROVE TypeOK'
  BY <1>8 DEF Dec, DEC_COUNTFD, atomic_sub
<1>9. ASSUME NEW p \in Proc, NEW c \in Conn, Reads(p, c) PROVE TypeOK'
  BY <1>9 DEF Reads, Takes
<1>10. ASSUME NEW p \in Proc, NEW c \in Conn, ReadFails(p, c) PROVE TypeOK'
  BY <1>10 DEF ReadFails, Takes
<1>11. ASSUME NEW p \in Proc, NEW c \in Conn, ReadsEnd(p, c) PROVE TypeOK'
  BY <1>11 DEF ReadsEnd, Takes, Close
<1>12. ASSUME NEW p \in Proc, NEW c \in Conn, Serves(p, c) PROVE TypeOK'
  <2>1. peer' \in {peer, [peer EXCEPT ![c] = "broken"]}
    BY <1>12 DEF Serves
  <2>2. full' \in {full, [full EXCEPT ![c] = TRUE]}
    BY <1>12 DEF Serves
  <2>3. peer' \in [Conn -> Peers] /\ full' \in [Conn -> BOOLEAN]
    BY <2>1, <2>2 DEF Peers
  <2>4. answers' \in [Slots -> Nat]
    BY <1>12 DEF Serves
  <2> QED
    BY <1>12, <2>3, <2>4 DEF Serves, Takes, Peers
<1>13. ASSUME NEW p \in Proc, NEW c \in Conn, SigPipe(p, c) PROVE TypeOK'
  BY <1>13 DEF SigPipe, Ends
<1>14. ASSUME NEW p \in Proc, NEW c \in Conn, HangsUp(p, c) PROVE TypeOK'
  BY <1>14 DEF HangsUp, Takes, Close
<1>15. ASSUME NEW c \in Conn, Connects(c) PROVE TypeOK'
  BY <1>15 DEF Connects
<1>16. ASSUME NEW c \in Conn, Asks(c) PROVE TypeOK'
  BY <1>16 DEF Asks
<1>17. ASSUME NEW c \in Conn, Drains(c) PROVE TypeOK'
  BY <1>17 DEF Drains
<1>18. ASSUME NEW c \in Conn, Leaves(c) PROVE TypeOK'
  BY <1>18 DEF Leaves
<1>19. CASE UNCHANGED vars
  BY <1>19 DEF vars
<1> QED
  BY <1>1, <1>2, <1>3, <1>4, <1>5, <1>6, <1>7, <1>8, <1>9, <1>10,
     <1>11, <1>12, <1>13, <1>14, <1>15, <1>16, <1>17, <1>18, <1>19
     DEF Next, Process, Client

-----------------------------------------------------------------------------
(* One lemma per action; TypeNext gives TypeOK' *)

\* An event taken from the batch is the only one of its descriptor
LEMMA TakesFacts ==
  ASSUME Inv, NEW p \in Proc, NEW d \in Conn \cup {LISTENER}, NEW b, Takes(p, <<d, b>>)
  PROVE  /\ pc[p] = "batch" /\ p \notin ended /\ <<d, b>> \in batch[p]
         /\ batch' = [batch EXCEPT ![p] = @ \ {<<d, b>>}]
         /\ \A q \in Proc : batch'[q] \subseteq batch[q]
         /\ \A e \in batch'[p] : e[1] # d
         /\ d \in Conn => owner[d] = p
         /\ OneEvent'
<1> USE EpollAssumption DEF Inv
<1>1. /\ pc[p] = "batch" /\ p \notin ended /\ <<d, b>> \in batch[p]
      /\ batch' = [batch EXCEPT ![p] = @ \ {<<d, b>>}]
  BY DEF Takes, Running
<1>2. \A q \in Proc : batch'[q] \subseteq batch[q]
  BY <1>1 DEF TypeOK
<1>3. <<d, b>>[1] = d /\ <<d, b>> \notin batch'[p]
  BY <1>1 DEF TypeOK
<1>4. \A e \in batch'[p] : e[1] # d
  BY <1>1, <1>2, <1>3 DEF OneEvent
<1>5. d \in Conn => owner[d] = p
  BY <1>1, <1>3 DEF BatchFresh
<1>6. OneEvent'
  BY <1>2 DEF OneEvent
<1> QED
  BY <1>1, <1>2, <1>4, <1>5, <1>6

\* Handling an event of c changes the state of c alone, and leaves the others fresh
Touches(p, c) ==
  /\ owner[c] = p
  /\ \A q \in Proc : batch'[q] \subseteq batch[q] /\ pc'[q] \in {pc[q], "dec"}
  /\ \A e \in batch'[p] : e[1] # c
  /\ ended' = ended /\ res' = res
  /\ \A d \in Conn : d # c => /\ owner'[d] = owner[d] /\ input'[d] = input[d]
                             /\ full'[d] = full[d] /\ peer'[d] = peer[d]

LEMMA OthersFresh ==
  ASSUME Inv, NEW p \in Proc, NEW c \in Conn, Touches(p, c) PROVE BatchFresh'
<1> USE DEF Touches
<1> SUFFICES ASSUME NEW q \in Proc \ ended, NEW e \in batch'[q], e[1] # LISTENER
             PROVE  /\ owner'[e[1]] = q /\ ~Arriving(q, e[1])'
                    /\ e[2] = "IN" => input'[e[1]] \/ peer'[e[1]] # "up"
                    /\ e[2] = "OUT" => ~full'[e[1]] \/ peer'[e[1]] # "up"
                    /\ e[2] = "HUP" => peer'[e[1]] \in {"reset", "lost"}
  BY DEF BatchFresh
<1>1. e \in batch[q] /\ e[1] \in Conn
  BY DEF Inv, TypeOK
<1>2. /\ owner[e[1]] = q /\ ~Arriving(q, e[1])
      /\ e[2] = "IN" => input[e[1]] \/ peer[e[1]] # "up"
      /\ e[2] = "OUT" => ~full[e[1]] \/ peer[e[1]] # "up"
      /\ e[2] = "HUP" => peer[e[1]] \in {"reset", "lost"}
  BY <1>1 DEF Inv, BatchFresh
<1>3. e[1] # c
  BY <1>2
<1>4. ~Arriving(q, e[1])'
  BY <1>2 DEF Arriving
<1> QED
  BY <1>1, <1>2, <1>3, <1>4

LEMMA EpollWaitInv ==
  ASSUME Inv, TypeOK', NEW p \in Proc, EpollWait(p) PROVE Inv'
<1> USE EpollAssumption DEF Inv, TypeOK, shmVars, netVars, history
<1> DEFINE L == {<<l, "IN">> : l \in {x \in {LISTENER} : backlog # << >>}}
<1>1. PICK branch \in [Reported(p) -> {"IN", "OUT", "HUP"}] :
        /\ \A c \in Reported(p) : branch[c] \in Branches(c)
        /\ batch' = [batch EXCEPT ![p] = {<<c, branch[c]>> : c \in Reported(p)} \cup L]
  BY DEF EpollWait
<1>2. \A e \in batch'[p] : \/ e = <<LISTENER, "IN">>
                          \/ \E c \in Reported(p) : e = <<c, branch[c]>>
  BY <1>1
<1>3. ASSUME NEW c \in Conn
      PROVE  /\ "IN" \in Branches(c) => input[c] \/ peer[c] # "up"
             /\ "OUT" \in Branches(c) => ~full[c] \/ peer[c] # "up"
             /\ "HUP" \in Branches(c) => peer[c] \in {"reset", "lost"}
  BY DEF Branches
<1>4. Reported(p) \subseteq Conn /\ \A c \in Reported(p) : owner[c] = p
  BY DEF Reported, Open
<1>5. pc' = [pc EXCEPT ![p] = "batch"] /\ UNCHANGED <<ended, res, netVars>>
  BY DEF EpollWait
<1>6. \A q \in Proc : q # p => batch'[q] = batch[q]
  BY <1>1
<1>7. BatchFresh'
  <2> SUFFICES ASSUME NEW q \in Proc \ ended', NEW e \in batch'[q], e[1] # LISTENER
               PROVE  /\ owner[e[1]] = q /\ ~Arriving(q, e[1])'
                      /\ e[2] = "IN" => input[e[1]] \/ peer[e[1]] # "up"
                      /\ e[2] = "OUT" => ~full[e[1]] \/ peer[e[1]] # "up"
                      /\ e[2] = "HUP" => peer[e[1]] \in {"reset", "lost"}
    BY <1>5 DEF BatchFresh
  <2>1. CASE q = p
    <3>1. PICK c \in Reported(p) : e = <<c, branch[c]>>
      BY <1>2, <2>1
    <3>2. e[1] = c /\ e[2] = branch[c]
      BY <3>1
    <3> QED
      BY <1>1, <1>3, <1>4, <1>5, <2>1, <3>2 DEF Arriving
  <2>2. CASE q # p
    BY <1>5, <1>6, <2>2 DEF BatchFresh, Arriving
  <2> QED
    BY <2>1, <2>2
<1>8. OneEvent'
  <2> SUFFICES ASSUME NEW e \in batch'[p], NEW f \in batch'[p], e[1] = f[1] PROVE e = f
    BY <1>6 DEF OneEvent
  <2>1. LISTENER \notin Reported(p)
    BY <1>4
  <2>2. CASE e[1] = LISTENER
    <3>1. ASSUME NEW g \in batch'[p], g[1] = LISTENER PROVE g = <<LISTENER, "IN">>
      <4>1. ASSUME NEW c \in Reported(p), g = <<c, branch[c]>> PROVE FALSE
        BY <2>1, <3>1, <4>1
      <4> QED
        BY <1>2, <4>1
    <3> QED
      BY <2>2, <3>1
  <2>3. CASE e[1] # LISTENER
    <3>1. PICK c \in Reported(p) : e = <<c, branch[c]>>
      BY <1>2, <2>3
    <3>2. PICK d \in Reported(p) : f = <<d, branch[d]>>
      BY <1>2, <2>3
    <3> QED
      BY <3>1, <3>2
  <2> QED
    BY <2>2, <2>3
<1>9. Backlog'
  BY <1>5 DEF Backlog
<1> QED
  BY <1>7, <1>8, <1>9

LEMMA BatchDoneInv ==
  ASSUME Inv, TypeOK', NEW p \in Proc, BatchDone(p) PROVE Inv'
<1> USE EpollAssumption DEF Inv, TypeOK, shmVars, netVars, history
<1>1. BatchFresh'
  BY DEF BatchDone, BatchFresh, Arriving
<1>2. OneEvent'
  BY DEF BatchDone, OneEvent
<1>3. Backlog'
  BY DEF BatchDone, Backlog
<1> QED
  BY <1>2, <1>1, <1>3

LEMMA LockFailsInv ==
  ASSUME Inv, TypeOK', NEW p \in Proc, LockFails(p) PROVE Inv'
<1> USE EpollAssumption DEF Inv, TypeOK, shmVars, netVars, history
<1>0. /\ pc[p] = "batch" /\ p \notin ended /\ \A q \in Proc : batch'[q] \subseteq batch[q]
      /\ (\A e \in batch'[p] : e[1] # LISTENER)
      /\ OneEvent'
  BY TakesFacts DEF LockFails
<1>1. BatchFresh'
  BY <1>0 DEF LockFails, BatchFresh, Arriving
<1>3. Backlog'
  BY <1>0 DEF LockFails, Backlog
<1> QED
  BY <1>0, <1>1, <1>3

LEMMA LocksInv ==
  ASSUME Inv, TypeOK', NEW p \in Proc, Locks(p) PROVE Inv'
<1> USE EpollAssumption DEF Inv, TypeOK, shmVars, netVars, history
<1>0. /\ pc[p] = "batch" /\ p \notin ended /\ \A q \in Proc : batch'[q] \subseteq batch[q]
      /\ (\A e \in batch'[p] : e[1] # LISTENER)
      /\ OneEvent'
  BY TakesFacts DEF Locks
<1>1. BatchFresh'
  BY <1>0 DEF Locks, BatchFresh, Arriving
<1>3. Backlog'
  BY <1>0 DEF Locks, Backlog
<1> QED
  BY <1>0, <1>1, <1>3

LEMMA AcceptsInv ==
  ASSUME Inv, TypeOK', NEW p \in Proc, Accepts(p) PROVE Inv'
<1> USE EpollAssumption DEF Inv, TypeOK, shmVars, netVars, history
<1>1. pc' = [pc EXCEPT ![p] = "unlock"] /\ UNCHANGED <<ended, batch, input, full>>
  BY DEF Accepts
<1>2. OneEvent'
  BY <1>1 DEF OneEvent
<1>3. CASE backlog = << >>
  <2>1. res' = [res EXCEPT ![p] = "EAGAIN"] /\ UNCHANGED <<backlog, owner, peer>>
    BY <1>3 DEF Accepts
  <2>2. BatchFresh'
    BY <1>1, <2>1 DEF BatchFresh, Arriving
  <2>3. Backlog'
    BY <2>1 DEF Backlog
  <2> QED
    BY <1>2, <2>2, <2>3
<1>4. CASE backlog # << >>
  <2> DEFINE k == Head(backlog)
             t == Tail(backlog)
  <2>1. /\ k \in Elems(backlog) /\ k \in Conn
        /\ Distinct(t) /\ Elems(t) = Elems(backlog) \ {k}
    BY <1>4, TailFacts DEF Backlog
  <2> HIDE DEF k, t
  <2>2. owner[k] = NONE
    BY <2>1 DEF Backlog
  <2>3. \/ /\ res' = [res EXCEPT ![p] = k] /\ owner' = [owner EXCEPT ![k] = p]
           /\ backlog' = t /\ peer' = peer
        \/ res' = [res EXCEPT ![p] = "error"] /\ UNCHANGED <<backlog, owner, peer>>
        \/ /\ res' = [res EXCEPT ![p] = "error"] /\ owner' = owner
           /\ backlog' = t /\ peer' = [peer EXCEPT ![k] = "away"]
    BY <1>4 DEF Accepts, k, t
  <2>4. \A q \in Proc \ ended : \A e \in batch[q] : e[1] # k
    <3> SUFFICES ASSUME NEW q \in Proc \ ended, NEW e \in batch[q], e[1] = k PROVE FALSE
      OBVIOUS
    <3>1. owner[k] = q
      BY <2>1 DEF BatchFresh
    <3> QED
      BY <2>2, <3>1
  <2>5. BatchFresh'
    BY <1>1, <2>1, <2>3, <2>4 DEF BatchFresh, Arriving
  <2>6. Backlog'
    BY <2>1, <2>3 DEF Backlog
  <2> QED
    BY <1>2, <2>5, <2>6
<1> QED
  BY <1>3, <1>4

LEMMA UnlockInv ==
  ASSUME Inv, TypeOK', NEW p \in Proc, Unlock(p) PROVE Inv'
<1> USE EpollAssumption DEF Inv, TypeOK, shmVars, netVars, history
<1>1. /\ p \notin ended /\ pc[p] = "unlock" /\ UNCHANGED <<res, backlog, owner>>
      /\ Ends(p) \/ UNCHANGED <<ended, peer, input, full, batch>>
      /\ \E l \in {"wait", "batch", "inc"} : pc' = [pc EXCEPT ![p] = l]
  BY DEF Unlock, Running
<1>2. CASE Ends(p)
  <2>1. BatchFresh'
    BY <1>1, <1>2 DEF Ends, BatchFresh, Arriving
  <2>2. OneEvent'
    BY <1>2 DEF Ends, OneEvent
  <2>3. Backlog'
    BY <1>1, <1>2 DEF Ends, Backlog
  <2> QED
    BY <2>1, <2>2, <2>3
<1>3. CASE UNCHANGED <<ended, peer, input, full, batch>>
  <2>1. BatchFresh'
    BY <1>1, <1>3 DEF BatchFresh, Arriving
  <2>2. OneEvent' /\ Backlog'
    BY <1>1, <1>3 DEF OneEvent, Backlog
  <2> QED
    BY <2>1, <2>2
<1> QED
  BY <1>1, <1>2, <1>3

LEMMA IncInv ==
  ASSUME Inv, TypeOK', NEW p \in Proc, Inc(p) PROVE Inv'
<1> USE EpollAssumption DEF Inv, TypeOK, shmVars, netVars, history
<1>1. BatchFresh'
  BY DEF Inc, INC_COUNTFD, atomic_add, BatchFresh, Arriving
<1>2. OneEvent'
  BY DEF Inc, INC_COUNTFD, atomic_add, OneEvent
<1>3. Backlog'
  BY DEF Inc, INC_COUNTFD, atomic_add, Backlog
<1> QED
  BY <1>2, <1>1, <1>3

LEMMA DecInv ==
  ASSUME Inv, TypeOK', NEW p \in Proc, Dec(p) PROVE Inv'
<1> USE EpollAssumption DEF Inv, TypeOK, shmVars, netVars, history
<1>1. BatchFresh'
  BY DEF Dec, DEC_COUNTFD, atomic_sub, BatchFresh, Arriving
<1>2. OneEvent'
  BY DEF Dec, DEC_COUNTFD, atomic_sub, OneEvent
<1>3. Backlog'
  BY DEF Dec, DEC_COUNTFD, atomic_sub, Backlog
<1> QED
  BY <1>2, <1>1, <1>3

LEMMA ReadsInv ==
  ASSUME Inv, TypeOK', NEW p \in Proc, NEW c \in Conn, Reads(p, c) PROVE Inv'
<1> USE EpollAssumption DEF Inv, TypeOK, shmVars, netVars, history
<1>0. /\ pc[p] = "batch" /\ p \notin ended /\ \A q \in Proc : batch'[q] \subseteq batch[q]
      /\ (\A e \in batch'[p] : e[1] # c) /\ owner[c] = p
      /\ OneEvent'
  BY TakesFacts DEF Reads
<1>1. BatchFresh'
  <2>1. UNCHANGED <<ended, res>> /\ \A q \in Proc : pc'[q] \in {pc[q], "dec"}
    BY <1>0 DEF Reads
  <2>2. \A d \in Conn : d # c => /\ owner'[d] = owner[d] /\ input'[d] = input[d]
                               /\ full'[d] = full[d] /\ peer'[d] = peer[d]
    BY DEF Reads
  <2>3. Touches(p, c)
    BY <1>0, <2>1, <2>2 DEF Touches
  <2> HIDE DEF Inv
  <2> QED
    BY <2>3, OthersFresh
<1>2. c \notin Elems(backlog)
  BY <1>0 DEF Backlog
<1>3. Backlog'
  BY <1>2 DEF Reads, Backlog
<1> QED
  BY <1>0, <1>1, <1>3

LEMMA ReadFailsInv ==
  ASSUME Inv, TypeOK', NEW p \in Proc, NEW c \in Conn, ReadFails(p, c) PROVE Inv'
<1> USE EpollAssumption DEF Inv, TypeOK, shmVars, netVars, history
<1>0. /\ pc[p] = "batch" /\ p \notin ended /\ \A q \in Proc : batch'[q] \subseteq batch[q]
      /\ (\A e \in batch'[p] : e[1] # c) /\ owner[c] = p
      /\ OneEvent'
  BY TakesFacts DEF ReadFails
<1>1. BatchFresh'
  <2>1. UNCHANGED <<ended, res>> /\ \A q \in Proc : pc'[q] \in {pc[q], "dec"}
    BY <1>0 DEF ReadFails
  <2>2. \A d \in Conn : d # c => /\ owner'[d] = owner[d] /\ input'[d] = input[d]
                               /\ full'[d] = full[d] /\ peer'[d] = peer[d]
    BY DEF ReadFails
  <2>3. Touches(p, c)
    BY <1>0, <2>1, <2>2 DEF Touches
  <2> HIDE DEF Inv
  <2> QED
    BY <2>3, OthersFresh
<1>2. c \notin Elems(backlog)
  BY <1>0 DEF Backlog
<1>3. Backlog'
  BY <1>2 DEF ReadFails, Backlog
<1> QED
  BY <1>0, <1>1, <1>3

LEMMA ReadsEndInv ==
  ASSUME Inv, TypeOK', NEW p \in Proc, NEW c \in Conn, ReadsEnd(p, c) PROVE Inv'
<1> USE EpollAssumption DEF Inv, TypeOK, shmVars, netVars, history
<1>0. /\ pc[p] = "batch" /\ p \notin ended /\ \A q \in Proc : batch'[q] \subseteq batch[q]
      /\ (\A e \in batch'[p] : e[1] # c) /\ owner[c] = p
      /\ OneEvent'
  BY TakesFacts DEF ReadsEnd
<1>1. BatchFresh'
  <2>1. UNCHANGED <<ended, res>> /\ \A q \in Proc : pc'[q] \in {pc[q], "dec"}
    BY <1>0 DEF ReadsEnd
  <2>2. \A d \in Conn : d # c => /\ owner'[d] = owner[d] /\ input'[d] = input[d]
                               /\ full'[d] = full[d] /\ peer'[d] = peer[d]
    BY DEF ReadsEnd, Close
  <2>3. Touches(p, c)
    BY <1>0, <2>1, <2>2 DEF Touches
  <2> HIDE DEF Inv
  <2> QED
    BY <2>3, OthersFresh
<1>2. c \notin Elems(backlog)
  BY <1>0 DEF Backlog
<1>3. Backlog'
  BY <1>2 DEF ReadsEnd, Close, Backlog
<1> QED
  BY <1>0, <1>1, <1>3

LEMMA ServesInv ==
  ASSUME Inv, TypeOK', NEW p \in Proc, NEW c \in Conn, Serves(p, c) PROVE Inv'
<1> USE EpollAssumption DEF Inv, TypeOK, shmVars, netVars, history
<1>0. /\ pc[p] = "batch" /\ p \notin ended /\ \A q \in Proc : batch'[q] \subseteq batch[q]
      /\ (\A e \in batch'[p] : e[1] # c) /\ owner[c] = p
      /\ OneEvent'
  BY TakesFacts DEF Serves
<1>1. BatchFresh'
  <2>1. UNCHANGED <<ended, res>> /\ \A q \in Proc : pc'[q] \in {pc[q], "dec"}
    BY <1>0 DEF Serves
  <2>2. \A d \in Conn : d # c => /\ owner'[d] = owner[d] /\ input'[d] = input[d]
                               /\ full'[d] = full[d] /\ peer'[d] = peer[d]
    BY DEF Serves
  <2>3. Touches(p, c)
    BY <1>0, <2>1, <2>2 DEF Touches
  <2> HIDE DEF Inv
  <2> QED
    BY <2>3, OthersFresh
<1>2. c \notin Elems(backlog)
  BY <1>0 DEF Backlog
<1>3. Backlog'
  BY <1>2 DEF Serves, Backlog
<1> QED
  BY <1>0, <1>1, <1>3

LEMMA SigPipeInv ==
  ASSUME Inv, TypeOK', NEW p \in Proc, NEW c \in Conn, SigPipe(p, c) PROVE Inv'
<1> USE EpollAssumption DEF Inv, TypeOK, shmVars, netVars, history
<1>1. BatchFresh'
  BY DEF SigPipe, Ends, BatchFresh, Arriving
<1>2. OneEvent'
  BY DEF SigPipe, Ends, OneEvent
<1>3. Backlog'
  BY DEF SigPipe, Ends, Backlog
<1> QED
  BY <1>2, <1>1, <1>3

LEMMA HangsUpInv ==
  ASSUME Inv, TypeOK', NEW p \in Proc, NEW c \in Conn, HangsUp(p, c) PROVE Inv'
<1> USE EpollAssumption DEF Inv, TypeOK, shmVars, netVars, history
<1>0. /\ pc[p] = "batch" /\ p \notin ended /\ \A q \in Proc : batch'[q] \subseteq batch[q]
      /\ (\A e \in batch'[p] : e[1] # c) /\ owner[c] = p
      /\ OneEvent'
  BY TakesFacts DEF HangsUp
<1>1. BatchFresh'
  <2>1. UNCHANGED <<ended, res>> /\ \A q \in Proc : pc'[q] \in {pc[q], "dec"}
    BY <1>0 DEF HangsUp
  <2>2. \A d \in Conn : d # c => /\ owner'[d] = owner[d] /\ input'[d] = input[d]
                               /\ full'[d] = full[d] /\ peer'[d] = peer[d]
    BY DEF HangsUp, Close
  <2>3. Touches(p, c)
    BY <1>0, <2>1, <2>2 DEF Touches
  <2> HIDE DEF Inv
  <2> QED
    BY <2>3, OthersFresh
<1>2. c \notin Elems(backlog)
  BY <1>0 DEF Backlog
<1>3. Backlog'
  BY <1>2 DEF HangsUp, Close, Backlog
<1> QED
  BY <1>0, <1>1, <1>3

LEMMA ConnectsInv ==
  ASSUME Inv, TypeOK', NEW c \in Conn, Connects(c) PROVE Inv'
<1> USE EpollAssumption DEF Inv, TypeOK, shmVars, netVars, history
<1>c. c \notin Elems(backlog)
  BY DEF Connects, Backlog
<1>0. Elems(Append(backlog, c)) = Elems(backlog) \cup {c} /\ Distinct(Append(backlog, c))
  <2>1. backlog \in Seq(Conn) /\ Distinct(backlog)
    BY DEF Backlog
  <2> QED
    BY ONLY <1>c, <2>1, c \in Conn, AppendFacts
<1>1. BatchFresh'
  BY <1>c, <1>0 DEF Connects, BatchFresh, Arriving
<1>2. OneEvent'
  BY DEF Connects, OneEvent
<1>3. Backlog'
  BY <1>c, <1>0 DEF Connects, Backlog
<1> QED
  BY <1>2, <1>1, <1>3

LEMMA AsksInv ==
  ASSUME Inv, TypeOK', NEW c \in Conn, Asks(c) PROVE Inv'
<1> USE EpollAssumption DEF Inv, TypeOK, shmVars, netVars, history
<1>1. BatchFresh'
  BY DEF Asks, BatchFresh, Arriving
<1>2. OneEvent'
  BY DEF Asks, OneEvent
<1>3. Backlog'
  BY DEF Asks, Backlog
<1> QED
  BY <1>2, <1>1, <1>3

LEMMA DrainsInv ==
  ASSUME Inv, TypeOK', NEW c \in Conn, Drains(c) PROVE Inv'
<1> USE EpollAssumption DEF Inv, TypeOK, shmVars, netVars, history
<1>1. BatchFresh'
  BY DEF Drains, BatchFresh, Arriving
<1>2. OneEvent'
  BY DEF Drains, OneEvent
<1>3. Backlog'
  BY DEF Drains, Backlog
<1> QED
  BY <1>2, <1>1, <1>3

LEMMA LeavesInv ==
  ASSUME Inv, TypeOK', NEW c \in Conn, Leaves(c) PROVE Inv'
<1> USE EpollAssumption DEF Inv, TypeOK, shmVars, netVars, history
<1>1. BatchFresh'
  BY DEF Leaves, BatchFresh, Arriving
<1>2. OneEvent'
  BY DEF Leaves, OneEvent
<1>3. Backlog'
  BY DEF Leaves, Backlog
<1> QED
  BY <1>2, <1>1, <1>3

-----------------------------------------------------------------------------
LEMMA InvInit == Init => Inv
<1> SUFFICES ASSUME Init PROVE Inv
  OBVIOUS
<1> USE EpollAssumption DEF Init, init_shmvalue
<1>1. TypeOK
  BY DEF TypeOK
<1>2. BatchFresh /\ OneEvent
  BY DEF BatchFresh, OneEvent
<1>3. Backlog
  BY DEF Backlog, Elems, Distinct
<1> QED
  BY <1>1, <1>2, <1>3 DEF Inv

LEMMA InvNext == Inv /\ [Next]_vars => Inv'
<1> SUFFICES ASSUME Inv, [Next]_vars PROVE Inv'
  OBVIOUS
<1>1. TypeOK'
  BY TypeNext DEF Inv
<1>2. ASSUME NEW p \in Proc, Process(p) PROVE Inv'
  BY <1>1, <1>2, EpollWaitInv, BatchDoneInv, LockFailsInv, LocksInv, AcceptsInv,
     UnlockInv, IncInv, DecInv,
     ReadsInv, ReadFailsInv, ReadsEndInv, ServesInv, SigPipeInv, HangsUpInv
     DEF Process
<1>3. ASSUME NEW c \in Conn, Client(c) PROVE Inv'
  BY <1>1, <1>3, ConnectsInv, AsksInv, DrainsInv, LeavesInv DEF Client
<1>4. CASE UNCHANGED vars
  BY <1>4 DEF vars, shmVars, netVars, history, Inv, TypeOK, BatchFresh, Arriving, OneEvent, Backlog
<1> QED
  BY <1>2, <1>3, <1>4 DEF Next

\* When server comes to an event of its batch, the connection is still open, still
\* this process's and in the state that epoll_wait reported, whatever the events
\* before it in the batch and the other processes have closed and accepted.
THEOREM BatchStaysFresh == Spec => []BatchFresh
<1>1. Inv => BatchFresh
  BY DEF Inv
<1> QED
  BY <1>1, InvInit, InvNext, PTL DEF Spec

-----------------------------------------------------------------------------
(* The counts of connections *)

Counts == CountIsConnectionsLessAnswers

\* A connection between accept and INC_COUNTFD is the one its process has accepted
Arrivals ==
  \A p \in Proc :
    /\ pc[p] = "inc" => res[p] \in Conn
    /\ pc[p] \in {"unlock", "inc"} /\ res[p] \in Conn => owner[res[p]] = p

LEMMA CountsFinite ==
  ASSUME NEW s \in Slots
  PROVE  /\ IsFiniteSet(Counted(s)) /\ IsFiniteSet(Discounting(s))
         /\ Cardinality(Counted(s)) \in Nat /\ Cardinality(Discounting(s)) \in Nat
<1>1. Counted(s) \in SUBSET Conn /\ Discounting(s) \in SUBSET Proc
  BY DEF Counted, Discounting
<1>2. IsFiniteSet(Counted(s)) /\ IsFiniteSet(Discounting(s))
  BY <1>1, EpollAssumption, FS_Subset
<1> QED
  BY <1>2, FS_CardinalityType

LEMMA CountAt ==
  ASSUME Counts, NEW k \in Slots
  PROVE  /\ totalfds[k] + answers[k] = Cardinality(Counted(k)) + Cardinality(Discounting(k))
         /\ Cardinality(Counted(k)) \in Nat /\ Cardinality(Discounting(k)) \in Nat
  BY CountsFinite DEF Counts, CountIsConnectionsLessAnswers

\* A step of one process changes the counts of its slot alone
LEMMA CountsAt ==
  ASSUME Counts, NEW k \in Slots,
         totalfds'[k] + answers'[k] = Cardinality(Counted(k)') + Cardinality(Discounting(k)'),
         \A s \in Slots \ {k} : /\ totalfds'[s] = totalfds[s] /\ answers'[s] = answers[s]
                                 /\ Counted(s)' = Counted(s) /\ Discounting(s)' = Discounting(s)
  PROVE  Counts'
<1> SUFFICES ASSUME NEW s \in Slots, s # k
             PROVE  totalfds'[s] + answers'[s]
                      = Cardinality(Counted(s)') + Cardinality(Discounting(s)')
  BY DEF Counts, CountIsConnectionsLessAnswers
<1> QED
  BY DEF Counts, CountIsConnectionsLessAnswers

\* A step that leaves every connection as counted as it was
LEMMA CountsUnchanged ==
  ASSUME TypeOK, Arrivals, Counts, UNCHANGED <<totalfds, answers, owner, res>>,
         \A q \in Proc :
           /\ pc[q] = "dec" <=> pc'[q] = "dec"
           /\ res[q] \in Conn => (pc[q] \in {"unlock", "inc"} <=> pc'[q] \in {"unlock", "inc"})
           /\ pc'[q] = "inc" => res[q] \in Conn
  PROVE  Arrivals' /\ Counts'
<1>1. Arrivals'
  BY DEF Arrivals
<1>2. \A c \in Conn : owner[c] # NONE => Arriving(owner[c], c)' = Arriving(owner[c], c)
  BY DEF Arriving, TypeOK
<1>3. \A s \in Slots : Counted(s)' = Counted(s) /\ Discounting(s)' = Discounting(s)
  BY <1>2 DEF Counted, Discounting
<1>4. Counts'
  BY <1>3 DEF Counts, CountIsConnectionsLessAnswers
<1> QED
  BY <1>1, <1>4

LEMMA AcceptsCount ==
  ASSUME Inv, Arrivals, Counts, NEW p \in Proc, Accepts(p) PROVE Arrivals' /\ Counts'
<1> USE EpollAssumption DEF Inv, TypeOK
<1>1. /\ pc[p] = "accept" /\ pc' = [pc EXCEPT ![p] = "unlock"]
      /\ totalfds' = totalfds /\ answers' = answers
  BY DEF Accepts, shmVars, history
<1>2. CASE res'[p] \in Conn
  <2> DEFINE k == Head(backlog)
  <2>1. /\ backlog # << >> /\ res' = [res EXCEPT ![p] = k]
        /\ owner' = [owner EXCEPT ![k] = p]
    BY <1>2 DEF Accepts
  <2>2. k \in Conn /\ owner[k] = NONE
    BY <2>1, TailFacts DEF Backlog
  <2> HIDE DEF k
  <2>3. Arrivals'
    BY <1>1, <2>1, <2>2 DEF Arrivals
  <2>4. ASSUME NEW s \in Slots, NEW c \in Conn PROVE c \in Counted(s)' <=> c \in Counted(s)
    <3>1. CASE c = k
      BY <1>1, <2>1, <2>2, <3>1 DEF Counted, Arriving
    <3>2. CASE c # k
      BY <1>1, <2>1, <2>2, <3>2 DEF Counted, Arriving
    <3> QED
      BY <3>1, <3>2
  <2>5. \A s \in Slots : Counted(s) \subseteq Conn /\ Counted(s)' \subseteq Conn
    BY DEF Counted
  <2>6. ASSUME NEW s \in Slots PROVE Counted(s)' = Counted(s)
    <3>1. Counted(s) \subseteq Conn /\ Counted(s)' \subseteq Conn
      BY <2>5
    <3>2. \A c \in Conn : c \in Counted(s)' <=> c \in Counted(s)
      BY <2>4
    <3> HIDE DEF Inv, TypeOK
    <3> QED
      BY <3>1, <3>2
  <2>7. \A s \in Slots : Discounting(s)' = Discounting(s)
    BY <1>1 DEF Discounting
  <2> QED
    BY <1>1, <2>3, <2>6, <2>7 DEF Counts, CountIsConnectionsLessAnswers
<1>3. CASE res'[p] \notin Conn
  <2>1. PICK r \in {"EAGAIN", "error"} : res' = [res EXCEPT ![p] = r]
    <3>1. backlog # << >> => Head(backlog) \in Conn
      OBVIOUS
    <3> QED
      BY <1>3, <3>1 DEF Accepts
  <2>2. owner' = owner
    BY <1>3, <2>1 DEF Accepts
  <2>3. Arrivals'
    BY <1>1, <2>1, <2>2 DEF Arrivals
  <2>4. \A c \in Conn : owner[c] # NONE => Arriving(owner[c], c)' = Arriving(owner[c], c)
    BY <1>1, <2>1, <2>2 DEF Arriving
  <2>5. \A s \in Slots : Counted(s)' = Counted(s) /\ Discounting(s)' = Discounting(s)
    BY <1>1, <2>2, <2>4 DEF Counted, Discounting
  <2> QED
    BY <1>1, <2>3, <2>5 DEF Counts, CountIsConnectionsLessAnswers
<1> QED
  BY <1>2, <1>3

LEMMA IncCount ==
  ASSUME Inv, Arrivals, Counts, NEW p \in Proc, Inc(p) PROVE Arrivals' /\ Counts'
<1> USE EpollAssumption DEF Inv, TypeOK
<1>k. PICK k \in Slots : k = slot[p]
  OBVIOUS
<1>c. PICK c \in Conn : c = res[p]
  BY DEF Inc, Arrivals
<1>1. /\ pc[p] = "inc" /\ pc' = [pc EXCEPT ![p] = "batch"] /\ owner' = owner
      /\ totalfds' = [totalfds EXCEPT ![k] = @ + 1] /\ answers' = answers
      /\ res' = [res EXCEPT ![p] = "EAGAIN"]
  BY <1>k DEF Inc, INC_COUNTFD, atomic_add, netVars, history
<1>2. owner[c] = p
  BY <1>1, <1>c DEF Arrivals
<1>3. Arrivals'
  BY <1>1 DEF Arrivals
<1>4. /\ Arriving(p, c) /\ ~Arriving(p, c)'
      /\ \A d \in Conn \ {c} : owner[d] # NONE => Arriving(owner[d], d)' = Arriving(owner[d], d)
  BY <1>1, <1>c DEF Arriving
<1>a. c \notin Counted(k) /\ Counted(k)' = Counted(k) \cup {c}
  <2>1. owner[c] # NONE /\ slot[owner[c]] = k
    BY <1>2, <1>k
  <2>2. Arriving(owner[c], c) /\ ~Arriving(owner[c], c)'
    BY <1>1, <1>2, <1>4 DEF Arriving
  <2> HIDE DEF Inv, TypeOK
  <2>3. owner' = owner
    BY <1>1
  <2> QED
    BY <1>4, <2>1, <2>2, <2>3 DEF Counted
<1>b. ASSUME NEW s \in Slots \ {k} PROVE Counted(s)' = Counted(s)
  <2>1. owner' = owner /\ slot[owner[c]] # s
    BY <1>1, <1>2, <1>k
  <2> HIDE DEF Inv, TypeOK
  <2>2. \A d \in Conn : d \in Counted(s)' <=> d \in Counted(s)
    BY <1>4, <2>1 DEF Counted
  <2> QED
    BY <2>2 DEF Counted
<1>d. \A s \in Slots : Discounting(s)' = Discounting(s)
  BY <1>1 DEF Discounting
<1>5. /\ c \notin Counted(k) /\ Counted(k)' = Counted(k) \cup {c}
      /\ Discounting(k)' = Discounting(k)
      /\ \A s \in Slots \ {k} :
           /\ totalfds'[s] = totalfds[s] /\ answers'[s] = answers[s]
           /\ Counted(s)' = Counted(s) /\ Discounting(s)' = Discounting(s)
  BY <1>1, <1>a, <1>b, <1>d
<1>6. totalfds'[k] = totalfds[k] + 1 /\ totalfds[k] \in Int /\ answers[k] \in Int
  BY <1>1
<1> HIDE DEF Inv, TypeOK
<1>7. Cardinality(Counted(k) \cup {c}) = Cardinality(Counted(k)) + 1
  BY <1>5, CountsFinite, FS_AddElement
<1>8. totalfds'[k] + answers'[k] = Cardinality(Counted(k)') + Cardinality(Discounting(k)')
  BY <1>1, <1>5, <1>6, <1>7, CountAt
<1> QED
  BY <1>3, <1>5, <1>8, CountsAt

LEMMA CloseCount ==
  ASSUME Inv, Arrivals, Counts, NEW p \in Proc, NEW c \in Conn,
         ReadsEnd(p, c) \/ HangsUp(p, c)
  PROVE  Arrivals' /\ Counts'
<1> USE EpollAssumption DEF Inv, TypeOK
<1>k. PICK k \in Slots : k = slot[p]
  OBVIOUS
<1>0. PICK b \in {"IN", "HUP"} : Takes(p, <<c, b>>)
  BY DEF ReadsEnd, HangsUp
<1>1. /\ pc[p] = "batch" /\ pc' = [pc EXCEPT ![p] = "dec"] /\ res' = res
      /\ owner' = [owner EXCEPT ![c] = NONE] /\ totalfds' = totalfds /\ answers' = answers
  BY DEF ReadsEnd, HangsUp, Takes, Close, shmVars, history
<1> HIDE DEF Inv
<1>2. owner[c] = p
  BY <1>0, TakesFacts
<1> USE DEF Inv
<1>3. Arrivals'
  BY <1>1, <1>2 DEF Arrivals
<1>4. /\ ~Arriving(p, c)
      /\ \A d \in Conn \ {c} : owner[d] # NONE => Arriving(owner[d], d)' = Arriving(owner[d], d)
  BY <1>1 DEF Arriving
<1>5. /\ c \in Counted(k) /\ Counted(k)' = Counted(k) \ {c}
      /\ p \notin Discounting(k) /\ Discounting(k)' = Discounting(k) \cup {p}
      /\ \A s \in Slots \ {k} :
           /\ totalfds'[s] = totalfds[s] /\ answers'[s] = answers[s]
           /\ Counted(s)' = Counted(s) /\ Discounting(s)' = Discounting(s)
  BY <1>1, <1>2, <1>4, <1>k DEF Counted, Discounting
<1> HIDE DEF Inv, TypeOK
<1>6. Cardinality(Counted(k) \ {c}) = Cardinality(Counted(k)) - 1
  BY <1>5, CountsFinite, FS_RemoveElement
<1>7. Cardinality(Discounting(k) \cup {p}) = Cardinality(Discounting(k)) + 1
  BY <1>5, CountsFinite, FS_AddElement
<1>8. totalfds'[k] + answers'[k] = Cardinality(Counted(k)') + Cardinality(Discounting(k)')
  BY <1>1, <1>5, <1>6, <1>7, CountAt
<1> QED
  BY <1>3, <1>5, <1>8, CountsAt

LEMMA ServesCount ==
  ASSUME Inv, Arrivals, Counts, NEW p \in Proc, NEW c \in Conn, Serves(p, c)
  PROVE  Arrivals' /\ Counts'
<1> USE EpollAssumption DEF Inv, TypeOK
<1>k. PICK k \in Slots : k = slot[p]
  OBVIOUS
<1>1. /\ pc[p] = "batch" /\ pc' = [pc EXCEPT ![p] = "dec"] /\ res' = res
      /\ owner' = owner /\ totalfds' = totalfds
      /\ answers' = [answers EXCEPT ![k] = @ + 1]
  BY <1>k DEF Serves, Takes, shmVars
<1>2. Arrivals'
  BY <1>1 DEF Arrivals
<1>3. \A d \in Conn : owner[d] # NONE => Arriving(owner[d], d)' = Arriving(owner[d], d)
  BY <1>1 DEF Arriving
<1>4. /\ Counted(k)' = Counted(k)
      /\ p \notin Discounting(k) /\ Discounting(k)' = Discounting(k) \cup {p}
      /\ \A s \in Slots \ {k} :
           /\ totalfds'[s] = totalfds[s] /\ answers'[s] = answers[s]
           /\ Counted(s)' = Counted(s) /\ Discounting(s)' = Discounting(s)
  BY <1>1, <1>3, <1>k DEF Counted, Discounting
<1>5. answers'[k] = answers[k] + 1 /\ totalfds[k] \in Int /\ answers[k] \in Int
  BY <1>1
<1> HIDE DEF Inv, TypeOK
<1>6. Cardinality(Discounting(k) \cup {p}) = Cardinality(Discounting(k)) + 1
  BY <1>4, CountsFinite, FS_AddElement
<1>7. totalfds'[k] + answers'[k] = Cardinality(Counted(k)') + Cardinality(Discounting(k)')
  BY <1>1, <1>4, <1>5, <1>6, CountAt
<1> QED
  BY <1>2, <1>4, <1>7, CountsAt

LEMMA DecCount ==
  ASSUME Inv, Arrivals, Counts, NEW p \in Proc, Dec(p) PROVE Arrivals' /\ Counts'
<1> USE EpollAssumption DEF Inv, TypeOK
<1>k. PICK k \in Slots : k = slot[p]
  OBVIOUS
<1>1. /\ pc[p] = "dec" /\ pc' = [pc EXCEPT ![p] = "batch"] /\ res' = res
      /\ owner' = owner /\ answers' = answers
      /\ totalfds' = [totalfds EXCEPT ![k] = @ - 1]
  BY <1>k DEF Dec, DEC_COUNTFD, atomic_sub, netVars, history
<1>2. Arrivals'
  BY <1>1 DEF Arrivals
<1>3. \A d \in Conn : owner[d] # NONE => Arriving(owner[d], d)' = Arriving(owner[d], d)
  BY <1>1 DEF Arriving
<1>4. /\ Counted(k)' = Counted(k)
      /\ p \in Discounting(k) /\ Discounting(k)' = Discounting(k) \ {p}
      /\ \A s \in Slots \ {k} :
           /\ totalfds'[s] = totalfds[s] /\ answers'[s] = answers[s]
           /\ Counted(s)' = Counted(s) /\ Discounting(s)' = Discounting(s)
  BY <1>1, <1>3, <1>k DEF Counted, Discounting
<1>5. totalfds'[k] = totalfds[k] - 1 /\ totalfds[k] \in Int /\ answers[k] \in Int
  BY <1>1
<1> HIDE DEF Inv, TypeOK
<1>6. Cardinality(Discounting(k) \ {p}) = Cardinality(Discounting(k)) - 1
  BY <1>4, CountsFinite, FS_RemoveElement
<1>7. totalfds'[k] + answers'[k] = Cardinality(Counted(k)') + Cardinality(Discounting(k)')
  <2>1. /\ answers'[k] = answers[k]
        /\ Cardinality(Counted(k)') = Cardinality(Counted(k))
        /\ Cardinality(Discounting(k)') = Cardinality(Discounting(k)) - 1
    BY <1>1, <1>4, <1>6
  <2> QED
    BY <1>5, <2>1, CountAt
<1> QED
  BY <1>2, <1>4, <1>7, CountsAt

LEMMA CountInit == Init => Arrivals /\ Counts
<1> SUFFICES ASSUME Init PROVE Arrivals /\ Counts
  OBVIOUS
<1>1. Arrivals
  BY DEF Init, Arrivals
<1>2. ASSUME NEW s \in Slots
      PROVE  Counted(s) = {} /\ Discounting(s) = {} /\ totalfds[s] = 0 /\ answers[s] = 0
  BY DEF Init, init_shmvalue, Counted, Discounting
<1>3. Counts
  BY <1>2, FS_EmptySet DEF Counts, CountIsConnectionsLessAnswers
<1> QED
  BY <1>1, <1>3

LEMMA CountNext == Inv /\ Arrivals /\ Counts /\ [Next]_vars => Arrivals' /\ Counts'
<1> SUFFICES ASSUME Inv, Arrivals, Counts, [Next]_vars PROVE Arrivals' /\ Counts'
  OBVIOUS
<1>0. TypeOK
  BY DEF Inv
<1>1. ASSUME NEW p \in Proc, EpollWait(p) \/ BatchDone(p) \/ LockFails(p) \/ Locks(p)
      PROVE  Arrivals' /\ Counts'
  <2>1. /\ UNCHANGED <<totalfds, answers, owner, res>> /\ pc[p] \in {"wait", "batch"}
        /\ \E l \in {"wait", "batch", "accept"} : pc' = [pc EXCEPT ![p] = l]
    BY <1>0, <1>1 DEF EpollWait, BatchDone, LockFails, Locks, Takes, shmVars, netVars, history,
                      TypeOK
  <2> QED
    BY <1>0, <2>1, CountsUnchanged DEF Arrivals, TypeOK
<1>2. ASSUME NEW p \in Proc, Unlock(p) PROVE Arrivals' /\ Counts'
  <2>1. UNCHANGED <<totalfds, answers, owner, res>> /\ pc[p] = "unlock"
    BY <1>2 DEF Unlock, history
  <2>2. PICK l \in {"wait", "batch", "inc"} :
          pc' = [pc EXCEPT ![p] = l] /\ (res[p] \in Conn <=> l = "inc")
    BY <1>0, <1>2, EpollAssumption DEF Unlock, TypeOK
  <2> QED
    BY <1>0, <2>1, <2>2, CountsUnchanged DEF Arrivals, TypeOK
<1>3. ASSUME NEW p \in Proc, NEW c \in Conn, Reads(p, c) \/ ReadFails(p, c) \/ SigPipe(p, c)
      PROVE  Arrivals' /\ Counts'
  <2>1. /\ UNCHANGED <<totalfds, answers, owner, res>> /\ pc[p] = "batch"
        /\ \E l \in {"wait", "batch"} : pc' = [pc EXCEPT ![p] = l]
    BY <1>0, <1>3 DEF Reads, ReadFails, SigPipe, Takes, shmVars, netVars, history, TypeOK
  <2> QED
    BY <1>0, <2>1, CountsUnchanged DEF Arrivals, TypeOK
<1>4. ASSUME NEW p \in Proc, Process(p) PROVE Arrivals' /\ Counts'
  BY <1>1, <1>2, <1>3, <1>4, AcceptsCount, IncCount, CloseCount, ServesCount, DecCount
     DEF Process
<1>5. CASE (\E c \in Conn : Client(c)) \/ UNCHANGED vars
  <2>1. UNCHANGED <<totalfds, answers, owner, res, pc>>
    BY <1>5 DEF Client, Connects, Asks, Drains, Leaves, vars, shmVars, netVars, history
  <2> QED
    BY <1>0, <2>1, CountsUnchanged DEF Arrivals
<1> QED
  BY <1>4, <1>5 DEF Next

\* The shared count of a slot is its open connections less its answers, for every
\* number of processes and connections and up to sixteen slots: no INC_COUNTFD or
\* DEC_COUNTFD is lost between processes, and each answer takes one too many.
THEOREM CountsKept == Spec => []CountIsConnectionsLessAnswers
<1>1. Inv /\ Arrivals /\ Counts /\ [Next]_vars => (Inv /\ Arrivals /\ Counts)'
  BY InvNext, CountNext
<1>2. Init => Inv /\ Arrivals /\ Counts
  BY InvInit, CountInit
<1>3. Counts => CountIsConnectionsLessAnswers
  BY DEF Counts
<1> QED
  BY <1>1, <1>2, <1>3, PTL DEF Spec
=============================================================================
