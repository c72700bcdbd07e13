--------------------------- MODULE MCNtyScheduler ---------------------------
(* Small instances of NtyScheduler for TLC; the .cfg files name the sets.   *)
EXTENDS NtyScheduler, TLC

\* Blocks and descriptors are interchangeable.
Symmetry == Permutations(Co) \cup Permutations(Fd)

-----------------------------------------------------------------------------
(* Time without end: the code only compares instants and takes their       *)
(* differences, so the origin of time may be moved.  At the last of        *)
(* Instants, once no timer and no timeout is due, now becomes the origin,  *)
(* and the clock goes on from there.  The key of a timer that has expired  *)
(* is in the past and stays the key of no timer.                           *)

LastInstant == \A t \in Instants : t <= now
\* The timeout of epoll_wait has passed, or it has none and hears no clock
NoTimeLeft == phase = "blocked" /\ epollSince + epollUsecs <= now

Rebase ==
  /\ Alive /\ LastInstant /\ now > 0
  /\ \A c \in sleeping : sleep_usecs[c] > now
  /\ ~NoTimeLeft
  /\ now' = 0
  /\ sleep_usecs' = [c \in Co |-> Remaining(sleep_usecs[c], now)]
  /\ epollSince' = IF phase = "blocked" THEN epollSince - now ELSE 0
  /\ UNCHANGED <<fault, coVars, ready, sleeping, waitVars, loopVars, pending,
                 epollUsecs, kernelVars>>

EndlessSpec == Init /\ [][Next \/ Rebase]_vars /\ Fairness /\ WF_vars(Rebase)
=============================================================================
