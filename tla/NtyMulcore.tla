----------------------------- MODULE NtyMulcore -----------------------------
(***************************************************************************)
(* The shared memory of sample/nty_server_mulcore.c and of                 *)
(* sample/nty_http_server_mulcore.c: a count of connections and a lock     *)
(* word, changed with compare and exchange, and what the processes of      *)
(* nty_server_mulcore.c do with the count.                                 *)
(*                                                                         *)
(* cmpxchg(addr, old, new, 4) assembles to the eight-byte instruction, its *)
(* operand being an unsigned long: it compares and writes the word after   *)
(* addr too.  A word has 2 * Half values (Half is 2^31 in the build), and   *)
(* old and new are sign-extended.                                          *)
(***************************************************************************)
EXTENDS Integers, Sequences, FiniteSets

CONSTANTS
  Proc,      \* the processes main forks
  Half,      \* an int is one of -Half..Half - 1
  MaxConn,   \* bound: readers of a process
  Period,    \* the time is taken when the count is Period - 1 modulo Period
  Seconds    \* the times, as the low words of tv_begin.tv_sec

ASSUME MulcoreAssumption ==
  /\ Half \in Nat \ {0} /\ MaxConn \in Nat /\ Period \in Nat \ {0}
  /\ IsFiniteSet(Proc) /\ Cardinality(Proc) * MaxConn < Half
  /\ Seconds \subseteq 1..(2 * Half - 1) /\ 1 \in Seconds

VARIABLES
  shm,      \* the words of shm_area: total, the lock, tv_begin's seconds
  pc,       \* where a process is between two accesses to shm
  value,    \* its local value of the loop in add_shmvalue or sub_shmvalue
  readers,  \* its coroutines that have a connection
  stuck,    \* its coroutines that wait on what is not a connection
  told      \* what its calls of lock_accept_mutex have returned

mulcoreVars == <<shm, pc, value, readers, stuck, told>>

Top == 2 * Half
Unsigned(v) == v % Top
Int32(w) == IF w < Half THEN w ELSE w - Top

\* shm_area
TOTAL == 1
LOCK == 2

\* (unsigned long)v of an int v
Long(v) == <<Unsigned(v), IF v < 0 THEN Top - 1 ELSE 0>>

\* cmpxchg with size 4: the memory it leaves, and the int it returns
CmpxchgStores(i, old) == <<shm[i], shm[i + 1]>> = Long(old)
Cmpxchg(i, old, new) ==
  IF CmpxchgStores(i, old)
    THEN [shm EXCEPT ![i] = Long(new)[1], ![i + 1] = Long(new)[2]]
    ELSE shm
Returned(i) == Int32(shm[i])

\* init_shmvalue and process_bind; gettimeofday's seconds are not 0
Zeroed == shm = <<0, 0, 1>>
InitMulcore ==
  /\ Zeroed
  /\ pc = [p \in Proc |-> "sched"] /\ value = [p \in Proc |-> 0]
  /\ readers = [p \in Proc |-> 0] /\ stuck = [p \in Proc |-> 0]
  /\ told = [p \in Proc |-> {}]

-----------------------------------------------------------------------------
(* server *)

\* nty_accept returns, the reader is created (it runs when the server yields)
\* and add_shmvalue begins.  The reader has no connection when nty_accept has
\* failed, with -1, or when the word at &cli_fd, on the shared stack, is another
\* by the time it is read (NtyStack!ArgumentSurvives).
Accepts(p) ==
  /\ pc[p] = "sched" /\ readers[p] + stuck[p] < MaxConn
  /\ \/ readers' = [readers EXCEPT ![p] = @ + 1] /\ UNCHANGED stuck
     \/ stuck' = [stuck EXCEPT ![p] = @ + 1] /\ UNCHANGED readers
  /\ pc' = [pc EXCEPT ![p] = "add"]
  /\ UNCHANGED <<shm, value, told>>

\* add_shmvalue: read the total ...
AddReads(p) ==
  /\ pc[p] = "add"
  /\ value' = [value EXCEPT ![p] = Int32(shm[TOTAL])]
  /\ pc' = [pc EXCEPT ![p] = "add_cas"]
  /\ UNCHANGED <<shm, readers, stuck, told>>

\* ... exchange, and try again if the old total was another ...
RetriesNever(p) == p \notin Proc \* mutant: the result is ignored
Retries(p) == Returned(TOTAL) # value[p]
AddExchanges(p) ==
  /\ pc[p] = "add_cas"
  /\ shm' = Cmpxchg(TOTAL, value[p], value[p] + 1)
  /\ pc' = [pc EXCEPT ![p] = IF Retries(p) THEN "add" ELSE "added"]
  /\ UNCHANGED <<value, readers, stuck, told>>

\* ... and return the total of now; every Period the server sets tv_begin, and
\* goes back to nty_accept
Added(p) ==
  /\ pc[p] = "added"
  /\ IF Int32(shm[TOTAL]) % Period = Period - 1
       THEN \E now \in Seconds : shm' = [shm EXCEPT ![3] = now]
       ELSE UNCHANGED shm
  /\ value' = [value EXCEPT ![p] = 0]
  /\ pc' = [pc EXCEPT ![p] = "sched"]
  /\ UNCHANGED <<readers, stuck, told>>

-----------------------------------------------------------------------------
(* server_reader *)

\* nty_recv returns 0, or nty_send -1: nty_close and sub_shmvalue.  Before that
\* the loop answers what it receives, which changes nothing here.
ReaderEnds(p) ==
  /\ pc[p] = "sched" /\ readers[p] > 0
  /\ readers' = [readers EXCEPT ![p] = @ - 1]
  /\ pc' = [pc EXCEPT ![p] = "sub"]
  /\ UNCHANGED <<shm, value, stuck, told>>

\* sub_shmvalue
SubReads(p) ==
  /\ pc[p] = "sub"
  /\ value' = [value EXCEPT ![p] = Int32(shm[TOTAL])]
  /\ pc' = [pc EXCEPT ![p] = "sub_cas"]
  /\ UNCHANGED <<shm, readers, stuck, told>>

SubExchanges(p) ==
  /\ pc[p] = "sub_cas"
  /\ shm' = Cmpxchg(TOTAL, value[p], value[p] - 1)
  /\ IF Retries(p) THEN pc' = [pc EXCEPT ![p] = "sub"] /\ UNCHANGED value
                   ELSE /\ pc' = [pc EXCEPT ![p] = "sched"]
                        /\ value' = [value EXCEPT ![p] = 0]
  /\ UNCHANGED <<readers, stuck, told>>

-----------------------------------------------------------------------------
(* The lock of nty_http_server_mulcore.c, which nothing there calls, by any process; *)
(* a process unlocks when it was told that it has the lock                           *)

lock_accept_mutex(p) ==
  /\ pc[p] = "sched"
  /\ shm' = Cmpxchg(LOCK, 0, 1)
  /\ told' = [told EXCEPT ![p] = @ \cup {Returned(LOCK)}]
  /\ UNCHANGED <<pc, value, readers, stuck>>

unlock_accept_mutex(p) ==
  /\ pc[p] = "sched" /\ 0 \in told[p]
  /\ shm' = Cmpxchg(LOCK, 1, 0)
  /\ told' = [told EXCEPT ![p] = {}]
  /\ UNCHANGED <<pc, value, readers, stuck>>

NextMulcore ==
  \E p \in Proc :
    \/ Accepts(p) \/ AddReads(p) \/ AddExchanges(p) \/ Added(p)
    \/ ReaderEnds(p) \/ SubReads(p) \/ SubExchanges(p)
    \/ lock_accept_mutex(p) \/ unlock_accept_mutex(p)

SpecMulcore == InitMulcore /\ [][NextMulcore]_mulcoreVars

-----------------------------------------------------------------------------
\* How many coroutines process p has counted
CountedBy(p) ==
  readers[p] + stuck[p] + (IF pc[p] \in {"sub", "sub_cas"} THEN 1 ELSE 0)
    - (IF pc[p] \in {"add", "add_cas"} THEN 1 ELSE 0)

\* A member for each of them, of all processes
Counted == {x \in Proc \X (1..MaxConn) : x[2] <= CountedBy(x[1])}

\* The total is exactly what the processes have added and not yet subtracted:
\* the loops of add_shmvalue and sub_shmvalue lose no update between processes,
\* although they test half of what the instruction compares.
TotalExact == Int32(shm[TOTAL]) = Cardinality(Counted)
=============================================================================
