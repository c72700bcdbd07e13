--------------------------- MODULE NtyHttpServer ---------------------------
(***************************************************************************)
(* sample/nty_http_server.c: a server coroutine and, for each connection,  *)
(* a coroutine that runs accept_request.  (nty_http_server_mulcore.c has   *)
(* the same accept_request and get_line, and sends a page from memory.)    *)
(*                                                                         *)
(* A step is what a coroutine does between two points where it can wait:   *)
(* every nty_recv waits, and every nty_send may.  What a client sends is a *)
(* request, "Q", of which the first nty_recv takes all that has come, and  *)
(* later bytes: "r" and "n" stand for CR and LF, "x" for any other.        *)
(***************************************************************************)
EXTENDS Naturals, Sequences, FiniteSets, SequencesExt

CONSTANTS
  Conn,      \* the connections; a closed one can be made again
  MaxFds,    \* the descriptors the process has, besides the listening socket
  Pieces,    \* the pieces fgets cuts a page into, if it is not empty
  Size,      \* the size of the buffer get_line fills, 1024
  MaxBytes   \* bound: the bytes a client sends after the first nty_recv

ASSUME HttpAssumption ==
  MaxFds \in Nat /\ Pieces \in Nat \ {0} /\ Size \in Nat \ {0, 1} /\ MaxBytes \in Nat

\* The files: fgets ends the last piece at a newline or at a full buffer, or it
\* ends it at the end of the file, or there is no piece
Files == {"whole", "cut", "empty"}
PiecesOf(p) == IF p = "empty" THEN 0 ELSE Pieces

\* What a request asks for: by an unknown method; by GET or POST, which are alike
\* here, a file, nothing there, or a directory without index.html
Requests == {"method", "none", "noindex"} \cup Files

VARIABLES
  exited,  \* has the process ended?
  phase,   \* where the coroutine of a connection is
  stream,  \* what its client has sent and nobody has read
  sent,    \* how many bytes its client has sent after the request
  peer,    \* its client: "up", "closed" or "reset"
  page,    \* accept_request: what is asked for
  buf,     \* get_line: the string
  taken,   \* history: the bytes this call of get_line has read
  line,    \* cat: the calls of fgets, and the pieces sent
  waits    \* nty_send: does it wait for room? "no", "yes", or "over"

clientVars == <<stream, sent, peer>>
lineVars == <<buf, taken>>
vars == <<exited, phase, clientVars, page, lineVars, line, waits>>

InService == {c \in Conn : phase[c] \notin {"none", "queued"}}
Fds == Cardinality(InService) + Cardinality({c \in Conn : phase[c] \in {"headers", "cat"}})

\* main and startup
Init ==
  /\ exited = FALSE
  /\ phase = [c \in Conn |-> "none"]
  /\ stream = [c \in Conn |-> << >>] /\ sent = [c \in Conn |-> 0]
  /\ peer = [c \in Conn |-> "up"] /\ page = [c \in Conn |-> "none"]
  /\ buf = [c \in Conn |-> << >>] /\ taken = [c \in Conn |-> << >>]
  /\ line = [c \in Conn |-> [read |-> 0, sent |-> 0]]
  /\ waits = [c \in Conn |-> "no"]

To(c, ph) == phase' = [phase EXCEPT ![c] = ph]

-----------------------------------------------------------------------------
(* server *)

\* accept, and nty_coroutine_create(accept_request)
Accepts(c) ==
  /\ ~exited /\ phase[c] = "queued" /\ Fds < MaxFds
  /\ To(c, "recv")
  /\ UNCHANGED <<exited, clientVars, page, lineVars, line, waits>>

\* accept fails, without a descriptor or, as ECONNABORTED, after a reset: error_die
ErrorDie(c) ==
  /\ ~exited /\ phase[c] = "queued" /\ (Fds >= MaxFds \/ peer[c] = "reset")
  /\ exited' = TRUE
  /\ UNCHANGED <<phase, clientVars, page, lineVars, line, waits>>

-----------------------------------------------------------------------------
(* accept_request *)

\* Where a request goes: an unknown method; a path that stat does not find, for
\* which headers are read if numchars > 0; or serve_file, cgi being 0 in the end
Route(c, r, numchars) ==
  /\ page' = [page EXCEPT ![c] = r]
  /\ To(c, CASE r = "method" -> "501"
             [] r = "none" -> IF numchars = 0 THEN "404" ELSE "line"
             [] OTHER -> "open")

\* nty_recv takes the request
Receives(c) ==
  /\ ~exited /\ phase[c] = "recv" /\ stream[c] # << >>
  /\ \E r \in Requests : Route(c, r, 1)
  /\ stream' = [stream EXCEPT ![c] = << >>]
  /\ UNCHANGED <<exited, sent, peer, lineVars, line, waits>>

\* nty_recv returns 0 or -1 and buf was never written: the method, and after -1,
\* which numchars takes for a size, the path too, are what the stack held.
\* After 0 the path is htdocs.
ReceivesNothing(c) ==
  /\ ~exited /\ phase[c] = "recv" /\ stream[c] = << >>
  /\ \/ peer[c] = "closed" /\ \E r \in Requests : Route(c, r, 0)
     \/ peer[c] = "reset" /\ \E r \in Requests : Route(c, r, 1)
  /\ UNCHANGED <<exited, clientVars, lineVars, line, waits>>

-----------------------------------------------------------------------------
(* get_line, a byte at a time *)

\* A byte is stored; the line ends with a newline or a full buffer
Stores(c, b) ==
  /\ buf' = [buf EXCEPT ![c] = Append(@, b)]
  /\ To(c, IF b = "n" \/ Len(buf[c]) + 1 = Size - 1 THEN "got" ELSE "line")

\* recv gives a byte; a CR looks at the next one first
ReadsByte(c) ==
  /\ ~exited /\ phase[c] = "line" /\ stream[c] # << >>
  /\ LET b == Head(stream[c])
     IN  /\ taken' = [taken EXCEPT ![c] = Append(@, b)]
         /\ IF b = "r" THEN To(c, "peek") /\ UNCHANGED buf ELSE Stores(c, b)
  /\ stream' = [stream EXCEPT ![c] = Tail(@)]
  /\ UNCHANGED <<exited, sent, peer, page, line, waits>>

\* recv gives nothing, and the line ends as it is
LineCut(c) ==
  /\ ~exited /\ phase[c] = "line" /\ stream[c] = << >> /\ peer[c] # "up"
  /\ To(c, "got")
  /\ UNCHANGED <<exited, clientVars, page, lineVars, line, waits>>

\* recv with MSG_PEEK: an LF after the CR is to be read too
PeeksAny(c) == \* mutant: whatever follows the CR is
  /\ ~exited /\ phase[c] = "peek" /\ (stream[c] # << >> \/ peer[c] # "up")
  /\ IF stream[c] # << >> THEN To(c, "take") /\ UNCHANGED buf ELSE Stores(c, "n")
  /\ UNCHANGED <<exited, clientVars, page, taken, line, waits>>
Peeks(c) ==
  /\ ~exited /\ phase[c] = "peek" /\ (stream[c] # << >> \/ peer[c] # "up")
  /\ IF stream[c] # << >> /\ Head(stream[c]) = "n"
       THEN To(c, "take") /\ UNCHANGED buf
       ELSE Stores(c, "n")
  /\ UNCHANGED <<exited, clientVars, page, taken, line, waits>>

\* recv gives the LF, or nothing after a reset, and c is still the one peeked at
Takes(c) ==
  /\ ~exited /\ phase[c] = "take" /\ (stream[c] # << >> \/ peer[c] # "up")
  /\ IF stream[c] # << >>
       THEN /\ stream' = [stream EXCEPT ![c] = Tail(@)]
            /\ taken' = [taken EXCEPT ![c] = Append(@, Head(stream[c]))]
            /\ Stores(c, Head(stream[c]))
       ELSE Stores(c, "n") /\ UNCHANGED <<stream, taken>>
  /\ UNCHANGED <<exited, sent, peer, page, line, waits>>

\* The loop of accept_request: an empty string or an empty line ends the headers
GotLine(c) ==
  /\ ~exited /\ phase[c] = "got"
  /\ To(c, IF buf[c] \in {<< >>, <<"n">>} THEN "404" ELSE "line")
  /\ buf' = [buf EXCEPT ![c] = << >>] /\ taken' = [taken EXCEPT ![c] = << >>]
  /\ UNCHANGED <<exited, clientVars, page, line, waits>>

-----------------------------------------------------------------------------
(* The answers *)

\* feof after n calls of fgets: one has found nothing, or the end of the file
\* already ended the last piece
FeofEarly(p, n) == n >= PiecesOf(p) \* mutant: true when the last piece was read
Feof(p, n) == n > PiecesOf(p) \/ (p = "cut" /\ n = Pieces)

\* An answer is several calls of nty_send, and cat makes one at a time.  A client
\* that has reset, or closed so that the first one brings a reset, makes a later
\* one raise SIGPIPE.  One that is there and does not read makes it wait, without
\* a timer.
Sending(c) ==
  \/ phase[c] \in {"501", "404", "nofile", "headers"}
  \/ phase[c] = "cat" /\ ~Feof(page[c], line[c].read)
SendFails(c) == Sending(c) /\ peer[c] # "up"
SendWorks(c) == Sending(c) /\ peer[c] # "reset" /\ waits[c] # "yes"
SendDone(c) == waits' = [waits EXCEPT ![c] = "no"]

SendWaits(c) ==
  /\ ~exited /\ Sending(c) /\ peer[c] = "up" /\ waits[c] = "no"
  /\ waits' = [waits EXCEPT ![c] = "yes"]
  /\ UNCHANGED <<exited, phase, clientVars, page, lineVars, line>>

SigPipe(c) ==
  /\ ~exited /\ SendFails(c)
  /\ exited' = TRUE
  /\ UNCHANGED <<phase, clientVars, page, lineVars, line, waits>>

\* unimplemented; accept_request returns without nty_close and free
Unimplemented(c) ==
  /\ ~exited /\ phase[c] = "501" /\ SendWorks(c)
  /\ To(c, "left") /\ SendDone(c)
  /\ UNCHANGED <<exited, clientVars, page, lineVars, line>>

NotFoundLeft(c) == \* mutant: not_found, and return
  /\ ~exited /\ phase[c] = "404" /\ SendWorks(c)
  /\ To(c, "lost") /\ SendDone(c)
  /\ UNCHANGED <<exited, clientVars, page, lineVars, line>>
NotFound(c) ==
  /\ ~exited /\ phase[c] = "404" /\ SendWorks(c)
  /\ To(c, "close") /\ SendDone(c)
  /\ UNCHANGED <<exited, clientVars, page, lineVars, line>>

\* serve_file: fopen, which needs a descriptor and a file
Opens(c) ==
  /\ ~exited /\ phase[c] = "open"
  /\ To(c, IF Fds < MaxFds /\ page[c] # "noindex" THEN "headers" ELSE "nofile")
  /\ UNCHANGED <<exited, clientVars, page, lineVars, line, waits>>

\* Without one, not_found and fclose(NULL), which ends the process
FcloseNull(c) ==
  /\ ~exited /\ phase[c] = "nofile" /\ SendWorks(c)
  /\ exited' = TRUE
  /\ UNCHANGED <<phase, clientVars, page, lineVars, line, waits>>

\* headers, and the first fgets of cat
SendsHeaders(c) ==
  /\ ~exited /\ phase[c] = "headers" /\ SendWorks(c)
  /\ To(c, "cat") /\ SendDone(c)
  /\ line' = [line EXCEPT ![c] = [read |-> 1, sent |-> 0]]
  /\ UNCHANGED <<exited, clientVars, page, lineVars>>

\* cat
CatSends(c) ==
  /\ ~exited /\ phase[c] = "cat" /\ SendWorks(c)
  /\ line' = [line EXCEPT ![c] = [read |-> @.read + 1, sent |-> @.sent + 1]]
  /\ SendDone(c)
  /\ UNCHANGED <<exited, phase, clientVars, page, lineVars>>

CatEnds(c) ==
  /\ ~exited /\ phase[c] = "cat" /\ Feof(page[c], line[c].read)
  /\ To(c, "close")
  /\ UNCHANGED <<exited, clientVars, page, lineVars, line, waits>>

\* nty_close and free
Closes(c) ==
  /\ ~exited /\ phase[c] = "close"
  /\ To(c, "none")
  /\ stream' = [stream EXCEPT ![c] = << >>] /\ sent' = [sent EXCEPT ![c] = 0]
  /\ peer' = [peer EXCEPT ![c] = "up"]
  /\ line' = [line EXCEPT ![c] = [read |-> 0, sent |-> 0]]
  /\ page' = [page EXCEPT ![c] = "none"]
  /\ UNCHANGED <<exited, lineVars, waits>>

-----------------------------------------------------------------------------
(* The clients *)

Connects(c) ==
  /\ ~exited /\ phase[c] = "none"
  /\ To(c, "queued")
  /\ UNCHANGED <<exited, clientVars, page, lineVars, line, waits>>

Asks(c) ==
  /\ ~exited /\ phase[c] \in {"queued", "recv"} /\ peer[c] = "up" /\ stream[c] = << >>
  /\ stream' = [stream EXCEPT ![c] = <<"Q">>]
  /\ UNCHANGED <<exited, phase, sent, peer, page, lineVars, line, waits>>

\* Once the request is read, what get_line gets; nobody reads more in other phases
SendsByte(c, b) ==
  /\ ~exited /\ phase[c] \in {"line", "peek", "take"} /\ peer[c] = "up" /\ sent[c] < MaxBytes
  /\ stream' = [stream EXCEPT ![c] = Append(@, b)]
  /\ sent' = [sent EXCEPT ![c] = @ + 1]
  /\ UNCHANGED <<exited, phase, peer, page, lineVars, line, waits>>

\* The client reads, and there is room again
Drains(c) ==
  /\ ~exited /\ peer[c] = "up" /\ waits[c] = "yes"
  /\ waits' = [waits EXCEPT ![c] = "over"]
  /\ UNCHANGED <<exited, phase, clientVars, page, lineVars, line>>

Leaves(c) ==
  /\ ~exited /\ peer[c] = "up" /\ phase[c] \notin {"none", "left"}
  /\ \/ peer' = [peer EXCEPT ![c] = "closed"] /\ UNCHANGED stream
     \/ peer' = [peer EXCEPT ![c] = "reset"] /\ stream' = [stream EXCEPT ![c] = << >>]
  /\ UNCHANGED <<exited, phase, sent, page, lineVars, line, waits>>

-----------------------------------------------------------------------------
Request(c) ==
  \/ Receives(c) \/ ReceivesNothing(c)
  \/ ReadsByte(c) \/ LineCut(c) \/ Peeks(c) \/ Takes(c) \/ GotLine(c)
  \/ SendWaits(c) \/ Unimplemented(c) \/ NotFound(c) \/ Opens(c) \/ FcloseNull(c)
  \/ SendsHeaders(c) \/ CatSends(c) \/ CatEnds(c) \/ Closes(c) \/ SigPipe(c)

Server(c) == Accepts(c) \/ ErrorDie(c) \/ Request(c)

Client(c) ==
  Connects(c) \/ Asks(c) \/ Drains(c) \/ Leaves(c) \/ \E b \in {"x", "r", "n"} : SendsByte(c, b)

Next == \E c \in Conn : Server(c) \/ Client(c)

Spec == Init /\ [][Next]_vars

\* The scheduler runs every coroutine whose wait is over (NtyScheduler!IoServed).
\* No client has to read, ask or leave.
FairSpec == Spec /\ \A c \in Conn : WF_vars(Server(c))

-----------------------------------------------------------------------------
\* The variables have the values the program can give them.
TypeOK ==
  /\ exited \in BOOLEAN
  /\ phase \in [Conn -> {"none", "queued", "recv", "line", "peek", "take", "got", "501", "404",
                          "left", "open", "nofile", "headers", "cat", "close"}]
  /\ stream \in [Conn -> Seq({"Q", "x", "r", "n"})]
  /\ sent \in [Conn -> 0..MaxBytes]
  /\ peer \in [Conn -> {"up", "closed", "reset"}]
  /\ page \in [Conn -> Requests]
  /\ buf \in [Conn -> Seq({"x", "n"})] /\ taken \in [Conn -> Seq({"x", "r", "n"})]
  /\ line \in [Conn -> [read : Nat, sent : Nat]]
  /\ waits \in [Conn -> {"no", "yes", "over"}]

\* A text without a line terminator
Plain(s) == \A i \in 1..Len(s) : s[i] \notin {"r", "n"}

\* get_line does what its comment says.  A line that ends in LF, CR or CRLF is
\* stored with one LF at its end, and the terminator, a CRLF whole, is read with
\* it; otherwise all bytes read are stored, and the buffer is full or the client
\* has gone.
LineKept(c) ==
  LET b == buf[c]
      t == taken[c]
  IN  /\ Len(b) < Size
      /\ IF b # << >> /\ Last(b) = "n"
           THEN /\ Plain(Front(b))
                /\ \E e \in {<<"n">>, <<"r">>, <<"r", "n">>} : t = Front(b) \o e
                /\ Last(t) = "r" /\ stream[c] # << >> => Head(stream[c]) # "n"
           ELSE t = b /\ Plain(b) /\ (Len(b) = Size - 1 \/ peer[c] # "up")
GetLineKept == \A c \in Conn : phase[c] = "got" => LineKept(c)

\* cat never sends more than is in the file, all of it unless its last piece
\* reaches the end of the file, and then all but at most that piece.
PageSent ==
  \A c \in Conn : page[c] \in Files =>
    /\ line[c].sent <= PiecesOf(page[c])
    /\ phase[c] = "close" => line[c].sent >= PiecesOf(page[c]) - IF page[c] = "cut" THEN 1 ELSE 0

\* cat's comment: `Put the entire contents of a file out on a socket`.
WholePageSent ==
  \A c \in Conn : phase[c] = "close" /\ page[c] \in Files => line[c].sent = PiecesOf(page[c])

\* A request is answered and its connection closed, whatever the other clients
\* do, unless its client stops reading (nty_send then waits for good), the method
\* is unknown (the connection is left open), the process ends, or the page is not
\* there: then get_line waits for headers, though nty_recv may have read them all,
\* and the client for its answer.
Finishes ==
  \A c \in Conn :
    \/ <>[](waits[c] = "yes")
    \/ (phase[c] = "recv" /\ stream[c] # << >>) ~>
         \/ exited \/ phase[c] = "none"
         \/ phase[c] = "left" /\ page[c] = "method"
         \/ phase[c] \in {"line", "peek"} /\ page[c] = "none" /\ peer[c] = "up"
=============================================================================
