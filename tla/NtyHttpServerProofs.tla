------------------------ MODULE NtyHttpServerProofs ------------------------
(***************************************************************************)
(* What get_line and cat of nty_http_server.c do, for every number of      *)
(* connections, every size of buffer, every page and whatever the clients  *)
(* send: proofs about NtyHttpServer.                                       *)
(*                                                                         *)
(* GetLineKept speaks of the end of a call of get_line and PageSent of the *)
(* end of cat.  Neither is inductive: LineInv says what the string and the *)
(* bytes read have in common while the call waits for more, and CatInv     *)
(* where a page stands between two calls of nty_send.                      *)
(***************************************************************************)
EXTENDS NtyHttpServer, TLAPS, SequenceTheorems

\* get_line between two bytes: all bytes read are stored, and after a CR all but it
LineAt(c) ==
  /\ phase[c] \in {"line", "peek", "take", "got"} => stream[c] \in Seq({"x", "r", "n"})
  /\ phase[c] \in {"line", "peek", "take"} => Plain(buf[c]) /\ Len(buf[c]) < Size - 1
  /\ phase[c] = "line" => taken[c] = buf[c]
  /\ phase[c] \in {"peek", "take"} => taken[c] = Append(buf[c], "r")
  /\ phase[c] = "take" => IF stream[c] = << >> THEN peer[c] # "up" ELSE Head(stream[c]) = "n"
  /\ phase[c] \notin {"line", "peek", "take", "got"} => buf[c] = << >> /\ taken[c] = << >>
  /\ phase[c] = "got" => LineKept(c)

\* What cat sends of a file
SentOf(p) == IF p = "cut" THEN Pieces - 1 ELSE PiecesOf(p)

\* cat between two calls of nty_send: what was read is sent, but for the last piece
CatAt(c) ==
  /\ phase[c] \in {"line", "peek", "take", "got", "404"} => page[c] = "none"
  /\ phase[c] = "open" => page[c] \in Files \cup {"noindex"}
  /\ phase[c] = "headers" => page[c] \in Files
  /\ phase[c] = "cat" =>
       /\ page[c] \in Files
       /\ line[c].read = line[c].sent + 1
       /\ line[c].sent <= SentOf(page[c])
  /\ phase[c] = "close" => page[c] = "none" \/ line[c].sent = SentOf(page[c])
  /\ phase[c] \notin {"cat", "close"} => line[c].sent = 0

LineInv == \A c \in Conn : LineAt(c)
CatInv == \A c \in Conn : CatAt(c)
Inv == TypeOK /\ LineInv /\ CatInv

-----------------------------------------------------------------------------
(* Storing a byte at the end of a string *)

LEMMA StoredFacts ==
  ASSUME NEW S, NEW s \in Seq(S), NEW b \in S
  PROVE  /\ Append(s, b) \in Seq(S) /\ Append(s, b) # << >>
         /\ Len(s) \in Nat /\ Len(Append(s, b)) = Len(s) + 1
         /\ Front(Append(s, b)) = s /\ Last(Append(s, b)) = b
         /\ Append(s, b) = s \o <<b>>
         /\ Plain(s) /\ b \notin {"r", "n"} => Plain(Append(s, b))
<1> DEFINE t == Append(s, b)
<1>1. /\ t \in Seq(S) /\ Len(s) \in Nat /\ Len(t) = Len(s) + 1
      /\ \A i \in 1..Len(s) : t[i] = s[i]
      /\ t[Len(s) + 1] = b
  OBVIOUS
<1>2. t # << >>
  <2>1. Len(<< >>) = 0
    OBVIOUS
  <2>2. Len(t) # 0
    BY <1>1
  <2> HIDE DEF t
  <2> QED
    BY ONLY <2>1, <2>2
<1>3. Front(t) = s
  <2>1. Front(t) = SubSeq(t, 1, Len(s))
    BY <1>1 DEF Front
  <2>2. \A i \in 1..Len(s) : t[i] \in S
    BY <1>1
  <2> HIDE DEF t
  <2>3. /\ SubSeq(t, 1, Len(s)) \in Seq(S) /\ Len(SubSeq(t, 1, Len(s))) = Len(s)
        /\ \A i \in 1..Len(s) : SubSeq(t, 1, Len(s))[i] = s[i]
    BY <1>1, <2>2, SubSeqProperties
  <2> QED
    BY <2>1, <2>3, SeqEqual
<1>4. Last(t) = b
  BY <1>1 DEF Last
<1>5. t = s \o <<b>>
  OBVIOUS
<1>6. Plain(s) /\ b \notin {"r", "n"} => Plain(t)
  BY <1>1 DEF Plain
<1> QED
  BY <1>1, <1>2, <1>3, <1>4, <1>5, <1>6

\* A CR and the LF after it
LEMMA CrLfFacts ==
  ASSUME NEW S, NEW s \in Seq(S), "r" \in S, "n" \in S
  PROVE  /\ Append(Append(s, "r"), "n") = s \o <<"r", "n">>
         /\ Last(s \o <<"r", "n">>) = "n"
<1>1. Append(s, "r") \in Seq(S) /\ Len(Append(s, "r")) = Len(s) + 1 /\ Len(s) \in Nat
  OBVIOUS
<1>2. /\ Append(Append(s, "r"), "n") \in Seq(S)
      /\ Len(Append(Append(s, "r"), "n")) = Len(s) + 2
  BY <1>1
<1>3. <<"r", "n">> \in Seq(S) /\ Len(<<"r", "n">>) = 2
  OBVIOUS
<1>4. s \o <<"r", "n">> \in Seq(S) /\ Len(s \o <<"r", "n">>) = Len(s) + 2
  BY <1>3, ConcatProperties
<1>5. ASSUME NEW i \in 1..(Len(s) + 2)
      PROVE  Append(Append(s, "r"), "n")[i] = (s \o <<"r", "n">>)[i]
  BY <1>1, <1>2, <1>3, <1>5
<1>6. Last(s \o <<"r", "n">>) = "n"
  BY <1>1, <1>3, <1>4 DEF Last
<1> QED
  BY <1>1, <1>2, <1>4, <1>5, <1>6, SeqEqual

-----------------------------------------------------------------------------
(* One step is of one connection *)

LEMMA StepAt ==
  ASSUME LineInv, CatInv, NEW c \in Conn, LineAt(c)', CatAt(c)',
         \A d \in Conn \ {c} :
           /\ phase'[d] = phase[d] /\ stream'[d] = stream[d] /\ peer'[d] = peer[d]
           /\ page'[d] = page[d] /\ buf'[d] = buf[d] /\ taken'[d] = taken[d]
           /\ line'[d] = line[d]
  PROVE  LineInv' /\ CatInv'
<1>1. ASSUME NEW d \in Conn \ {c} PROVE LineAt(d)'
  <2>1. LineAt(d) /\ (LineKept(d) => LineKept(d)')
    BY <1>1 DEF LineInv, LineKept
  <2> QED
    BY <1>1, <2>1 DEF LineAt
<1>2. ASSUME NEW d \in Conn \ {c} PROVE CatAt(d)'
  BY <1>2 DEF CatInv, CatAt
<1> QED
  BY <1>1, <1>2 DEF LineInv, CatInv

\* The steps that neither read a line nor follow the lines of a page
LEMMA OtherSteps ==
  ASSUME Inv, NEW c \in Conn,
         \/ Accepts(c) \/ ErrorDie(c) \/ Unimplemented(c) \/ NotFound(c) \/ FcloseNull(c)
         \/ SigPipe(c) \/ Connects(c) \/ Asks(c) \/ Closes(c) \/ SendWaits(c) \/ Drains(c)
         \/ Opens(c)
  PROVE  Inv'
<1> USE HttpAssumption DEF Inv, To, SendDone, clientVars, lineVars
<1>1. TypeOK'
  <2>1. CASE Asks(c)
    BY <2>1 DEF TypeOK, Asks
  <2>2. CASE Closes(c)
    BY <2>2 DEF TypeOK, Closes, Requests
  <2>3. CASE ErrorDie(c) \/ FcloseNull(c) \/ SigPipe(c)
    BY <2>3 DEF TypeOK, ErrorDie, FcloseNull, SigPipe
  <2>4. CASE Accepts(c) \/ Connects(c) \/ Opens(c)
    BY <2>4 DEF TypeOK, Accepts, Connects, Opens
  <2>5. CASE Unimplemented(c) \/ NotFound(c)
    BY <2>5 DEF TypeOK, Unimplemented, NotFound
  <2>6. CASE SendWaits(c) \/ Drains(c)
    BY <2>6 DEF TypeOK, SendWaits, Drains
  <2> QED
    BY <2>1, <2>2, <2>3, <2>4, <2>5, <2>6
<1>2. LineAt(c) /\ CatAt(c)
  BY DEF LineInv, CatInv
<1>3. /\ LineAt(c)' /\ CatAt(c)'
      /\ \A d \in Conn \ {c} :
           /\ phase'[d] = phase[d] /\ stream'[d] = stream[d] /\ peer'[d] = peer[d]
           /\ page'[d] = page[d] /\ buf'[d] = buf[d] /\ taken'[d] = taken[d]
           /\ line'[d] = line[d]
  <2>1. CASE Asks(c)
    BY <1>2, <2>1 DEF TypeOK, Asks, LineAt, CatAt
  <2>2. CASE Closes(c)
    BY <1>2, <2>2 DEF TypeOK, Closes, LineAt, CatAt
  <2>3. CASE ErrorDie(c) \/ FcloseNull(c) \/ SigPipe(c) \/ SendWaits(c) \/ Drains(c)
    <3>1. UNCHANGED <<phase, clientVars, page, lineVars, line>>
      BY <2>3 DEF ErrorDie, FcloseNull, SigPipe, SendWaits, Drains
    <3>2. LineKept(c) => LineKept(c)'
      BY <3>1 DEF LineKept
    <3> QED
      BY <1>2, <3>1, <3>2 DEF LineAt, CatAt
  <2>4. CASE Accepts(c) \/ Unimplemented(c) \/ NotFound(c) \/ Connects(c) \/ Opens(c)
    <3>1. PICK ph \in {"recv", "left", "close", "queued", "headers", "nofile"} :
            /\ phase' = [phase EXCEPT ![c] = ph]
            /\ phase[c] \in {"none", "queued", "501", "404", "open"}
            /\ ph = "close" => phase[c] = "404"
            /\ ph = "headers" => phase[c] = "open" /\ page[c] # "noindex"
      BY <2>4 DEF Accepts, Unimplemented, NotFound, Connects, Opens
    <3>2. UNCHANGED <<clientVars, page, lineVars, line>>
      BY <2>4 DEF Accepts, Unimplemented, NotFound, Connects, Opens
    <3>3. LineAt(c)'
      BY <1>2, <3>1, <3>2 DEF TypeOK, LineAt
    <3>4. CatAt(c)'
      BY <1>2, <3>1, <3>2 DEF TypeOK, CatAt
    <3> QED
      BY <3>1, <3>2, <3>3, <3>4 DEF TypeOK
  <2> QED
    BY <2>1, <2>2, <2>3, <2>4
<1> QED
  BY <1>1, <1>3, StepAt

\* The request is read: get_line begins with an empty string, cat with no line sent
LEMMA RoutedSteps ==
  ASSUME Inv, NEW c \in Conn, Receives(c) \/ ReceivesNothing(c) PROVE Inv'
<1> USE HttpAssumption DEF Inv
<1>1. PICK r \in Requests, n \in {0, 1} : phase[c] = "recv" /\ Route(c, r, n)
  BY DEF Receives, ReceivesNothing
<1>2. /\ UNCHANGED <<exited, sent, peer, lineVars, line, waits>> /\ stream'[c] = << >>
      /\ stream' = [stream EXCEPT ![c] = << >>]
  BY DEF TypeOK, Receives, ReceivesNothing, clientVars
<1>3. PICK ph \in {"501", "404", "line", "open"} :
        /\ phase' = [phase EXCEPT ![c] = ph] /\ page' = [page EXCEPT ![c] = r]
        /\ ph = "501" <=> r = "method"
        /\ ph \in {"404", "line"} <=> r = "none"
  BY <1>1 DEF Route, To
<1>4. TypeOK'
  BY <1>2, <1>3 DEF TypeOK, lineVars
<1>5. LineAt(c) /\ CatAt(c)
  BY DEF LineInv, CatInv
<1>6. CatAt(c)'
  BY <1>1, <1>2, <1>3, <1>5 DEF TypeOK, CatAt, Requests
<1>7. buf[c] = << >> /\ taken[c] = << >> /\ Plain(<< >>) /\ Len(<< >>) = 0
  BY <1>1, <1>5 DEF LineAt, Plain
<1>8. LineAt(c)'
  BY <1>2, <1>3, <1>7 DEF TypeOK, LineAt, lineVars
<1> QED
  BY <1>2, <1>3, <1>4, <1>6, <1>8, StepAt DEF TypeOK, lineVars

\* headers and cat
LEMMA CatSteps ==
  ASSUME Inv, NEW c \in Conn, SendsHeaders(c) \/ CatSends(c) \/ CatEnds(c) PROVE Inv'
<1> USE HttpAssumption DEF Inv
<1>1. LineAt(c) /\ CatAt(c) /\ line[c] \in [read : Nat, sent : Nat]
  BY DEF LineInv, CatInv, TypeOK
<1>2. /\ UNCHANGED <<exited, clientVars, page, lineVars>>
      /\ phase[c] \in {"headers", "cat"} /\ phase'[c] \in {"cat", "close"}
      /\ phase' = [phase EXCEPT ![c] = phase'[c]]
  BY DEF TypeOK, SendsHeaders, CatSends, CatEnds, To
<1>3. /\ line'[c] \in [read : Nat, sent : Nat]
      /\ line' = [line EXCEPT ![c] = line'[c]]
  BY <1>1 DEF TypeOK, SendsHeaders, CatSends, CatEnds
<1>4. TypeOK'
  <2> DEFINE Phases == {"none", "queued", "recv", "line", "peek", "take", "got", "501", "404",
                        "left", "open", "nofile", "headers", "cat", "close"}
  <2>1. phase' \in [Conn -> Phases]
    <3>1. phase \in [Conn -> Phases] /\ phase'[c] \in Phases
      BY <1>2 DEF TypeOK
    <3>2. phase' = [phase EXCEPT ![c] = phase'[c]]
      BY <1>2
    <3> HIDE DEF Phases
    <3> QED
      BY ONLY <3>1, <3>2
  <2>2. line' \in [Conn -> [read : Nat, sent : Nat]]
    BY <1>3 DEF TypeOK
  <2>3. waits' \in [Conn -> {"no", "yes", "over"}]
    <3>1. waits' \in {waits, [waits EXCEPT ![c] = "no"]}
      BY DEF SendsHeaders, CatSends, CatEnds, SendDone
    <3>2. waits \in [Conn -> {"no", "yes", "over"}]
      BY DEF TypeOK
    <3> QED
      BY ONLY <3>1, <3>2
  <2> QED
    BY <1>2, <2>1, <2>2, <2>3 DEF TypeOK, clientVars, lineVars
<1>5. LineAt(c)'
  BY <1>1, <1>2 DEF LineAt, lineVars
<1>6. CatAt(c)'
  <2>1. CASE SendsHeaders(c)
    <3>1. page[c] \in Files => 0 <= SentOf(page[c])
      BY DEF SentOf, PiecesOf
    <3> QED
      BY <1>1, <2>1, <3>1 DEF TypeOK, SendsHeaders, To, CatAt
  <2>2. CASE CatSends(c)
    <3>1. /\ phase' = phase /\ page' = page /\ phase[c] = "cat"
          /\ line'[c].read = line[c].read + 1 /\ line'[c].sent = line[c].sent + 1
          /\ ~Feof(page[c], line[c].read)
      BY <1>1, <2>2 DEF TypeOK, CatSends, SendWorks, Sending
    <3>2. /\ page[c] \in Files /\ line[c].read = line[c].sent + 1
          /\ line[c].sent <= SentOf(page[c]) /\ line[c].sent \in Nat
      BY <1>1, <3>1 DEF CatAt
    <3>3. line[c].sent + 1 <= SentOf(page[c])
      BY <3>1, <3>2 DEF Feof, SentOf, PiecesOf
    <3> QED
      BY <1>1, <3>1, <3>2, <3>3 DEF CatAt
  <2>3. CASE CatEnds(c)
    <3>1. /\ page[c] \in Files /\ line[c].read = line[c].sent + 1
          /\ line[c].sent <= SentOf(page[c]) /\ line[c].sent \in Nat
          /\ Feof(page[c], line[c].read)
      BY <1>1, <2>3 DEF CatEnds, CatAt
    <3>2. line[c].sent = SentOf(page[c])
      BY <3>1 DEF Feof, SentOf, PiecesOf
    <3> QED
      BY <1>1, <2>3, <3>1, <3>2 DEF TypeOK, CatEnds, To, CatAt
  <2> QED
    BY <2>1, <2>2, <2>3
<1> QED
  BY <1>2, <1>3, <1>4, <1>5, <1>6, StepAt DEF TypeOK, clientVars, lineVars

-----------------------------------------------------------------------------
(* get_line *)

\* A byte that is stored, after e was read and before rest is
LEMMA StoresKeeps ==
  ASSUME Inv, NEW c \in Conn, NEW b \in {"x", "n"}, Stores(c, b),
         phase[c] \in {"line", "peek", "take"}, peer' = peer, stream'[c] \in Seq({"x", "r", "n"}),
         NEW e \in {<<"x">>, <<"n">>, <<"r">>, <<"r", "n">>}, taken'[c] = buf[c] \o e,
         IF b = "x" THEN e = <<"x">> ELSE e # <<"x">>,
         e = <<"r">> /\ stream'[c] # << >> => Head(stream'[c]) # "n"
  PROVE  LineAt(c)'
<1> USE HttpAssumption DEF Inv
<1> DEFINE s == buf[c]
<1>1. LineAt(c) /\ s \in Seq({"x", "n"}) /\ Plain(s) /\ Len(s) < Size - 1 /\ Len(s) \in Nat
  BY DEF LineInv, TypeOK, LineAt
<1>2. /\ buf'[c] = Append(s, b)
      /\ phase'[c] = IF b = "n" \/ Len(s) + 1 = Size - 1 THEN "got" ELSE "line"
  BY DEF Stores, To, TypeOK
<1> HIDE DEF s
<1>3. /\ Append(s, b) # << >> /\ Len(Append(s, b)) = Len(s) + 1
      /\ Front(Append(s, b)) = s /\ Last(Append(s, b)) = b /\ Append(s, b) = s \o <<b>>
      /\ b = "x" => Plain(Append(s, b))
  BY <1>1, StoredFacts
<1>4. CASE b = "n"
  <2>1. e \in {<<"n">>, <<"r">>, <<"r", "n">>}
    BY <1>4
  <2>2. Last(s \o e) = "r" => e = <<"r">>
    <3> DEFINE Bytes == {"x", "r", "n"}
    <3>1. s \in Seq(Bytes) /\ "n" \in Bytes /\ "r" \in Bytes
      BY <1>1, SeqMonotonic
    <3> HIDE DEF Bytes, Inv
    <3>2. CASE e = <<"n">>
      <4>1. Last(Append(s, "n")) = "n" /\ Append(s, "n") = s \o <<"n">>
        BY <3>1, StoredFacts
      <4> QED
        BY <3>2, <4>1
    <3>3. CASE e = <<"r", "n">>
      BY <3>1, <3>3, CrLfFacts
    <3> QED
      BY <2>1, <3>2, <3>3
  <2>3. LineKept(c)'
    <3>1. Len(buf'[c]) < Size
      BY <1>1, <1>2, <1>3
    <3>2. taken'[c] = Front(buf'[c]) \o e /\ Plain(Front(buf'[c]))
      BY <1>1, <1>2, <1>3 DEF s
    <3>3. buf'[c] # << >> /\ Last(buf'[c]) = "n"
      BY <1>2, <1>3, <1>4
    <3>4. Last(taken'[c]) = "r" /\ stream'[c] # << >> => Head(stream'[c]) # "n"
      BY <2>2 DEF s
    <3> QED
      BY <2>1, <3>1, <3>2, <3>3, <3>4 DEF LineKept
  <2> QED
    BY <1>2, <1>4, <2>3 DEF LineAt
<1>5. CASE b = "x"
  <2>1. buf'[c] = Append(s, b) /\ taken'[c] = buf'[c] /\ Plain(buf'[c])
    BY <1>2, <1>3, <1>5 DEF s
  <2>2. Last(buf'[c]) # "n" /\ Len(buf'[c]) = Len(s) + 1
    BY <1>2, <1>3, <1>5
  <2>3. CASE Len(s) + 1 = Size - 1
    <3>1. LineKept(c)'
      BY <1>1, <2>1, <2>2, <2>3 DEF LineKept
    <3> QED
      BY <1>2, <2>3, <3>1 DEF LineAt
  <2>4. CASE Len(s) + 1 # Size - 1
    <3>1. Len(buf'[c]) < Size - 1
      BY <1>1, <2>2, <2>4
    <3>2. phase'[c] = "line"
      BY <1>2, <1>5, <2>4
    <3> QED
      BY <2>1, <3>1, <3>2 DEF LineAt
  <2> QED
    BY <2>3, <2>4
<1> QED
  BY <1>4, <1>5

LEMMA ReadsByteInv ==
  ASSUME Inv, NEW c \in Conn, ReadsByte(c) PROVE Inv'
<1> USE HttpAssumption DEF Inv
<1> DEFINE b == Head(stream[c])
<1>1. /\ phase[c] = "line" /\ stream[c] # << >>
      /\ taken' = [taken EXCEPT ![c] = Append(@, b)]
      /\ stream' = [stream EXCEPT ![c] = Tail(@)]
      /\ UNCHANGED <<exited, sent, peer, page, line, waits>>
  BY DEF ReadsByte
<1>2. LineAt(c) /\ CatAt(c)
  BY DEF LineInv, CatInv
<1>3. stream[c] \in Seq({"x", "r", "n"})
  BY <1>1, <1>2 DEF LineAt
<1>4. b \in {"x", "r", "n"} /\ Tail(stream[c]) \in Seq({"x", "r", "n"})
  BY <1>1, <1>3
<1>5. \/ b = "r" /\ To(c, "peek") /\ UNCHANGED buf
      \/ b # "r" /\ Stores(c, b)
  BY DEF ReadsByte
<1> HIDE DEF b
<1>6. taken[c] = buf[c] /\ buf[c] \in Seq({"x", "n"}) /\ page[c] = "none"
  BY <1>1, <1>2 DEF LineAt, CatAt, TypeOK
<1>7. /\ \A d \in Conn \ {c} :
           /\ phase'[d] = phase[d] /\ stream'[d] = stream[d] /\ peer'[d] = peer[d]
           /\ page'[d] = page[d] /\ buf'[d] = buf[d] /\ taken'[d] = taken[d]
           /\ line'[d] = line[d]
      /\ phase'[c] \in {"line", "peek", "got"}
  BY <1>1, <1>5 DEF TypeOK, To, Stores
<1>8. CatAt(c)'
  BY <1>1, <1>2, <1>6, <1>7 DEF CatAt
<1>9. stream'[c] = Tail(stream[c]) /\ taken'[c] = Append(taken[c], b)
  BY <1>1 DEF TypeOK
<1>10. LineAt(c)'
  <2>1. CASE b = "r"
    <3>1. /\ phase'[c] = "peek" /\ buf' = buf /\ taken'[c] = Append(buf[c], "r")
          /\ stream'[c] \in Seq({"x", "r", "n"})
      BY <1>4, <1>5, <1>6, <1>9, <2>1 DEF To, TypeOK
    <3>2. Plain(buf[c]) /\ Len(buf[c]) < Size - 1
      BY <1>1, <1>2 DEF LineAt
    <3> QED
      BY <3>1, <3>2 DEF LineAt
  <2>2. CASE b # "r"
    <3>1. b \in {"x", "n"} /\ Stores(c, b)
      BY <1>4, <1>5, <2>2
    <3>2. /\ <<b>> \in {<<"x">>, <<"n">>, <<"r">>, <<"r", "n">>}
          /\ IF b = "x" THEN <<b>> = <<"x">> ELSE <<b>> # <<"x">>
          /\ <<b>> # <<"r">>
      BY <3>1
    <3>3. taken'[c] = buf[c] \o <<b>>
      BY <1>6, <1>9, <3>1, StoredFacts
    <3>4. stream'[c] \in Seq({"x", "r", "n"}) /\ peer' = peer /\ phase[c] \in {"line", "peek", "take"}
      BY <1>1, <1>4, <1>9
    <3> HIDE DEF Inv
    <3> QED
      BY <3>1, <3>2, <3>3, <3>4, StoresKeeps
  <2> QED
    BY <2>1, <2>2
<1>11. TypeOK'
  <2>1. stream' \in [Conn -> Seq({"Q", "x", "r", "n"})]
    BY <1>1, <1>4 DEF TypeOK
  <2>2. taken' \in [Conn -> Seq({"x", "r", "n"})]
    BY <1>1, <1>4 DEF TypeOK
  <2>3. buf' \in [Conn -> Seq({"x", "n"})]
    <3>1. CASE UNCHANGED buf
      BY <3>1 DEF TypeOK
    <3>2. CASE b # "r" /\ Stores(c, b)
      <4>1. Append(buf[c], b) \in Seq({"x", "n"})
        BY <1>4, <1>6, <3>2
      <4> QED
        BY <3>2, <4>1 DEF TypeOK, Stores
    <3> QED
      BY <1>5, <3>1, <3>2
  <2>4. phase' \in [Conn -> {"none", "queued", "recv", "line", "peek", "take", "got", "501",
                             "404", "left", "open", "nofile", "headers", "cat", "close"}]
    BY <1>5 DEF TypeOK, Stores, To
  <2> QED
    BY <1>1, <2>1, <2>2, <2>3, <2>4 DEF TypeOK
<1> QED
  BY <1>7, <1>8, <1>10, <1>11, StepAt

\* The LF after a CR is seen, or nothing or another byte is and the line ends
LEMMA PeeksInv ==
  ASSUME Inv, NEW c \in Conn, Peeks(c) PROVE Inv'
<1> USE HttpAssumption DEF Inv
<1>1. phase[c] = "peek" /\ UNCHANGED <<exited, clientVars, page, taken, line, waits>>
  BY DEF Peeks
<1>2. LineAt(c) /\ CatAt(c)
  BY DEF LineInv, CatInv
<1>3. /\ stream[c] \in Seq({"x", "r", "n"}) /\ buf[c] \in Seq({"x", "n"})
      /\ taken[c] = Append(buf[c], "r") /\ page[c] = "none" /\ line[c].sent = 0
  BY <1>1, <1>2 DEF LineAt, CatAt, TypeOK
<1>4. \/ /\ stream[c] # << >> /\ Head(stream[c]) = "n" /\ To(c, "take") /\ buf' = buf
      \/ ~(stream[c] # << >> /\ Head(stream[c]) = "n") /\ Stores(c, "n")
  BY DEF Peeks
<1>5. /\ \A d \in Conn \ {c} :
           /\ phase'[d] = phase[d] /\ stream'[d] = stream[d] /\ peer'[d] = peer[d]
           /\ page'[d] = page[d] /\ buf'[d] = buf[d] /\ taken'[d] = taken[d]
           /\ line'[d] = line[d]
      /\ phase'[c] \in {"take", "got"}
  BY <1>1, <1>4 DEF TypeOK, To, Stores, clientVars
<1>6. CatAt(c)'
  BY <1>1, <1>3, <1>5 DEF CatAt
<1>7. LineAt(c)'
  <2>1. CASE stream[c] # << >> /\ Head(stream[c]) = "n" /\ To(c, "take") /\ buf' = buf
    <3>1. phase'[c] = "take" /\ UNCHANGED <<clientVars, taken, buf>>
      BY <1>1, <2>1 DEF TypeOK, To
    <3> QED
      BY <1>1, <1>2, <2>1, <3>1 DEF LineAt, clientVars
  <2>2. CASE ~(stream[c] # << >> /\ Head(stream[c]) = "n") /\ Stores(c, "n")
    <3>1. taken'[c] = buf[c] \o <<"r">> /\ stream' = stream /\ peer' = peer
      <4>1. buf[c] \in Seq({"x", "r", "n"})
        BY <1>3, SeqMonotonic
      <4>2. taken'[c] = Append(buf[c], "r") /\ stream' = stream /\ peer' = peer
        BY <1>1, <1>3 DEF clientVars
      <4>3. Append(buf[c], "r") = buf[c] \o <<"r">>
        BY <4>1, StoredFacts
      <4> QED
        BY <4>2, <4>3
    <3>2. <<"r">> # <<"x">>
      OBVIOUS
    <3>3. stream'[c] \in Seq({"x", "r", "n"}) /\ (stream'[c] # << >> => Head(stream'[c]) # "n")
      BY <1>3, <2>2, <3>1
    <3> HIDE DEF Inv
    <3> QED
      BY <1>1, <2>2, <3>1, <3>2, <3>3, StoresKeeps
  <2> QED
    BY <1>4, <2>1, <2>2
<1>8. TypeOK'
  <2>1. buf' \in [Conn -> Seq({"x", "n"})]
    <3>1. Append(buf[c], "n") \in Seq({"x", "n"})
      BY <1>3
    <3> QED
      BY <1>4, <3>1 DEF TypeOK, Stores
  <2>2. phase' \in [Conn -> {"none", "queued", "recv", "line", "peek", "take", "got", "501",
                             "404", "left", "open", "nofile", "headers", "cat", "close"}]
    BY <1>4 DEF TypeOK, Stores, To
  <2> QED
    BY <1>1, <2>1, <2>2 DEF TypeOK, clientVars
<1> QED
  BY <1>5, <1>6, <1>7, <1>8, StepAt

\* The LF is read, or the client has reset since
LEMMA TakesInv ==
  ASSUME Inv, NEW c \in Conn, Takes(c) PROVE Inv'
<1> USE HttpAssumption DEF Inv
<1>1. LineAt(c) /\ CatAt(c)
  BY DEF LineInv, CatInv
<1>2. /\ phase[c] = "take" /\ UNCHANGED <<exited, sent, peer, page, line, waits>>
      /\ stream[c] # << >> => Head(stream[c]) = "n"
  BY <1>1 DEF Takes, LineAt
<1>3. /\ stream[c] \in Seq({"x", "r", "n"}) /\ buf[c] \in Seq({"x", "n"})
      /\ taken[c] = Append(buf[c], "r") /\ page[c] = "none" /\ line[c].sent = 0
  BY <1>1, <1>2 DEF LineAt, CatAt, TypeOK
<1>4. /\ Stores(c, "n")
      /\ \/ /\ stream[c] # << >> /\ stream' = [stream EXCEPT ![c] = Tail(@)]
            /\ taken' = [taken EXCEPT ![c] = Append(@, "n")]
         \/ stream[c] = << >> /\ stream' = stream /\ taken' = taken
  BY <1>2 DEF Takes
<1>5. /\ \A d \in Conn \ {c} :
           /\ phase'[d] = phase[d] /\ stream'[d] = stream[d] /\ peer'[d] = peer[d]
           /\ page'[d] = page[d] /\ buf'[d] = buf[d] /\ taken'[d] = taken[d]
           /\ line'[d] = line[d]
      /\ phase'[c] = "got"
  BY <1>2, <1>4 DEF TypeOK, To, Stores
<1>6. CatAt(c)'
  BY <1>2, <1>3, <1>5 DEF CatAt
<1>7. stream'[c] \in Seq({"x", "r", "n"})
  <2>1. stream[c] # << >> => Tail(stream[c]) \in Seq({"x", "r", "n"})
    BY <1>3
  <2> QED
    BY <1>3, <1>4, <2>1 DEF TypeOK
<1>8. buf[c] \in Seq({"x", "r", "n"})
  BY <1>3, SeqMonotonic
<1>9. LineAt(c)'
  <2>1. CASE taken' = [taken EXCEPT ![c] = Append(@, "n")]
    <3>1. taken'[c] = Append(Append(buf[c], "r"), "n")
      BY <1>3, <2>1 DEF TypeOK
    <3>2. taken'[c] = buf[c] \o <<"r", "n">>
      BY <1>8, <3>1, CrLfFacts
    <3>3. <<"r", "n">> # <<"x">> /\ <<"r", "n">> # <<"r">>
      OBVIOUS
    <3> HIDE DEF Inv
    <3> QED
      BY <1>2, <1>4, <1>7, <3>2, <3>3, StoresKeeps
  <2>2. CASE stream[c] = << >> /\ stream' = stream /\ taken' = taken
    <3>1. taken'[c] = buf[c] \o <<"r">>
      BY <1>3, <1>8, <2>2, StoredFacts
    <3>2. <<"r">> # <<"x">>
      OBVIOUS
    <3> HIDE DEF Inv
    <3> QED
      BY <1>2, <1>4, <1>7, <2>2, <3>1, <3>2, StoresKeeps
  <2> QED
    BY <1>4, <2>1, <2>2
<1>10. TypeOK'
  <2>1. stream' \in [Conn -> Seq({"Q", "x", "r", "n"})]
    <3>1. stream[c] # << >> => Tail(stream[c]) \in Seq({"Q", "x", "r", "n"})
      BY DEF TypeOK
    <3> QED
      BY <1>4, <3>1 DEF TypeOK
  <2>2. taken' \in [Conn -> Seq({"x", "r", "n"})]
    <3>1. Append(taken[c], "n") \in Seq({"x", "r", "n"})
      BY DEF TypeOK
    <3> QED
      BY <1>4, <3>1 DEF TypeOK
  <2>3. buf' \in [Conn -> Seq({"x", "n"})]
    BY <1>4 DEF TypeOK, Stores
  <2>4. phase' \in [Conn -> {"none", "queued", "recv", "line", "peek", "take", "got", "501",
                             "404", "left", "open", "nofile", "headers", "cat", "close"}]
    BY <1>4 DEF TypeOK, Stores, To
  <2> QED
    BY <1>2, <2>1, <2>2, <2>3, <2>4 DEF TypeOK
<1> QED
  BY <1>5, <1>6, <1>9, <1>10, StepAt

\* recv gives nothing; the next line; more bytes; the client goes
LEMMA LineSteps ==
  ASSUME Inv, NEW c \in Conn,
         \/ LineCut(c) \/ GotLine(c) \/ Leaves(c)
         \/ \E b \in {"x", "r", "n"} : SendsByte(c, b)
  PROVE  Inv'
<1> USE HttpAssumption DEF Inv, To, clientVars, lineVars
<1>1. LineAt(c) /\ CatAt(c) /\ buf[c] \in Seq({"x", "n"})
  BY DEF LineInv, CatInv, TypeOK
<1>2. CASE LineCut(c)
  <2>1. /\ phase[c] = "line" /\ phase' = [phase EXCEPT ![c] = "got"] /\ peer[c] # "up"
        /\ UNCHANGED <<exited, clientVars, page, lineVars, line, waits>>
    BY <1>2 DEF LineCut
  <2>2. TypeOK' /\ CatAt(c)' /\ phase'[c] = "got" /\ page[c] = "none"
    BY <1>1, <2>1 DEF TypeOK, CatAt
  <2>3. /\ taken[c] = buf[c] /\ Plain(buf[c]) /\ Len(buf[c]) < Size - 1 /\ Len(buf[c]) \in Nat
        /\ stream[c] \in Seq({"x", "r", "n"})
    BY <1>1, <2>1 DEF LineAt
  <2>4. buf[c] # << >> => Last(buf[c]) # "n"
    BY <1>1, <2>3 DEF Plain, Last
  <2>5. Len(buf[c]) < Size
    BY <2>3
  <2>6. LineKept(c)'
    BY <2>1, <2>3, <2>4, <2>5 DEF LineKept
  <2>7. LineAt(c)'
    BY <2>1, <2>2, <2>3, <2>6 DEF LineAt
  <2> QED
    BY <2>1, <2>2, <2>7, StepAt DEF TypeOK
<1>3. CASE GotLine(c)
  <2>1. PICK ph \in {"404", "line"} :
          /\ phase[c] = "got" /\ phase' = [phase EXCEPT ![c] = ph]
          /\ buf' = [buf EXCEPT ![c] = << >>] /\ taken' = [taken EXCEPT ![c] = << >>]
          /\ UNCHANGED <<exited, clientVars, page, line, waits>>
    BY <1>3 DEF GotLine
  <2>2. TypeOK' /\ CatAt(c)'
    BY <1>1, <2>1 DEF TypeOK, CatAt
  <2>3. Plain(<< >>) /\ Len(<< >>) = 0
    BY DEF Plain
  <2>4. LineAt(c)'
    BY <1>1, <2>1, <2>3 DEF TypeOK, LineAt
  <2> QED
    BY <2>1, <2>2, <2>4, StepAt DEF TypeOK
<1>4. CASE Leaves(c)
  <2>1. PICK w \in {"closed", "reset"} :
          /\ peer' = [peer EXCEPT ![c] = w]
          /\ stream' = stream \/ stream' = [stream EXCEPT ![c] = << >>]
          /\ UNCHANGED <<exited, phase, sent, page, lineVars, line, waits>>
    BY <1>4 DEF Leaves
  <2>2. TypeOK' /\ CatAt(c)' /\ peer'[c] # "up"
    <3>1. CatAt(c)' /\ peer'[c] # "up"
      BY <1>1, <2>1 DEF TypeOK, CatAt
    <3>2. CASE stream' = stream
      BY <2>1, <3>1, <3>2 DEF TypeOK
    <3>3. CASE stream' = [stream EXCEPT ![c] = << >>]
      BY <2>1, <3>1, <3>3 DEF TypeOK
    <3> QED
      BY <2>1, <3>1, <3>2, <3>3
  <2>3. stream'[c] \in {stream[c], << >>}
    BY <2>1 DEF TypeOK
  <2>4. LineKept(c) => LineKept(c)'
    BY <2>1, <2>2, <2>3 DEF LineKept
  <2>5. LineAt(c)'
    <3>1. CASE stream'[c] = stream[c]
      BY <1>1, <2>1, <2>2, <2>4, <3>1 DEF LineAt
    <3>2. CASE stream'[c] = << >>
      BY <1>1, <2>1, <2>2, <2>4, <3>2 DEF LineAt
    <3> QED
      BY <2>3, <3>1, <3>2
  <2> QED
    BY <2>1, <2>2, <2>5, StepAt DEF TypeOK
<1>5. ASSUME NEW b \in {"x", "r", "n"}, SendsByte(c, b) PROVE Inv'
  <2>1. /\ phase[c] \in {"line", "peek", "take"} /\ peer[c] = "up"
        /\ stream' = [stream EXCEPT ![c] = Append(@, b)]
        /\ sent[c] < MaxBytes /\ sent' = [sent EXCEPT ![c] = @ + 1]
        /\ UNCHANGED <<exited, phase, peer, page, lineVars, line, waits>>
    BY <1>5 DEF SendsByte
  <2>2. TypeOK' /\ CatAt(c)'
    BY <1>1, <2>1 DEF TypeOK, CatAt
  <2>3. stream'[c] \in Seq({"x", "r", "n"})
    BY <1>1, <2>1 DEF TypeOK, LineAt
  <2>4. stream[c] # << >> => stream'[c] # << >> /\ Head(stream'[c]) = Head(stream[c])
    <3>1. stream'[c] = Append(stream[c], b) /\ stream[c] \in Seq({"x", "r", "n"})
      BY <1>1, <2>1 DEF TypeOK, LineAt
    <3> QED
      BY <3>1
  <2>5. LineAt(c)'
    BY <1>1, <2>1, <2>3, <2>4 DEF LineAt
  <2> QED
    BY <2>1, <2>2, <2>5, StepAt DEF TypeOK
<1> QED
  BY <1>2, <1>3, <1>4, <1>5

-----------------------------------------------------------------------------
LEMMA InvInit == Init => Inv
<1> SUFFICES ASSUME Init PROVE Inv
  OBVIOUS
<1>1. TypeOK
  <2>1. /\ stream \in [Conn -> Seq({"Q", "x", "r", "n"})]
        /\ buf \in [Conn -> Seq({"x", "n"})] /\ taken \in [Conn -> Seq({"x", "r", "n"})]
    BY EmptySeq DEF Init
  <2>2. sent \in [Conn -> 0..MaxBytes] /\ line \in [Conn -> [read : Nat, sent : Nat]]
    BY HttpAssumption DEF Init
  <2>3. page \in [Conn -> Requests]
    BY DEF Init, Requests
  <2> QED
    BY <2>1, <2>2, <2>3 DEF Init, TypeOK
<1>2. LineInv /\ CatInv
  BY DEF Init, LineInv, CatInv, LineAt, CatAt
<1> QED
  BY <1>1, <1>2 DEF Inv

LEMMA InvNext == Inv /\ [Next]_vars => Inv'
<1> SUFFICES ASSUME Inv, [Next]_vars PROVE Inv'
  OBVIOUS
<1>1. ASSUME NEW c \in Conn, Server(c) \/ Client(c) PROVE Inv'
  BY <1>1, OtherSteps, RoutedSteps, CatSteps, ReadsByteInv, PeeksInv, TakesInv, LineSteps
     DEF Server, Request, Client
<1>2. CASE UNCHANGED vars
  BY <1>2 DEF vars, clientVars, lineVars, Inv, TypeOK, LineInv, CatInv, LineAt, CatAt, LineKept
<1> QED
  BY <1>1, <1>2 DEF Next

\* What get_line has stored and read, and where cat stands, at every point where
\* the coroutines of all connections can wait.
THEOREM Invariance == Spec => []Inv
  BY InvInit, InvNext, PTL DEF Spec

\* get_line keeps its comment for every size of its buffer and whatever comes in
\* whatever pieces: LF, CR and CRLF, also cut by the end of the buffer or by a
\* client that goes after the CR, end a line with one LF, and no byte is lost.
THEOREM LinesKept == Spec => []GetLineKept
<1>1. Inv => GetLineKept
  BY DEF Inv, LineInv, LineAt, GetLineKept
<1> QED
  BY <1>1, Invariance, PTL

\* cat never sends more than the file, of any length, all of one whose last piece
\* ends at a newline or a full buffer, and of any other all but the last piece.
THEOREM PagesSent == Spec => []PageSent
<1>1. Inv => PageSent
  <2> SUFFICES ASSUME Inv, NEW c \in Conn, page[c] \in Files
               PROVE  /\ line[c].sent <= PiecesOf(page[c])
                      /\ phase[c] = "close" =>
                           line[c].sent >= PiecesOf(page[c]) - IF page[c] = "cut" THEN 1 ELSE 0
    BY DEF PageSent
  <2>1. CatAt(c) /\ line[c].sent \in Nat /\ page[c] # "none"
    BY DEF Inv, CatInv, TypeOK, Files
  <2>2. \/ phase[c] = "cat" /\ line[c].sent <= SentOf(page[c])
        \/ phase[c] = "close" /\ line[c].sent = SentOf(page[c])
        \/ phase[c] \notin {"cat", "close"} /\ line[c].sent = 0
    BY <2>1 DEF CatAt
  <2> QED
    BY <2>1, <2>2, HttpAssumption DEF SentOf, PiecesOf
<1> QED
  BY <1>1, Invariance, PTL
=============================================================================
