------------------------------- MODULE RpcProofs -------------------------------
(***************************************************************************)
(* Theorems about a client's session and the daemon's end of it, for every *)
(* number of calls and crashes and every choice of the calls that are too  *)
(* large.                                                                  *)
(***************************************************************************)
EXTENDS RpcSession, TLAPS, SequenceTheorems

-----------------------------------------------------------------------------
(* Lemmas about the two pieces of a response *)

Half(c) == <<[of |-> c, last |-> FALSE]>>
Rest(c) == <<[of |-> c, last |-> TRUE]>>

\* What has come and what is on the way of a response that was written in full,
\* and of one that was not, or not yet.
Whole(c) ==
  {<< <<>>, Pieces(c) >>, << Half(c), Rest(c) >>, << Pieces(c), <<>> >>}
Cut(c) ==
  {<< <<>>, <<>> >>, << <<>>, Half(c) >>, << Half(c), <<>> >>}

\* Sequences of one or two elements: Head and Tail.
LEMMA PairHeadTail ==
  ASSUME NEW a, NEW b
  PROVE  /\ Head(<<a, b>>) = a /\ Tail(<<a, b>>) = <<b>>
         /\ Head(<<a>>) = a /\ Tail(<<a>>) = <<>> /\ Append(<<>>, a) = <<a>>
<1>1. Tail(<<a, b>>) = <<b>> OBVIOUS
<1>2. Head(<<a, b>>) = a /\ Head(<<a>>) = a OBVIOUS
<1>3. Tail(<<a>>) = <<>> /\ Append(<<>>, a) = <<a>> OBVIOUS
<1> QED BY <1>1, <1>2, <1>3

\* Sequences of two elements: Append.
LEMMA PairAppend ==
  ASSUME NEW a, NEW b
  PROVE  Append(<<a>>, b) = <<a, b>>
<1> DEFINE S == {a, b}
<1>1. <<a>> \in Seq(S) /\ <<a, b>> \in Seq(S) OBVIOUS
<1>2. Append(<<a>>, b) \in Seq(S) /\ Len(Append(<<a>>, b)) = 2 BY <1>1
<1>3. \A i \in 1 .. 2 : Append(<<a>>, b)[i] = <<a, b>>[i] BY <1>1
<1> QED BY <1>1, <1>2, <1>3, SeqEqual

\* Sequences of two elements: SubSeq.
LEMMA PairSubSeq ==
  ASSUME NEW a, NEW b
  PROVE  /\ SubSeq(<<a, b>>, 1, 2) = <<a, b>> /\ SubSeq(<<a, b>>, 1, 1) = <<a>>
         /\ SubSeq(<<a, b>>, 1, 0) = <<>> /\ SubSeq(<<a, b>>, 3, 2) = <<>>
<1> DEFINE S == {a, b}
<1>1. <<a>> \in Seq(S) /\ <<a, b>> \in Seq(S) OBVIOUS
<1>2. SubSeq(<<a, b>>, 1, 2) = <<a, b>>
  <2>1. /\ SubSeq(<<a, b>>, 1, 2) \in Seq(S) /\ Len(SubSeq(<<a, b>>, 1, 2)) = 2
        /\ \A i \in 1 .. 2 : SubSeq(<<a, b>>, 1, 2)[i] = <<a, b>>[i]
    BY <1>1
  <2> QED BY <1>1, <2>1, SeqEqual
<1>3. SubSeq(<<a, b>>, 1, 1) = <<a>>
  <2>1. /\ SubSeq(<<a, b>>, 1, 1) \in Seq(S) /\ Len(SubSeq(<<a, b>>, 1, 1)) = 1
        /\ \A i \in 1 .. 1 : SubSeq(<<a, b>>, 1, 1)[i] = <<a>>[i]
    BY <1>1
  <2> QED BY <1>1, <2>1, SeqEqual
<1>4. SubSeq(<<a, b>>, 1, 0) = <<>> OBVIOUS
<1>5. SubSeq(<<a, b>>, 3, 2) = <<>> OBVIOUS
<1> QED BY <1>2, <1>3, <1>4, <1>5

\* Appending to an empty buffer.
LEMMA EmptyConcat ==
  ASSUME NEW a, NEW b
  PROVE  <<>> \o <<a, b>> = <<a, b>> /\ <<>> \o <<a>> = <<a>> /\ <<>> \o <<>> = <<>>
<1> DEFINE S == {a, b}
<1>1. <<a>> \in Seq(S) /\ <<a, b>> \in Seq(S) /\ <<>> \in Seq(S) OBVIOUS
<1> QED BY <1>1, ConcatEmptySeq

\* A piece that arrives is taken off what is on the way.
LEMMA RecvPiece ==
  ASSUME NEW c, NEW b, NEW o, o # <<>>
  PROVE  /\ <<b, o>> \in Whole(c) => <<Append(b, Head(o)), Tail(o)>> \in Whole(c)
         /\ <<b, o>> \in Cut(c) => <<Append(b, Head(o)), Tail(o)>> \in Cut(c)
<1> DEFINE h == [of |-> c, last |-> FALSE]
           r == [of |-> c, last |-> TRUE]
<1> HIDE DEF h, r
<1>1. /\ Head(<<h, r>>) = h /\ Tail(<<h, r>>) = <<r>>
      /\ Head(<<h>>) = h /\ Tail(<<h>>) = <<>>
      /\ Head(<<r>>) = r /\ Tail(<<r>>) = <<>>
      /\ Append(<<>>, h) = <<h>>
  BY PairHeadTail
<1>2. Append(<<h>>, r) = <<h, r>> BY PairAppend
<1> QED BY <1>1, <1>2 DEF Whole, Cut, Half, Rest, Pieces, h, r

\* A response is parsed when, and only when, all of it has come, and it is taken whole.
LEMMA ParseWhole ==
  ASSUME NEW c, <<buffer, outq>> \in Whole(c) \cup Cut(c)
  PROVE  /\ Complete <=> buffer = Pieces(c)
         /\ buffer = Pieces(c) =>
              /\ outq = <<>> /\ <<buffer, outq>> \in Whole(c)
              /\ 2 = CHOOSE i \in DOMAIN buffer :
                       buffer[i].last /\ \A j \in 1 .. i - 1 : ~buffer[j].last
<1>1. /\ DOMAIN <<>> = {} /\ DOMAIN Half(c) = 1 .. 1 /\ ~Half(c)[1].last
      /\ DOMAIN Pieces(c) = 1 .. 2
      /\ ~Pieces(c)[1].last /\ Pieces(c)[2].last
  BY DEF Half, Pieces
<1>2. <<>> # Pieces(c) /\ Half(c) # Pieces(c) BY DEF Half, Pieces
<1>3. Pieces(c) # <<>> /\ Rest(c) # <<>> /\ Half(c) # <<>>
  BY DEF Half, Rest, Pieces
<1>4. buffer \in {<<>>, Half(c), Pieces(c)} BY DEF Whole, Cut
<1>5. Complete <=> buffer = Pieces(c)
  <2>1. CASE buffer = <<>> BY <1>1, <1>2, <2>1 DEF Complete
  <2>2. CASE buffer = Half(c) BY <1>1, <1>2, <2>2 DEF Complete
  <2>3. CASE buffer = Pieces(c) BY <1>1, <2>3 DEF Complete
  <2> QED BY <1>4, <2>1, <2>2, <2>3
<1>6. ASSUME buffer = Pieces(c)
      PROVE  /\ outq = <<>> /\ <<buffer, outq>> \in Whole(c)
             /\ 2 = CHOOSE i \in DOMAIN buffer :
                      buffer[i].last /\ \A j \in 1 .. i - 1 : ~buffer[j].last
  <2>1. outq = <<>> BY <1>2, <1>6 DEF Whole, Cut
  <2>2. \A i \in 1 .. 2 :
          buffer[i].last /\ (\A j \in 1 .. i - 1 : ~buffer[j].last) <=> i = 2
    BY <1>1, <1>6
  <2>3. DOMAIN buffer = 1 .. 2 BY <1>1, <1>6
  <2> QED BY <1>6, <2>1, <2>2, <2>3 DEF Whole
<1> QED BY <1>5, <1>6

-----------------------------------------------------------------------------
(* The inductive invariant *)

\* The connection.  The client has a call on the way, or being worked on, or its
\* response, or a part of it after the daemon's end is closed; nothing is left over
\* on an open connection when it begins the next.
LinkInv ==
  /\ ~sock => ~open /\ buffer = <<>>
  /\ pc \in {"sending", "reading"} => sock
  /\ ~open => inq = <<>> /\ serving = None
  /\ open /\ pc # "reading" =>
       inq = <<>> /\ serving = None /\ buffer = <<>> /\ outq = <<>>
  /\ pc = "reading" => <<buffer, outq>> \in Whole(call) \cup Cut(call)
  /\ open /\ pc = "reading" =>
       \/ /\ <<buffer, outq>> = << <<>>, <<>> >>
          /\ \/ inq = <<call>> /\ serving = None
             \/ inq = <<>> /\ serving = call
       \/ <<buffer, outq>> \in Whole(call) /\ inq = <<>> /\ serving = None

\* The calls.  One is in progress at most, the ones before it have ended; a call is
\* carried out between the sending of its request and its response.
CallInv ==
  /\ pc # "idle" => call \in Call
  /\ \A c \in Call : state[c] = "asked" <=> c = call /\ pc # "idle"
  /\ \A c \in Call : c > call <=> state[c] = "new"
DoneInv ==
  /\ done \in [Call -> 0 .. 1]
  /\ \A c \in Call : c > call \/ c \in Large => done[c] = 0
  /\ pc \in {"connecting", "sending"} \/ inq # <<>> \/ serving # None => done[call] = 0
  /\ pc = "reading" /\ <<buffer, outq>> \in Whole(call) /\ call \notin Large =>
       done[call] = 1
GotInv ==
  /\ got \in [Call -> {<<>>} \cup {Pieces(c) : c \in Call}]
  /\ AnswerMatches

\* While no call has failed on its socket, the daemon is up, and its end is closed
\* only in answer to a request that is too large.
SoundInv ==
  /\ sound => up
  /\ sock /\ ~open /\ sound => pc = "reading" /\ call \in Large

RpcInv == TypeOK /\ LinkInv /\ CallInv /\ DoneInv /\ GotInv /\ SoundInv

\* The invariant holds at first.
LEMMA RpcInit == Init => RpcInv
<1> SUFFICES ASSUME Init PROVE RpcInv
  OBVIOUS
<1>1. TypeOK
  <2>1. {up, sock, open, sound} \subseteq BOOLEAN BY Zenon DEF Init
  <2> QED BY <2>1, RpcAssumption DEF Init, TypeOK, Call
<1>2. LinkInv /\ SoundInv BY DEF Init, LinkInv, SoundInv
<1>3. CallInv /\ DoneInv BY RpcAssumption DEF Init, CallInv, DoneInv, Call
<1>4. GotInv BY DEF Init, GotInv, AnswerMatches
<1> QED BY <1>1, <1>2, <1>3, <1>4 DEF RpcInv

-----------------------------------------------------------------------------
(* One lemma per action *)

\* The client begins a call.
LEMMA BeginKeeps == ASSUME RpcInv, Begin PROVE RpcInv'
<1>1. /\ pc = "idle" /\ call < MaxCall /\ call' = call + 1 /\ pc' = "connecting"
      /\ state' = [state EXCEPT ![call'] = "asked"]
      /\ sound' = IF sock THEN sound ELSE up
      /\ UNCHANGED <<up, sock, buffer, inq, outq, open, serving, done, got, crashes>>
  BY DEF Begin, link
<1>2. /\ call' \in Call /\ call \in 0 .. MaxCall
      /\ \A c \in Call : c > call' <=> c > call /\ c # call'
  BY <1>1, RpcAssumption DEF RpcInv, TypeOK, Call
<1>3. TypeOK'
  BY <1>1, <1>2, RpcAssumption DEF RpcInv, TypeOK, Call
<1>4. LinkInv' BY <1>1 DEF RpcInv, LinkInv
<1>5. CallInv'
  BY <1>1, <1>2 DEF RpcInv, TypeOK, CallInv
<1>6. DoneInv'
  BY <1>1, <1>2 DEF RpcInv, LinkInv, DoneInv, Call
<1>7. GotInv'
  BY <1>1, <1>2 DEF RpcInv, TypeOK, GotInv, AnswerMatches
<1>8. SoundInv'
  BY <1>1 DEF RpcInv, SoundInv
<1> QED BY <1>3, <1>4, <1>5, <1>6, <1>7, <1>8 DEF RpcInv

\* The call in progress ends and no other.
LEMMA EndKeeps ==
  ASSUME RpcInv, pc # "idle", NEW v \in Verdict, End(v),
         UNCHANGED <<up, sock, call, crashes>>
  PROVE  /\ {up', sock', sound'} \subseteq BOOLEAN
         /\ call' \in 0 .. MaxCall /\ pc' = "idle"
         /\ state' \in [Call -> {"new", "asked"} \cup Verdict]
         /\ CallInv'
         /\ sound' => v = "answered" /\ sound
<1>1. call \in Call BY DEF RpcInv, CallInv
<1>2. {up', sock', sound'} \subseteq BOOLEAN BY Zenon DEF RpcInv, TypeOK, End
<1>3. v \notin {"new", "asked"} BY DEF Verdict
<1> QED BY <1>1, <1>2, <1>3 DEF RpcInv, TypeOK, CallInv, End

\* PassdSession._connect.
LEMMA ConnectKeeps == ASSUME RpcInv, Connect PROVE RpcInv'
<1>1. /\ pc = "connecting" /\ UNCHANGED <<up, buffer, call, done, got, crashes>>
  BY DEF Connect
<1>2. CASE sock /\ pc' = "sending" /\ UNCHANGED <<sock, link, state, sound>>
  <2>1. UNCHANGED <<sock, inq, outq, open, serving, state, sound>> BY <1>2 DEF link
  <2>2. TypeOK' BY <1>1, <1>2, <2>1 DEF RpcInv, TypeOK
  <2>3. LinkInv' /\ SoundInv' BY <1>1, <1>2, <2>1 DEF RpcInv, LinkInv, SoundInv
  <2>4. CallInv' /\ DoneInv' BY <1>1, <1>2, <2>1 DEF RpcInv, CallInv, DoneInv
  <2>5. GotInv' BY <1>1, <2>1 DEF RpcInv, GotInv, AnswerMatches
  <2> QED BY <2>2, <2>3, <2>4, <2>5 DEF RpcInv
<1>3. CASE /\ ~sock /\ up /\ sock' = TRUE /\ open' = TRUE /\ pc' = "sending"
           /\ inq' = <<>> /\ outq' = <<>> /\ serving' = None
           /\ UNCHANGED <<state, sound>>
  <2>1. TypeOK' BY <1>1, <1>3 DEF RpcInv, TypeOK
  <2>2. LinkInv' /\ SoundInv' BY <1>1, <1>3 DEF RpcInv, LinkInv, SoundInv
  <2>3. CallInv' /\ DoneInv' BY <1>1, <1>3 DEF RpcInv, CallInv, DoneInv
  <2>4. GotInv' BY <1>1, <1>3 DEF RpcInv, GotInv, AnswerMatches
  <2> QED BY <2>1, <2>2, <2>3, <2>4 DEF RpcInv
<1>4. CASE ~sock /\ ~up /\ End("error") /\ UNCHANGED <<sock, link>>
  <2>1. UNCHANGED <<sock, inq, outq, open, serving>> BY <1>4 DEF link
  <2>2. /\ {up', sock', sound'} \subseteq BOOLEAN /\ call' \in 0 .. MaxCall
        /\ pc' = "idle" /\ state' \in [Call -> {"new", "asked"} \cup Verdict]
        /\ CallInv' /\ ~sound'
    BY <1>1, <1>4, <2>1, EndKeeps DEF Verdict
  <2>3. TypeOK' BY <1>1, <2>1, <2>2 DEF RpcInv, TypeOK
  <2>4. LinkInv' /\ SoundInv' BY <1>1, <2>1, <2>2 DEF RpcInv, LinkInv, SoundInv
  <2>5. DoneInv' BY <1>1, <2>1, <2>2 DEF RpcInv, DoneInv
  <2>6. GotInv'
    BY <1>1, <1>4 DEF RpcInv, TypeOK, GotInv, AnswerMatches, End
  <2> QED BY <2>2, <2>3, <2>4, <2>5, <2>6 DEF RpcInv
<1> QED BY <1>2, <1>3, <1>4 DEF Connect

\* sendall of a request.
LEMMA SendRequestKeeps == ASSUME RpcInv, SendRequest PROVE RpcInv'
<1>1. /\ pc = "sending"
      /\ UNCHANGED <<up, sock, buffer, call, outq, open, serving, done, got, crashes>>
  BY DEF SendRequest
<1>2. CASE open /\ inq' = Append(inq, call) /\ pc' = "reading" /\ UNCHANGED <<state, sound>>
  <2>1. /\ buffer = <<>> /\ outq = <<>> /\ serving = None /\ sock
    BY <1>1, <1>2 DEF RpcInv, LinkInv
  <2>2. inq' = <<call>> BY <1>1, <1>2 DEF RpcInv, LinkInv
  <2>3. TypeOK' BY <1>1, <1>2 DEF RpcInv, TypeOK
  <2>4. LinkInv'
    BY <1>1, <1>2, <2>1, <2>2 DEF LinkInv, Cut
  <2>5. SoundInv' BY <1>1, <1>2 DEF RpcInv, SoundInv
  <2>6. CallInv' BY <1>1, <1>2 DEF RpcInv, CallInv
  <2>7. <<buffer', outq'>> \notin Whole(call')
    BY <1>1, <2>1 DEF Whole, Pieces, Half, Rest
  <2>8. DoneInv' BY <1>1, <2>7 DEF RpcInv, DoneInv
  <2>9. GotInv' BY <1>1, <1>2 DEF RpcInv, GotInv, AnswerMatches
  <2> QED BY <2>3, <2>4, <2>5, <2>6, <2>8, <2>9 DEF RpcInv
<1>3. CASE ~open /\ End("error") /\ UNCHANGED inq
  <2>1. /\ {up', sock', sound'} \subseteq BOOLEAN /\ call' \in 0 .. MaxCall
        /\ pc' = "idle" /\ state' \in [Call -> {"new", "asked"} \cup Verdict]
        /\ CallInv' /\ ~sound'
    BY <1>1, <1>3, EndKeeps DEF Verdict
  <2>2. TypeOK' BY <1>1, <1>3, <2>1 DEF RpcInv, TypeOK
  <2>3. LinkInv' /\ SoundInv' BY <1>1, <1>3, <2>1 DEF RpcInv, LinkInv, SoundInv
  <2>4. DoneInv' BY <1>1, <1>3, <2>1 DEF RpcInv, DoneInv
  <2>5. GotInv'
    BY <1>1, <1>3 DEF RpcInv, TypeOK, GotInv, AnswerMatches, End
  <2> QED BY <2>1, <2>2, <2>3, <2>4, <2>5 DEF RpcInv
<1> QED BY <1>2, <1>3 DEF SendRequest

\* sendall of a request that is too large, cut short by EPIPE.
LEMMA SendCutKeeps == ASSUME RpcInv, SendCut PROVE RpcInv'
<1>1. /\ pc = "sending" /\ open /\ End("error") /\ open' = FALSE
      /\ outq' = Pieces(call)
      /\ UNCHANGED <<up, sock, buffer, call, inq, serving, done, got, crashes>>
  BY DEF SendCut
<1>2. /\ {up', sock', sound'} \subseteq BOOLEAN /\ call' \in 0 .. MaxCall
      /\ pc' = "idle" /\ state' \in [Call -> {"new", "asked"} \cup Verdict]
      /\ CallInv' /\ ~sound'
  BY <1>1, EndKeeps DEF Verdict
<1>3. TypeOK' BY <1>1, <1>2 DEF RpcInv, TypeOK
<1>4. LinkInv' /\ SoundInv' BY <1>1, <1>2 DEF RpcInv, LinkInv, SoundInv
<1>5. DoneInv' BY <1>1, <1>2 DEF RpcInv, DoneInv
<1>6. GotInv' BY <1>1 DEF RpcInv, TypeOK, GotInv, AnswerMatches, End
<1> QED BY <1>2, <1>3, <1>4, <1>5, <1>6 DEF RpcInv

\* recv returns a piece of a response.
LEMMA RecvKeeps == ASSUME RpcInv, Recv PROVE RpcInv'
<1>1. /\ pc = "reading" /\ outq # <<>>
      /\ buffer' = Append(buffer, Head(outq)) /\ outq' = Tail(outq)
      /\ UNCHANGED <<up, sock, call, pc, inq, open, serving, state, done, got,
                     sound, crashes>>
  BY DEF Recv, past
<1>2. <<buffer, outq>> \in Whole(call) \cup Cut(call)
  BY <1>1 DEF RpcInv, LinkInv
<1>3. /\ <<buffer, outq>> \in Whole(call) => <<buffer', outq'>> \in Whole(call)
      /\ <<buffer, outq>> \in Cut(call) => <<buffer', outq'>> \in Cut(call)
  BY <1>1, RecvPiece
<1>4. Whole(call) \cap Cut(call) = {} BY DEF Whole, Cut, Half, Rest, Pieces
<1>5. TypeOK' BY <1>1 DEF RpcInv, TypeOK
<1>6. LinkInv' BY <1>1, <1>2, <1>3 DEF RpcInv, LinkInv
<1>7. SoundInv' /\ CallInv' BY <1>1 DEF RpcInv, SoundInv, CallInv
<1>8. DoneInv' BY <1>1, <1>2, <1>3, <1>4 DEF RpcInv, DoneInv
<1>9. GotInv' BY <1>1 DEF RpcInv, GotInv, AnswerMatches
<1> QED BY <1>5, <1>6, <1>7, <1>8, <1>9 DEF RpcInv

\* recv returns nothing, or raises: the connection is gone.
LEMMA RecvEndKeeps == ASSUME RpcInv, RecvEnd PROVE RpcInv'
<1>1. /\ pc = "reading" /\ ~open /\ End("error")
      /\ UNCHANGED <<up, sock, buffer, call, inq, outq, open, serving, done, got, crashes>>
  BY DEF RecvEnd, link
<1>2. /\ {up', sock', sound'} \subseteq BOOLEAN /\ call' \in 0 .. MaxCall
      /\ pc' = "idle" /\ state' \in [Call -> {"new", "asked"} \cup Verdict]
      /\ CallInv' /\ ~sound'
  BY <1>1, EndKeeps DEF Verdict
<1>3. TypeOK' BY <1>1, <1>2 DEF RpcInv, TypeOK
<1>4. LinkInv' /\ SoundInv' BY <1>1, <1>2 DEF RpcInv, LinkInv, SoundInv
<1>5. DoneInv' BY <1>1, <1>2 DEF RpcInv, DoneInv
<1>6. GotInv' BY <1>1 DEF RpcInv, TypeOK, GotInv, AnswerMatches, End
<1> QED BY <1>2, <1>3, <1>4, <1>5, <1>6 DEF RpcInv

\* What Parse takes is the whole response of the call in progress, and nothing is left.
LEMMA ParseTakes ==
  ASSUME RpcInv, Parse
  PROVE  /\ pc = "reading" /\ call \in Call
         /\ buffer = Pieces(call) /\ outq = <<>>
         /\ got' = [got EXCEPT ![call] = Pieces(call)] /\ buffer' = <<>>
         /\ End(IF call \in Large THEN "too large" ELSE "answered")
         /\ UNCHANGED <<up, sock, call, inq, outq, open, serving, done, crashes>>
<1> DEFINE n == CHOOSE i \in DOMAIN buffer :
                  buffer[i].last /\ \A j \in 1 .. i - 1 : ~buffer[j].last
<1>1. /\ pc = "reading" /\ Complete
      /\ got' = [got EXCEPT ![call] = SubSeq(buffer, 1, n)]
      /\ buffer' = SubSeq(buffer, n + 1, Len(buffer))
      /\ End(IF buffer[n].of \in Large THEN "too large" ELSE "answered")
      /\ UNCHANGED <<up, sock, call, inq, outq, open, serving, done, crashes>>
  BY DEF Parse, link
<1>2. <<buffer, outq>> \in Whole(call) \cup Cut(call)
  BY <1>1 DEF RpcInv, LinkInv
<1>3. buffer = Pieces(call) /\ outq = <<>> /\ <<buffer, outq>> \in Whole(call) /\ n = 2
  BY <1>1, <1>2, ParseWhole
<1> HIDE DEF n
<1>4. SubSeq(buffer, 1, n) = Pieces(call) /\ SubSeq(buffer, n + 1, Len(buffer)) = <<>>
  <2>1. SubSeq(Pieces(call), 1, 2) = Pieces(call) /\ SubSeq(Pieces(call), 3, 2) = <<>>
    BY PairSubSeq DEF Pieces
  <2>2. Len(Pieces(call)) = 2 BY DEF Pieces
  <2> QED BY <1>3, <2>1, <2>2
<1>5. buffer[n].of = call BY <1>3 DEF Pieces
<1>6. call \in Call BY <1>1 DEF RpcInv, CallInv
<1> QED BY <1>1, <1>3, <1>4, <1>5, <1>6

\* The client takes a line off its buffer.
LEMMA ParseKeeps == ASSUME RpcInv, Parse PROVE RpcInv'
<1>1. /\ pc = "reading" /\ call \in Call
      /\ buffer = Pieces(call) /\ outq = <<>>
      /\ got' = [got EXCEPT ![call] = Pieces(call)] /\ buffer' = <<>>
      /\ End(IF call \in Large THEN "too large" ELSE "answered")
      /\ UNCHANGED <<up, sock, call, inq, outq, open, serving, done, crashes>>
  BY ParseTakes
<1>2. /\ {up', sock', sound'} \subseteq BOOLEAN /\ call' \in 0 .. MaxCall
      /\ pc' = "idle" /\ state' \in [Call -> {"new", "asked"} \cup Verdict]
      /\ CallInv' /\ (sound' => call \notin Large /\ sound)
  BY <1>1, EndKeeps DEF Verdict
<1>3. TypeOK' BY <1>1, <1>2 DEF RpcInv, TypeOK
<1>4. buffer # <<>> /\ <<buffer, outq>> \in Whole(call)
  BY <1>1 DEF Whole, Pieces
<1>5. LinkInv' BY <1>1, <1>2, <1>4 DEF RpcInv, LinkInv
<1>6. SoundInv' BY <1>1, <1>2 DEF RpcInv, SoundInv, LinkInv
<1>7. DoneInv' BY <1>1, <1>2, <1>4 DEF RpcInv, DoneInv
<1>8. GotInv' BY <1>1 DEF RpcInv, TypeOK, GotInv, AnswerMatches, End
<1> QED BY <1>2, <1>3, <1>5, <1>6, <1>7, <1>8 DEF RpcInv

\* PassdSession.close.
LEMMA CloseKeeps == ASSUME RpcInv, Close PROVE RpcInv'
<1>1. /\ pc = "idle" /\ sock' = FALSE /\ buffer' = <<>> /\ open' = FALSE
      /\ inq' = <<>> /\ outq' = <<>> /\ serving' = None
      /\ UNCHANGED <<up, call, pc, state, done, got, sound, crashes>>
  BY DEF Close, past
<1>2. TypeOK' BY <1>1 DEF RpcInv, TypeOK
<1>3. LinkInv' /\ SoundInv' BY <1>1 DEF RpcInv, LinkInv, SoundInv
<1>4. CallInv' /\ DoneInv' BY <1>1 DEF RpcInv, CallInv, DoneInv
<1>5. GotInv' BY <1>1 DEF RpcInv, GotInv, AnswerMatches
<1> QED BY <1>2, <1>3, <1>4, <1>5 DEF RpcInv

\* What the daemon works on is the call in progress, of which nothing has come back.
LEMMA ServingCall ==
  ASSUME RpcInv, serving # None
  PROVE  /\ open /\ sock /\ pc = "reading" /\ serving = call /\ call \in Call
         /\ state[call] = "asked" /\ done[call] = 0
         /\ inq = <<>> /\ buffer = <<>> /\ outq = <<>>
<1>1. open /\ pc = "reading" BY DEF RpcInv, LinkInv
<1>2. call \in Call /\ state[call] = "asked" BY <1>1 DEF RpcInv, CallInv
<1> QED BY <1>1, <1>2 DEF RpcInv, LinkInv, DoneInv

\* The connection's thread reads a request.
LEMMA TakeKeeps == ASSUME RpcInv, Take PROVE RpcInv'
<1>1. /\ open /\ serving = None /\ inq # <<>>
      /\ serving' = Head(inq) /\ inq' = Tail(inq)
      /\ UNCHANGED <<up, sock, buffer, call, pc, outq, open, state, done, got,
                     sound, crashes>>
  BY DEF Take, client, past
<1>2. pc = "reading" /\ inq = <<call>> /\ buffer = <<>> /\ outq = <<>>
  BY <1>1 DEF RpcInv, LinkInv
<1>3. serving' = call /\ inq' = <<>> BY <1>1, <1>2, PairHeadTail
<1>4. call \in Call /\ call # None BY <1>2, RpcAssumption DEF RpcInv, CallInv
<1>5. TypeOK' BY <1>1, <1>3, <1>4 DEF RpcInv, TypeOK
<1>6. LinkInv' BY <1>1, <1>2, <1>3 DEF RpcInv, LinkInv
<1>7. SoundInv' /\ CallInv' BY <1>1 DEF RpcInv, SoundInv, CallInv
<1>8. DoneInv' BY <1>1 DEF RpcInv, DoneInv
<1>9. GotInv' BY <1>1 DEF RpcInv, GotInv, AnswerMatches
<1> QED BY <1>5, <1>6, <1>7, <1>8, <1>9 DEF RpcInv

\* The connection's thread carries a request out and answers.
LEMMA ServeKeeps == ASSUME RpcInv, Serve PROVE RpcInv'
<1>1. /\ serving # None /\ serving \notin Large
      /\ done' = [done EXCEPT ![serving] = @ + 1]
      /\ outq' = outq \o Pieces(serving) /\ serving' = None
      /\ UNCHANGED <<up, sock, buffer, call, pc, inq, open, state, got, sound, crashes>>
  BY DEF Serve, client
<1>2. /\ open /\ sock /\ pc = "reading" /\ serving = call /\ call \in Call
      /\ state[call] = "asked" /\ done[call] = 0
      /\ inq = <<>> /\ buffer = <<>> /\ outq = <<>>
  BY <1>1, ServingCall
<1>3. outq' = Pieces(call) BY <1>1, <1>2, EmptyConcat DEF Pieces
<1>4. /\ done' \in [Call -> 0 .. 1] /\ done'[call] = 1
      /\ \A c \in Call : c # call => done'[c] = done[c]
  BY <1>1, <1>2 DEF RpcInv, DoneInv
<1>5. <<buffer', outq'>> \in Whole(call) BY <1>1, <1>2, <1>3 DEF Whole
<1>6. TypeOK' BY <1>1, <1>4 DEF RpcInv, TypeOK
<1>7. LinkInv' BY <1>1, <1>2, <1>5 DEF LinkInv
<1>8. SoundInv' /\ CallInv' BY <1>1 DEF RpcInv, SoundInv, CallInv
<1>9. call \in 0 .. MaxCall /\ ~(call > call) BY <1>2 DEF RpcInv, TypeOK
<1>10. DoneInv' BY <1>1, <1>2, <1>4, <1>9 DEF RpcInv, DoneInv
<1>11. GotInv' BY <1>1 DEF RpcInv, GotInv, AnswerMatches
<1> QED BY <1>6, <1>7, <1>8, <1>10, <1>11 DEF RpcInv

\* The connection's thread answers a request that is too large and closes.
LEMMA ServeLargeKeeps == ASSUME RpcInv, ServeLarge PROVE RpcInv'
<1>1. /\ serving # None /\ serving \in Large
      /\ outq' = outq \o Pieces(serving) /\ serving' = None
      /\ open' = FALSE /\ inq' = <<>>
      /\ UNCHANGED <<up, sock, buffer, call, pc, state, done, got, sound, crashes>>
  BY DEF ServeLarge, client, past
<1>2. /\ open /\ sock /\ pc = "reading" /\ serving = call /\ call \in Call
      /\ buffer = <<>> /\ outq = <<>>
  BY <1>1, ServingCall
<1>3. outq' = Pieces(call) BY <1>1, <1>2, EmptyConcat DEF Pieces
<1>4. <<buffer', outq'>> \in Whole(call) BY <1>1, <1>2, <1>3 DEF Whole
<1>5. TypeOK' BY <1>1 DEF RpcInv, TypeOK
<1>6. LinkInv' BY <1>1, <1>2, <1>4 DEF LinkInv
<1>7. SoundInv' /\ CallInv' BY <1>1, <1>2 DEF RpcInv, SoundInv, CallInv
<1>8. DoneInv' BY <1>1, <1>2 DEF RpcInv, DoneInv
<1>9. GotInv' BY <1>1 DEF RpcInv, GotInv, AnswerMatches
<1> QED BY <1>5, <1>6, <1>7, <1>8, <1>9 DEF RpcInv

\* A kill carries out nothing, or the call that was being worked on, and part of its
\* response may have left.
LEMMA CrashKeeps == ASSUME RpcInv, Crash PROVE RpcInv'
<1>1. /\ up' = FALSE /\ sound' = FALSE /\ open' = FALSE /\ inq' = <<>>
      /\ serving' = None /\ UNCHANGED <<sock, buffer, call, pc, state, got>>
  BY DEF Crash, client
<1>2. TypeOK'
  <2>1. {up', sock', open', sound'} \subseteq BOOLEAN
    BY <1>1, Zenon DEF RpcInv, TypeOK
  <2>2. done' \in [Call -> Nat] BY DEF Crash, RpcInv, TypeOK
  <2> QED BY <1>1, <2>1, <2>2 DEF RpcInv, TypeOK
<1>3. SoundInv' /\ CallInv' /\ GotInv'
  BY <1>1 DEF RpcInv, SoundInv, CallInv, GotInv, AnswerMatches
<1>4. CASE UNCHANGED <<outq, done>>
  <2>1. LinkInv' BY <1>1, <1>4 DEF RpcInv, LinkInv
  <2>2. DoneInv' BY <1>1, <1>4 DEF RpcInv, DoneInv
  <2> QED BY <1>2, <1>3, <2>1, <2>2 DEF RpcInv
<1>5. ASSUME serving # None, serving \notin Large,
             done' = [done EXCEPT ![serving] = @ + 1],
             NEW n \in 0 .. 1, outq' = outq \o SubSeq(Pieces(serving), 1, n)
      PROVE  RpcInv'
  <2>1. /\ sock /\ pc = "reading" /\ serving = call /\ call \in Call
        /\ done[call] = 0 /\ buffer = <<>> /\ outq = <<>>
    BY <1>5, ServingCall
  <2>2. outq' \in {<<>>, Half(call)}
    <3>1. /\ SubSeq(Pieces(call), 1, 0) = <<>>
          /\ SubSeq(Pieces(call), 1, 1) = Half(call)
      BY PairSubSeq DEF Pieces, Half
    <3>2. <<>> \o <<>> = <<>> /\ <<>> \o Half(call) = Half(call)
      BY EmptyConcat DEF Half
    <3> QED BY <1>5, <2>1, <3>1, <3>2
  <2>3. <<buffer', outq'>> \in Cut(call) BY <1>1, <2>1, <2>2 DEF Cut
  <2>4. Whole(call) \cap Cut(call) = {} BY DEF Whole, Cut, Half, Rest, Pieces
  <2>5. /\ done' \in [Call -> 0 .. 1]
        /\ \A c \in Call : c # call => done'[c] = done[c]
    BY <1>5, <2>1 DEF RpcInv, DoneInv
  <2>6. call \in 0 .. MaxCall /\ ~(call > call) BY <2>1 DEF RpcInv, TypeOK
  <2>7. LinkInv' BY <1>1, <2>1, <2>3 DEF LinkInv
  <2>8. DoneInv' BY <1>1, <1>5, <2>1, <2>3, <2>4, <2>5, <2>6 DEF RpcInv, DoneInv
  <2> QED BY <1>2, <1>3, <2>7, <2>8 DEF RpcInv
<1> QED BY <1>4, <1>5 DEF Crash

\* The daemon is started again.
LEMMA RestartKeeps == ASSUME RpcInv, Restart PROVE RpcInv'
<1>1. /\ up' = TRUE
      /\ UNCHANGED <<sock, buffer, call, pc, inq, outq, open, serving, state, done,
                     got, sound, crashes>>
  BY DEF Restart, client, link, past
<1>2. TypeOK' BY <1>1 DEF RpcInv, TypeOK
<1>3. LinkInv' /\ SoundInv' BY <1>1 DEF RpcInv, LinkInv, SoundInv
<1>4. CallInv' /\ DoneInv' BY <1>1 DEF RpcInv, CallInv, DoneInv
<1>5. GotInv' BY <1>1 DEF RpcInv, GotInv, AnswerMatches
<1> QED BY <1>2, <1>3, <1>4, <1>5 DEF RpcInv

\* No step breaks the invariant.
LEMMA RpcStep == ASSUME RpcInv, [Next]_vars PROVE RpcInv'
<1>1. CASE UNCHANGED vars
  BY <1>1 DEF vars, client, link, past, RpcInv, TypeOK, LinkInv, CallInv, DoneInv,
              GotInv, AnswerMatches, SoundInv
<1>2. CASE Next
  BY <1>2, BeginKeeps, ConnectKeeps, SendRequestKeeps, SendCutKeeps, RecvKeeps,
     RecvEndKeeps, ParseKeeps, CloseKeeps, TakeKeeps, ServeKeeps, ServeLargeKeeps,
     CrashKeeps, RestartKeeps
  DEF Next, ClientStep, DaemonStep
<1> QED BY <1>1, <1>2

\* The invariant of the session, the socket and the calls.
LEMMA RpcAlways == Spec => []RpcInv
BY RpcInit, RpcStep, PTL DEF Spec

-----------------------------------------------------------------------------
(* The theorems *)

\* What the session and the daemon's end of it keep is typed, at every point.
THEOREM RpcTypeCorrect == Spec => []TypeOK
<1>1. RpcInv => TypeOK BY DEF RpcInv
<1> QED BY <1>1, RpcAlways, PTL

\* PassdSession.call: what a call returns was parsed from the two pieces of its own
\* response, after any crashes, failed calls and sockets before it.
THEOREM AnswerAlwaysMatches == Spec => []AnswerMatches
<1>1. RpcInv => AnswerMatches BY DEF RpcInv, GotInv
<1> QED BY <1>1, RpcAlways, PTL

\* The step of a call in progress to its end is a step of the contract.
LEMMA EndRefines ==
  ASSUME RpcInv, pc # "idle", NEW v \in Verdict, End(v), UNCHANGED done,
         v = "answered" => done[call] = 1, v = "too large" => done[call] = 0
  PROVE  Contract!Next
<1>1. call \in Call /\ state[call] = "asked" BY DEF RpcInv, CallInv
<1>2. Contract!End(call, v) BY <1>1 DEF Contract!End, End
<1> QED BY <1>1, <1>2 DEF Contract!Next, Verdict

\* The step that carries a call out is one, too.
LEMMA CarryOutRefines ==
  ASSUME RpcInv, serving # None, done' = [done EXCEPT ![serving] = @ + 1],
         UNCHANGED state
  PROVE  Contract!Next
<1>1. /\ serving = call /\ call \in Call /\ state[call] = "asked" /\ done[call] = 0
  BY ServingCall
<1>2. done' = [done EXCEPT ![call] = 1] BY <1>1
<1>3. Contract!CarryOut(call) BY <1>1, <1>2 DEF Contract!CarryOut
<1> QED BY <1>1, <1>3 DEF Contract!Next

\* Every step of the session is a step of the contract, or none.
LEMMA RpcStepRefines ==
  ASSUME RpcInv, [Next]_vars
  PROVE  [Contract!Next]_<<state, done>>
<1>1. CASE UNCHANGED vars BY <1>1 DEF vars, past
<1>2. CASE Begin
  <2>1. call + 1 \in Call /\ state[call + 1] = "new"
    BY <1>2, RpcAssumption DEF Begin, RpcInv, TypeOK, CallInv, Call
  <2>2. Contract!Ask(call + 1) BY <1>2, <2>1 DEF Begin, Contract!Ask
  <2> QED BY <2>1, <2>2 DEF Contract!Next
<1>3. CASE Connect
  BY <1>3, EndRefines DEF Connect, Verdict
<1>4. CASE SendRequest
  BY <1>4, EndRefines DEF SendRequest, Verdict
<1>5. CASE SendCut
  BY <1>5, EndRefines DEF SendCut, Verdict
<1>6. CASE RecvEnd
  BY <1>6, EndRefines DEF RecvEnd, Verdict
<1>7. CASE Parse
  <2>1. /\ pc = "reading" /\ call \in Call /\ buffer = Pieces(call) /\ outq = <<>>
        /\ End(IF call \in Large THEN "too large" ELSE "answered") /\ UNCHANGED done
    BY <1>7, ParseTakes
  <2>2. <<buffer, outq>> \in Whole(call) BY <2>1 DEF Whole
  <2>3. done[call] = IF call \in Large THEN 0 ELSE 1
    BY <2>1, <2>2 DEF RpcInv, DoneInv
  <2> QED BY <2>1, <2>3, EndRefines DEF Verdict
<1>8. CASE Serve
  BY <1>8, CarryOutRefines DEF Serve
<1>9. CASE Crash
  BY <1>9, CarryOutRefines DEF Crash
<1>10. CASE Recv \/ Close \/ Take \/ ServeLarge \/ Restart
  BY <1>10 DEF Recv, Close, Take, ServeLarge, Restart, past
<1> QED
  BY <1>1, <1>2, <1>3, <1>4, <1>5, <1>6, <1>7, <1>8, <1>9, <1>10
  DEF Next, ClientStep, DaemonStep

\* The session and the daemon's end of it implement RpcContract: no call is carried
\* out twice, or after it has ended; none is answered that was not carried out, and
\* none that was too large was; an error says neither.
THEOREM RpcImplementsContract == Spec => AtMostOnce
<1>1. Init => Contract!Init BY DEF Init, Contract!Init
<1>2. RpcInv /\ [Next]_vars => [Contract!Next]_<<state, done>>
  BY RpcStepRefines
<1> QED BY <1>1, <1>2, RpcAlways, PTL DEF Spec, AtMostOnce, Contract!Spec

\* PassdSession.call and close: on a socket of its own, or one on which no call has
\* failed, a call of legal size ends in an error only if the daemon went down.
THEOREM SessionAlwaysRecovers == Spec => SessionRecovers
<1>1. ASSUME RpcInv, [Next]_vars, NEW c \in Call \ Large,
             state[c] = "asked", state'[c] = "error"
      PROVE  ~sound
  <2>1. c = call /\ pc # "idle" BY <1>1 DEF RpcInv, CallInv
  <2>2. UNCHANGED state => FALSE BY <1>1
  <2>3. Next BY <1>1, <2>2 DEF vars, past
  <2>4. \/ Connect /\ ~sock /\ ~up
        \/ SendRequest /\ ~open
        \/ RecvEnd
    <3>1. ~Begin BY <2>1 DEF Begin
    <3>2. ~SendCut BY <1>1, <2>1 DEF SendCut
    <3>3. ~Parse
      <4>1. SUFFICES ASSUME Parse PROVE FALSE OBVIOUS
      <4>2. End("answered") BY <1>1, <2>1, <4>1, ParseTakes
      <4> QED BY <1>1, <2>1, <4>2 DEF End, RpcInv, TypeOK
    <3>4. ~Recv /\ ~Close /\ ~Take /\ ~Serve /\ ~ServeLarge /\ ~Crash /\ ~Restart
      BY <2>2 DEF Recv, Close, Take, Serve, ServeLarge, Crash, Restart, past
    <3>5. Connect => ~sock /\ ~up BY <2>2 DEF Connect
    <3>6. SendRequest => ~open BY <2>2 DEF SendRequest
    <3> QED BY <2>3, <3>1, <3>2, <3>3, <3>4, <3>5, <3>6
            DEF Next, ClientStep, DaemonStep
  <2>5. CASE Connect /\ ~sock /\ ~up BY <1>1, <2>5 DEF RpcInv, SoundInv
  <2>6. CASE SendRequest /\ ~open
    BY <1>1, <2>6 DEF SendRequest, RpcInv, LinkInv, SoundInv
  <2>7. CASE RecvEnd
    BY <1>1, <2>1, <2>7 DEF RecvEnd, RpcInv, LinkInv, SoundInv
  <2> QED BY <2>4, <2>5, <2>6, <2>7
<1>2. RpcInv /\ [Next]_vars
        => [\A c \in Call \ Large :
              state[c] = "asked" /\ state'[c] = "error" => ~sound]_vars
  BY <1>1
<1> QED BY <1>2, RpcAlways, PTL DEF Spec, SessionRecovers
=============================================================================
