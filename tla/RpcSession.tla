------------------------------ MODULE RpcSession ------------------------------
(***************************************************************************)
(* A PassdSession and the thread of the daemon that serves its connection: *)
(* one JSON line per request and per response, over a Unix socket that     *)
(* breaks when the daemon is killed.  Responses arrive in two pieces, as a *)
(* recv may return any part of one.                                        *)
(***************************************************************************)
EXTENDS Integers, Sequences

CONSTANTS
  MaxCall,   \* bound: how many calls the client makes
  Large,     \* the calls whose request exceeds MAX_REQUEST
  MaxCrash,  \* bound: how often the daemon is killed
  None

Call == 1 .. MaxCall
ASSUME RpcAssumption == MaxCall \in Nat /\ MaxCrash \in Nat /\ None \notin Call
Pieces(c) == <<[of |-> c, last |-> FALSE], [of |-> c, last |-> TRUE]>>
Verdict == {"answered", "too large", "error"}

VARIABLES
  up,        \* the daemon listens
  sock,      \* the client has a socket
  buffer,    \* the pieces received and not yet parsed
  call,      \* the call in progress
  pc,        \* where the client is in it
  inq, outq, \* what is on the way to the daemon, and to the client
  open,      \* the daemon's end of the connection is open
  serving,   \* the request the handler works on
  state, done,  \* how calls ended; how often each was carried out
  got,       \* the pieces each response was parsed from
  sound,       \* since the socket was made the daemon was up and no call failed
  crashes

client == <<sock, buffer, call, pc>>
link == <<inq, outq, open, serving>>
past == <<state, done, got>>
vars == <<up, client, link, past, sound, crashes>>

Init ==
  /\ up = TRUE /\ sock = FALSE /\ buffer = <<>> /\ call = 0 /\ pc = "idle"
  /\ inq = <<>> /\ outq = <<>> /\ open = FALSE /\ serving = None
  /\ state = [c \in Call |-> "new"] /\ done = [c \in Call |-> 0]
  /\ got = [c \in Call |-> <<>>]
  /\ sound = TRUE /\ crashes = 0

-----------------------------------------------------------------------------
(* The client: client.py *)

\* PassdSession.call has returned or raised; the socket is kept as it is.
End(verdict) ==
  /\ state' = [state EXCEPT ![call] = verdict]
  /\ pc' = "idle" /\ sound' = (sound /\ verdict = "answered")

Begin ==
  /\ pc = "idle" /\ call < MaxCall
  /\ call' = call + 1 /\ pc' = "connecting"
  /\ state' = [state EXCEPT ![call'] = "asked"]
  /\ sound' = IF sock THEN sound ELSE up
  /\ UNCHANGED <<up, sock, buffer, link, done, got, crashes>>

\* connect: nothing to do when there is a socket, whatever has become of it.
Connect ==
  /\ pc = "connecting"
  /\ \/ sock /\ pc' = "sending" /\ UNCHANGED <<sock, link, state, sound>>
     \/ ~sock /\ up /\ sock' = TRUE /\ open' = TRUE /\ pc' = "sending"
        /\ inq' = <<>> /\ outq' = <<>> /\ serving' = None /\ UNCHANGED <<state, sound>>
     \/ ~sock /\ ~up /\ End("error") /\ UNCHANGED <<sock, link>>
  /\ UNCHANGED <<up, buffer, call, done, got, crashes>>

\* sendall: EPIPE when the daemon's end is closed.
SendRequest ==
  /\ pc = "sending"
  /\ IF open THEN inq' = Append(inq, call) /\ pc' = "reading" /\ UNCHANGED <<state, sound>>
     ELSE End("error") /\ UNCHANGED inq
  /\ UNCHANGED <<up, sock, buffer, call, outq, open, serving, done, got, crashes>>

\* The handler reads no more than MAX_REQUEST of it, answers and closes, while
\* the rest is still being sent.
SendCut ==
  /\ pc = "sending" /\ call \in Large /\ open
  /\ End("error")
  /\ open' = FALSE /\ outq' = Pieces(call)
  /\ UNCHANGED <<up, sock, buffer, call, inq, serving, done, got, crashes>>

Complete == \E i \in DOMAIN buffer : buffer[i].last

Recv ==
  /\ pc = "reading" /\ ~Complete /\ outq # <<>>
  /\ buffer' = Append(buffer, Head(outq)) /\ outq' = Tail(outq)
  /\ UNCHANGED <<up, sock, call, pc, inq, open, serving, past, sound, crashes>>

\* Mutant: an empty chunk is not the end.
RecvEnd_Waits == FALSE /\ UNCHANGED vars
\* Mutant: the request is sent again on a connection of its own.
RecvEnd_Retries ==
  /\ pc = "reading" /\ ~Complete /\ outq = <<>> /\ ~open
  /\ pc' = "connecting" /\ sock' = FALSE /\ buffer' = <<>>
  /\ UNCHANGED <<up, call, link, past, sound, crashes>>
\* The connection ends without a complete response: transport_error.
RecvEnd ==
  /\ pc = "reading" /\ ~Complete /\ outq = <<>> /\ ~open
  /\ End("error")
  /\ UNCHANGED <<up, sock, buffer, call, link, done, got, crashes>>

\* Mutant: the code of an error response is kept as it came.
Parse_RawCode ==
  /\ pc = "reading" /\ Complete
  /\ got' = [got EXCEPT ![call] = buffer] /\ buffer' = <<>>
  /\ End(IF Head(buffer).of \in Large THEN "request_too_large" ELSE "answered")
  /\ UNCHANGED <<up, sock, call, link, done, crashes>>
\* Everything up to the first newline is the response.
Parse ==
  LET n == CHOOSE i \in DOMAIN buffer :
             buffer[i].last /\ \A j \in 1 .. i - 1 : ~buffer[j].last IN
  /\ pc = "reading" /\ Complete
  /\ got' = [got EXCEPT ![call] = SubSeq(buffer, 1, n)]
  /\ buffer' = SubSeq(buffer, n + 1, Len(buffer))
  /\ End(IF buffer[n].of \in Large THEN "too large" ELSE "answered")
  /\ UNCHANGED <<up, sock, call, link, done, crashes>>

\* Mutant: close leaves the buffer.
Close_KeepsBuffer ==
  /\ pc = "idle" /\ sock
  /\ sock' = FALSE
  /\ open' = FALSE /\ inq' = <<>> /\ outq' = <<>> /\ serving' = None
  /\ UNCHANGED <<up, buffer, call, pc, past, sound, crashes>>
\* Mutant: close does not forget the socket.
Close_KeepsSocket ==
  /\ pc = "idle" /\ sock
  /\ buffer' = <<>>
  /\ open' = FALSE /\ inq' = <<>> /\ outq' = <<>> /\ serving' = None
  /\ UNCHANGED <<up, sock, call, pc, past, sound, crashes>>
\* close, as PassdClient does after every call.
Close ==
  /\ pc = "idle" /\ sock
  /\ sock' = FALSE /\ buffer' = <<>>
  /\ open' = FALSE /\ inq' = <<>> /\ outq' = <<>> /\ serving' = None
  /\ UNCHANGED <<up, call, pc, past, sound, crashes>>

(* The daemon: PassdHandler *)

\* readline
Take ==
  /\ open /\ serving = None /\ inq # <<>>
  /\ serving' = Head(inq) /\ inq' = Tail(inq)
  /\ UNCHANGED <<up, client, outq, open, past, sound, crashes>>

\* The service has worked, and the response, or its error, is written.
Serve ==
  /\ serving # None /\ serving \notin Large
  /\ done' = [done EXCEPT ![serving] = @ + 1]
  /\ outq' = outq \o Pieces(serving)
  /\ serving' = None
  /\ UNCHANGED <<up, client, inq, open, state, got, sound, crashes>>

\* request_too_large, after which the connection is closed.
ServeLarge ==
  /\ serving # None /\ serving \in Large
  /\ outq' = outq \o Pieces(serving)
  /\ serving' = None /\ open' = FALSE /\ inq' = <<>>
  /\ UNCHANGED <<up, client, past, sound, crashes>>

\* The daemon is killed: of what it was writing, a part may have left.
Crash ==
  /\ up /\ crashes < MaxCrash
  /\ up' = FALSE /\ sound' = FALSE /\ crashes' = crashes + 1
  /\ open' = FALSE /\ inq' = <<>> /\ serving' = None
  /\ \/ UNCHANGED <<outq, done>>
     \/ /\ serving # None /\ serving \notin Large
        /\ done' = [done EXCEPT ![serving] = @ + 1]
        /\ \E n \in 0 .. 1 : outq' = outq \o SubSeq(Pieces(serving), 1, n)
  /\ UNCHANGED <<client, state, got>>
Restart ==
  ~up /\ up' = TRUE /\ UNCHANGED <<client, link, past, sound, crashes>>

ClientStep == Connect \/ SendRequest \/ SendCut \/ Recv \/ RecvEnd \/ Parse
DaemonStep == Take \/ Serve \/ ServeLarge
Next == Begin \/ ClientStep \/ Close \/ DaemonStep \/ Crash \/ Restart
Spec == Init /\ [][Next]_vars
\* A call that was begun goes on, and so does the thread that serves it.
FairSpec == Spec /\ WF_vars(ClientStep) /\ WF_vars(DaemonStep)

-----------------------------------------------------------------------------
(* Properties *)

TypeOK ==
  /\ {up, sock, open, sound} \subseteq BOOLEAN
  /\ call \in 0 .. MaxCall /\ pc \in {"idle", "connecting", "sending", "reading"}
  /\ serving \in Call \cup {None}
  /\ state \in [Call -> {"new", "asked"} \cup Verdict]
  /\ done \in [Call -> Nat]

\* A call is answered from its own response and nothing else, also after calls
\* that failed in the middle of one, and on a session that was opened again.
AnswerMatches ==
  \A c \in Call : state[c] \in {"answered", "too large"} => got[c] = Pieces(c)

\* Sessions keep the promise of RpcContract: no call is carried out twice or after it
\* has failed, and none is reported as answered that was not carried out.
Contract == INSTANCE RpcContract
AtMostOnce == Contract!Spec

\* Every call ends, in an answer or an error, although there is no timeout.
CallEnds == \A c \in Call : state[c] = "asked" ~> state[c] # "asked"

\* A session recovers by close and nothing else: on a socket of its own, or one
\* on which no call has failed, a request of legal size fails only if the daemon
\* goes down.  ("persistent socket sessions recover from RPC errors", TESTED.md:46,
\* is so for errors of the service, not for request_too_large or the transport's:
\* the socket is kept, and every later call on it fails.)
SessionRecovers ==
  [][\A c \in Call \ Large :
       state[c] = "asked" /\ state'[c] = "error" => ~sound]_vars
=============================================================================
