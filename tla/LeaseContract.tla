---------------------------- MODULE LeaseContract ----------------------------
(***************************************************************************)
(* What passd promises about one access request, with no agents, threads,  *)
(* locks, clocks or versions: a request is reviewed once, a grant is never *)
(* wider than what was asked, a use is spent before it has an effect and   *)
(* only while the lease stands, and a closed request stays closed.         *)
(* AccessGate is shown to implement it.                                    *)
(***************************************************************************)
EXTENDS Integers

CONSTANTS Request,    \* the identifiers a request may get
          MaxUses     \* the largest use budget an agent may ask for

VARIABLES phase,      \* where the request is in its life
          asked,      \* the use budget the agent asked for
          granted,    \* the use budget the reviewer granted
          spent,      \* uses claimed from the lease
          done        \* uses that left the service

contractVars == <<phase, asked, granted, spent, done>>

Phase == {"free", "pending", "approved", "denied", "revoked", "stale"}

Init ==
  /\ phase = [r \in Request |-> "free"]
  /\ asked = [r \in Request |-> 0]
  /\ granted = [r \in Request |-> 0]
  /\ spent = [r \in Request |-> 0]
  /\ done = [r \in Request |-> 0]

\* An agent's request is recorded for review.
Submit(r, n) ==
  /\ phase[r] = "free"
  /\ phase' = [phase EXCEPT ![r] = "pending"]
  /\ asked' = [asked EXCEPT ![r] = n]
  /\ UNCHANGED <<granted, spent, done>>

\* The reviewer approves at most what was asked.
Grant(r, n) ==
  /\ phase[r] = "pending"
  /\ n <= asked[r]
  /\ phase' = [phase EXCEPT ![r] = "approved"]
  /\ granted' = [granted EXCEPT ![r] = n]
  /\ UNCHANGED <<asked, spent, done>>

\* The reviewer denies, or takes a lease back, or the service finds that what
\* was requested or approved is no longer what it was.
Close(r, from, to) ==
  /\ phase[r] \in from
  /\ phase' = [phase EXCEPT ![r] = to]
  /\ UNCHANGED <<asked, granted, spent, done>>

\* One use is claimed, only from a lease that stands.
Spend(r) ==
  /\ phase[r] = "approved"
  /\ spent[r] < granted[r]
  /\ spent' = [spent EXCEPT ![r] = @ + 1]
  /\ UNCHANGED <<phase, asked, granted, done>>

\* A claimed use has its effect: a secret leaves the service.
Effect(r) ==
  /\ done[r] < spent[r]
  /\ done' = [done EXCEPT ![r] = @ + 1]
  /\ UNCHANGED <<phase, asked, granted, spent>>

Next ==
  \E r \in Request :
    \/ \E n \in 1 .. MaxUses : Submit(r, n) \/ Grant(r, n)
    \/ Close(r, {"pending"}, "denied")
    \/ Close(r, {"approved"}, "revoked")
    \/ Close(r, {"pending", "approved"}, "stale")
    \/ Spend(r)
    \/ Effect(r)

Spec == Init /\ [][Next]_contractVars
=============================================================================
