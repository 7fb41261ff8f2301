----------------------------- MODULE RpcContract -----------------------------
(***************************************************************************)
(* What one call to passd promises its caller: it is carried out at most   *)
(* once and only while it is in progress; an answer means that it was, or, *)
(* for a request that was too large, that it was not; an error of the      *)
(* transport says neither.                                                 *)
(***************************************************************************)
EXTENDS Naturals

CONSTANT Call
VARIABLES
  state,  \* how far each call is
  done    \* how often each was carried out

Init ==
  /\ state = [c \in Call |-> "new"]
  /\ done = [c \in Call |-> 0]

Ask(c) ==
  state[c] = "new" /\ state' = [state EXCEPT ![c] = "asked"] /\ UNCHANGED done
CarryOut(c) ==
  /\ state[c] = "asked" /\ done[c] = 0
  /\ done' = [done EXCEPT ![c] = 1] /\ UNCHANGED state
End(c, verdict) ==
  /\ state[c] = "asked"
  /\ verdict = "answered" => done[c] = 1
  /\ verdict = "too large" => done[c] = 0
  /\ state' = [state EXCEPT ![c] = verdict] /\ UNCHANGED done

Next ==
  \E c \in Call :
    Ask(c) \/ CarryOut(c)
      \/ \E verdict \in {"answered", "too large", "error"} : End(c, verdict)
Spec == Init /\ [][Next]_<<state, done>>
=============================================================================
