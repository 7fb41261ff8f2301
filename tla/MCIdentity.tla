------------------------------ MODULE MCIdentity ------------------------------
(* Instances of Identity: administrators, reviewers and an agent that calls. *)
EXTENDS Identity, TLC

Together == [t \in Thread |-> "d1"]
Apart == [t \in Thread |-> IF t \in {"t1", "t2"} THEN "d1" ELSE "d2"]
OneOrTwoDaemons == {Together, Apart}
OnlyTogether == {Together}
\* Beside "t1", a thread that takes no lock but for reviews, and one that creates,
\* rotates and calls, maybe at a daemon of its own.
Offices ==
  [t \in Thread |-> CASE t = "t1" -> Call \cup {"use"} [] t = "t2" -> {"revoke", "review"}
                      [] OTHER -> {"create", "rotate", "review", "use"}]
=============================================================================
