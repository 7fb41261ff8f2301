----------------------------- MODULE MCAccessGate -----------------------------
(***************************************************************************)
(* Instances of AccessGate for TLC.  An instance gives the clients of each *)
(* connection, what agents may ask for, and the small sets everything is   *)
(* drawn from; the .cfg files pick them by name.                           *)
(***************************************************************************)
EXTENDS LeaseProperties, TLC

\* One agent "ada" whose key may do everything towards the host "api".
AllScopes == [a \in Agent |-> Kind \cup {"capability.request", "access.request"}]
NoCeiling == [a \in Agent |-> {}]
ApiOnly == [a \in Agent |-> {"api"}]
NeverExpires == [a \in Agent |-> MaxClock + 1]

OneDaemon == [t \in Thread |-> "d1"]
TwoDaemons == [t \in Thread |-> IF t = "t1" THEN "d1" ELSE "d2"]

Infer == [sel |-> "key", routes |-> {"POST"}, host |-> "api", tag |-> "v1"]
InferAgain == [Infer EXCEPT !.tag = "v2"]
Definitions == {Infer, InferAgain}

Invoke == [kind |-> "capability.invoke", on |-> "infer", at |-> "POST"]
Use(h) == [kind |-> "secret.use", on |-> "key", at |-> h]
Reveal == [kind |-> "secret.reveal", on |-> "key", at |-> None]
NoCapability == [c \in Capability |-> None]
InferPut == [c \in Capability |-> Infer]
\* "i1" is the key; a second item stands under no name yet.
KeyStored ==
  [i \in Item |-> IF i = "i1" THEN [name |-> "key", val |-> "s1"]
                              ELSE [name |-> None, val |-> None]]
InvokeOnly == {Invoke}
ExactOnly == {Use("api"), Use("elsewhere"), Reveal}
RevealOnly == {Reveal}

Ask(ttl, uses) == [ttl |-> ttl, uses |-> uses]
AskOne == {Ask(2, 1)}
AskTwo == {Ask(2, 2)}
AskEither == {Ask(2, 2), Ask(2, 1)}

\* The connections: which calls the client of each one makes.
OneReviewer ==
  [t \in Thread |->
     CASE t = "t1" -> {"request", "consume"}
       [] t = "t2" -> {"consume"}
       [] OTHER -> {"approve", "revoke", "configure", "edit"}]
ExactCalls ==
  [t \in Thread |->
     CASE t = "t1" -> {"request", "consume"}
       [] OTHER -> {"approve", "deny", "revoke", "edit"}]
RequestsOnly ==
  [t \in Thread |-> IF t = "adm" THEN {"deny", "approve", "configure", "bar"}
                                 ELSE {"request"}]
Anything == [t \in Thread |-> Call \ {"bar"}]

ReviewTTLs == {-1, 2}
ReviewBudgets == {-1, 2}
RequestSymmetry == Permutations(Request)
=============================================================================
