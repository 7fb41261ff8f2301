------------------------------- MODULE GateProofs -------------------------------
(***************************************************************************)
(* Theorems about the access gate beside the life of a lease: what is      *)
(* recorded of uses and reviews, which requests are admitted, and which    *)
(* leases are closed as stale.                                             *)
(***************************************************************************)
EXTENDS LeaseProofs

-----------------------------------------------------------------------------
(* The steps, sorted by what they leave alone *)

\* The handler returns or raises and leaves no trace.
Ending(t) ==
  \/ RefuseEarly(t) \/ RequestExisting(t) \/ RequestFull(t) \/ ClaimBroken(t)
  \/ RefuseAudit(t) \/ UseFail(t) \/ ApproveUnbound(t) \/ ReviewLost(t)
\* The handler reads and goes on.
Reading(t) ==
  \/ Authenticate(t) \/ Prepare(t) \/ RequestSelect(t) \/ ClaimSelect(t)
  \/ ClaimLost(t) \/ ClaimNone(t) \/ ReviewSelect(t)
\* No handler of the gate moves.
Aside ==
  \/ \E t \in Thread : PutCapability(t) \/ PutItem(t) \/ RevokeAgent(t)
  \/ Tick \/ UNCHANGED vars
\* The handler writes.
Writing(t) ==
  \/ RequestInsert(t) \/ RequestAudit(t) \/ ClaimStale(t) \/ ClaimTake(t)
  \/ UseSend(t) \/ UseAudit(t) \/ RevealAudit(t) \/ RevealReply(t)
  \/ Approve(t) \/ ApproveStale(t) \/ Close(t) \/ ReviewAudit(t)

\* Every step is of one of the four kinds, or finds the database locked, or is a kill.
LEMMA Sorted ==
  ASSUME [Next]_vars
  PROVE  \/ \E t \in Thread : Ending(t) \/ Reading(t) \/ Writing(t) \/ LockedStep(t)
         \/ Aside \/ \E d \in Daemon : Crash(d)
BY DEF Next, HandlerStep, AgentStep, AdminStep, Ending, Reading, Writing, Aside

\* Goto moves one thread and leaves the others.
LEMMA GotoMoves ==
  ASSUME TypeOK, NEW t \in Thread, NEW p, NEW j, Goto(t, p, j)
  PROVE  /\ pc'[t] = p /\ job'[t] = j
         /\ \A u \in Thread \ {t} : pc'[u] = pc[u] /\ job'[u] = job[u]
BY DEF TypeOK, Goto

Between ==
  {"idle", "authed", "prepared", "requesting", "consuming", "refused", "reviewing"}

\* A handler that writes nothing comes from where it owes nothing, and goes there.
LEMMA SilentStep ==
  ASSUME NEW t \in Thread, Ending(t) \/ Reading(t)
  PROVE  /\ UNCHANGED ledger /\ pc[t] \notin {"recorded", "reviewed"}
         /\ \E p \in Between : \E j : Goto(t, p, j)
<1>1. CASE Ending(t)
  BY <1>1 DEF Ending, RefuseEarly, RequestExisting, RequestFull, ClaimBroken,
              RefuseAudit, UseFail, ApproveUnbound, ReviewLost, Return, Between
<1>2. CASE Reading(t)
  <2>1. /\ Authenticate(t) => \E j : Goto(t, "authed", j)
        /\ Prepare(t) => \E j : Goto(t, "prepared", j)
        /\ RequestSelect(t) => \E j : Goto(t, "requesting", j)
        /\ ClaimSelect(t) \/ ClaimLost(t) => \E j : Goto(t, "consuming", j)
        /\ ClaimNone(t) => \E j : Goto(t, "refused", j)
        /\ ReviewSelect(t) => \E j : Goto(t, "reviewing", j)
    BY DEF Authenticate, Prepare, RequestSelect, ClaimSelect, ClaimLost, Skip,
           ClaimNone, ReviewSelect
  <2>2. UNCHANGED ledger /\ pc[t] \notin {"recorded", "reviewed"}
    BY <1>2 DEF Reading, Authenticate, Prepare, RequestSelect, ClaimSelect, ClaimLost,
                ClaimNone, ReviewSelect
  <2> QED BY <1>2, <2>1, <2>2 DEF Reading, Between
<1> QED BY <1>1, <1>2

\* What administrators and the clock do leaves the requests and the handlers.
LEMMA AsideStep ==
  ASSUME Aside
  PROVE  UNCHANGED <<ledger, threads>>
<1>1. ASSUME NEW t \in Thread, PutCapability(t) PROVE UNCHANGED <<ledger, threads>>
  BY <1>1 DEF PutCapability, Briefly, threads
<1>2. ASSUME NEW t \in Thread, PutItem(t) \/ RevokeAgent(t)
      PROVE  UNCHANGED <<ledger, threads>>
  BY <1>2 DEF PutItem, RevokeAgent
<1>3. Tick \/ UNCHANGED vars => UNCHANGED <<ledger, threads>> BY DEF Tick, vars
<1> QED BY <1>1, <1>2, <1>3 DEF Aside

-----------------------------------------------------------------------------
(* Receipts *)

\* A value that is about to leave is recorded already, a use that has been sent is
\* not yet: for each of these handlers the two counts differ by one.
Owing(r) == {t \in Thread : pc[t] \in {"sent", "replying"} /\ job[t].req = r}
Receipted ==
  /\ \A t \in Thread :
       /\ pc[t] = "replying" => job[t].what.kind = "secret.reveal"
       /\ pc[t] = "sent" => job[t].what.kind # "secret.reveal"
  /\ \A r \in Request :
       IF ~Reviewed(table[r]) THEN receipts[r] = 0
       ELSE IF table[r].what.kind = "secret.reveal"
            THEN out[r] + Cardinality(Owing(r)) <= receipts[r]
            ELSE receipts[r] + Cardinality(Owing(r)) <= out[r]

\* The handlers that owe a receipt or an effect are threads, so they can be counted.
LEMMA OwingFinite ==
  ASSUME NEW r
  PROVE  IsFiniteSet(Owing(r)) /\ Cardinality(Owing(r)) \in Nat
<1>1. Owing(r) \subseteq Thread BY DEF Owing
<1>2. IsFiniteSet(Owing(r)) BY <1>1, ConstantsAssumption, FS_Subset
<1> QED BY <1>2, FS_CardinalityType

\* Nothing has been done under a request that is not reviewed.
LEMMA NothingBefore ==
  ASSUME IInv, NEW r \in Request, ~Reviewed(table[r])
  PROVE  out[r] = 0 /\ Owing(r) = {}
<1>1. out[r] = 0
  <2>1. /\ table[r].uses = 0 /\ out[r] \in Nat
        /\ out[r] + Cardinality(InFlight(r)) <= table[r].uses
        /\ Cardinality(InFlight(r)) \in Nat
    BY InFlightFinite DEF IInv, RowShape, RowOK, Counted, TypeOK
  <2> QED BY <2>1
<1>2. Owing(r) = {}
  BY DEF Owing, IInv, JobShape, JobOK, HasLease, Using
<1> QED BY <1>1, <1>2

\* The row that a handler uses: reviewed, and for its target.
LEMMA OwnRow ==
  ASSUME IInv, NEW t \in Thread, pc[t] \in Using
  PROVE  /\ job[t].req \in Request /\ Reviewed(table[job[t].req])
         /\ table[job[t].req].what = job[t].what
BY DEF IInv, JobShape, JobOK, HasLease, HasRequest, Using

\* Who stays where it is, or leaves.
Fewer ==
  \A t \in Thread : pc'[t] \in {"sent", "replying"} => pc'[t] = pc[t] /\ job'[t] = job[t]

\* Nothing is owed anew and nothing is recorded or sent: the balance stays.
LEMMA FewerKeeps ==
  ASSUME IInv, Receipted, [Next]_vars, Fewer, UNCHANGED <<receipts, out>>
  PROVE  Receipted'
<1>1. Shape BY DEF IInv, Shape
<1>2. \A t \in Thread :
        /\ pc'[t] = "replying" => job'[t].what.kind = "secret.reveal"
        /\ pc'[t] = "sent" => job'[t].what.kind # "secret.reveal"
  BY DEF Receipted, Fewer
<1>3. ASSUME NEW r \in Request
      PROVE  IF ~Reviewed(table'[r]) THEN receipts'[r] = 0
             ELSE IF table'[r].what.kind = "secret.reveal"
                  THEN out'[r] + Cardinality(Owing(r)') <= receipts'[r]
                  ELSE receipts'[r] + Cardinality(Owing(r)') <= out'[r]
  <2>1. table[r] \in RowType /\ RowStep(table[r], table'[r])
    BY <1>1, RowsStep DEF IInv, TypeOK
  <2>2. Owing(r)' \subseteq Owing(r) BY DEF Fewer, Owing
  <2>3. /\ Cardinality(Owing(r)') \in Nat /\ Cardinality(Owing(r)) \in Nat
        /\ Cardinality(Owing(r)') <= Cardinality(Owing(r))
    <3>1. IsFiniteSet(Owing(r)) BY OwingFinite
    <3>2. /\ IsFiniteSet(Owing(r)')
          /\ Cardinality(Owing(r)') <= Cardinality(Owing(r))
      BY <2>2, <3>1, FS_Subset
    <3> QED BY <3>1, <3>2, FS_CardinalityType
  <2>4. out[r] \in Nat /\ receipts[r] \in Nat BY DEF IInv, TypeOK
  <2>5. CASE Reviewed(table[r])
    <3>1. Reviewed(table'[r]) /\ table'[r].what = table[r].what
      BY <2>1, <2>5, RowPersists
    <3> QED BY <2>3, <2>4, <2>5, <3>1 DEF Receipted
  <2>6. CASE ~Reviewed(table[r])
    <3>1. out[r] = 0 /\ receipts[r] = 0 /\ Owing(r) = {}
      BY <2>6, NothingBefore DEF Receipted
    <3>2. Owing(r)' = {} BY <2>2, <3>1
    <3>3. Cardinality(Owing(r)') = 0 BY <3>2, FS_EmptySet
    <3> QED BY <3>1, <3>3
  <2> QED BY <2>5, <2>6
<1> QED BY <1>2, <1>3 DEF Receipted

\* A thread that moves owes what the step it comes to owes, and no more.
LEMMA OwingByGoto ==
  ASSUME TypeOK, NEW t \in Thread, NEW p, NEW j, Goto(t, p, j), NEW r
  PROVE  Owing(r)' = (Owing(r) \ {t})
                       \cup (IF p \in {"sent", "replying"} /\ j.req = r THEN {t} ELSE {})
BY GotoMoves DEF Owing

\* Counting a use of one request leaves the others.
LEMMA CountOne ==
  ASSUME NEW f \in [Request -> Nat], NEW q \in Request, NEW r \in Request
  PROVE  Count(f, q)[r] = IF r = q THEN f[r] + 1 ELSE f[r]
BY DEF Count

\* The first of the two: a value is recorded, a use is sent.
LEMMA FirstKeeps ==
  ASSUME IInv, Receipted, NEW t \in Thread, UseSend(t) \/ RevealAudit(t)
  PROVE  Receipted'
<1>0. PICK q : q = job[t].req OBVIOUS
<1>1. pc[t] = "claimed" /\ table' = table BY DEF UseSend, RevealAudit
<1>2. q \in Request /\ Reviewed(table[q]) /\ table[q].what = job[t].what
  BY <1>0, <1>1, OwnRow DEF Using
<1>3. IF job[t].what.kind = "secret.reveal"
      THEN receipts' = Count(receipts, q) /\ out' = out /\ Goto(t, "replying", job[t])
      ELSE out' = Count(out, q) /\ receipts' = receipts /\ Goto(t, "sent", job[t])
  BY <1>0 DEF UseSend, RevealAudit
<1>4. TypeOK BY DEF IInv
<1>5. PICK p \in {"sent", "replying"} :
        /\ Goto(t, p, job[t])
        /\ p = "replying" <=> job[t].what.kind = "secret.reveal"
  BY <1>3
<1>6. \A u \in Thread :
        /\ pc'[u] = "replying" => job'[u].what.kind = "secret.reveal"
        /\ pc'[u] = "sent" => job'[u].what.kind # "secret.reveal"
  BY <1>4, <1>5, GotoMoves DEF Receipted
<1>7. ASSUME NEW r \in Request
      PROVE  IF ~Reviewed(table'[r]) THEN receipts'[r] = 0
             ELSE IF table'[r].what.kind = "secret.reveal"
                  THEN out'[r] + Cardinality(Owing(r)') <= receipts'[r]
                  ELSE receipts'[r] + Cardinality(Owing(r)') <= out'[r]
  <2>1. /\ out \in [Request -> Nat] /\ receipts \in [Request -> Nat]
        /\ out[r] \in Nat /\ receipts[r] \in Nat
    BY <1>4 DEF TypeOK
  <2>2. t \notin Owing(r) BY <1>1 DEF Owing
  <2>3. CASE r = q
    <3>1. Owing(r)' = Owing(r) \cup {t}
      BY <1>0, <1>4, <1>5, <2>2, <2>3, OwingByGoto
    <3>2. IsFiniteSet(Owing(r)) /\ Cardinality(Owing(r)) \in Nat BY OwingFinite
    <3>3. Cardinality(Owing(r) \cup {t}) = Cardinality(Owing(r)) + 1
      BY <2>2, <3>2, FS_AddElement
    <3>4. Cardinality(Owing(r)') = Cardinality(Owing(r)) + 1 BY <3>1, <3>3
    <3> QED BY <1>1, <1>2, <1>3, <2>1, <2>3, <3>2, <3>4, CountOne DEF Receipted
  <2>4. CASE r # q
    <3>1. Owing(r)' = Owing(r) BY <1>0, <1>4, <1>5, <2>2, <2>4, OwingByGoto
    <3>2. out'[r] = out[r] /\ receipts'[r] = receipts[r]
      BY <1>2, <1>3, <2>1, <2>4, CountOne
    <3> QED BY <1>1, <3>1, <3>2 DEF Receipted
  <2> QED BY <2>3, <2>4
<1> QED BY <1>6, <1>7 DEF Receipted

\* The second: the value leaves, the use that was sent is recorded.
LEMMA SecondKeeps ==
  ASSUME IInv, Receipted, NEW t \in Thread, UseAudit(t) \/ RevealReply(t)
  PROVE  Receipted'
<1>0. PICK q : q = job[t].req OBVIOUS
<1>1. pc[t] \in {"sent", "replying"} /\ table' = table /\ Goto(t, "idle", NoJob)
  BY DEF UseAudit, RevealReply, Return
<1>2. q \in Request /\ Reviewed(table[q]) /\ table[q].what = job[t].what
  BY <1>0, <1>1, OwnRow DEF Using
<1>3. IF job[t].what.kind = "secret.reveal"
      THEN out' = Count(out, q) /\ receipts' = receipts
      ELSE receipts' = Count(receipts, q) /\ out' = out
  BY <1>0 DEF UseAudit, RevealReply, Receipted
<1>4. TypeOK BY DEF IInv
<1>5. \A u \in Thread :
        /\ pc'[u] = "replying" => job'[u].what.kind = "secret.reveal"
        /\ pc'[u] = "sent" => job'[u].what.kind # "secret.reveal"
  BY <1>1, <1>4, GotoMoves DEF Receipted
<1>6. ASSUME NEW r \in Request
      PROVE  IF ~Reviewed(table'[r]) THEN receipts'[r] = 0
             ELSE IF table'[r].what.kind = "secret.reveal"
                  THEN out'[r] + Cardinality(Owing(r)') <= receipts'[r]
                  ELSE receipts'[r] + Cardinality(Owing(r)') <= out'[r]
  <2>1. /\ out \in [Request -> Nat] /\ receipts \in [Request -> Nat]
        /\ out[r] \in Nat /\ receipts[r] \in Nat
    BY <1>4 DEF TypeOK
  <2>2. Owing(r)' = Owing(r) \ {t} BY <1>1, <1>4, OwingByGoto
  <2>3. CASE r = q
    <3>1. t \in Owing(r) BY <1>0, <1>1, <2>3 DEF Owing
    <3>2. IsFiniteSet(Owing(r)) /\ Cardinality(Owing(r)) \in Nat BY OwingFinite
    <3>3. Cardinality(Owing(r) \ {t}) = Cardinality(Owing(r)) - 1
      BY <3>1, <3>2, FS_RemoveElement
    <3>4. Cardinality(Owing(r)') = Cardinality(Owing(r)) - 1 BY <2>2, <3>3
    <3> QED BY <1>1, <1>2, <1>3, <2>1, <2>3, <3>2, <3>4, CountOne DEF Receipted
  <2>4. CASE r # q
    <3>1. t \notin Owing(r) BY <1>0, <2>4 DEF Owing
    <3>2. Owing(r)' = Owing(r) BY <2>2, <3>1
    <3>3. out'[r] = out[r] /\ receipts'[r] = receipts[r]
      BY <1>2, <1>3, <2>1, <2>4, CountOne
    <3> QED BY <1>1, <3>2, <3>3 DEF Receipted
  <2> QED BY <2>3, <2>4
<1> QED BY <1>5, <1>6 DEF Receipted

\* A thread that moves to a step where it owes nothing leaves no new debt.
LEMMA FewerByGoto ==
  ASSUME TypeOK, NEW t \in Thread, NEW p, NEW j, Goto(t, p, j), p \notin {"sent", "replying"}
  PROVE  Fewer
BY GotoMoves DEF Fewer

\* No step breaks the balance of receipts and effects.
LEMMA ReceiptStep ==
  ASSUME IInv, Receipted, [Next]_vars
  PROVE  Receipted'
<1>1. TypeOK BY DEF IInv
<1>2. ASSUME NEW t \in Thread, Ending(t) \/ Reading(t) PROVE Receipted'
  <2>1. Fewer BY <1>1, <1>2, SilentStep, FewerByGoto DEF Between
  <2> QED BY <1>2, <2>1, SilentStep, FewerKeeps DEF ledger
<1>3. ASSUME NEW t \in Thread, Writing(t) PROVE Receipted'
  <2>1. CASE UseSend(t) \/ RevealAudit(t) BY <2>1, FirstKeeps
  <2>2. CASE UseAudit(t) \/ RevealReply(t) BY <2>2, SecondKeeps
  <2>3. CASE \/ RequestInsert(t) \/ RequestAudit(t) \/ ClaimStale(t) \/ ClaimTake(t)
             \/ Approve(t) \/ ApproveStale(t) \/ Close(t) \/ ReviewAudit(t)
    <3>1. /\ RequestInsert(t) => \E j : Goto(t, "recorded", j)
          /\ RequestAudit(t) \/ ReviewAudit(t) => \E j : Goto(t, "idle", j)
          /\ ClaimStale(t) => \E j : Goto(t, "consuming", j)
          /\ ClaimTake(t) => \E j : Goto(t, "claimed", j)
          /\ Approve(t) \/ ApproveStale(t) \/ Close(t) => \E j : Goto(t, "reviewed", j)
      BY DEF RequestInsert, RequestAudit, ReviewAudit, Return, ClaimStale, Skip, ClaimTake,
             Approve, ApproveStale, Close
    <3>2. Fewer BY <1>1, <2>3, <3>1, FewerByGoto
    <3>3. UNCHANGED <<receipts, out>>
      BY <2>3 DEF RequestInsert, RequestAudit, ReviewAudit, ClaimStale, ClaimTake,
                  Approve, ApproveStale, Close
    <3> QED BY <3>2, <3>3, FewerKeeps
  <2> QED BY <1>3, <2>1, <2>2, <2>3 DEF Writing
<1>4. CASE Aside
  <2>1. Fewer /\ UNCHANGED <<receipts, out>>
    BY <1>4, AsideStep DEF ledger, threads, Fewer
  <2> QED BY <2>1, FewerKeeps
<1>5. ASSUME NEW d \in Daemon, Crash(d) PROVE Receipted'
  <2>1. Fewer /\ UNCHANGED <<receipts, out>> BY <1>5 DEF Crash, ledger, Fewer
  <2> QED BY <2>1, FewerKeeps
<1>6. ASSUME NEW t \in Thread, LockedStep(t) PROVE Receipted'
  <2>1. Goto(t, "idle", NoJob) /\ UNCHANGED <<receipts, out>>
    BY <1>6, LockedReturns DEF Return, ledger
  <2> QED BY <1>1, <2>1, FewerByGoto, FewerKeeps
<1> QED BY <1>2, <1>3, <1>4, <1>5, <1>6, Sorted

\* A revealed value is in the audit log before it leaves, and no use is in the log that
\* was not sent, for any number of threads and daemons, killed wherever (reveal_secret
\* records first, invoke_capability and broker_http record last).
THEOREM ReceiptsAlwaysInOrder == Spec => []ReceiptOrder
<1>1. Init => Receipted
  BY DEF Init, EmptyRow, Receipted, Reviewed
<1>2. IInv /\ IInv' /\ Receipted /\ [Next]_vars => Receipted'
  BY ReceiptStep
<1>3. IInv /\ Receipted => ReceiptOrder
  <2> SUFFICES ASSUME IInv, Receipted, NEW r \in Request
               PROVE  IF table[r].what.kind = "secret.reveal" THEN out[r] <= receipts[r]
                                                              ELSE receipts[r] <= out[r]
    BY DEF ReceiptOrder
  <2>1. out[r] \in Nat /\ receipts[r] \in Nat BY DEF IInv, TypeOK
  <2>2. Cardinality(Owing(r)) \in Nat BY OwingFinite
  <2>3. CASE Reviewed(table[r]) BY <2>1, <2>2, <2>3 DEF Receipted
  <2>4. CASE ~Reviewed(table[r]) BY <2>4, NothingBefore DEF Receipted
  <2> QED BY <2>3, <2>4
<1> QED BY <1>1, <1>2, <1>3, Invariance, PTL DEF Spec

-----------------------------------------------------------------------------
(* The audit rows of requests and reviews *)

Owes(op, r) == \E p \in {"recorded", "reviewed"} : AtStep(p, op, r)

\* An audit row that is owed is still owed, or has been written.
DebtsKept ==
  /\ trail \subseteq trail'
  /\ \A r : AtStep("recorded", "request", r) =>
               AtStep("recorded", "request", r)' \/ Audited("request", r)'
  /\ \A op, r : AtStep("reviewed", op, r) =>
                   AtStep("reviewed", op, r)' \/ Audited(op, r)'

\* Who changes the status of a request owes the audit row of that.
ChangesOwed ==
  \A r \in Request : table'[r].status # table[r].status =>
    /\ table'[r].status = "pending" => AtStep("recorded", "request", r)'
    /\ table'[r].status = "approved" => AtStep("reviewed", "approve", r)'
    /\ table'[r].status = "denied" => AtStep("reviewed", "deny", r)'
    /\ table'[r].status = "revoked" => AtStep("reviewed", "revoke", r)'

\* A thread that leaves a step where it owes an audit row has written it.
LEMMA DebtsByGoto ==
  ASSUME TypeOK, NEW t \in Thread, NEW p, NEW j, Goto(t, p, j), trail \subseteq trail',
         pc[t] = "recorded" => [op |-> "request", on |-> job[t].req] \in trail',
         pc[t] = "reviewed" => [op |-> job[t].call, on |-> job[t].req] \in trail'
  PROVE  DebtsKept
<1>1. ASSUME NEW s, NEW op, NEW r, NEW u \in Thread, u # t,
             pc[u] = s /\ job[u].call = op /\ job[u].req = r
      PROVE  AtStep(s, op, r)'
  <2>1. pc'[u] = pc[u] /\ job'[u] = job[u] BY <1>1, GotoMoves
  <2> QED BY <1>1, <2>1 DEF AtStep
<1>2. ASSUME NEW r, AtStep("recorded", "request", r)
      PROVE  AtStep("recorded", "request", r)' \/ Audited("request", r)'
  <2>1. PICK u \in Thread : pc[u] = "recorded" /\ job[u].call = "request" /\ job[u].req = r
    BY <1>2 DEF AtStep
  <2>2. CASE u = t BY <2>1, <2>2 DEF Audited
  <2> QED BY <1>1, <2>1, <2>2
<1>3. ASSUME NEW op, NEW r, AtStep("reviewed", op, r)
      PROVE  AtStep("reviewed", op, r)' \/ Audited(op, r)'
  <2>1. PICK u \in Thread : pc[u] = "reviewed" /\ job[u].call = op /\ job[u].req = r
    BY <1>3 DEF AtStep
  <2>2. CASE u = t BY <2>1, <2>2 DEF Audited
  <2> QED BY <1>1, <2>1, <2>2
<1> QED BY <1>2, <1>3 DEF DebtsKept

\* Changes that are owed for, and debts that are kept, leave every row audited.
LEMMA AuditKept ==
  ASSUME IInv, ReviewAudited, [Next]_vars, DebtsKept, ChangesOwed, crashes' = crashes
  PROVE  ReviewAudited'
<1> SUFFICES ASSUME OneHome, crashes = 0, NEW r \in Request
             PROVE  /\ table'[r].status # "free" =>
                         Audited("request", r)' \/ AtStep("recorded", "request", r)'
                    /\ table'[r].status \in {"approved", "revoked"} =>
                         Audited("approve", r)' \/ AtStep("reviewed", "approve", r)'
                    /\ table'[r].status = "denied" =>
                         Audited("deny", r)' \/ AtStep("reviewed", "deny", r)'
                    /\ table'[r].status = "revoked" =>
                         Audited("revoke", r)' \/ AtStep("reviewed", "revoke", r)'
  BY DEF ReviewAudited
<1>1. /\ \A op : Audited(op, r) => Audited(op, r)'
      /\ AtStep("recorded", "request", r) =>
           AtStep("recorded", "request", r)' \/ Audited("request", r)'
      /\ \A op : AtStep("reviewed", op, r) => AtStep("reviewed", op, r)' \/ Audited(op, r)'
  BY DEF DebtsKept, Audited
<1>2. /\ table[r].status # "free" =>
           Audited("request", r) \/ AtStep("recorded", "request", r)
      /\ table[r].status \in {"approved", "revoked"} =>
           Audited("approve", r) \/ AtStep("reviewed", "approve", r)
      /\ table[r].status = "denied" => Audited("deny", r) \/ AtStep("reviewed", "deny", r)
      /\ table[r].status = "revoked" =>
           Audited("revoke", r) \/ AtStep("reviewed", "revoke", r)
  BY DEF ReviewAudited
<1>3. \/ table'[r].status = table[r].status
      \/ <<table[r].status, table'[r].status>> \in Edges
  BY RowsStep DEF RowStep, IInv, Shape
<1>4. CASE table'[r].status = table[r].status BY <1>1, <1>2, <1>4
<1>5. CASE /\ table'[r].status # table[r].status
           /\ <<table[r].status, table'[r].status>> \in Edges
  <2>1. CASE table[r].status = "free" /\ table'[r].status = "pending"
    BY <1>5, <2>1 DEF ChangesOwed
  <2>2. CASE table[r].status = "pending" /\ table'[r].status \in {"approved", "denied", "stale"}
    BY <1>1, <1>2, <1>5, <2>2 DEF ChangesOwed
  <2>3. CASE table[r].status = "approved" /\ table'[r].status \in {"revoked", "stale"}
    BY <1>1, <1>2, <1>5, <2>3 DEF ChangesOwed
  <2> QED BY <1>5, <2>1, <2>2, <2>3 DEF Edges
<1> QED BY <1>3, <1>4, <1>5

\* One UPDATE or INSERT changes the status of one request.
LEMMA OneRowOwed ==
  ASSUME TypeOK, NEW q \in Request, NEW row, SetRow(q, row),
         row.status # table[q].status =>
           /\ row.status = "pending" => AtStep("recorded", "request", q)'
           /\ row.status = "approved" => AtStep("reviewed", "approve", q)'
           /\ row.status = "denied" => AtStep("reviewed", "deny", q)'
           /\ row.status = "revoked" => AtStep("reviewed", "revoke", q)'
  PROVE  ChangesOwed
BY DEF TypeOK, SetRow, ChangesOwed

\* A handler that changes a status goes to where it owes the audit row.
LEMMA WritingOwes ==
  ASSUME IInv, NEW t \in Thread,
         \/ RequestInsert(t) \/ ClaimStale(t) \/ ClaimTake(t)
         \/ Approve(t) \/ ApproveStale(t) \/ Close(t)
  PROVE  /\ ChangesOwed /\ trail' = trail /\ pc[t] \notin {"recorded", "reviewed"}
         /\ \E p, j : Goto(t, p, j)
<1>1. TypeOK BY DEF IInv
<1>2. /\ trail' = trail /\ pc[t] \notin {"recorded", "reviewed"}
      /\ \E p, j : Goto(t, p, j)
  <2>1. trail' = trail /\ pc[t] \notin {"recorded", "reviewed"}
    BY DEF RequestInsert, ClaimStale, ClaimTake, Approve, ApproveStale, Close
  <2>2. /\ RequestInsert(t) => \E j : Goto(t, "recorded", j)
        /\ ClaimStale(t) => \E j : Goto(t, "consuming", j)
        /\ ClaimTake(t) => \E j : Goto(t, "claimed", j)
        /\ Approve(t) \/ ApproveStale(t) \/ Close(t) => \E j : Goto(t, "reviewed", j)
    BY DEF RequestInsert, ClaimStale, Skip, ClaimTake, Approve, ApproveStale, Close
  <2> QED BY <2>1, <2>2
<1>3. CASE RequestInsert(t)
  <2>1. PICK r \in Request :
          /\ SetRow(r, [EmptyRow EXCEPT !.status = "pending", !.agent = job[t].agent,
                          !.what = job[t].what, !.terms = job[t].terms,
                          !.def = job[t].def])
          /\ Goto(t, "recorded", [NoJob EXCEPT !.call = "request", !.req = r])
    BY <1>3 DEF RequestInsert
  <2>2. AtStep("recorded", "request", r)'
    <3>1. /\ pc'[t] = "recorded"
          /\ job'[t] = [NoJob EXCEPT !.call = "request", !.req = r]
      BY <1>1, <2>1, GotoMoves
    <3>2. job'[t].call = "request" /\ job'[t].req = r BY <3>1 DEF NoJob
    <3> QED BY <3>1, <3>2 DEF AtStep
  <2>3. ChangesOwed BY <1>1, <2>1, <2>2, OneRowOwed DEF EmptyRow
  <2> QED BY <1>2, <2>3
<1>4. CASE ClaimStale(t) \/ ClaimTake(t)
  <2>1. PICK r \in job[t].rows :
          \/ SetRow(r, IF table[r].status = "approved"
                       THEN [table[r] EXCEPT !.status = "stale"] ELSE table[r])
          \/ SetRow(r, [table[r] EXCEPT !.uses = @ + 1])
    BY <1>4 DEF ClaimStale, ClaimTake
  <2>2. r \in Request /\ table[r] \in RowType BY <1>1 DEF TypeOK, JobType
  <2> QED BY <1>1, <1>2, <2>1, <2>2, OneRowOwed DEF RowType
<1>5. CASE Approve(t) \/ ApproveStale(t) \/ Close(t)
  <2>1. PICK r : r = job[t].req OBVIOUS
  <2>2. r \in Request /\ table[r] \in RowType
    BY <1>1, <1>5, <2>1
    DEF IInv, JobShape, JobOK, HasRequest, TypeOK, Approve, ApproveStale, Close
  <2>3. CASE Approve(t)
    <3>1. pc'[t] = "reviewed" /\ job'[t].call = "approve" /\ job'[t].req = r
      BY <1>1, <2>1, <2>3, GotoMoves DEF Approve
    <3>2. AtStep("reviewed", "approve", r)' BY <3>1 DEF AtStep
    <3>3. PICK row : SetRow(r, row) /\ row.status = "approved"
      <4>1. PICK i, e, m :
              SetRow(r, [table[r] EXCEPT !.status = "approved", !.item = i,
                           !.cred = items[i].val, !.expires = e, !.max = m, !.uses = 0])
        BY <2>1, <2>3 DEF Approve
      <4>2. [table[r] EXCEPT !.status = "approved", !.item = i, !.cred = items[i].val,
                             !.expires = e, !.max = m, !.uses = 0].status = "approved"
        BY <2>2 DEF RowType
      <4> QED BY <4>1, <4>2
    <3>4. ChangesOwed BY <1>1, <2>2, <3>2, <3>3, OneRowOwed
    <3> QED BY <1>2, <3>4
  <2>4. CASE ApproveStale(t)
    <3>1. SetRow(r, IF StillOpen(table[r], "approve")
                    THEN [table[r] EXCEPT !.status = "stale"] ELSE table[r])
      BY <2>1, <2>4 DEF ApproveStale
    <3>2. [table[r] EXCEPT !.status = "stale"].status = "stale" BY <2>2 DEF RowType
    <3>3. ChangesOwed BY <1>1, <2>2, <3>1, <3>2, OneRowOwed
    <3> QED BY <1>2, <3>3
  <2>5. CASE Close(t)
    <3>1. PICK op : op = job[t].call OBVIOUS
    <3>2. /\ op \in {"deny", "revoke"} /\ pc'[t] = "reviewed"
          /\ job'[t].call = op /\ job'[t].req = r
      BY <1>1, <2>1, <2>5, <3>1, GotoMoves DEF Close
    <3>3. AtStep("reviewed", op, r)' BY <3>2 DEF AtStep
    <3>4. PICK row : SetRow(r, row)
                     /\ row.status = IF op = "deny" THEN "denied" ELSE "revoked"
      BY <2>1, <2>2, <2>5, <3>1 DEF Close, RowType
    <3>5. ChangesOwed BY <1>1, <2>2, <3>2, <3>3, <3>4, OneRowOwed
    <3> QED BY <1>2, <3>5
  <2> QED BY <1>5, <2>3, <2>4, <2>5
<1> QED BY <1>2, <1>3, <1>4, <1>5

\* No step leaves a request or a decision without its audit row.
LEMMA AuditStep ==
  ASSUME IInv, ReviewAudited, [Next]_vars
  PROVE  ReviewAudited'
<1>1. TypeOK BY DEF IInv
<1>2. ASSUME NEW t \in Thread, Ending(t) \/ Reading(t) PROVE ReviewAudited'
  <2>1. DebtsKept BY <1>1, <1>2, SilentStep, DebtsByGoto DEF ledger
  <2>2. ChangesOwed BY <1>2, SilentStep DEF ChangesOwed, ledger
  <2>3. crashes' = crashes
    BY <1>2 DEF Ending, Reading, RefuseEarly, RequestExisting, RequestFull, ClaimBroken,
                RefuseAudit, UseFail, ApproveUnbound, ReviewLost, Authenticate, Prepare,
                RequestSelect, ClaimSelect, ClaimLost, ClaimNone, ReviewSelect, spare
  <2> QED BY <2>1, <2>2, <2>3, AuditKept
<1>3. ASSUME NEW t \in Thread, Writing(t) PROVE ReviewAudited'
  <2>1. crashes' = crashes
    BY <1>3 DEF Writing, RequestInsert, RequestAudit, ClaimStale, ClaimTake, UseSend,
                UseAudit, RevealAudit, RevealReply, Approve, ApproveStale, Close,
                ReviewAudit, spare
  <2>2. CASE \/ RequestInsert(t) \/ ClaimStale(t) \/ ClaimTake(t)
             \/ Approve(t) \/ ApproveStale(t) \/ Close(t)
    <3>1. DebtsKept /\ ChangesOwed BY <1>1, <2>2, WritingOwes, DebtsByGoto
    <3> QED BY <2>1, <3>1, AuditKept
  <2>3. CASE UseSend(t) \/ UseAudit(t) \/ RevealAudit(t) \/ RevealReply(t)
    <3>1. \E p, j : Goto(t, p, j)
      <4>1. /\ UseSend(t) => Goto(t, "sent", job[t])
            /\ RevealAudit(t) => Goto(t, "replying", job[t])
            /\ UseAudit(t) \/ RevealReply(t) => Goto(t, "idle", NoJob)
        BY DEF UseSend, RevealAudit, UseAudit, RevealReply, Return
      <4> QED BY <2>3, <4>1
    <3>2. trail' = trail /\ table' = table /\ pc[t] \notin {"recorded", "reviewed"}
      BY <2>3 DEF UseSend, UseAudit, RevealAudit, RevealReply
    <3>3. DebtsKept BY <1>1, <3>1, <3>2, DebtsByGoto
    <3>4. ChangesOwed BY <3>2 DEF ChangesOwed
    <3> QED BY <2>1, <3>3, <3>4, AuditKept
  <2>4. CASE RequestAudit(t) \/ ReviewAudit(t)
    <3>1. Goto(t, "idle", NoJob) /\ table' = table /\ trail \subseteq trail'
      BY <2>4 DEF RequestAudit, ReviewAudit, Return, Record
    <3>2. /\ pc[t] = "recorded" => [op |-> "request", on |-> job[t].req] \in trail'
          /\ pc[t] = "reviewed" => [op |-> job[t].call, on |-> job[t].req] \in trail'
      BY <2>4 DEF RequestAudit, ReviewAudit, Record
    <3>3. DebtsKept BY <1>1, <3>1, <3>2, DebtsByGoto
    <3>4. ChangesOwed BY <3>1 DEF ChangesOwed
    <3> QED BY <2>1, <3>3, <3>4, AuditKept
  <2> QED BY <1>3, <2>2, <2>3, <2>4 DEF Writing
<1>4. CASE Aside
  <2>1. DebtsKept /\ ChangesOwed
    BY <1>4, AsideStep DEF ledger, threads, DebtsKept, ChangesOwed, AtStep
  <2>2. crashes' = crashes
    BY <1>4 DEF Aside, PutCapability, PutItem, RevokeAgent, Change, Tick, vars, spare
  <2> QED BY <2>1, <2>2, AuditKept
<1>5. ASSUME NEW d \in Daemon, Crash(d) PROVE ReviewAudited'
  BY <1>1, <1>5 DEF Crash, ReviewAudited, TypeOK
<1>6. ASSUME NEW t \in Thread, LockedStep(t) PROVE ReviewAudited'
  <2>1. ~OneHome BY <1>6 DEF LockedStep, WriteLocked, AuditLocked, Contended, OneHome
  <2> QED BY <2>1 DEF ReviewAudited, OneHome
<1> QED BY <1>2, <1>3, <1>4, <1>5, <1>6, Sorted

\* One daemon that was not killed: every request and every decision of a reviewer has
\* its audit row, or the handler that owes it is about to write it (the calls of audit
\* at the end of request_access, approve_access, deny_access and revoke_access).  With
\* a second daemon the INSERT of audit can find the database locked.
THEOREM ReviewsAlwaysAudited == Spec => []ReviewAudited
<1>1. Init => ReviewAudited
  BY DEF Init, EmptyRow, ReviewAudited
<1>2. IInv /\ IInv' /\ ReviewAudited /\ [Next]_vars => ReviewAudited'
  BY AuditStep
<1> QED BY <1>1, <1>2, Invariance, PTL DEF Spec

-----------------------------------------------------------------------------
(* Which thread has the lock *)

Locked == {"requesting", "consuming", "reviewing", "reviewed"}
\* A handler between two statements under the lock holds the lock of its daemon.
LockHeld == \A t \in Thread : pc[t] \in Locked => Holds(t)

\* A thread that takes, keeps or gives up the lock leaves the other holders alone.
LEMMA LockHeldByGoto ==
  ASSUME TypeOK, LockHeld, NEW t \in Thread, NEW p, NEW j, Goto(t, p, j),
         \/ Acquire(t) \/ Release(t) \/ (Briefly(t) /\ p \notin Locked)
         \/ (UNCHANGED lock /\ (p \in Locked => pc[t] \in Locked)),
         Release(t) => p \notin Locked
  PROVE  LockHeld'
<1>1. Home[t] \in Daemon /\ lock \in [Daemon -> Thread \cup {None}]
  BY ConstantsAssumption DEF TypeOK
<1>2. ASSUME NEW u \in Thread, u # t, pc'[u] \in Locked PROVE Holds(u)'
  <2>1. Holds(u) BY <1>2, GotoMoves DEF LockHeld
  <2>2. u # None BY NoneAssumption
  <2>3. Home[u] \in Daemon BY ConstantsAssumption
  <2> QED BY <1>1, <1>2, <2>1, <2>2, <2>3 DEF Holds, Acquire, Release, Briefly, Free
<1>3. ASSUME p \in Locked PROVE Holds(t)'
  <2>1. CASE Acquire(t) BY <1>1, <2>1 DEF Acquire, Holds
  <2>2. CASE UNCHANGED lock /\ pc[t] \in Locked BY <2>2 DEF LockHeld, Holds
  <2> QED BY <1>3, <2>1, <2>2
<1>4. pc'[t] = p BY GotoMoves
<1> QED BY <1>2, <1>3, <1>4 DEF LockHeld

\* No step takes a lock from its holder.
LEMMA LockStep ==
  ASSUME TypeOK, LockHeld, [Next]_vars
  PROVE  LockHeld'
<1>1. ASSUME NEW t \in Thread, RequestSelect(t) \/ ClaimSelect(t) \/ ReviewSelect(t)
      PROVE  LockHeld'
  <2>1. \E p, j : Goto(t, p, j) BY <1>1 DEF RequestSelect, ClaimSelect, ReviewSelect
  <2>2. Acquire(t) BY <1>1 DEF RequestSelect, ClaimSelect, ReviewSelect
  <2>3. ~Release(t) BY <2>2, NoneAssumption DEF Acquire, Release, Free, Holds
  <2> QED BY <2>1, <2>2, <2>3, LockHeldByGoto
<1>2. ASSUME NEW t \in Thread,
             ClaimStale(t) \/ ClaimLost(t) \/ Approve(t) \/ ApproveStale(t) \/ Close(t)
      PROVE  LockHeld'
  <2>1. /\ \E p, j : Goto(t, p, j)
        /\ UNCHANGED lock /\ pc[t] \in Locked
    BY <1>2 DEF ClaimStale, ClaimLost, Skip, Approve, ApproveStale, Close, Locked
  <2>2. ~Release(t)
    BY <2>1, NoneAssumption, ConstantsAssumption DEF LockHeld, TypeOK, Release, Holds
  <2> QED BY <2>1, <2>2, LockHeldByGoto
<1>3. ASSUME NEW t \in Thread,
             \/ Ending(t) \/ Authenticate(t) \/ Prepare(t) \/ ClaimNone(t)
             \/ RequestInsert(t) \/ RequestAudit(t) \/ ClaimTake(t) \/ ReviewAudit(t)
             \/ UseSend(t) \/ UseAudit(t) \/ RevealAudit(t) \/ RevealReply(t)
      PROVE  LockHeld'
  <2>1. \E p, j : Goto(t, p, j) /\ p \notin Locked
    <3>1. CASE \/ Ending(t) \/ RequestAudit(t) \/ ReviewAudit(t) \/ UseAudit(t)
               \/ RevealReply(t)
      BY <3>1 DEF Ending, RefuseEarly, RequestExisting, RequestFull, ClaimBroken,
                  RefuseAudit, UseFail, ApproveUnbound, ReviewLost, RequestAudit,
                  ReviewAudit, UseAudit, RevealReply, Return, Locked
    <3>2. /\ Authenticate(t) => \E j : Goto(t, "authed", j)
          /\ Prepare(t) => \E j : Goto(t, "prepared", j)
          /\ ClaimNone(t) => \E j : Goto(t, "refused", j)
          /\ RequestInsert(t) => \E j : Goto(t, "recorded", j)
          /\ ClaimTake(t) => \E j : Goto(t, "claimed", j)
          /\ UseSend(t) => \E j : Goto(t, "sent", j)
          /\ RevealAudit(t) => \E j : Goto(t, "replying", j)
      BY DEF Authenticate, Prepare, ClaimNone, RequestInsert, ClaimTake, UseSend,
             RevealAudit
    <3> QED BY <1>3, <3>1, <3>2 DEF Locked
  <2>2. Release(t) \/ Briefly(t) \/ UNCHANGED lock
    BY <1>3 DEF Ending, RefuseEarly, RequestExisting, RequestFull, ClaimBroken,
                RefuseAudit, UseFail, ApproveUnbound, ReviewLost, RequestAudit,
                ReviewAudit, UseAudit, RevealReply, Authenticate, Prepare, ClaimNone,
                RequestInsert, ClaimTake, UseSend, RevealAudit
  <2> QED BY <2>1, <2>2, LockHeldByGoto
<1>4. CASE Aside BY <1>4, AsideStep DEF threads, LockHeld, Holds
<1>5. ASSUME NEW d \in Daemon, Crash(d) PROVE LockHeld'
  BY <1>5, ConstantsAssumption DEF Crash, LockHeld, Holds, TypeOK, Locked
<1>6. ASSUME NEW t \in Thread, LockedStep(t) PROVE LockHeld'
  <2>1. Goto(t, "idle", NoJob) /\ (Release(t) \/ Briefly(t))
    BY <1>6, LockedReturns DEF Return
  <2>2. "idle" \notin Locked BY DEF Locked
  <2> QED BY <2>1, <2>2, LockHeldByGoto
<1> QED BY <1>1, <1>2, <1>3, <1>4, <1>5, <1>6, Sorted DEF Reading, Writing

\* A handler that is between two SQL statements of one locked block has the lock.
LEMMA LockAlwaysHeld == Spec => []LockHeld
<1>1. Init => LockHeld BY DEF Init, LockHeld, Locked
<1>2. IInv /\ LockHeld /\ [Next]_vars => LockHeld' BY LockStep DEF IInv
<1> QED BY <1>1, <1>2, Invariance, PTL DEF Spec

-----------------------------------------------------------------------------
(* Which requests are admitted *)

Counts == \A a : IsFiniteSet(PendingOf(a)) /\ Cardinality(PendingOf(a)) <= MaxPending
\* The rows that request_access has read are still all the pending ones.
Fresh == \A t \in Thread : pc[t] = "requesting" =>
  IsFiniteSet(job[t].rows) /\ PendingOf(job[t].agent) \subseteq job[t].rows
Admission == Counts /\ Fresh /\ NoDuplicatePending

\* No row becomes pending, and the pending ones stay what they are.
NonePosted ==
  \A r \in Request : table'[r].status = "pending" =>
    /\ table[r].status = "pending"
    /\ table'[r].agent = table[r].agent /\ table'[r].what = table[r].what
    /\ table'[r].terms = table[r].terms /\ table'[r].def = table[r].def

\* When no row becomes pending, no agent has more pending requests.
LEMMA FewerPending ==
  ASSUME Counts, NonePosted
  PROVE  Counts' /\ \A a : PendingOf(a)' \subseteq PendingOf(a)
<1>1. \A a : PendingOf(a)' \subseteq PendingOf(a) BY DEF NonePosted, PendingOf
<1>2. ASSUME NEW a
      PROVE  (IsFiniteSet(PendingOf(a)) /\ Cardinality(PendingOf(a)) <= MaxPending)'
  <2>1. PICK S : S = PendingOf(a)' OBVIOUS
  <2>2. IsFiniteSet(PendingOf(a)) /\ Cardinality(PendingOf(a)) <= MaxPending
    BY DEF Counts
  <2>3. S \subseteq PendingOf(a) BY <1>1, <2>1
  <2>4. /\ IsFiniteSet(S) /\ Cardinality(S) <= Cardinality(PendingOf(a))
        /\ Cardinality(S) \in Nat /\ Cardinality(PendingOf(a)) \in Nat
    BY <2>2, <2>3, FS_Subset, FS_CardinalityType
  <2>5. Cardinality(S) <= MaxPending BY <2>2, <2>4, ConstantsAssumption
  <2> QED BY <2>1, <2>4, <2>5
<1> QED BY <1>1, <1>2 DEF Counts

\* When no row becomes pending, what a handler has read is still all there is.
LEMMA FreshByOthers ==
  ASSUME Fresh, Counts, NonePosted,
         \A u \in Thread : pc'[u] = "requesting" =>
           \/ pc[u] = "requesting" /\ job'[u] = job[u]
           \/ job'[u].rows = PendingOf(job'[u].agent)
  PROVE  Fresh'
<1>1. \A a : PendingOf(a)' \subseteq PendingOf(a) BY FewerPending
<1>2. ASSUME NEW u \in Thread, pc'[u] = "requesting", NEW j, j = job'[u]
      PROVE  IsFiniteSet(j.rows) /\ PendingOf(j.agent)' \subseteq j.rows
  BY <1>1, <1>2 DEF Fresh, Counts
<1> QED BY <1>2 DEF Fresh

\* When no row becomes pending, no request is admitted wrongly.
LEMMA AdmissionKept ==
  ASSUME Admission, NonePosted,
         \A u \in Thread : pc'[u] = "requesting" =>
           \/ pc[u] = "requesting" /\ job'[u] = job[u]
           \/ job'[u].rows = PendingOf(job'[u].agent)
  PROVE  Admission'
<1>1. NoDuplicatePending' BY DEF Admission, NonePosted, NoDuplicatePending, Pending
<1> QED BY <1>1, FewerPending, FreshByOthers DEF Admission

\* Nothing but an INSERT writes to a row that is not there.
LEMMA UntouchedWhenFree ==
  ASSUME IInv, NEW t \in Thread, NEW r \in Request, table[r].status = "free",
         ClaimStale(t) \/ ClaimTake(t) \/ Approve(t) \/ ApproveStale(t) \/ Close(t)
  PROVE  table'[r] = table[r]
<1>1. TypeOK BY DEF IInv
<1>2. ASSUME NEW q \in Request, NEW row, SetRow(q, row), q # r PROVE table'[r] = table[r]
  BY <1>1, <1>2 DEF SetRow, TypeOK
<1>3. CASE ClaimStale(t) \/ ClaimTake(t)
  <2>1. PICK q \in job[t].rows : \E row : SetRow(q, row)
    BY <1>3 DEF ClaimStale, ClaimTake
  <2>2. q \in Request /\ Reviewed(table[q])
    BY <1>1, <1>3
    DEF IInv, JobShape, JobOK, HasCandidates, ClaimStale, ClaimTake, TypeOK, JobType
  <2>3. q # r BY <2>2 DEF Reviewed
  <2> QED BY <1>2, <2>1, <2>2, <2>3
<1>4. CASE Approve(t) \/ ApproveStale(t) \/ Close(t)
  <2>1. \E row : SetRow(job[t].req, row) BY <1>4 DEF Approve, ApproveStale, Close
  <2>2. job[t].req \in Request /\ table[job[t].req].status # "free"
    BY <1>4 DEF IInv, JobShape, JobOK, HasRequest, Approve, ApproveStale, Close
  <2> QED BY <1>2, <2>1, <2>2
<1> QED BY <1>3, <1>4

\* A handler comes to the decision by reading the pending rows.
LEMMA EntersRequesting ==
  ASSUME TypeOK, [Next]_vars, NEW u \in Thread, pc'[u] = "requesting"
  PROVE  \/ pc[u] = "requesting" /\ job'[u] = job[u]
         \/ job'[u].rows = PendingOf(job'[u].agent)
<1>1. ASSUME NEW t \in Thread, NEW p, NEW j, Goto(t, p, j), p # "requesting"
      PROVE  pc[u] = "requesting" /\ job'[u] = job[u]
  BY <1>1, GotoMoves
<1>2. ASSUME NEW t \in Thread, RequestSelect(t)
      PROVE  \/ pc[u] = "requesting" /\ job'[u] = job[u]
             \/ job'[u].rows = PendingOf(job'[u].agent)
  <2>1. PICK j : /\ Goto(t, "requesting", j)
                 /\ j = [job[t] EXCEPT !.rows = PendingOf(job[t].agent)]
    BY <1>2 DEF RequestSelect
  <2>2. j.rows = PendingOf(j.agent) BY <2>1 DEF TypeOK, JobType
  <2>3. /\ job'[t] = j
        /\ u # t => pc'[u] = pc[u] /\ job'[u] = job[u]
    BY <2>1, GotoMoves
  <2> QED BY <2>2, <2>3
<1>3. ASSUME NEW t \in Thread, Ending(t) \/ Reading(t) \/ Writing(t), ~RequestSelect(t)
      PROVE  \E p, j : Goto(t, p, j) /\ p # "requesting"
  <2>1. CASE Ending(t)
    BY <2>1 DEF Ending, RefuseEarly, RequestExisting, RequestFull, ClaimBroken,
                RefuseAudit, UseFail, ApproveUnbound, ReviewLost, Return
  <2>2. /\ Authenticate(t) => \E j : Goto(t, "authed", j)
        /\ Prepare(t) => \E j : Goto(t, "prepared", j)
        /\ ClaimSelect(t) \/ ClaimLost(t) \/ ClaimStale(t) => \E j : Goto(t, "consuming", j)
        /\ ClaimNone(t) => \E j : Goto(t, "refused", j)
        /\ ReviewSelect(t) => \E j : Goto(t, "reviewing", j)
    BY DEF Authenticate, Prepare, ClaimSelect, ClaimLost, ClaimStale, Skip,
           ClaimNone, ReviewSelect
  <2>3. /\ RequestInsert(t) => \E j : Goto(t, "recorded", j)
        /\ ClaimTake(t) => \E j : Goto(t, "claimed", j)
        /\ UseSend(t) => \E j : Goto(t, "sent", j)
        /\ RevealAudit(t) => \E j : Goto(t, "replying", j)
        /\ Approve(t) \/ ApproveStale(t) \/ Close(t) => \E j : Goto(t, "reviewed", j)
        /\ RequestAudit(t) \/ ReviewAudit(t) \/ UseAudit(t) \/ RevealReply(t) =>
             \E j : Goto(t, "idle", j)
    BY DEF RequestInsert, ClaimTake, UseSend, RevealAudit, Approve, ApproveStale, Close,
           RequestAudit, ReviewAudit, UseAudit, RevealReply, Return
  <2> QED BY <1>3, <2>1, <2>2, <2>3 DEF Reading, Writing
<1>4. ASSUME NEW t \in Thread, Ending(t) \/ Reading(t) \/ Writing(t)
      PROVE  \/ pc[u] = "requesting" /\ job'[u] = job[u]
             \/ job'[u].rows = PendingOf(job'[u].agent)
  BY <1>1, <1>2, <1>3, <1>4
<1>5. CASE Aside BY <1>5, AsideStep DEF threads
<1>6. ASSUME NEW d \in Daemon, Crash(d) PROVE pc[u] = "requesting" /\ job'[u] = job[u]
  BY <1>6 DEF Crash
<1>7. ASSUME NEW t \in Thread, LockedStep(t)
      PROVE  pc[u] = "requesting" /\ job'[u] = job[u]
  BY <1>1, <1>7, LockedReturns DEF Return
<1> QED BY <1>4, <1>5, <1>6, <1>7, Sorted

\* Only request_access and request_capability make a row pending.
LEMMA PostedByInsertOnly ==
  ASSUME IInv, [Next]_vars, \A t \in Thread : ~RequestInsert(t)
  PROVE  NonePosted
<1>1. ASSUME UNCHANGED table PROVE NonePosted BY <1>1 DEF NonePosted
<1>2. ASSUME NEW t \in Thread, Ending(t) \/ Reading(t) PROVE NonePosted
  BY <1>1, <1>2, SilentStep DEF ledger
<1>3. ASSUME NEW t \in Thread, Writing(t) PROVE NonePosted
  <2>1. CASE \/ ClaimStale(t) \/ ClaimTake(t) \/ Approve(t) \/ ApproveStale(t) \/ Close(t)
    <3>1. ASSUME NEW r \in Request, table'[r].status = "pending"
          PROVE  table[r].status = "pending"
      <4>1. ASSUME table[r].status = "free" PROVE table'[r] = table[r]
        BY <2>1, <4>1, UntouchedWhenFree
      <4>2. table[r].status = "pending" \/ table[r].status = "free"
        BY <3>1, RowsStep DEF RowStep, Edges, IInv, Shape
      <4> QED BY <3>1, <4>1, <4>2
    <3> QED BY <3>1, RowsStep DEF NonePosted, RowStep, IInv, Shape
  <2>2. CASE \/ RequestAudit(t) \/ UseSend(t) \/ UseAudit(t) \/ RevealAudit(t)
             \/ RevealReply(t) \/ ReviewAudit(t)
    BY <1>1, <2>2
    DEF RequestAudit, UseSend, UseAudit, RevealAudit, RevealReply, ReviewAudit
  <2> QED BY <1>3, <2>1, <2>2 DEF Writing
<1>4. CASE Aside BY <1>1, <1>4, AsideStep DEF ledger
<1>5. ASSUME NEW d \in Daemon, Crash(d) PROVE NonePosted
  BY <1>1, <1>5 DEF Crash, ledger
<1>6. ASSUME NEW t \in Thread, LockedStep(t) PROVE NonePosted
  BY <1>1, <1>6, LockedReturns DEF ledger
<1> QED BY <1>2, <1>3, <1>4, <1>5, <1>6, Sorted

\* What request_access inserts is within the quota and no retry, when the rows that it
\* has read are all the pending ones.
LEMMA InsertAdmitted ==
  ASSUME IInv, Admission, LockHeld, OneHome, NEW t \in Thread, RequestInsert(t)
  PROVE  Admission'
<1>1. PICK j : j = job[t] OBVIOUS
<1>2. PICK r \in Request :
        /\ table[r].status = "free"
        /\ SetRow(r, [EmptyRow EXCEPT !.status = "pending", !.agent = j.agent,
                        !.what = j.what, !.terms = j.terms, !.def = j.def])
        /\ Goto(t, "recorded", [NoJob EXCEPT !.call = "request", !.req = r])
  BY <1>1 DEF RequestInsert
<1>3. PICK row :
        /\ SetRow(r, row)
        /\ row.status = "pending" /\ row.agent = j.agent /\ row.what = j.what
        /\ row.terms = j.terms /\ row.def = j.def
  <2>1. PICK row :
          row = [EmptyRow EXCEPT !.status = "pending", !.agent = j.agent,
                   !.what = j.what, !.terms = j.terms, !.def = j.def]
    OBVIOUS
  <2>2. /\ row.status = "pending" /\ row.agent = j.agent /\ row.what = j.what
        /\ row.terms = j.terms /\ row.def = j.def
    BY <2>1 DEF EmptyRow
  <2> QED BY <1>2, <2>1, <2>2
<1>4. /\ table'[r] = row
      /\ \A q \in Request \ {r} : table'[q] = table[q]
  BY <1>3 DEF SetRow, IInv, TypeOK
<1>5. /\ IsFiniteSet(j.rows) /\ PendingOf(j.agent) \subseteq j.rows
      /\ ~(Cardinality(j.rows) >= MaxPending)
      /\ \A q \in j.rows : ~(table[q].what = j.what /\ table[q].terms = j.terms
                              /\ table[q].def = j.def)
  BY <1>1 DEF RequestInsert, Admission, Fresh, QuotaFull, Retried, SamePayload
<1>6. Counts'
  <2> SUFFICES ASSUME NEW a
               PROVE  (IsFiniteSet(PendingOf(a)) /\ Cardinality(PendingOf(a)) <= MaxPending)'
    BY DEF Counts
  <2>1. PICK S, P : S = PendingOf(a)' /\ P = PendingOf(a) OBVIOUS
  <2>2. IsFiniteSet(P) /\ Cardinality(P) <= MaxPending BY <2>1 DEF Admission, Counts
  <2>3. CASE a # j.agent
    <3>1. \A q \in Request : table'[q].status = "pending" /\ table'[q].agent = a
                         <=> table[q].status = "pending" /\ table[q].agent = a
      BY <1>2, <1>3, <1>4, <2>3
    <3>2. S = P BY <2>1, <3>1 DEF PendingOf
    <3> QED BY <2>1, <2>2, <3>2
  <2>4. CASE a = j.agent
    <3>1. S = P \cup {r} BY <1>2, <1>3, <1>4, <2>1, <2>4 DEF PendingOf
    <3>2. r \notin P BY <1>2, <2>1 DEF PendingOf
    <3>3. P \subseteq j.rows BY <1>5, <2>1, <2>4
    <3>4. Cardinality(P) <= Cardinality(j.rows) /\ Cardinality(P) \in Nat
          /\ Cardinality(j.rows) \in Nat
      BY <1>5, <2>2, <3>3, FS_Subset, FS_CardinalityType
    <3>5. IsFiniteSet(S) /\ Cardinality(S) = Cardinality(P) + 1
      BY <2>2, <3>1, <3>2, FS_AddElement
    <3>6. Cardinality(S) <= MaxPending BY <1>5, <3>4, <3>5, ConstantsAssumption
    <3> QED BY <2>1, <3>5, <3>6
  <2> QED BY <2>3, <2>4
<1>7. Fresh'
  <2>1. ASSUME NEW u \in Thread, pc'[u] = "requesting" PROVE FALSE
    <3>1. u # t /\ pc[u] = "requesting"
      BY <1>2, <2>1, GotoMoves DEF IInv
    <3>2. Holds(u) /\ Holds(t) BY <3>1 DEF LockHeld, Locked, RequestInsert
    <3>3. Home[u] = Home[t] BY DEF OneHome
    <3> QED BY <3>1, <3>2, <3>3 DEF Holds
  <2> QED BY <2>1 DEF Fresh
<1>8. NoDuplicatePending'
  <2>1. ASSUME NEW q \in Request, q # r, table[q].status = "pending",
               table[q].agent = j.agent, table[q].what = j.what,
               table[q].terms = j.terms, table[q].def = j.def
        PROVE  FALSE
    <3>1. q \in j.rows BY <1>5, <2>1 DEF PendingOf
    <3> QED BY <1>5, <2>1, <3>1
  <2> QED BY <1>3, <1>4, <2>1 DEF Admission, NoDuplicatePending, Pending
<1> QED BY <1>6, <1>7, <1>8 DEF Admission

\* No step admits a request beyond the quota or twice.
LEMMA AdmissionStep ==
  ASSUME IInv, Admission, LockHeld, OneHome, [Next]_vars
  PROVE  Admission'
<1>1. CASE \E t \in Thread : RequestInsert(t) BY <1>1, InsertAdmitted
<1>2. CASE \A t \in Thread : ~RequestInsert(t)
  <2>1. ASSUME NEW u \in Thread, pc'[u] = "requesting"
        PROVE  \/ pc[u] = "requesting" /\ job'[u] = job[u]
               \/ job'[u].rows = PendingOf(job'[u].agent)
    BY <2>1, EntersRequesting DEF IInv
  <2> QED BY <1>2, <2>1, PostedByInsertOnly, AdmissionKept
<1> QED BY <1>1, <1>2

\* With one daemon, the quota, the retries and what the handlers have read are right.
LEMMA AdmissionAlways ==
  ASSUME OneHome
  PROVE  Spec => []Admission
<1>1. Init => Admission
  <2>1. ASSUME Init, NEW a
        PROVE  IsFiniteSet(PendingOf(a)) /\ Cardinality(PendingOf(a)) <= MaxPending
    <3>1. PendingOf(a) = {} BY <2>1 DEF Init, PendingOf, EmptyRow
    <3>2. IsFiniteSet({}) /\ Cardinality({}) = 0 BY FS_EmptySet
    <3> QED BY <3>1, <3>2, ConstantsAssumption
  <2>2. Init => Counts BY <2>1 DEF Counts
  <2>3. Init => Fresh /\ NoDuplicatePending
    BY DEF Init, Fresh, NoDuplicatePending, Pending, EmptyRow
  <2> QED BY <2>2, <2>3 DEF Admission
<1>2. IInv /\ LockHeld /\ Admission /\ [Next]_vars => Admission' BY AdmissionStep
<1> QED BY <1>1, <1>2, Invariance, LockAlwaysHeld, PTL DEF Spec

\* With one daemon, an exact retry finds the request that is pending: the SELECT and
\* the INSERT of request_access and request_capability are under one lock.
THEOREM NeverADuplicate ==
  ASSUME OneHome
  PROVE  Spec => []NoDuplicatePending
<1>1. Spec => []Admission BY AdmissionAlways
<1>2. Admission => NoDuplicatePending BY DEF Admission
<1> QED BY <1>1, <1>2, PTL

\* With one daemon, no agent has more pending requests than MAX_PENDING_PER_AGENT.
THEOREM PendingAlwaysBounded ==
  ASSUME OneHome
  PROVE  Spec => []PendingBounded
<1>1. Spec => []Admission BY AdmissionAlways
<1>2. Admission => PendingBounded
  BY DEF Admission, Counts, PendingBounded, PendingOf, Pending
<1> QED BY <1>1, <1>2, PTL

-----------------------------------------------------------------------------
(* Which leases are closed as stale *)

ForExact(w) == w.kind # "capability.invoke"
\* A call for a named secret has no definition, and neither has its request.
ExactCall(p, j) == p \in Serving /\ ForExact(j.what) => j.def = None
ExactRow(row) == row.status # "free" /\ ForExact(row.what) => row.def = None
ExactJobs == \A t \in Thread : ExactCall(pc[t], job[t])
ExactRows == \A r \in Request : ExactRow(table[r])

\* A thread that moves to where its local variables obey the rule leaves the others alone.
LEMMA ExactByGoto ==
  ASSUME TypeOK, ExactJobs, NEW t \in Thread, NEW p, NEW j, Goto(t, p, j), ExactCall(p, j)
  PROVE  ExactJobs'
<1>1. ASSUME NEW u \in Thread PROVE ExactCall(pc'[u], job'[u])
  <2>1. CASE u = t BY <2>1, GotoMoves
  <2>2. CASE u # t BY <2>2, GotoMoves DEF ExactJobs
  <2> QED BY <2>1, <2>2
<1> QED BY <1>1 DEF ExactJobs

\* No handler for a named secret comes to have a definition.
LEMMA ExactJobsStep ==
  ASSUME IInv, ExactJobs, [Next]_vars
  PROVE  ExactJobs'
<1>1. TypeOK BY DEF IInv
<1>2. \A t \in Thread : job[t] \in JobType BY <1>1 DEF TypeOK
<1>3. ASSUME NEW t \in Thread, Authenticate(t) PROVE ExactJobs'
  <2>1. PICK call, a, w, m :
          Goto(t, "authed", [NoJob EXCEPT !.call = call, !.agent = a,
                                          !.what = w, !.terms = m])
    BY <1>3 DEF Authenticate
  <2>2. ExactCall("authed", [NoJob EXCEPT !.call = call, !.agent = a,
                                          !.what = w, !.terms = m])
    BY DEF ExactCall, NoJob
  <2> QED BY <1>1, <2>1, <2>2, ExactByGoto
<1>4. ASSUME NEW t \in Thread, Prepare(t) PROVE ExactJobs'
  <2>1. PICK j : /\ Goto(t, "prepared", j)
                 /\ j = [job[t] EXCEPT !.def = CurrentDefinition(job[t].what), !.ts = clock]
    BY <1>4 DEF Prepare
  <2>2. j.what = job[t].what /\ j.def = CurrentDefinition(job[t].what)
    BY <1>2, <2>1 DEF JobType
  <2>3. ExactCall("prepared", j) BY <2>2 DEF ExactCall, ForExact, CurrentDefinition
  <2> QED BY <1>1, <2>1, <2>3, ExactByGoto
<1>5. ASSUME NEW t \in Thread, NEW p, NEW j, Goto(t, p, j), pc[t] \in Serving,
             j.what = job[t].what, j.def = job[t].def
      PROVE  ExactJobs'
  <2>1. ExactCall(p, j) BY <1>5 DEF ExactJobs, ExactCall
  <2> QED BY <1>1, <1>5, <2>1, ExactByGoto
<1>6. ASSUME NEW t \in Thread,
             RequestSelect(t) \/ ClaimSelect(t) \/ ClaimLost(t) \/ ClaimStale(t)
      PROVE  ExactJobs'
  <2>1. PICK p, S : Goto(t, p, [job[t] EXCEPT !.rows = S])
    BY <1>6 DEF RequestSelect, ClaimSelect, ClaimLost, ClaimStale, Skip
  <2>2. /\ [job[t] EXCEPT !.rows = S].what = job[t].what
        /\ [job[t] EXCEPT !.rows = S].def = job[t].def
    BY <1>2 DEF JobType
  <2>3. pc[t] \in Serving
    BY <1>6 DEF RequestSelect, ClaimSelect, ClaimLost, ClaimStale, Serving
  <2> QED BY <1>5, <2>1, <2>2, <2>3
<1>7. ASSUME NEW t \in Thread, ClaimTake(t) PROVE ExactJobs'
  <2>1. PICK r, v : Goto(t, "claimed", [job[t] EXCEPT !.ts = 0, !.rows = {}, !.req = r,
                                                      !.val = v])
    BY <1>7 DEF ClaimTake
  <2>2. PICK j : j = [job[t] EXCEPT !.ts = 0, !.rows = {}, !.req = r, !.val = v]
    OBVIOUS
  <2>3. j.what = job[t].what /\ j.def = job[t].def BY <1>2, <2>2 DEF JobType
  <2>4. pc[t] \in Serving BY <1>7 DEF ClaimTake, Serving
  <2> QED BY <1>5, <2>1, <2>2, <2>3, <2>4
<1>8. ASSUME NEW t \in Thread, UseSend(t) \/ RevealAudit(t) PROVE ExactJobs'
  <2>1. PICK p : Goto(t, p, job[t]) BY <1>8 DEF UseSend, RevealAudit
  <2>2. pc[t] \in Serving BY <1>8 DEF UseSend, RevealAudit, Serving
  <2> QED BY <1>5, <2>1, <2>2
<1>9. ASSUME NEW t \in Thread,
             \/ Ending(t) \/ ClaimNone(t) \/ ReviewSelect(t) \/ RequestInsert(t)
             \/ RequestAudit(t) \/ UseAudit(t) \/ RevealReply(t) \/ Approve(t)
             \/ ApproveStale(t) \/ Close(t) \/ ReviewAudit(t)
      PROVE  ExactJobs'
  <2>1. \E p, j : Goto(t, p, j) /\ p \notin Serving
    <3>1. CASE \/ Ending(t) \/ RequestAudit(t) \/ UseAudit(t) \/ RevealReply(t)
               \/ ReviewAudit(t)
      BY <3>1 DEF Ending, RefuseEarly, RequestExisting, RequestFull, ClaimBroken,
                  RefuseAudit, UseFail, ApproveUnbound, ReviewLost, RequestAudit,
                  UseAudit, RevealReply, ReviewAudit, Return, Serving
    <3>2. /\ ClaimNone(t) => \E j : Goto(t, "refused", j)
          /\ ReviewSelect(t) => \E j : Goto(t, "reviewing", j)
          /\ RequestInsert(t) => \E j : Goto(t, "recorded", j)
          /\ Approve(t) \/ ApproveStale(t) \/ Close(t) => \E j : Goto(t, "reviewed", j)
      BY DEF ClaimNone, ReviewSelect, RequestInsert, Approve, ApproveStale, Close
    <3> QED BY <1>9, <3>1, <3>2 DEF Serving
  <2>2. \A p, j : p \notin Serving => ExactCall(p, j) BY DEF ExactCall
  <2> QED BY <1>1, <2>1, <2>2, ExactByGoto
<1>10. CASE Aside BY <1>10, AsideStep DEF threads, ExactJobs
<1>11. ASSUME NEW d \in Daemon, Crash(d) PROVE ExactJobs'
  <2>1. ASSUME NEW u \in Thread PROVE ExactCall(pc'[u], job'[u])
    <3>1. (pc'[u] = "idle") \/ (pc'[u] = pc[u] /\ job'[u] = job[u]) BY <1>11 DEF Crash
    <3> QED BY <3>1 DEF ExactJobs, ExactCall, Serving
  <2> QED BY <2>1 DEF ExactJobs
<1>12. ASSUME NEW t \in Thread, LockedStep(t) PROVE ExactJobs'
  <2>1. Goto(t, "idle", NoJob) BY <1>12, LockedReturns DEF Return
  <2>2. ExactCall("idle", NoJob) BY DEF ExactCall, Serving
  <2> QED BY <1>1, <2>1, <2>2, ExactByGoto
<1> QED BY <1>3, <1>4, <1>6, <1>7, <1>8, <1>9, <1>10, <1>11, <1>12, Sorted
        DEF Reading, Writing

\* No request for a named secret comes to have a definition.
LEMMA ExactRowsStep ==
  ASSUME IInv, ExactJobs, ExactRows, [Next]_vars
  PROVE  ExactRows'
<1>1. CASE \A t \in Thread : ~RequestInsert(t)
  <2>1. ASSUME NEW r \in Request PROVE ExactRow(table'[r])
    <3>1. RowStep(table[r], table'[r]) BY RowsStep DEF IInv, Shape
    <3>2. table[r].status = "free" => table'[r].status = "free"
      BY <1>1, <3>1, PostedByInsertOnly DEF NonePosted, RowStep, Edges
    <3> QED BY <3>1, <3>2 DEF RowStep, ExactRow, ExactRows
  <2> QED BY <2>1 DEF ExactRows
<1>2. ASSUME NEW t \in Thread, RequestInsert(t) PROVE ExactRows'
  <2>1. PICK r \in Request, row \in {[EmptyRow EXCEPT !.status = "pending",
                                       !.agent = job[t].agent, !.what = job[t].what,
                                       !.terms = job[t].terms, !.def = job[t].def]} :
          SetRow(r, row)
    BY <1>2 DEF RequestInsert
  <2>2. row.what = job[t].what /\ row.def = job[t].def BY <2>1 DEF EmptyRow
  <2>3. ExactCall(pc[t], job[t]) /\ pc[t] \in Serving
    BY <1>2 DEF ExactJobs, RequestInsert, Serving
  <2>4. ExactRow(row) BY <2>2, <2>3 DEF ExactRow, ExactCall
  <2>5. table'[r] = row /\ \A q \in Request \ {r} : table'[q] = table[q]
    BY <2>1 DEF SetRow, IInv, TypeOK
  <2> QED BY <2>4, <2>5 DEF ExactRows
<1> QED BY <1>1, <1>2

\* What the loop over the candidates closes for a named secret has another value now.
LEMMA StaleByClaim ==
  ASSUME IInv, ExactJobs, ExactRows, NEW t \in Thread, ClaimStale(t),
         NEW r \in Request, table'[r] # table[r], ForExact(table[r].what)
  PROVE  ~Standing(table[r])
<1>1. PICK q \in job[t].rows :
        /\ SameVersion(table[q], job[t]) =>
             ~FieldMissing(table[q]) /\ ~SameCredential(table[q])
        /\ \E row : SetRow(q, row)
  BY DEF ClaimStale
<1>2. q = r BY <1>1 DEF SetRow, IInv, TypeOK
<1>3. Reviewed(table[r]) /\ table[r].what = job[t].what /\ pc[t] = "consuming"
  BY <1>1, <1>2 DEF IInv, JobShape, JobOK, HasCandidates, ClaimStale
<1>4. job[t].def = None /\ table[r].def = None
  BY <1>3 DEF ExactJobs, ExactRows, ExactCall, ExactRow, Serving, Reviewed
<1>5. ~SameCredential(table[r]) BY <1>1, <1>2, <1>4 DEF SameVersion
<1> QED BY <1>5 DEF SameCredential, Standing

\* An approved lease on a named secret that a step closes as stale has another value.
LEMMA StaleStep ==
  ASSUME IInv, ExactJobs, ExactRows, [Next]_vars, NEW r \in Request,
         table[r].status = "approved", table'[r].status = "stale",
         ForExact(table[r].what)
  PROVE  ~Standing(table[r])
<1>1. ASSUME NEW t \in Thread, ClaimStale(t) PROVE ~Standing(table[r])
  BY <1>1, StaleByClaim
<1>2. ASSUME UNCHANGED table PROVE FALSE BY <1>2
<1>3. ASSUME NEW t \in Thread, NEW q \in Request, NEW row, SetRow(q, row),
             row.status = "stale" => table[q].status # "approved"
      PROVE  FALSE
  BY <1>3 DEF SetRow, IInv, TypeOK
<1>4. ASSUME NEW t \in Thread, RequestInsert(t) PROVE FALSE
  <2>1. PICK q \in Request, row \in {[EmptyRow EXCEPT !.status = "pending",
                                       !.agent = job[t].agent, !.what = job[t].what,
                                       !.terms = job[t].terms, !.def = job[t].def]} :
          SetRow(q, row)
    BY <1>4 DEF RequestInsert
  <2>2. row.status = "pending" BY <2>1 DEF EmptyRow
  <2> QED BY <1>3, <2>1, <2>2
<1>5. ASSUME NEW t \in Thread, ClaimTake(t) PROVE FALSE
  <2>1. PICK q \in job[t].rows : SetRow(q, [table[q] EXCEPT !.uses = @ + 1])
    BY <1>5 DEF ClaimTake
  <2>2. q \in Request /\ table[q] \in RowType BY DEF IInv, TypeOK, JobType
  <2>3. [table[q] EXCEPT !.uses = @ + 1].status = table[q].status BY <2>2 DEF RowType
  <2> QED BY <1>3, <2>1, <2>2, <2>3
<1>6. ASSUME NEW t \in Thread, Approve(t) \/ ApproveStale(t) \/ Close(t) PROVE FALSE
  <2>1. PICK q : q = job[t].req OBVIOUS
  <2>2. q \in Request /\ table[q] \in RowType
    BY <1>6, <2>1
    DEF IInv, JobShape, JobOK, HasRequest, TypeOK, Approve, ApproveStale, Close
  <2>3. CASE Approve(t)
    <3>1. \E row : SetRow(q, row) /\ table[q].status = "pending"
      BY <2>1, <2>3 DEF Approve, StillOpen, Reviewable
    <3> QED BY <1>3, <2>2, <3>1
  <2>4. CASE ApproveStale(t)
    <3>1. SetRow(q, IF StillOpen(table[q], "approve")
                    THEN [table[q] EXCEPT !.status = "stale"] ELSE table[q])
      BY <2>1, <2>4 DEF ApproveStale
    <3>2. StillOpen(table[q], "approve") => table[q].status = "pending"
      BY DEF StillOpen, Reviewable
    <3>3. PICK row : SetRow(q, row) /\ (table[q].status = "pending" \/ row = table[q])
      BY <3>1, <3>2
    <3> QED BY <1>3, <2>2, <3>3
  <2>5. CASE Close(t)
    <3>1. PICK st \in {"denied", "revoked"} : SetRow(q, [table[q] EXCEPT !.status = st])
      BY <2>1, <2>5 DEF Close
    <3>2. [table[q] EXCEPT !.status = st].status = st BY <2>2 DEF RowType
    <3> QED BY <1>3, <2>2, <3>1, <3>2
  <2> QED BY <1>6, <2>3, <2>4, <2>5
<1>7. ASSUME NEW t \in Thread,
             \/ RequestAudit(t) \/ UseSend(t) \/ UseAudit(t) \/ RevealAudit(t)
             \/ RevealReply(t) \/ ReviewAudit(t)
      PROVE  FALSE
  BY <1>2, <1>7
  DEF RequestAudit, UseSend, UseAudit, RevealAudit, RevealReply, ReviewAudit
<1>8. ASSUME NEW t \in Thread, Ending(t) \/ Reading(t) PROVE FALSE
  BY <1>2, <1>8, SilentStep DEF ledger
<1>9. CASE Aside BY <1>2, <1>9, AsideStep DEF ledger
<1>10. ASSUME NEW d \in Daemon, Crash(d) PROVE FALSE BY <1>2, <1>10 DEF Crash, ledger
<1>11. ASSUME NEW t \in Thread, LockedStep(t) PROVE FALSE
  BY <1>2, <1>11, LockedReturns DEF ledger
<1> QED BY <1>1, <1>4, <1>5, <1>6, <1>7, <1>8, <1>9, <1>10, <1>11, Sorted DEF Writing

\* A lease on a named secret becomes stale only when the credential has another value
\* than the reviewer approved, whatever capabilities there are beside it.
THEOREM ExactStaleOnlyWhenChanged ==
  Spec => [][\A r \in Request :
               Approved(r) /\ ForExact(table[r].what) /\ table'[r].status = "stale"
                 => ~Standing(table[r])]_vars
<1>1. Init => ExactJobs /\ ExactRows
  BY DEF Init, EmptyRow, ExactJobs, ExactRows, ExactCall, ExactRow, Serving
<1>2. IInv /\ ExactJobs /\ ExactRows /\ [Next]_vars => ExactJobs' /\ ExactRows'
  BY ExactJobsStep, ExactRowsStep
<1>3. IInv /\ ExactJobs /\ ExactRows /\ [Next]_vars =>
        [\A r \in Request :
           Approved(r) /\ ForExact(table[r].what) /\ table'[r].status = "stale"
             => ~Standing(table[r])]_vars
  BY StaleStep DEF Approved
<1> QED BY <1>1, <1>2, <1>3, Invariance, PTL DEF Spec

\* Where no agent asks for a capability, no lease becomes stale unless what it was
\* approved for has changed (the UPDATE to 'stale' of _consume_exact_grant).
THEOREM StaleOnlyAfterAChange ==
  ASSUME \A w \in Target : ForExact(w)
  PROVE  Spec => StaleOnlyWhenChanged
<1>1. IInv => \A r \in Request : Approved(r) => ForExact(table[r].what)
  BY DEF IInv, RowShape, RowOK, Approved
<1>2. ASSUME IInv,
             [\A r \in Request :
                Approved(r) /\ ForExact(table[r].what) /\ table'[r].status = "stale"
                  => ~Standing(table[r])]_vars
      PROVE  [\A r \in Request :
                Approved(r) /\ table'[r].status = "stale" => ~Standing(table[r])]_vars
  BY <1>1, <1>2
<1> QED BY <1>2, Invariance, ExactStaleOnlyWhenChanged, PTL DEF StaleOnlyWhenChanged
=============================================================================
