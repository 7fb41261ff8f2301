------------------------------ MODULE LeaseProofs ------------------------------
(***************************************************************************)
(* Theorems about the lease state machine, for every set of agents, items, *)
(* connections and daemons, every quota and every bound.                   *)
(***************************************************************************)
EXTENDS LeaseProperties, TLAPS, FiniteSetTheorems

-----------------------------------------------------------------------------
(* Lemmas about the operators the actions are built from *)

\* What a reviewer enters never widens a request and never falls under the
\* floor of the request (approve_access, the min and max of its clamps).
LEMMA ClampBounds ==
  ASSUME NEW asked \in Nat, NEW floor \in Nat, NEW entered \in Int
  PROVE  /\ Clamp(asked, floor, entered) \in Nat
         /\ Clamp(asked, floor, entered) <= asked
         /\ floor <= asked => floor <= Clamp(asked, floor, entered)
BY DEF Clamp

\* A step of a handler leaves the program counters and the local variables of
\* all threads typed.
LEMMA GotoTyped ==
  ASSUME TypeOK, NEW t \in Thread, NEW p \in PC, NEW j \in JobType,
         Goto(t, p, j)
  PROVE  pc' \in [Thread -> PC] /\ job' \in [Thread -> JobType]
BY DEF TypeOK, Goto

\* The local variables of a thread that serves no call are typed.
LEMMA NoJobTyped == NoJob \in JobType
BY DEF NoJob, JobType

\* A handler that returns or raises leaves its thread typed.
LEMMA ReturnTyped ==
  ASSUME TypeOK, NEW t \in Thread, Return(t)
  PROVE  pc' \in [Thread -> PC] /\ job' \in [Thread -> JobType]
BY GotoTyped, NoJobTyped DEF Return, PC

\* Taking and giving up a lock leaves the locks typed.
LEMMA LockTyped ==
  ASSUME TypeOK, NEW t \in Thread, Acquire(t) \/ Release(t) \/ Briefly(t)
  PROVE  lock' \in [Daemon -> Thread \cup {None}]
BY ConstantsAssumption DEF TypeOK, Acquire, Release, Briefly

\* Writing a typed row leaves the access_requests table typed.
LEMMA SetRowTyped ==
  ASSUME TypeOK, NEW r \in Request, NEW row \in RowType, SetRow(r, row)
  PROVE  table' \in [Request -> RowType]
BY DEF TypeOK, SetRow

\* get_capability_row finds a definition or nothing.
LEMMA CurrentDefinitionTyped ==
  ASSUME TypeOK, NEW w \in Target
  PROVE  CurrentDefinition(w) \in Definition \cup {None}
<1>1. w.kind = "capability.invoke" => w.on \in Capability
  BY ConstantsAssumption DEF TargetType
<1> QED BY <1>1 DEF TypeOK, CurrentDefinition

-----------------------------------------------------------------------------
(* Type correctness *)

\* The initial state is typed.
LEMMA InitTyped == Init => TypeOK
BY ConstantsAssumption
DEF Init, TypeOK, EmptyRow, NoJob, RowType, JobType, Status, PC, ItemType

Shape == TypeOK /\ JobShape /\ RowShape

\* The steps of an agent's call before it takes the lock.
LEMMA EntryTyped ==
  ASSUME Shape, NEW t \in Thread,
         Authenticate(t) \/ Prepare(t) \/ RefuseEarly(t)
  PROVE  TypeOK'
<1> USE DEF Shape
<1>1. CASE Authenticate(t)
  <2>1. PICK call \in {"request", "consume"}, a \in Agent, w \in Target,
             m \in Terms \cup {NoTerms} :
               Goto(t, "authed", [NoJob EXCEPT !.call = call, !.agent = a,
                                               !.what = w, !.terms = m])
    BY <1>1 DEF Authenticate
  <2>2. [NoJob EXCEPT !.call = call, !.agent = a, !.what = w, !.terms = m]
          \in JobType
    BY DEF NoJob, JobType, Call
  <2>3. pc' \in [Thread -> PC] /\ job' \in [Thread -> JobType]
    BY <2>1, <2>2, GotoTyped DEF PC
  <2> QED BY <1>1, <2>3, LockTyped
          DEF Authenticate, TypeOK, store, ledger, spare
<1>2. CASE Prepare(t)
  <2> DEFINE d == CurrentDefinition(job[t].what)
             j == [job[t] EXCEPT !.def = d, !.ts = clock]
  <2>1. d \in Definition \cup {None}
    BY <1>2, CurrentDefinitionTyped DEF JobShape, JobOK, HasCall, Serving, Prepare
  <2>2. job[t] \in JobType /\ clock \in Nat BY DEF TypeOK
  <2> HIDE DEF d
  <2>3. j \in JobType BY <2>1, <2>2 DEF JobType
  <2> USE DEF d
  <2>4. pc' \in [Thread -> PC] /\ job' \in [Thread -> JobType]
    BY <1>2, <2>3, GotoTyped DEF PC, Prepare
  <2> QED BY <1>2, <2>4 DEF Prepare, TypeOK, store, ledger, spare
<1>3. CASE RefuseEarly(t)
  BY <1>3, ReturnTyped DEF RefuseEarly, TypeOK, store, ledger, spare
<1> QED BY <1>1, <1>2, <1>3

\* The steps of request_access and request_capability under and after the
\* lock keep the types.
LEMMA RequestTyped ==
  ASSUME Shape, NEW t \in Thread,
         \/ RequestSelect(t) \/ RequestExisting(t) \/ RequestFull(t)
         \/ RequestInsert(t) \/ RequestAudit(t)
  PROVE  TypeOK'
<1> USE DEF Shape
<1>1. CASE RequestSelect(t)
  <2>1. [job[t] EXCEPT !.rows = PendingOf(job[t].agent)] \in JobType
    BY SMTT(30) DEF TypeOK, JobType, PendingOf
  <2>2. pc' \in [Thread -> PC] /\ job' \in [Thread -> JobType]
    BY <1>1, <2>1, GotoTyped DEF PC, RequestSelect
  <2> QED BY <1>1, <2>2, LockTyped
          DEF RequestSelect, TypeOK, store, ledger, spare
<1>2. CASE RequestExisting(t) \/ RequestFull(t)
  BY <1>2, ReturnTyped, LockTyped
  DEF RequestExisting, RequestFull, TypeOK, store, ledger, spare
<1>3. CASE RequestInsert(t)
  <2>1. PICK r \in Request :
          /\ SetRow(r, [EmptyRow EXCEPT !.status = "pending",
                !.agent = job[t].agent, !.what = job[t].what,
                !.terms = job[t].terms, !.def = job[t].def])
          /\ Goto(t, "recorded", [NoJob EXCEPT !.call = "request", !.req = r])
    BY <1>3 DEF RequestInsert
  <2>2. table' \in [Request -> RowType]
    BY <2>1, SetRowTyped DEF TypeOK, JobType, RowType, EmptyRow, Status
  <2>3. [NoJob EXCEPT !.call = "request", !.req = r] \in JobType
    BY DEF NoJob, JobType, Call
  <2>4. pc' \in [Thread -> PC] /\ job' \in [Thread -> JobType]
    BY <2>1, <2>3, GotoTyped DEF PC
  <2> QED BY <1>3, <2>2, <2>4, LockTyped
          DEF RequestInsert, TypeOK, store, spare
<1>4. CASE RequestAudit(t)
  <2>1. trail' \in SUBSET [op: Call \cup {"stale"}, on: Request]
    BY <1>4 DEF RequestAudit, Record, TypeOK, JobShape, JobOK, HasRequest, Call
  <2> QED BY <1>4, <2>1, ReturnTyped, LockTyped
          DEF RequestAudit, TypeOK, store, spare
<1> QED BY <1>1, <1>2, <1>3, <1>4

\* Passing over a candidate leaves the thread typed.
LEMMA SkipTyped ==
  ASSUME TypeOK, NEW t \in Thread, NEW r, Skip(t, r)
  PROVE  pc' \in [Thread -> PC] /\ job' \in [Thread -> JobType]
<1>1. [job[t] EXCEPT !.rows = @ \ {r}] \in JobType
  BY SMTT(30) DEF TypeOK, JobType
<1> QED BY <1>1, GotoTyped DEF Skip, PC

\* The steps of _consume_exact_grant and _consume_capability_grant keep the
\* types.
LEMMA ClaimTyped ==
  ASSUME Shape, NEW t \in Thread,
         \/ ClaimSelect(t) \/ ClaimStale(t) \/ ClaimBroken(t) \/ ClaimTake(t)
         \/ ClaimLost(t) \/ ClaimNone(t) \/ RefuseAudit(t)
  PROVE  TypeOK'
<1> USE DEF Shape
<1>1. CASE ClaimSelect(t)
  <2>1. [job[t] EXCEPT !.rows = CandidatesOf(job[t])] \in JobType
    BY ZenonT(30) DEF TypeOK, JobType, CandidatesOf
  <2>2. pc' \in [Thread -> PC] /\ job' \in [Thread -> JobType]
    BY <1>1, <2>1, GotoTyped DEF PC, ClaimSelect
  <2> QED BY <1>1, <2>2, LockTyped
          DEF ClaimSelect, TypeOK, store, ledger, spare
<1>2. CASE ClaimStale(t)
  <2>1. PICK r \in job[t].rows :
          /\ SetRow(r, IF table[r].status = "approved"
                       THEN [table[r] EXCEPT !.status = "stale"]
                       ELSE table[r])
          /\ Skip(t, r)
    BY <1>2 DEF ClaimStale
  <2>2. r \in Request
    BY DEF TypeOK, JobType
  <2>3. table[r] \in RowType
    BY <2>2 DEF TypeOK
  <2>4. [table[r] EXCEPT !.status = "stale"] \in RowType
    BY <2>3 DEF RowType, Status
  <2>5. table' \in [Request -> RowType]
    BY <2>1, <2>2, <2>3, <2>4, SetRowTyped
  <2> QED BY <1>2, <2>1, <2>5, SkipTyped
          DEF ClaimStale, TypeOK, store, spare
<1>3. CASE ClaimBroken(t)
  BY <1>3, ReturnTyped, LockTyped
  DEF ClaimBroken, TypeOK, store, ledger, spare
<1>4. CASE ClaimTake(t)
  <2>1. PICK r \in job[t].rows :
          /\ Spendable(table[r], job[t].ts)
          /\ SetRow(r, [table[r] EXCEPT !.uses = @ + 1])
          /\ Goto(t, "claimed",
                  [job[t] EXCEPT !.ts = 0, !.rows = {}, !.req = r,
                                 !.val = items[table[r].item].val])
    BY <1>4 DEF ClaimTake
  <2>2. r \in Request
    BY DEF TypeOK, JobType
  <2>3. table' \in [Request -> RowType]
    <3>1. table[r] \in RowType
      BY <2>2 DEF TypeOK
    <3>2. [table[r] EXCEPT !.uses = @ + 1] \in RowType
      BY <3>1 DEF RowType
    <3> QED BY <2>1, <2>2, <3>2, SetRowTyped
  <2>4. items[table[r].item].val \in Value \cup {None}
    BY <2>1, <2>2 DEF Spendable, RowShape, RowOK, TypeOK, ItemType
  <2>5. [job[t] EXCEPT !.ts = 0, !.rows = {}, !.req = r,
                       !.val = items[table[r].item].val] \in JobType
    <3>1. job[t] \in JobType
      BY DEF TypeOK
    <3> QED BY <2>2, <2>4, <3>1 DEF JobType
  <2>6. pc' \in [Thread -> PC] /\ job' \in [Thread -> JobType]
    BY <2>1, <2>5, GotoTyped DEF PC
  <2> QED BY <1>4, <2>3, <2>6, LockTyped
          DEF ClaimTake, TypeOK, store, spare
<1>5. CASE ClaimLost(t)
  BY <1>5, SkipTyped DEF ClaimLost, TypeOK, store, ledger, spare
<1>6. CASE ClaimNone(t)
  <2>1. [NoJob EXCEPT !.call = "consume", !.agent = job[t].agent] \in JobType
    BY DEF NoJob, JobType, Call, TypeOK
  <2>2. pc' \in [Thread -> PC] /\ job' \in [Thread -> JobType]
    BY <1>6, <2>1, GotoTyped DEF PC, ClaimNone
  <2> QED BY <1>6, <2>2, LockTyped
          DEF ClaimNone, TypeOK, store, ledger, spare
<1>7. CASE RefuseAudit(t)
  BY <1>7, ReturnTyped, LockTyped
  DEF RefuseAudit, TypeOK, store, ledger, spare
<1> QED BY <1>1, <1>2, <1>3, <1>4, <1>5, <1>6, <1>7

\* Counting one more use of a request keeps the counters typed.
LEMMA CountTyped ==
  ASSUME NEW f \in [Request -> Nat], NEW r \in Request
  PROVE  Count(f, r) \in [Request -> Nat]
BY DEF Count

\* The steps of invoke_capability, broker_http and reveal_secret after the
\* claim keep the types.
LEMMA UseTyped ==
  ASSUME Shape, NEW t \in Thread,
         \/ UseSend(t) \/ UseFail(t) \/ UseAudit(t)
         \/ RevealAudit(t) \/ RevealReply(t)
  PROVE  TypeOK'
<1> USE DEF Shape
<1>1. CASE UseSend(t)
  <2>1. pc' \in [Thread -> PC] /\ job' \in [Thread -> JobType]
    BY <1>1, GotoTyped DEF PC, UseSend, TypeOK
  <2>2. out' \in [Request -> Nat]
    BY <1>1, CountTyped DEF UseSend, TypeOK, JobShape, JobOK, HasRequest, Using
  <2> QED BY <1>1, <2>1, <2>2 DEF UseSend, TypeOK, store, spare
<1>2. CASE UseFail(t)
  BY <1>2, ReturnTyped DEF UseFail, TypeOK, store, ledger, spare
<1>3. CASE UseAudit(t)
  <2>1. receipts' \in [Request -> Nat]
    BY <1>3, CountTyped DEF UseAudit, TypeOK, JobShape, JobOK, HasRequest, Using
  <2> QED BY <1>3, <2>1, ReturnTyped, LockTyped
          DEF UseAudit, TypeOK, store, spare
<1>4. CASE RevealAudit(t)
  <2>1. pc' \in [Thread -> PC] /\ job' \in [Thread -> JobType]
    BY <1>4, GotoTyped DEF PC, RevealAudit, TypeOK
  <2>2. receipts' \in [Request -> Nat]
    BY <1>4, CountTyped DEF RevealAudit, TypeOK, JobShape, JobOK, HasRequest, Using
  <2> QED BY <1>4, <2>1, <2>2, LockTyped
          DEF RevealAudit, TypeOK, store, spare
<1>5. CASE RevealReply(t)
  <2>1. out' \in [Request -> Nat]
    BY <1>5, CountTyped DEF RevealReply, TypeOK, JobShape, JobOK, HasRequest, Using
  <2> QED BY <1>5, <2>1, ReturnTyped DEF RevealReply, TypeOK, store, spare
<1> QED BY <1>1, <1>2, <1>3, <1>4, <1>5

\* What an agent asks for is at least the floor of either clamp
\* (request_access, request_capability).
LEMMA TermsTyped ==
  ASSUME NEW m \in Terms
  PROVE  /\ m.ttl \in Nat /\ m.uses \in Nat
         /\ MinTTL <= m.ttl /\ 1 <= m.uses
<1>1. m \in [ttl: Nat, uses: 1 .. MaxUses] /\ m.ttl >= MinTTL
  BY ConstantsAssumption
<1>2. m.uses \in 1 .. MaxUses /\ m.ttl \in Nat /\ MaxUses \in Nat
      /\ MinTTL \in Nat
  BY <1>1, ConstantsAssumption
<1> QED BY <1>1, <1>2

\* The columns that approve_access writes make a typed row.
LEMMA GrantTyped ==
  ASSUME NEW row \in RowType, NEW i \in Item, NEW v \in Value \cup {None},
         NEW e \in Nat, NEW m \in Nat
  PROVE  [row EXCEPT !.status = "approved", !.item = i, !.cred = v,
                     !.expires = e, !.max = m, !.uses = 0] \in RowType
BY DEF RowType, Status

\* The steps of approve_access, deny_access and revoke_access keep the types.
LEMMA ReviewTyped ==
  ASSUME Shape, NEW t \in Thread,
         \/ ReviewSelect(t) \/ Approve(t) \/ ApproveStale(t)
         \/ ApproveUnbound(t) \/ Close(t) \/ ReviewLost(t) \/ ReviewAudit(t)
  PROVE  TypeOK'
<1> USE DEF Shape
<1>1. CASE ReviewSelect(t)
  <2>1. PICK call \in Call, r \in Request :
          Goto(t, "reviewing", [NoJob EXCEPT !.call = call, !.req = r])
    BY <1>1 DEF ReviewSelect, Call
  <2>2. [NoJob EXCEPT !.call = call, !.req = r] \in JobType
    BY DEF NoJob, JobType
  <2>3. pc' \in [Thread -> PC] /\ job' \in [Thread -> JobType]
    BY <2>1, <2>2, GotoTyped DEF PC
  <2> QED BY <1>1, <2>3, LockTyped
          DEF ReviewSelect, TypeOK, store, ledger, spare
<1>2. ASSUME NEW row \in RowType, SetRow(job[t].req, row),
             pc[t] = "reviewing"
      PROVE  table' \in [Request -> RowType]
  BY <1>2, SetRowTyped DEF JobShape, JobOK, HasRequest
<1>3. pc[t] = "reviewing" => table[job[t].req] \in RowType
  BY DEF JobShape, JobOK, HasRequest, TypeOK
<1>4. CASE Approve(t)
  <2> DEFINE row == table[job[t].req]
  <2>1. PICK i \in Item, ttl \in ReviewTTL, n \in ReviewUses :
          /\ Binds(row, i)
          /\ SetRow(job[t].req,
               [row EXCEPT !.status = "approved", !.item = i,
                  !.cred = items[i].val,
                  !.expires = clock + Clamp(row.terms.ttl, MinTTL, ttl),
                  !.max = Clamp(row.terms.uses, 1, n), !.uses = 0])
    BY <1>4 DEF Approve
  <2>2. row.terms.ttl \in Nat /\ row.terms.uses \in Nat
    BY <1>4, TermsTyped
    DEF Approve, JobShape, JobOK, HasRequest, RowShape, RowOK
  <2>3. Clamp(row.terms.ttl, MinTTL, ttl) \in Nat
    BY <2>2, ClampBounds, ConstantsAssumption
  <2>4. Clamp(row.terms.uses, 1, n) \in Nat
    BY <2>2, ClampBounds, ConstantsAssumption
  <2>5. items[i].val \in Value \cup {None}
    BY DEF TypeOK, ItemType
  <2>6. clock + Clamp(row.terms.ttl, MinTTL, ttl) \in Nat
    BY <2>3 DEF TypeOK
  <2>7. [row EXCEPT !.status = "approved", !.item = i,
           !.cred = items[i].val,
           !.expires = clock + Clamp(row.terms.ttl, MinTTL, ttl),
           !.max = Clamp(row.terms.uses, 1, n), !.uses = 0] \in RowType
    BY ZenonT(30), <1>3, <1>4, <2>4, <2>5, <2>6, GrantTyped DEF Approve
  <2>8. table' \in [Request -> RowType]
    BY <1>2, <1>4, <2>1, <2>7 DEF Approve
  <2>9. pc' \in [Thread -> PC] /\ job' \in [Thread -> JobType]
    BY <1>4, GotoTyped DEF PC, Approve, TypeOK
  <2> QED BY <1>4, <2>8, <2>9 DEF Approve, TypeOK, store, spare
<1>5. CASE ApproveStale(t)
  <2> DEFINE row == table[job[t].req]
  <2>1. (IF StillOpen(row, "approve")
         THEN [row EXCEPT !.status = "stale"] ELSE row) \in RowType
    BY <1>3, <1>5 DEF ApproveStale, RowType, Status
  <2>2. table' \in [Request -> RowType]
    BY <1>2, <1>5, <2>1 DEF ApproveStale
  <2>3. [job[t] EXCEPT !.call = "stale"] \in JobType
    BY SMTT(30) DEF TypeOK, JobType
  <2>4. pc' \in [Thread -> PC] /\ job' \in [Thread -> JobType]
    BY <1>5, <2>3, GotoTyped DEF PC, ApproveStale
  <2> QED BY <1>5, <2>2, <2>4 DEF ApproveStale, TypeOK, store, spare
<1>6. CASE ApproveUnbound(t) \/ ReviewLost(t)
  BY <1>6, ReturnTyped, LockTyped
  DEF ApproveUnbound, ReviewLost, TypeOK, store, ledger, spare
<1>7. CASE Close(t)
  <2> DEFINE row == table[job[t].req]
  <2>1. [row EXCEPT !.status = IF job[t].call = "deny" THEN "denied"
                                                       ELSE "revoked"]
          \in RowType
    BY <1>3, <1>7 DEF Close, RowType, Status
  <2>2. table' \in [Request -> RowType]
    BY <1>2, <1>7, <2>1 DEF Close
  <2>3. pc' \in [Thread -> PC] /\ job' \in [Thread -> JobType]
    BY <1>7, GotoTyped DEF PC, Close, TypeOK
  <2> QED BY <1>7, <2>2, <2>3 DEF Close, TypeOK, store, spare
<1>8. CASE ReviewAudit(t)
  <2>1. trail' \in SUBSET [op: Call \cup {"stale"}, on: Request]
    BY <1>8 DEF ReviewAudit, Record, TypeOK, JobShape, JobOK, HasRequest
  <2> QED BY <1>8, <2>1, ReturnTyped, LockTyped
          DEF ReviewAudit, TypeOK, store, spare
<1> QED BY <1>1, <1>4, <1>5, <1>6, <1>7, <1>8

\* put_capability, put_item and revoke_agent keep the types.
LEMMA AdminTyped ==
  ASSUME TypeOK, NEW t \in Thread,
         PutCapability(t) \/ PutItem(t) \/ RevokeAgent(t)
  PROVE  TypeOK'
<1>1. CASE PutCapability(t)
  BY <1>1, LockTyped DEF PutCapability, Change, TypeOK, ledger
<1>2. CASE PutItem(t)
  BY <1>2 DEF PutItem, Change, TypeOK, ItemType, ledger, threads
<1>3. CASE RevokeAgent(t)
  BY <1>3 DEF RevokeAgent, TypeOK, store, ledger, threads, spare
<1> QED BY <1>1, <1>2, <1>3

\* The clock and the loss of a daemon keep the types.
LEMMA WorldTyped ==
  ASSUME TypeOK, Tick \/ \E d \in Daemon : Crash(d)
  PROVE  TypeOK'
<1>1. CASE Tick
  BY <1>1 DEF Tick, TypeOK, store, ledger, threads, spare
<1>2. ASSUME NEW d \in Daemon, Crash(d)
      PROVE  TypeOK'
  <2>1. pc' \in [Thread -> PC]
    BY <1>2 DEF Crash, TypeOK, PC
  <2>2. job' \in [Thread -> JobType]
    BY <1>2, NoJobTyped DEF Crash, TypeOK
  <2> QED BY <1>2, <2>1, <2>2 DEF Crash, TypeOK, store, ledger
<1> QED BY <1>1, <1>2

\* A handler that finds the database locked raises and leaves no trace.
LEMMA LockedReturns ==
  ASSUME NEW t \in Thread, LockedStep(t)
  PROVE  /\ Return(t) /\ UNCHANGED <<clock, barred, store, ledger, spare>>
         /\ Release(t) \/ Briefly(t)
BY DEF LockedStep, WriteLocked, AuditLocked

\* It keeps the types.
LEMMA LockedTyped ==
  ASSUME TypeOK, NEW t \in Thread, LockedStep(t)
  PROVE  TypeOK'
<1>1. /\ UNCHANGED <<clock, barred, store, ledger, spare>>
      /\ pc' \in [Thread -> PC] /\ job' \in [Thread -> JobType]
      /\ lock' \in [Daemon -> Thread \cup {None}]
  BY LockedReturns, ReturnTyped, LockTyped
<1> QED BY <1>1 DEF TypeOK, store, ledger, spare

\* A step that changes nothing keeps the types.
LEMMA StutterTyped ==
  ASSUME TypeOK, UNCHANGED vars
  PROVE  TypeOK'
BY DEF TypeOK, vars, store, ledger, threads, spare

-----------------------------------------------------------------------------
(* What a step does to the table: one row, in one of four ways, or nothing *)

Inserted(old, new) ==
  /\ old.status = "free" /\ new.status = "pending"
  /\ new.agent \in Agent /\ new.what \in Target /\ new.terms \in Terms
  /\ new.max = 0 /\ new.uses = 0
Granted(old, new) ==
  /\ old.status = "pending"
  /\ \E i \in Item, v \in Value, e \in Nat, m \in 1 .. old.terms.uses :
       new = [old EXCEPT !.status = "approved", !.item = i, !.cred = v,
                         !.expires = e, !.max = m, !.uses = 0]
Closed(old, new) ==
  \E st \in Status :
    /\ new = [old EXCEPT !.status = st]
    /\ \/ old.status = "pending" /\ st \in {"denied", "stale"}
       \/ old.status = "approved" /\ st \in {"revoked", "stale"}
Used(old, new) ==
  /\ old.status = "approved" /\ old.uses < old.max
  /\ new = [old EXCEPT !.uses = @ + 1]
RowChange(old, new) ==
  Inserted(old, new) \/ Granted(old, new) \/ Closed(old, new) \/ Used(old, new)

OneRow ==
  \E r \in Request : /\ RowChange(table[r], table'[r])
                     /\ table' = [table EXCEPT ![r] = table'[r]]

\* One UPDATE or INSERT on access_requests changes one row.
LEMMA OneRowBySetRow ==
  ASSUME TypeOK, NEW r \in Request, NEW row, SetRow(r, row),
         RowChange(table[r], row)
  PROVE  OneRow
BY DEF OneRow, SetRow, TypeOK

\* The INSERT of a request turns a free row into a pending one.
LEMMA InsertChanges ==
  ASSUME Shape, NEW t \in Thread, RequestInsert(t)
  PROVE  OneRow
<1> DEFINE row == [EmptyRow EXCEPT !.status = "pending",
                     !.agent = job[t].agent, !.what = job[t].what,
                     !.terms = job[t].terms, !.def = job[t].def]
<1>1. PICK r \in Request : table[r].status = "free" /\ SetRow(r, row)
  BY DEF RequestInsert
<1>2. /\ job[t].agent \in Agent /\ job[t].what \in Target
      /\ job[t].terms \in Terms
  BY DEF RequestInsert, Shape, JobShape, JobOK, HasCall, Serving
<1>3. Inserted(table[r], row)
  BY <1>1, <1>2 DEF Inserted, EmptyRow
<1> QED BY <1>1, <1>3, OneRowBySetRow DEF RowChange, Shape

\* Closing a stale candidate closes an approved lease or does nothing
\* (UPDATE ... WHERE status='approved').
LEMMA ClaimStaleChanges ==
  ASSUME Shape, NEW t \in Thread, ClaimStale(t)
  PROVE  table' = table \/ OneRow
<1>1. PICK r \in job[t].rows :
        SetRow(r, IF table[r].status = "approved"
                  THEN [table[r] EXCEPT !.status = "stale"]
                  ELSE table[r])
  BY DEF ClaimStale
<1>2. r \in Request
  BY DEF Shape, TypeOK, JobType
<1>3. CASE table[r].status = "approved"
  <2>1. Closed(table[r], [table[r] EXCEPT !.status = "stale"])
    BY <1>3 DEF Closed, Status
  <2> QED BY <1>1, <1>2, <1>3, <2>1, OneRowBySetRow DEF RowChange, Shape
<1>4. CASE table[r].status # "approved"
  BY <1>1, <1>2, <1>4 DEF SetRow, Shape, TypeOK
<1> QED BY <1>3, <1>4

\* The conditional UPDATE of a claim counts one use within the budget.
LEMMA ClaimTakeChanges ==
  ASSUME Shape, NEW t \in Thread, ClaimTake(t)
  PROVE  OneRow
<1>1. PICK r \in job[t].rows :
        Spendable(table[r], job[t].ts)
        /\ SetRow(r, [table[r] EXCEPT !.uses = @ + 1])
  BY DEF ClaimTake
<1>2. r \in Request
  BY DEF Shape, TypeOK, JobType
<1>3. Used(table[r], [table[r] EXCEPT !.uses = @ + 1])
  BY <1>1 DEF Used, Spendable
<1> QED BY <1>1, <1>2, <1>3, OneRowBySetRow DEF RowChange, Shape

\* approve_access grants a pending request, within what was asked.
LEMMA ApproveChanges ==
  ASSUME Shape, NEW t \in Thread, Approve(t)
  PROVE  OneRow
<1> DEFINE r == job[t].req
           row == table[r]
<1>1. r \in Request /\ row \in RowType /\ row.status = "pending"
  BY DEF Approve, StillOpen, Reviewable, Shape, JobShape, JobOK, HasRequest,
         TypeOK
<1>2. PICK i \in Item, ttl \in ReviewTTL, n \in ReviewUses :
        /\ Binds(row, i)
        /\ SetRow(r, [row EXCEPT !.status = "approved", !.item = i,
                 !.cred = items[i].val,
                 !.expires = clock + Clamp(row.terms.ttl, MinTTL, ttl),
                 !.max = Clamp(row.terms.uses, 1, n), !.uses = 0])
  BY DEF Approve
<1>3. row.terms \in Terms
  BY <1>1 DEF Shape, RowShape, RowOK
<1>4. Clamp(row.terms.ttl, MinTTL, ttl) \in Nat
  BY <1>3, TermsTyped, ClampBounds, ConstantsAssumption
<1>5. clock + Clamp(row.terms.ttl, MinTTL, ttl) \in Nat
  BY <1>4 DEF Shape, TypeOK
<1>6. Clamp(row.terms.uses, 1, n) \in 1 .. row.terms.uses
  BY <1>3, TermsTyped, ClampBounds, ConstantsAssumption
<1>7. items[i].val \in Value
  BY <1>2 DEF Binds, Shape, TypeOK, ItemType
<1>8. Granted(row, [row EXCEPT !.status = "approved", !.item = i,
                 !.cred = items[i].val,
                 !.expires = clock + Clamp(row.terms.ttl, MinTTL, ttl),
                 !.max = Clamp(row.terms.uses, 1, n), !.uses = 0])
  BY <1>1, <1>5, <1>6, <1>7 DEF Granted
<1> QED BY <1>1, <1>2, <1>8, OneRowBySetRow DEF RowChange, Shape

\* approve_access closes a pending request whose capability was redefined.
LEMMA ApproveStaleChanges ==
  ASSUME Shape, NEW t \in Thread, ApproveStale(t)
  PROVE  table' = table \/ OneRow
<1> DEFINE r == job[t].req
           row == table[r]
<1>1. r \in Request
  BY DEF ApproveStale, Shape, JobShape, JobOK, HasRequest
<1>2. SetRow(r, IF StillOpen(row, "approve")
                THEN [row EXCEPT !.status = "stale"] ELSE row)
  BY DEF ApproveStale
<1>3. CASE StillOpen(row, "approve")
  <2>1. Closed(row, [row EXCEPT !.status = "stale"])
    BY <1>3 DEF Closed, Status, StillOpen, Reviewable
  <2> QED BY <1>1, <1>2, <1>3, <2>1, OneRowBySetRow DEF RowChange, Shape
<1>4. CASE ~StillOpen(row, "approve")
  BY <1>1, <1>2, <1>4 DEF SetRow, Shape, TypeOK
<1> QED BY <1>3, <1>4

\* deny_access and revoke_access close a row in the status they require.
LEMMA CloseChanges ==
  ASSUME Shape, NEW t \in Thread, Close(t)
  PROVE  OneRow
<1> DEFINE r == job[t].req
           st == IF job[t].call = "deny" THEN "denied" ELSE "revoked"
<1>1. r \in Request
  BY DEF Close, Shape, JobShape, JobOK, HasRequest
<1>2. SetRow(r, [table[r] EXCEPT !.status = st])
  BY DEF Close
<1>3. Closed(table[r], [table[r] EXCEPT !.status = st])
  BY DEF Close, Closed, Status, StillOpen, Reviewable
<1> QED BY <1>1, <1>2, <1>3, OneRowBySetRow DEF RowChange, Shape

\* Every step changes at most one row of the table, in one of the four ways,
\* and no use leaves the service in a step that changes the table.
LEMMA TableStep ==
  ASSUME Shape, [Next]_vars
  PROVE  table' = table \/ (OneRow /\ out' = out)
<1>1. ASSUME NEW t \in Thread, AgentStep(t)
      PROVE  table' = table \/ (OneRow /\ out' = out)
  <2>1. CASE RequestInsert(t) \/ ClaimStale(t) \/ ClaimTake(t)
    BY <2>1, InsertChanges, ClaimStaleChanges, ClaimTakeChanges
    DEF RequestInsert, ClaimStale, ClaimTake
  <2>2. CASE \/ Authenticate(t) \/ Prepare(t) \/ RefuseEarly(t)
             \/ RequestSelect(t) \/ RequestExisting(t) \/ RequestFull(t)
             \/ RequestAudit(t)
    BY <2>2 DEF Authenticate, Prepare, RefuseEarly, RequestSelect,
                RequestExisting, RequestFull, RequestAudit, ledger
  <2>3. CASE \/ ClaimSelect(t) \/ ClaimBroken(t) \/ ClaimLost(t)
             \/ ClaimNone(t) \/ RefuseAudit(t)
    BY <2>3 DEF ClaimSelect, ClaimBroken, ClaimLost, ClaimNone, RefuseAudit,
                ledger
  <2>4. CASE \/ UseSend(t) \/ UseFail(t) \/ UseAudit(t)
             \/ RevealAudit(t) \/ RevealReply(t)
    BY <2>4 DEF UseSend, UseFail, UseAudit, RevealAudit, RevealReply, ledger
  <2> QED BY <1>1, <2>1, <2>2, <2>3, <2>4 DEF AgentStep
<1>2. ASSUME NEW t \in Thread, AdminStep(t)
      PROVE  table' = table \/ (OneRow /\ out' = out)
  <2>1. CASE Approve(t) \/ ApproveStale(t) \/ Close(t)
    BY <2>1, ApproveChanges, ApproveStaleChanges, CloseChanges
    DEF Approve, ApproveStale, Close
  <2>2. CASE \/ ReviewSelect(t) \/ ApproveUnbound(t) \/ ReviewLost(t)
             \/ ReviewAudit(t)
    BY <2>2 DEF ReviewSelect, ApproveUnbound, ReviewLost, ReviewAudit, ledger
  <2>3. CASE PutCapability(t) \/ PutItem(t) \/ RevokeAgent(t)
    BY <2>3 DEF PutCapability, PutItem, RevokeAgent, ledger
  <2> QED BY <1>2, <2>1, <2>2, <2>3 DEF AdminStep
<1>3. CASE Tick \/ (\E d \in Daemon : Crash(d)) \/ UNCHANGED vars
  BY <1>3 DEF Tick, Crash, vars, ledger
<1>4. ASSUME NEW t \in Thread, LockedStep(t)
      PROVE  table' = table
  BY <1>4, LockedReturns DEF ledger
<1> QED BY <1>1, <1>2, <1>3, <1>4 DEF Next, HandlerStep

-----------------------------------------------------------------------------
(* The life of a row *)

\* Each of the four ways to change a row is a legal step of a row's life and
\* keeps what a row holds in each status.
LEMMA RowChangeStep ==
  ASSUME NEW old \in RowType, NEW new, RowOK(old), RowChange(old, new)
  PROVE  RowStep(old, new) /\ RowOK(new)
<1>1. CASE Inserted(old, new)
  BY <1>1, TermsTyped DEF Inserted, RowStep, Edges, RowOK, Reviewed
<1>2. CASE Granted(old, new)
  <2>1. PICK i \in Item, v \in Value, e \in Nat, m \in 1 .. old.terms.uses :
          new = [old EXCEPT !.status = "approved", !.item = i, !.cred = v,
                            !.expires = e, !.max = m, !.uses = 0]
    BY <1>2 DEF Granted
  <2>2. /\ new.status = "approved" /\ new.item = i /\ new.max = m
        /\ new.uses = 0 /\ new.agent = old.agent /\ new.what = old.what
        /\ new.terms = old.terms /\ new.def = old.def
    BY <2>1 DEF RowType
  <2>3. old.terms \in Terms /\ old.uses = 0
    BY <1>2 DEF Granted, RowOK, Reviewed
  <2>4. m \in Nat /\ 0 <= m /\ m <= old.terms.uses
    BY <2>3, TermsTyped
  <2> QED BY <1>2, <2>2, <2>3, <2>4
          DEF Granted, RowStep, Edges, RowOK, Reviewed
<1>3. CASE Closed(old, new)
  <2>1. PICK st \in Status :
          /\ new = [old EXCEPT !.status = st]
          /\ \/ old.status = "pending" /\ st \in {"denied", "stale"}
             \/ old.status = "approved" /\ st \in {"revoked", "stale"}
    BY <1>3 DEF Closed
  <2>2. /\ new.status = st /\ new.item = old.item /\ new.cred = old.cred
        /\ new.expires = old.expires /\ new.max = old.max
        /\ new.uses = old.uses /\ new.agent = old.agent
        /\ new.what = old.what /\ new.terms = old.terms /\ new.def = old.def
    BY <2>1 DEF RowType
  <2> QED BY <2>1, <2>2 DEF RowStep, Edges, RowOK, Reviewed
<1>4. CASE Used(old, new)
  <2>1. /\ new.status = "approved" /\ new.item = old.item
        /\ new.cred = old.cred /\ new.expires = old.expires
        /\ new.max = old.max /\ new.uses = old.uses + 1
        /\ new.agent = old.agent /\ new.what = old.what
        /\ new.terms = old.terms /\ new.def = old.def
    BY <1>4 DEF Used, RowType
  <2>2. old.uses \in Nat /\ old.max \in Nat /\ old.uses < old.max
    BY <1>4 DEF Used, RowType
  <2> QED BY <1>4, <2>1, <2>2 DEF Used, RowStep, Edges, RowOK, Reviewed
<1> QED BY <1>1, <1>2, <1>3, <1>4 DEF RowChange

\* Every row makes a legal step of its life in every step of the system.
LEMMA RowsStep ==
  ASSUME Shape, [Next]_vars, NEW r \in Request
  PROVE  RowStep(table[r], table'[r]) /\ RowOK(table'[r])
<1>1. table[r] \in RowType /\ RowOK(table[r])
  BY DEF Shape, TypeOK, RowShape
<1>2. CASE table'[r] = table[r]
  BY <1>1, <1>2 DEF RowStep
<1>3. CASE table'[r] # table[r]
  <2>1. RowChange(table[r], table'[r])
    BY <1>3, TableStep DEF OneRow, Shape, TypeOK
  <2> QED BY <1>1, <2>1, RowChangeStep
<1> QED BY <1>2, <1>3

\* A row is never taken back; a reviewed row keeps what was approved, and its
\* use count never shrinks.
LEMMA RowPersists ==
  ASSUME NEW old \in RowType, NEW new, RowStep(old, new)
  PROVE  /\ old.status # "free" => new.status # "free"
         /\ Reviewed(old) =>
              /\ Reviewed(new) /\ new.agent = old.agent
              /\ new.what = old.what /\ new.def = old.def
              /\ new.cred = old.cred /\ old.uses <= new.uses
BY DEF RowStep, Edges, Reviewed, RowType

-----------------------------------------------------------------------------
(* What the local variables of the handlers hold *)

\* The handlers whose thread does not move keep what they rely on, whatever
\* the step does to the table.
LEMMA JobKept ==
  ASSUME Shape, [Next]_vars, NEW p \in PC, NEW j \in JobType,
         JobOK(p, j, table)
  PROVE  JobOK(p, j, table')
<1>1. \A r \in Request : table[r] \in RowType /\ RowStep(table[r], table'[r])
  BY RowsStep DEF Shape, TypeOK
<1>2. HasRequest(p, j, table')
  BY <1>1, RowPersists DEF JobOK, HasRequest
<1>3. HasCandidates(p, j, table')
  <2> SUFFICES ASSUME p = "consuming", NEW r \in j.rows
               PROVE  /\ Reviewed(table'[r]) /\ table'[r].agent = j.agent
                      /\ table'[r].what = j.what
    BY DEF HasCandidates
  <2>1. r \in Request
    BY DEF JobType
  <2>2. /\ Reviewed(table[r]) /\ table[r].agent = j.agent
        /\ table[r].what = j.what
    BY DEF JobOK, HasCandidates
  <2> QED BY <1>1, <2>1, <2>2, RowPersists
<1>4. HasLease(p, j, table')
  <2> SUFFICES ASSUME p \in Using
               PROVE  HasLease(p, j, table')
    BY DEF HasLease
  <2>1. j.req \in Request
    BY DEF JobOK, HasRequest
  <2> DEFINE old == table[j.req]
             new == table'[j.req]
  <2>2. old \in RowType /\ RowStep(old, new)
    BY <1>1, <2>1
  <2>3. /\ Reviewed(old) /\ old.uses > 0
        /\ old.agent = j.agent /\ old.what = j.what /\ old.def = j.def
        /\ old.cred = j.val /\ j.val # None
    BY DEF JobOK, HasLease
  <2>4. /\ Reviewed(new) /\ new.agent = old.agent /\ new.what = old.what
        /\ new.def = old.def /\ new.cred = old.cred /\ old.uses <= new.uses
    BY <2>2, <2>3, RowPersists
  <2>5. old.uses \in Nat /\ new.uses \in Nat
    BY <2>2 DEF RowType, RowStep
  <2>6. new.uses > 0
    BY <2>3, <2>4, <2>5
  <2> QED BY <2>3, <2>4, <2>6 DEF HasLease
<1> QED BY <1>2, <1>3, <1>4 DEF JobOK

\* A thread goes on at p with j: then it is enough to look at p and j.
LEMMA JobShapeByGoto ==
  ASSUME Shape, [Next]_vars, NEW t \in Thread, NEW p, NEW j, Goto(t, p, j),
         JobOK(p, j, table')
  PROVE  JobShape'
<1> SUFFICES ASSUME NEW u \in Thread
             PROVE  JobOK(pc'[u], job'[u], table')
  BY DEF JobShape
<1>1. CASE u = t
  BY <1>1 DEF Goto, Shape, TypeOK
<1>2. CASE u # t
  <2>1. pc'[u] = pc[u] /\ job'[u] = job[u]
    BY <1>2 DEF Goto, Shape, TypeOK
  <2>2. pc[u] \in PC /\ job[u] \in JobType /\ JobOK(pc[u], job[u], table)
    BY DEF Shape, TypeOK, JobShape
  <2> QED BY <2>1, <2>2, JobKept
<1> QED BY <1>1, <1>2

\* A thread that serves no call relies on nothing.
LEMMA IdleOK ==
  ASSUME NEW j, NEW tab
  PROVE  JobOK("idle", j, tab)
BY DEF JobOK, HasCall, HasRequest, HasCandidates, HasLease, Serving, Using

\* A handler that returns or raises leaves nothing to rely on.
LEMMA JobShapeByReturn ==
  ASSUME Shape, [Next]_vars, NEW t \in Thread, Return(t)
  PROVE  JobShape'
BY JobShapeByGoto, IdleOK DEF Return

\* What the invariant says of one thread.
LEMMA JobHolds ==
  ASSUME Shape, NEW t \in Thread
  PROVE  /\ job[t] \in JobType /\ pc[t] \in PC
         /\ JobOK(pc[t], job[t], table)
BY DEF Shape, TypeOK, JobShape

\* As JobShapeByGoto, with the table before the step.
LEMMA JobShapeByOldTable ==
  ASSUME Shape, [Next]_vars, NEW t \in Thread, NEW p \in PC, NEW j \in JobType,
         Goto(t, p, j), JobOK(p, j, table)
  PROVE  JobShape'
BY JobShapeByGoto, JobKept

\* What a handler relies on is there after the steps before the lock.
LEMMA EntryShape ==
  ASSUME Shape, [Next]_vars, NEW t \in Thread,
         Authenticate(t) \/ Prepare(t) \/ RefuseEarly(t)
  PROVE  JobShape'
<1>1. CASE Authenticate(t)
  <2>1. PICK call \in {"request", "consume"}, a \in Agent, w \in Target :
          \E m \in IF call = "request" THEN Terms ELSE {NoTerms} :
            Goto(t, "authed", [NoJob EXCEPT !.call = call, !.agent = a,
                                            !.what = w, !.terms = m])
    BY <1>1 DEF Authenticate
  <2>2. PICK m \in IF call = "request" THEN Terms ELSE {NoTerms} :
          Goto(t, "authed", [NoJob EXCEPT !.call = call, !.agent = a,
                                          !.what = w, !.terms = m])
    BY <2>1
  <2> DEFINE j == [NoJob EXCEPT !.call = call, !.agent = a,
                                !.what = w, !.terms = m]
  <2>3. /\ j.call = call /\ j.agent = a /\ j.what = w /\ j.terms = m
    BY DEF NoJob
  <2>4. JobOK("authed", j, table')
    BY <2>3 DEF JobOK, HasCall, HasRequest, HasCandidates, HasLease, Serving,
                Using
  <2> QED BY <2>2, <2>4, JobShapeByGoto
<1>2. CASE Prepare(t)
  <2> DEFINE j == [job[t] EXCEPT !.def = CurrentDefinition(job[t].what),
                                 !.ts = clock]
  <2>1. Goto(t, "prepared", j) /\ pc[t] = "authed"
    BY <1>2 DEF Prepare
  <2>2. /\ j.call = job[t].call /\ j.agent = job[t].agent
        /\ j.what = job[t].what /\ j.terms = job[t].terms
    BY JobHolds DEF JobType
  <2>3. HasCall("authed", job[t])
    BY <2>1, JobHolds DEF JobOK
  <2>4. JobOK("prepared", j, table')
    BY <2>2, <2>3 DEF JobOK, HasCall, HasRequest, HasCandidates, HasLease,
                      Serving, Using
  <2> QED BY <2>1, <2>4, JobShapeByGoto
<1>3. CASE RefuseEarly(t)
  BY <1>3, JobShapeByReturn DEF RefuseEarly
<1> QED BY <1>1, <1>2, <1>3

\* What a handler relies on is there in request_access and
\* request_capability.
LEMMA RequestShape ==
  ASSUME Shape, [Next]_vars, NEW t \in Thread,
         \/ RequestSelect(t) \/ RequestExisting(t) \/ RequestFull(t)
         \/ RequestInsert(t) \/ RequestAudit(t)
  PROVE  JobShape'
<1>1. CASE RequestSelect(t)
  <2> DEFINE j == [job[t] EXCEPT !.rows = PendingOf(job[t].agent)]
  <2>1. /\ Goto(t, "requesting", j)
        /\ pc[t] = "prepared" /\ job[t].call = "request"
    BY <1>1 DEF RequestSelect
  <2>2. /\ j.call = job[t].call /\ j.agent = job[t].agent
        /\ j.what = job[t].what /\ j.terms = job[t].terms
    BY JobHolds DEF JobType
  <2>3. HasCall("prepared", job[t])
    BY <2>1, JobHolds DEF JobOK
  <2>4. JobOK("requesting", j, table')
    BY <2>1, <2>2, <2>3 DEF JobOK, HasCall, HasRequest, HasCandidates,
                            HasLease, Serving, Using
  <2> QED BY <2>1, <2>4, JobShapeByGoto
<1>2. CASE RequestExisting(t) \/ RequestFull(t) \/ RequestAudit(t)
  BY <1>2, JobShapeByReturn DEF RequestExisting, RequestFull, RequestAudit
<1>3. CASE RequestInsert(t)
  <2>1. PICK r \in Request :
          Goto(t, "recorded", [NoJob EXCEPT !.call = "request", !.req = r])
    BY <1>3 DEF RequestInsert
  <2>2. JobOK("recorded", [NoJob EXCEPT !.call = "request", !.req = r], table')
    BY DEF JobOK, HasCall, HasRequest, HasCandidates, HasLease, Serving, Using,
           NoJob
  <2> QED BY <2>1, <2>2, JobShapeByGoto
<1> QED BY <1>1, <1>2, <1>3

\* Passing over a candidate leaves the others as they were read.
LEMMA SkipShape ==
  ASSUME Shape, [Next]_vars, NEW t \in Thread, NEW r, Skip(t, r),
         pc[t] = "consuming"
  PROVE  JobShape'
<1> DEFINE j == [job[t] EXCEPT !.rows = @ \ {r}]
<1>1. job[t] \in JobType /\ JobOK("consuming", job[t], table)
  BY JobHolds
<1>2. /\ j \in JobType /\ j.call = job[t].call /\ j.agent = job[t].agent
      /\ j.what = job[t].what /\ j.terms = job[t].terms
      /\ j.rows \subseteq job[t].rows
  BY <1>1 DEF JobType
<1>3. JobOK("consuming", j, table)
  BY <1>1, <1>2 DEF JobOK, HasCall, HasRequest, HasCandidates, HasLease,
                    Serving, Using
<1> QED BY <1>2, <1>3, JobShapeByOldTable DEF Skip, PC

\* What a handler relies on is there through the loop over the candidates; a
\* claim holds what its lease was approved for.
LEMMA ClaimShape ==
  ASSUME Shape, [Next]_vars, NEW t \in Thread,
         \/ ClaimSelect(t) \/ ClaimStale(t) \/ ClaimBroken(t) \/ ClaimTake(t)
         \/ ClaimLost(t) \/ ClaimNone(t) \/ RefuseAudit(t)
  PROVE  JobShape'
<1>1. CASE ClaimSelect(t)
  <2> DEFINE j == [job[t] EXCEPT !.rows = CandidatesOf(job[t])]
  <2>1. Goto(t, "consuming", j) /\ pc[t] = "prepared" /\ table' = table
    BY <1>1 DEF ClaimSelect, ledger
  <2>2. /\ j.call = job[t].call /\ j.agent = job[t].agent
        /\ j.what = job[t].what /\ j.terms = job[t].terms
        /\ j.rows = CandidatesOf(job[t])
    BY JobHolds DEF JobType
  <2>3. HasCall("prepared", job[t])
    BY <2>1, JobHolds DEF JobOK
  <2>4. HasCandidates("consuming", j, table')
    BY <2>1, <2>2 DEF HasCandidates, CandidatesOf, Spendable, Reviewed
  <2>5. JobOK("consuming", j, table')
    BY <2>2, <2>3, <2>4 DEF JobOK, HasCall, HasRequest, HasLease, Serving,
                            Using
  <2> QED BY <2>1, <2>5, JobShapeByGoto
<1>2. CASE ClaimStale(t) \/ ClaimLost(t)
  BY <1>2, SkipShape DEF ClaimStale, ClaimLost
<1>3. CASE ClaimBroken(t) \/ RefuseAudit(t)
  BY <1>3, JobShapeByReturn DEF ClaimBroken, RefuseAudit
<1>4. CASE ClaimTake(t)
  <2>1. PICK r \in job[t].rows :
          /\ Current(table[r], job[t]) /\ Spendable(table[r], job[t].ts)
          /\ SetRow(r, [table[r] EXCEPT !.uses = @ + 1])
          /\ Goto(t, "claimed",
                  [job[t] EXCEPT !.ts = 0, !.rows = {}, !.req = r,
                                 !.val = items[table[r].item].val])
    BY <1>4 DEF ClaimTake
  <2> DEFINE j == [job[t] EXCEPT !.ts = 0, !.rows = {}, !.req = r,
                                 !.val = items[table[r].item].val]
             row == table'[r]
  <2>2. job[t] \in JobType /\ JobOK("consuming", job[t], table)
    BY <1>4, JobHolds DEF ClaimTake
  <2>3. r \in Request /\ table[r] \in RowType
    BY <2>2 DEF JobType, Shape, TypeOK
  <2>4. /\ j.call = job[t].call /\ j.agent = job[t].agent
        /\ j.what = job[t].what /\ j.terms = job[t].terms
        /\ j.def = job[t].def /\ j.req = r
        /\ j.val = items[table[r].item].val
    BY <2>2 DEF JobType
  <2>5. row = [table[r] EXCEPT !.uses = @ + 1]
    BY <2>1, <2>3 DEF SetRow, Shape, TypeOK
  <2>6. /\ row.status = table[r].status /\ row.uses = table[r].uses + 1
        /\ row.agent = table[r].agent /\ row.what = table[r].what
        /\ row.def = table[r].def /\ row.cred = table[r].cred
        /\ table[r].uses \in Nat
    BY <2>3, <2>5 DEF RowType
  <2>7. /\ Reviewed(table[r]) /\ table[r].agent = job[t].agent
        /\ table[r].what = job[t].what
    BY <2>2 DEF JobOK, HasCandidates
  <2>8. /\ table[r].def = job[t].def
        /\ items[table[r].item].val = table[r].cred
        /\ items[table[r].item].val # None
    BY <2>1 DEF Current, SameVersion, SameCredential, FieldMissing
  <2>9. Reviewed(row) /\ row.uses > 0
    BY <2>6, <2>7 DEF Reviewed
  <2>10. HasLease("claimed", j, table')
    BY <2>4, <2>6, <2>7, <2>8, <2>9 DEF HasLease
  <2>11. JobOK("claimed", j, table')
    BY <2>2, <2>3, <2>4, <2>10
    DEF JobOK, HasCall, HasRequest, HasCandidates, Serving, Using
  <2> QED BY <2>1, <2>11, JobShapeByGoto
<1>5. CASE ClaimNone(t)
  <2> DEFINE j == [NoJob EXCEPT !.call = "consume", !.agent = job[t].agent]
  <2>1. JobOK("refused", j, table')
    BY DEF JobOK, HasCall, HasRequest, HasCandidates, HasLease, Serving, Using
  <2> QED BY <1>5, <2>1, JobShapeByGoto DEF ClaimNone
<1> QED BY <1>1, <1>2, <1>3, <1>4, <1>5

\* What a handler relies on is there between the claim and its reply.
LEMMA UseShape ==
  ASSUME Shape, [Next]_vars, NEW t \in Thread,
         \/ UseSend(t) \/ UseFail(t) \/ UseAudit(t)
         \/ RevealAudit(t) \/ RevealReply(t)
  PROVE  JobShape'
<1>1. CASE UseSend(t) \/ RevealAudit(t)
  <2>1. /\ pc[t] = "claimed"
        /\ Goto(t, "sent", job[t]) \/ Goto(t, "replying", job[t])
    BY <1>1 DEF UseSend, RevealAudit
  <2>2. job[t] \in JobType /\ JobOK("claimed", job[t], table)
    BY <2>1, JobHolds
  <2>3. JobOK("sent", job[t], table) /\ JobOK("replying", job[t], table)
    BY <2>2 DEF JobOK, HasCall, HasRequest, HasCandidates, HasLease, Serving,
                Using
  <2> QED BY <2>1, <2>2, <2>3, JobShapeByOldTable DEF PC
<1>2. CASE UseFail(t) \/ UseAudit(t) \/ RevealReply(t)
  BY <1>2, JobShapeByReturn DEF UseFail, UseAudit, RevealReply
<1> QED BY <1>1, <1>2

\* What a handler relies on is there in approve_access, deny_access and
\* revoke_access.
LEMMA ReviewShape ==
  ASSUME Shape, [Next]_vars, NEW t \in Thread,
         \/ ReviewSelect(t) \/ Approve(t) \/ ApproveStale(t)
         \/ ApproveUnbound(t) \/ Close(t) \/ ReviewLost(t) \/ ReviewAudit(t)
  PROVE  JobShape'
<1>1. CASE ReviewSelect(t)
  <2>1. PICK call \in {"approve", "deny", "revoke"}, r \in Request :
          /\ table[r].status = Reviewable(call)
          /\ Goto(t, "reviewing", [NoJob EXCEPT !.call = call, !.req = r])
    BY <1>1 DEF ReviewSelect
  <2> DEFINE j == [NoJob EXCEPT !.call = call, !.req = r]
  <2>2. j.call = call /\ j.req = r /\ table' = table
    BY <1>1 DEF NoJob, ReviewSelect, ledger
  <2>3. table'[r].status # "free"
    BY <2>1, <2>2 DEF Reviewable
  <2>4. JobOK("reviewing", j, table')
    BY <2>2, <2>3 DEF JobOK, HasCall, HasRequest, HasCandidates, HasLease,
                      Serving, Using
  <2> QED BY <2>1, <2>4, JobShapeByGoto
<1>2. CASE Approve(t) \/ ApproveStale(t) \/ Close(t)
  <2>1. /\ pc[t] = "reviewing"
        /\ \/ Goto(t, "reviewed", job[t])
           \/ Goto(t, "reviewed", [job[t] EXCEPT !.call = "stale"])
    BY <1>2 DEF Approve, ApproveStale, Close
  <2>2. job[t] \in JobType /\ JobOK("reviewing", job[t], table)
    BY <2>1, JobHolds
  <2>3. ASSUME NEW j, j.req = job[t].req, j.call \in {job[t].call, "stale"}
        PROVE  JobOK("reviewed", j, table')
    BY <2>2, <2>3 DEF JobOK, HasCall, HasRequest, HasCandidates, HasLease,
                      Serving, Using, Call
  <2>4. JobOK("reviewed", job[t], table')
    BY <2>3
  <2>5. JobOK("reviewed", [job[t] EXCEPT !.call = "stale"], table')
    BY <2>2, <2>3 DEF JobType
  <2> QED BY <2>1, <2>4, <2>5, JobShapeByGoto
<1>3. CASE ApproveUnbound(t) \/ ReviewLost(t) \/ ReviewAudit(t)
  BY <1>3, JobShapeByReturn DEF ApproveUnbound, ReviewLost, ReviewAudit
<1> QED BY <1>1, <1>2, <1>3

\* Administration, the clock and the loss of a daemon disturb no handler.
LEMMA OtherShape ==
  ASSUME Shape, [Next]_vars,
         \/ \E t \in Thread : PutCapability(t) \/ PutItem(t) \/ RevokeAgent(t)
         \/ Tick \/ (\E d \in Daemon : Crash(d)) \/ UNCHANGED vars
  PROVE  JobShape'
<1>1. ASSUME NEW t \in Thread
      PROVE  \/ pc'[t] = pc[t] /\ job'[t] = job[t]
             \/ pc'[t] = "idle"
  BY DEF PutCapability, PutItem, RevokeAgent, Tick, Crash, vars, threads
<1>2. ASSUME NEW t \in Thread
      PROVE  JobOK(pc'[t], job'[t], table')
  BY <1>1, JobHolds, JobKept, IdleOK
<1> QED BY <1>2 DEF JobShape

\* No thread is at work before the first call and every row is free.
LEMMA InitShape == Init => Shape
<1> SUFFICES ASSUME Init
             PROVE  JobShape /\ RowShape
  BY InitTyped DEF Shape
<1>1. JobShape
  BY IdleOK DEF Init, JobShape
<1>2. RowShape
  BY DEF Init, RowShape, RowOK, EmptyRow, NoTerms, Reviewed
<1> QED BY <1>1, <1>2

\* Types, local variables and rows are kept by every step.
LEMMA ShapeStep ==
  ASSUME Shape, [Next]_vars
  PROVE  Shape'
<1>1. RowShape'
  BY RowsStep DEF RowShape
<1>2. ASSUME NEW t \in Thread, AgentStep(t)
      PROVE  TypeOK' /\ JobShape'
  <2>1. CASE Authenticate(t) \/ Prepare(t) \/ RefuseEarly(t)
    BY <2>1, EntryTyped, EntryShape
  <2>2. CASE \/ RequestSelect(t) \/ RequestExisting(t) \/ RequestFull(t)
             \/ RequestInsert(t) \/ RequestAudit(t)
    BY <2>2, RequestTyped, RequestShape
  <2>3. CASE \/ ClaimSelect(t) \/ ClaimStale(t) \/ ClaimBroken(t)
             \/ ClaimTake(t) \/ ClaimLost(t) \/ ClaimNone(t) \/ RefuseAudit(t)
    BY <2>3, ClaimTyped, ClaimShape
  <2>4. CASE \/ UseSend(t) \/ UseFail(t) \/ UseAudit(t)
             \/ RevealAudit(t) \/ RevealReply(t)
    BY <2>4, UseTyped, UseShape
  <2> QED BY <1>2, <2>1, <2>2, <2>3, <2>4 DEF AgentStep
<1>3. ASSUME NEW t \in Thread, AdminStep(t)
      PROVE  TypeOK' /\ JobShape'
  <2>1. CASE \/ ReviewSelect(t) \/ Approve(t) \/ ApproveStale(t)
             \/ ApproveUnbound(t) \/ Close(t) \/ ReviewLost(t)
             \/ ReviewAudit(t)
    BY <2>1, ReviewTyped, ReviewShape
  <2>2. CASE PutCapability(t) \/ PutItem(t) \/ RevokeAgent(t)
    BY <2>2, AdminTyped, OtherShape DEF Shape
  <2> QED BY <1>3, <2>1, <2>2 DEF AdminStep
<1>4. CASE Tick \/ (\E d \in Daemon : Crash(d)) \/ UNCHANGED vars
  <2>1. TypeOK /\ TypeOK'
    BY <1>4, WorldTyped, StutterTyped DEF Shape
  <2>2. JobShape'
    BY <1>4, OtherShape
  <2> QED BY <2>1, <2>2, <1>1 DEF Shape
<1>5. ASSUME NEW t \in Thread, LockedStep(t)
      PROVE  TypeOK' /\ JobShape'
  BY <1>5, LockedTyped, LockedReturns, JobShapeByReturn DEF Shape
<1>6. ([Next]_vars) => \/ \E t \in Thread : AgentStep(t) \/ AdminStep(t) \/ LockedStep(t)
                       \/ Tick \/ (\E d \in Daemon : Crash(d))
                       \/ UNCHANGED vars
  BY DEF Next, HandlerStep
<1>7. TypeOK' /\ JobShape'
  BY <1>2, <1>3, <1>4, <1>5, <1>6 DEF Shape
<1> QED BY <1>1, <1>7 DEF Shape

\* Shape is an invariant of the lease state machine.
THEOREM ShapeHolds == Spec => []Shape
BY InitShape, ShapeStep, PTL DEF Spec

\* Every variable has its type in every reachable state; in particular what a
\* reviewer enters never makes a negative budget or deadline (approve_access).
THEOREM TypeCorrect == Spec => []TypeOK
<1>1. Shape => TypeOK
  BY DEF Shape
<1> QED BY <1>1, ShapeHolds, PTL

\* A handler that has claimed a use holds what the reviewer approved: the same
\* agent and target, the requested definition, the approved credential
\* (_consume_exact_grant, _consume_capability_grant).
THEOREM UseMatchesApprovalHolds == Spec => []UseMatchesApproval
<1>1. Shape => UseMatchesApproval
  BY DEF Shape, JobShape, JobOK, HasLease, UseMatchesApproval
<1> QED BY <1>1, ShapeHolds, PTL

\* A request is reviewed once, a closed one stays closed, what was asked and
\* what was granted are frozen, and a use is counted only while the lease
\* stands (the status clauses of every UPDATE access_requests).
THEOREM LifecycleHolds == Spec => LifecycleStep
<1>1. Shape /\ [Next]_vars =>
        [\A r \in Request : RowStep(table[r], table'[r])]_vars
  BY RowsStep
<1> QED BY <1>1, ShapeHolds, PTL DEF Spec, LifecycleStep

-----------------------------------------------------------------------------
(* Uses claimed, in flight and gone *)

\* The handlers in flight are threads, so they can be counted.
LEMMA InFlightFinite ==
  ASSUME NEW r
  PROVE  /\ IsFiniteSet(InFlight(r))
         /\ Cardinality(InFlight(r)) \in Nat
<1>1. InFlight(r) \subseteq Thread
  BY DEF InFlight
<1>2. IsFiniteSet(InFlight(r))
  BY <1>1, ConstantsAssumption, FS_Subset
<1> QED BY <1>2, FS_CardinalityType

\* The step starts no claim: who is in flight after it was so before.
NoNewClaim ==
  \A r \in Request : InFlight(r)' \subseteq InFlight(r)

\* A step without a new claim and without an effect leaves all uses counted.
LEMMA CountedByFewer ==
  ASSUME Shape, Counted, [Next]_vars, out' = out, NoNewClaim
  PROVE  Counted'
<1> SUFFICES ASSUME NEW r \in Request
             PROVE  out[r] + Cardinality(InFlight(r)') <= table'[r].uses
  BY DEF Counted
<1>1. Cardinality(InFlight(r)') <= Cardinality(InFlight(r))
  BY InFlightFinite, FS_Subset DEF NoNewClaim
<1>2. Cardinality(InFlight(r)') \in Nat
  <2>1. IsFiniteSet(InFlight(r)')
    BY InFlightFinite, FS_Subset DEF NoNewClaim
  <2> QED BY <2>1, FS_CardinalityType
<1>3. out[r] \in Nat /\ table[r].uses \in Nat
  BY DEF Shape, TypeOK, RowType
<1>4. table'[r].uses \in Nat /\ table[r].uses <= table'[r].uses
  <2>1. RowStep(table[r], table'[r])
    BY RowsStep
  <2>2. table'[r].uses = table[r].uses \/ table'[r].uses = table[r].uses + 1
    BY <2>1 DEF RowStep
  <2> QED BY <1>3, <2>2
<1>5. out[r] + Cardinality(InFlight(r)) <= table[r].uses
  BY DEF Counted
<1> QED BY <1>1, <1>2, <1>3, <1>4, <1>5, InFlightFinite

\* When t goes on at p with j, the handlers in flight for r are the others in
\* flight before and t, if p and j say so.
LEMMA InFlightByGoto ==
  ASSUME Shape, NEW t \in Thread, NEW p, NEW j, Goto(t, p, j), NEW r
  PROVE  InFlight(r)' =
           (InFlight(r) \ {t})
             \cup (IF p \in {"claimed", "replying"} /\ j.req = r THEN {t} ELSE {})
<1>1. pc' = [pc EXCEPT ![t] = p] /\ job' = [job EXCEPT ![t] = j]
  BY DEF Goto
<1>2. pc \in [Thread -> PC] /\ job \in [Thread -> JobType]
  BY DEF Shape, TypeOK
<1>3. \A u \in Thread : /\ u = t => pc'[u] = p /\ job'[u] = j
                        /\ u # t => pc'[u] = pc[u] /\ job'[u] = job[u]
  BY <1>1, <1>2
<1>4. InFlight(r)' = {u \in Thread : pc'[u] \in {"claimed", "replying"}
                                       /\ job'[u].req = r}
  BY DEF InFlight
<1>5. InFlight(r) = {u \in Thread : pc[u] \in {"claimed", "replying"}
                                       /\ job[u].req = r}
  BY DEF InFlight
<1> QED BY <1>3, <1>4, <1>5

\* A step that brings t to a place that is not in flight claims nothing.
LEMMA NoNewClaimByGoto ==
  ASSUME Shape, NEW t \in Thread, NEW p, NEW j, Goto(t, p, j),
         p \notin {"claimed", "replying"}
  PROVE  NoNewClaim
BY InFlightByGoto DEF NoNewClaim

\* A use that t had claimed leaves the service.
Effects(t) ==
  /\ pc[t] \in {"claimed", "replying"}
  /\ out' = Count(out, job[t].req)
  /\ table' = table
  /\ \E p \in PC, j \in JobType : p \notin {"claimed", "replying"} /\ Goto(t, p, j)

\* A use that leaves was in flight until then.
LEMMA CountedByEffect ==
  ASSUME Shape, Counted, NEW t \in Thread, Effects(t)
  PROVE  Counted'
<1> DEFINE q == job[t].req
<1>1. PICK p \in PC, j \in JobType :
        p \notin {"claimed", "replying"} /\ Goto(t, p, j)
  BY DEF Effects
<1>2. q \in Request
  BY JobHolds DEF Effects, JobOK, HasRequest, Using
<1> SUFFICES ASSUME NEW r \in Request
             PROVE  out'[r] + Cardinality(InFlight(r)') <= table[r].uses
  BY DEF Counted, Effects
<1>3. InFlight(r)' = InFlight(r) \ {t}
  BY <1>1, InFlightByGoto
<1>4. out[r] \in Nat /\ table[r].uses \in Nat
  BY DEF Shape, TypeOK, RowType
<1>5. out[r] + Cardinality(InFlight(r)) <= table[r].uses
  BY DEF Counted
<1>6. CASE r = q
  <2>1. t \in InFlight(r)
    BY <1>6 DEF InFlight, Effects
  <2>2. Cardinality(InFlight(r) \ {t}) = Cardinality(InFlight(r)) - 1
    BY <2>1, InFlightFinite, FS_RemoveElement
  <2>3. out'[r] = out[r] + 1
    BY <1>2, <1>6 DEF Effects, Count, Shape, TypeOK
  <2> QED BY <1>3, <1>4, <1>5, <2>2, <2>3, InFlightFinite
<1>7. CASE r # q
  <2>1. t \notin InFlight(r)
    BY <1>7 DEF InFlight
  <2>2. InFlight(r)' = InFlight(r)
    BY <1>3, <2>1
  <2>3. out'[r] = out[r]
    BY <1>7 DEF Effects, Count, Shape, TypeOK
  <2> QED BY <1>5, <2>2, <2>3
<1> QED BY <1>6, <1>7

\* A claim is counted in the row in the step that makes it.
LEMMA CountedByClaim ==
  ASSUME Shape, Counted, NEW t \in Thread, ClaimTake(t)
  PROVE  Counted'
<1>1. PICK q \in job[t].rows :
        /\ SetRow(q, [table[q] EXCEPT !.uses = @ + 1])
        /\ Goto(t, "claimed", [job[t] EXCEPT !.ts = 0, !.rows = {}, !.req = q,
                                  !.val = items[table[q].item].val])
  BY DEF ClaimTake
<1> DEFINE j == [job[t] EXCEPT !.ts = 0, !.rows = {}, !.req = q,
                               !.val = items[table[q].item].val]
<1>2. q \in Request /\ j.req = q
  BY JobHolds DEF JobType
<1> SUFFICES ASSUME NEW r \in Request
             PROVE  out[r] + Cardinality(InFlight(r)') <= table'[r].uses
  BY DEF Counted, ClaimTake
<1>3. t \notin InFlight(r)
  BY DEF InFlight, ClaimTake
<1>4. InFlight(r)' = InFlight(r) \cup (IF q = r THEN {t} ELSE {})
  <2>1. InFlight(r)' =
          (InFlight(r) \ {t})
            \cup (IF "claimed" \in {"claimed", "replying"} /\ j.req = r
                  THEN {t} ELSE {})
    BY ZenonT(30), <1>1, InFlightByGoto
  <2> QED BY <1>2, <1>3, <2>1
<1>5. out[r] \in Nat /\ table[r] \in RowType /\ table[r].uses \in Nat
  BY DEF Shape, TypeOK, RowType
<1>6. out[r] + Cardinality(InFlight(r)) <= table[r].uses
  BY DEF Counted
<1>7. CASE r = q
  <2>1. Cardinality(InFlight(r)') = Cardinality(InFlight(r)) + 1
    BY <1>3, <1>4, <1>7, InFlightFinite, FS_AddElement
  <2>2. table'[r].uses = table[r].uses + 1
    BY <1>1, <1>5, <1>7 DEF SetRow, Shape, TypeOK, RowType
  <2> QED BY <1>5, <1>6, <2>1, <2>2, InFlightFinite
<1>8. CASE r # q
  <2>1. InFlight(r)' = InFlight(r)
    BY <1>4, <1>8
  <2>2. table'[r] = table[r]
    BY <1>1, <1>2, <1>8 DEF SetRow, Shape, TypeOK
  <2> QED BY <1>6, <2>1, <2>2
<1> QED BY <1>7, <1>8

\* A thread whose handler returns claims nothing.
LEMMA NoNewClaimByReturn ==
  ASSUME Shape, NEW t \in Thread, Return(t)
  PROVE  NoNewClaim
BY NoNewClaimByGoto DEF Return

\* A secret that is sent or returned was in flight (UseSend, RevealReply).
LEMMA EffectsOfUse ==
  ASSUME Shape, NEW t \in Thread, UseSend(t) \/ RevealReply(t)
  PROVE  Effects(t)
<1>1. job[t] \in JobType /\ NoJob \in JobType /\ {"sent", "idle"} \subseteq PC
  BY JobHolds, NoJobTyped DEF PC
<1> QED BY <1>1 DEF Effects, UseSend, RevealReply, Return

\* No other step of an agent's call claims a use or lets one out.
LEMMA AgentClaims ==
  ASSUME Shape, NEW t \in Thread, AgentStep(t)
  PROVE  ClaimTake(t) \/ Effects(t) \/ (NoNewClaim /\ out' = out)
<1>1. CASE \/ Authenticate(t) \/ Prepare(t) \/ RequestSelect(t)
           \/ RequestInsert(t) \/ ClaimSelect(t) \/ ClaimNone(t)
  <2>1. \E p, j : Goto(t, p, j) /\ p \notin {"claimed", "replying"}
    <3>1. Authenticate(t) => \E j : Goto(t, "authed", j)
      BY DEF Authenticate
    <3>2. Prepare(t) => \E j : Goto(t, "prepared", j)
      BY DEF Prepare
    <3>3. RequestSelect(t) => \E j : Goto(t, "requesting", j)
      BY DEF RequestSelect
    <3>4. RequestInsert(t) => \E j : Goto(t, "recorded", j)
      BY DEF RequestInsert
    <3>5. ClaimSelect(t) => \E j : Goto(t, "consuming", j)
      BY DEF ClaimSelect
    <3>6. ClaimNone(t) => \E j : Goto(t, "refused", j)
      BY DEF ClaimNone
    <3> QED BY <1>1, <3>1, <3>2, <3>3, <3>4, <3>5, <3>6
  <2>2. out' = out
    BY <1>1 DEF Authenticate, Prepare, RequestSelect, RequestInsert,
                ClaimSelect, ClaimNone, ledger
  <2> QED BY <2>1, <2>2, NoNewClaimByGoto
<1>2. CASE ClaimStale(t) \/ ClaimLost(t)
  <2>1. \E j : Goto(t, "consuming", j)
    BY <1>2 DEF ClaimStale, ClaimLost, Skip
  <2>2. out' = out
    BY <1>2 DEF ClaimStale, ClaimLost, ledger
  <2> QED BY <2>1, <2>2, NoNewClaimByGoto
<1>3. CASE \/ RefuseEarly(t) \/ RequestExisting(t) \/ RequestFull(t)
           \/ RequestAudit(t) \/ ClaimBroken(t) \/ RefuseAudit(t)
           \/ UseFail(t) \/ UseAudit(t)
  <2>1. Return(t)
    BY <1>3 DEF RefuseEarly, RequestExisting, RequestFull, RequestAudit,
                ClaimBroken, RefuseAudit, UseFail, UseAudit
  <2>2. out' = out
    BY <1>3 DEF RefuseEarly, RequestExisting, RequestFull, RequestAudit,
                ClaimBroken, RefuseAudit, UseFail, UseAudit, ledger
  <2> QED BY <2>1, <2>2, NoNewClaimByReturn
<1>4. CASE UseSend(t) \/ RevealReply(t)
  BY <1>4, EffectsOfUse
<1>5. CASE RevealAudit(t)
  <2>1. pc[t] = "claimed" /\ Goto(t, "replying", job[t])
    BY <1>5 DEF RevealAudit
  <2>2. ASSUME NEW r \in Request
        PROVE  InFlight(r)' \subseteq InFlight(r)
    BY <2>1, InFlightByGoto DEF InFlight
  <2> QED BY <1>5, <2>2 DEF RevealAudit, NoNewClaim
<1>6. CASE ClaimTake(t)
  BY <1>6
<1> QED BY <1>1, <1>2, <1>3, <1>4, <1>5, <1>6 DEF AgentStep

\* No reviewer, administrator, locked database, clock or crash claims a use or lets
\* one out.
LEMMA OthersClaimNothing ==
  ASSUME Shape,
         \/ \E t \in Thread : AdminStep(t) \/ LockedStep(t)
         \/ Tick \/ (\E d \in Daemon : Crash(d)) \/ UNCHANGED vars
  PROVE  NoNewClaim /\ out' = out
<1>1. ASSUME NEW t \in Thread, AdminStep(t)
      PROVE  NoNewClaim /\ out' = out
  <2>1. CASE \/ ReviewSelect(t) \/ Approve(t) \/ ApproveStale(t) \/ Close(t)
    <3>1. \E p, j : Goto(t, p, j) /\ p \notin {"claimed", "replying"}
      <4>1. ReviewSelect(t) => \E j : Goto(t, "reviewing", j)
        BY DEF ReviewSelect
      <4>2. Approve(t) \/ ApproveStale(t) \/ Close(t)
              => \E j : Goto(t, "reviewed", j)
        BY DEF Approve, ApproveStale, Close
      <4> QED BY <2>1, <4>1, <4>2
    <3>2. out' = out
      BY <2>1 DEF ReviewSelect, Approve, ApproveStale, Close, ledger
    <3> QED BY <3>1, <3>2, NoNewClaimByGoto
  <2>2. CASE ApproveUnbound(t) \/ ReviewLost(t) \/ ReviewAudit(t)
    BY <2>2, NoNewClaimByReturn
    DEF ApproveUnbound, ReviewLost, ReviewAudit, ledger
  <2>3. CASE PutCapability(t) \/ PutItem(t) \/ RevokeAgent(t)
    BY <2>3 DEF PutCapability, PutItem, RevokeAgent, NoNewClaim, InFlight,
                ledger, threads
  <2> QED BY <1>1, <2>1, <2>2, <2>3 DEF AdminStep
<1>2. CASE Tick \/ (\E d \in Daemon : Crash(d)) \/ UNCHANGED vars
  BY <1>2 DEF Tick, Crash, NoNewClaim, InFlight, vars, ledger, threads
<1>3. ASSUME NEW t \in Thread, LockedStep(t)
      PROVE  NoNewClaim /\ out' = out
  BY <1>3, LockedReturns, NoNewClaimByReturn DEF ledger
<1> QED BY <1>1, <1>2, <1>3

\* What every step is, as far as uses are concerned.
LEMMA ClaimStep ==
  ASSUME Shape, [Next]_vars
  PROVE  \/ \E t \in Thread : ClaimTake(t) \/ Effects(t)
         \/ NoNewClaim /\ out' = out
<1>1. ([Next]_vars) => \/ \E t \in Thread : AgentStep(t) \/ AdminStep(t) \/ LockedStep(t)
                       \/ Tick \/ (\E d \in Daemon : Crash(d))
                       \/ UNCHANGED vars
  BY DEF Next, HandlerStep
<1> QED BY <1>1, AgentClaims, OthersClaimNothing

\* The inductive invariant holds in every reachable state.
THEOREM Invariance == Spec => []IInv
<1>1. Init => IInv
  <2> SUFFICES ASSUME Init
               PROVE  Counted
    BY InitShape DEF IInv, Shape
  <2>1. ASSUME NEW r \in Request
        PROVE  out[r] + Cardinality(InFlight(r)) <= table[r].uses
    <3>1. out[r] = 0 /\ table[r].uses = 0
      BY DEF Init, EmptyRow
    <3>2. InFlight(r) = {}
      BY DEF Init, InFlight
    <3>3. Cardinality(InFlight(r)) = 0
      BY <3>2, FS_EmptySet
    <3> QED BY <3>1, <3>3
  <2> QED BY <2>1 DEF Counted
<1>2. IInv /\ [Next]_vars => IInv'
  <2> SUFFICES ASSUME Shape, Counted, [Next]_vars
               PROVE  Counted'
    BY ShapeStep DEF IInv, Shape
  <2> QED BY ClaimStep, CountedByClaim, CountedByEffect, CountedByFewer
<1> QED BY <1>1, <1>2, PTL DEF Spec

\* A lease is never used more often than it was approved for, nor approved for
\* more than was asked, whatever handlers run at once, on however many daemons,
\* killed wherever (the claim's UPDATE and the clamps of approve_access).
THEOREM SpendsWithinApprovalHolds == Spec => []SpendsWithinApproval
<1>1. IInv => SpendsWithinApproval
  BY DEF IInv, Counted, RowShape, RowOK, SpendsWithinApproval
<1> QED BY <1>1, Invariance, PTL

-----------------------------------------------------------------------------
(* AccessGate implements LeaseContract *)

\* How the parts of a row that the contract speaks of change.
RowPart(new, status, asked, granted, spent) ==
  /\ new.status = status /\ new.terms.uses = asked
  /\ new.max = granted /\ new.uses = spent

\* The four ways a row changes are the contract's ways.
LEMMA RowChangeParts ==
  ASSUME NEW old \in RowType, NEW new, RowOK(old), RowChange(old, new)
  PROVE  \/ /\ old.status = "free"
            /\ \E n \in 1 .. MaxUses :
                 RowPart(new, "pending", n, old.max, old.uses)
         \/ /\ old.status = "pending"
            /\ \E n \in 1 .. MaxUses :
                 n <= old.terms.uses
                 /\ RowPart(new, "approved", old.terms.uses, n, old.uses)
         \/ \E from \in {"pending", "approved"}, to \in Status :
              /\ <<from, to>> \in Edges \ {<<"pending", "approved">>}
              /\ old.status = from
              /\ RowPart(new, to, old.terms.uses, old.max, old.uses)
         \/ /\ old.status = "approved" /\ old.uses < old.max
            /\ RowPart(new, old.status, old.terms.uses, old.max,
                       old.uses + 1)
<1>0. ASSUME NEW m \in Terms
      PROVE  m.uses \in 1 .. MaxUses
  BY ConstantsAssumption
<1>1. CASE Inserted(old, new)
  <2>1. new.terms.uses \in 1 .. MaxUses
    BY <1>1, <1>0 DEF Inserted
  <2>2. /\ new.status = "pending" /\ new.max = old.max /\ new.uses = old.uses
        /\ old.status = "free"
    BY <1>1 DEF Inserted, RowOK, Reviewed
  <2> QED BY <2>1, <2>2 DEF RowPart
<1>2. CASE Granted(old, new)
  <2>1. PICK i \in Item, v \in Value, e \in Nat, m \in 1 .. old.terms.uses :
          new = [old EXCEPT !.status = "approved", !.item = i, !.cred = v,
                            !.expires = e, !.max = m, !.uses = 0]
    BY <1>2 DEF Granted
  <2>2. old.status = "pending" /\ old.terms \in Terms /\ old.uses = 0
    BY <1>2 DEF Granted, RowOK, Reviewed
  <2>3. /\ new.status = "approved" /\ new.max = m /\ new.uses = old.uses
        /\ new.terms = old.terms
    BY <2>1, <2>2 DEF RowType
  <2>4. m \in 1 .. MaxUses /\ m <= old.terms.uses
    BY <2>2, <1>0, ConstantsAssumption
  <2> QED BY <2>2, <2>3, <2>4 DEF RowPart
<1>3. CASE Closed(old, new)
  <2>1. PICK st \in Status :
          /\ new = [old EXCEPT !.status = st]
          /\ \/ old.status = "pending" /\ st \in {"denied", "stale"}
             \/ old.status = "approved" /\ st \in {"revoked", "stale"}
    BY <1>3 DEF Closed
  <2>2. /\ new.status = st /\ new.max = old.max /\ new.uses = old.uses
        /\ new.terms = old.terms
    BY <2>1 DEF RowType
  <2>3. <<old.status, st>> \in Edges \ {<<"pending", "approved">>}
    BY <2>1 DEF Edges
  <2>4. old.status \in {"pending", "approved"}
    BY <2>1
  <2> QED BY <2>2, <2>3, <2>4 DEF RowPart
<1>4. CASE Used(old, new)
  <2>1. /\ new.status = old.status /\ new.max = old.max
        /\ new.uses = old.uses + 1 /\ new.terms = old.terms
    BY <1>4 DEF Used, RowType
  <2> QED BY <1>4, <2>1 DEF Used, RowPart
<1> QED BY <1>1, <1>2, <1>3, <1>4 DEF RowChange

\* A step that changes the table is a step of the contract.
LEMMA TableStepImplements ==
  ASSUME Shape, OneRow, out' = out
  PROVE  Contract!Next
<1>1. PICK r \in Request : /\ RowChange(table[r], table'[r])
                           /\ table' = [table EXCEPT ![r] = table'[r]]
  BY DEF OneRow
<1> DEFINE old == table[r]
           new == table'[r]
<1>2. old \in RowType /\ RowOK(old)
  BY DEF Shape, TypeOK, RowShape
<1>3. \A q \in Request : q # r => table'[q] = table[q]
  BY <1>1 DEF Shape, TypeOK
<1>4. CASE /\ old.status = "free"
           /\ \E n \in 1 .. MaxUses :
                RowPart(new, "pending", n, old.max, old.uses)
  <2>1. PICK n \in 1 .. MaxUses :
          RowPart(new, "pending", n, old.max, old.uses)
    BY <1>4
  <2>2. /\ [q \in Request |-> table'[q].status]
             = [[q \in Request |-> table[q].status] EXCEPT ![r] = "pending"]
       /\ [q \in Request |-> table'[q].terms.uses]
             = [[q \in Request |-> table[q].terms.uses] EXCEPT ![r] = n]
       /\ [q \in Request |-> table'[q].max]
             = [q \in Request |-> table[q].max]
       /\ [q \in Request |-> table'[q].uses]
             = [q \in Request |-> table[q].uses]
    BY <1>3, <2>1 DEF RowPart
  <2>3. Contract!Submit(r, n)
    BY <1>4, <2>2 DEF Contract!Submit
  <2> QED BY <2>3 DEF Contract!Next
<1>5. CASE /\ old.status = "pending"
           /\ \E n \in 1 .. MaxUses :
                n <= old.terms.uses
                /\ RowPart(new, "approved", old.terms.uses, n, old.uses)
  <2>1. PICK n \in 1 .. MaxUses :
          n <= old.terms.uses
          /\ RowPart(new, "approved", old.terms.uses, n, old.uses)
    BY <1>5
  <2>2. /\ [q \in Request |-> table'[q].status]
             = [[q \in Request |-> table[q].status] EXCEPT ![r] = "approved"]
       /\ [q \in Request |-> table'[q].terms.uses]
             = [q \in Request |-> table[q].terms.uses]
       /\ [q \in Request |-> table'[q].max]
             = [[q \in Request |-> table[q].max] EXCEPT ![r] = n]
       /\ [q \in Request |-> table'[q].uses]
             = [q \in Request |-> table[q].uses]
    BY <1>3, <2>1 DEF RowPart
  <2>3. Contract!Grant(r, n)
    BY <1>5, <2>1, <2>2 DEF Contract!Grant
  <2> QED BY <2>3 DEF Contract!Next
<1>6. CASE \E from \in {"pending", "approved"}, to \in Status :
              /\ <<from, to>> \in Edges \ {<<"pending", "approved">>}
              /\ old.status = from
              /\ RowPart(new, to, old.terms.uses, old.max, old.uses)
  <2>1. PICK from \in {"pending", "approved"}, to \in Status :
              /\ <<from, to>> \in Edges \ {<<"pending", "approved">>}
              /\ old.status = from
              /\ RowPart(new, to, old.terms.uses, old.max, old.uses)
    BY <1>6
  <2>2. \/ from = "pending" /\ to = "denied"
        \/ from = "approved" /\ to = "revoked"
        \/ to = "stale"
    BY <2>1 DEF Edges
  <2>3. /\ [q \in Request |-> table'[q].status]
             = [[q \in Request |-> table[q].status] EXCEPT ![r] = to]
       /\ [q \in Request |-> table'[q].terms.uses]
             = [q \in Request |-> table[q].terms.uses]
       /\ [q \in Request |-> table'[q].max]
             = [q \in Request |-> table[q].max]
       /\ [q \in Request |-> table'[q].uses]
             = [q \in Request |-> table[q].uses]
    BY <1>3, <2>1 DEF RowPart
  <2>4. ASSUME NEW S, from \in S
        PROVE  Contract!Close(r, S, to)
    BY <2>1, <2>3, <2>4 DEF Contract!Close
  <2> QED BY <2>2, <2>4 DEF Contract!Next
<1>7. CASE /\ old.status = "approved" /\ old.uses < old.max
           /\ RowPart(new, old.status, old.terms.uses, old.max,
                      old.uses + 1)
  <2>1. /\ [q \in Request |-> table'[q].status]
             = [q \in Request |-> table[q].status]
       /\ [q \in Request |-> table'[q].terms.uses]
             = [q \in Request |-> table[q].terms.uses]
       /\ [q \in Request |-> table'[q].max]
             = [q \in Request |-> table[q].max]
       /\ [q \in Request |-> table'[q].uses]
             = [[q \in Request |-> table[q].uses] EXCEPT ![r] = old.uses + 1]
    BY <1>3, <1>7 DEF RowPart
  <2>2. Contract!Spend(r)
    BY <1>7, <2>1 DEF Contract!Spend
  <2> QED BY <2>2 DEF Contract!Next
<1> QED BY <1>1, <1>2, <1>4, <1>5, <1>6, <1>7, RowChangeParts

\* A use that leaves the service is the effect of a use spent before.
LEMMA EffectImplements ==
  ASSUME Shape, Counted, NEW t \in Thread, Effects(t)
  PROVE  Contract!Next
<1> DEFINE r == job[t].req
<1>1. r \in Request
  BY JobHolds DEF Effects, JobOK, HasRequest, Using
<1>2. out[r] < table[r].uses
  <2>1. t \in InFlight(r)
    BY DEF InFlight, Effects
  <2>2. Cardinality(InFlight(r)) # 0
    BY <2>1, InFlightFinite, FS_EmptySet
  <2>3. out[r] + Cardinality(InFlight(r)) <= table[r].uses
    BY <1>1 DEF Counted
  <2>4. out[r] \in Nat /\ table[r].uses \in Nat
    BY <1>1 DEF Shape, TypeOK, RowType
  <2> QED BY <2>2, <2>3, <2>4, InFlightFinite
<1>3. Contract!Effect(r)
  BY <1>1, <1>2 DEF Contract!Effect, Effects, Count
<1> QED BY <1>1, <1>3 DEF Contract!Next

\* The handlers, however interleaved, do to a request what the contract allows:
\* each step of AccessGate is a step of LeaseContract or leaves it alone.
THEOREM ImplementsContractHolds == Spec => ImplementsContract
<1>1. Init => Contract!Init
  BY DEF Init, Contract!Init, EmptyRow, NoTerms
<1>2. IInv /\ [Next]_vars => [Contract!Next]_(Contract!contractVars)
  <2> SUFFICES ASSUME Shape, Counted, [Next]_vars
               PROVE  Contract!Next \/ UNCHANGED Contract!contractVars
    BY DEF IInv, Shape
  <2>1. CASE OneRow /\ out' = out
    BY <2>1, TableStepImplements
  <2>2. CASE \E t \in Thread : Effects(t)
    BY <2>2, EffectImplements
  <2>3. CASE table' = table /\ out' = out
    BY <2>3 DEF Contract!contractVars
  <2>4. ASSUME NEW t \in Thread, ClaimTake(t)
        PROVE  out' = out
    BY <2>4 DEF ClaimTake
  <2> QED BY <2>1, <2>2, <2>3, <2>4, TableStep, ClaimStep
<1> QED BY <1>1, <1>2, Invariance, PTL
        DEF Spec, ImplementsContract, Contract!Spec
=============================================================================
