---------------------------- MODULE LeaseProperties ----------------------------
(***************************************************************************)
(* What the lease state machine of AccessGate guarantees.                  *)
(***************************************************************************)
EXTENDS AccessGate

RowType ==
  [status: Status, agent: Agent \cup {None}, what: Target \cup {None},
   terms: Terms \cup {NoTerms}, def: Definition \cup {None},
   item: Item \cup {None}, cred: Value \cup {None}, expires: Nat, max: Nat,
   uses: Nat]
JobType ==
  [call: Call \cup {"none", "stale"}, agent: Agent \cup {None},
   what: Target \cup {None}, terms: Terms \cup {NoTerms},
   def: Definition \cup {None}, ts: Nat, rows: SUBSET Request,
   req: Request \cup {None}, val: Value \cup {None}]

\* Every variable has its type; in particular no approval leaves a negative
\* budget or deadline (approve_access clamps what the reviewer enters).
TypeOK ==
  /\ clock \in Nat
  /\ barred \in SUBSET Agent
  /\ capdef \in [Capability -> Definition \cup {None}]
  /\ items \in [Item -> ItemType]
  /\ table \in [Request -> RowType]
  /\ trail \in SUBSET [op: Call \cup {"stale"}, on: Request]
  /\ receipts \in [Request -> Nat]
  /\ out \in [Request -> Nat]
  /\ lock \in [Daemon -> Thread \cup {None}]
  /\ pc \in [Thread -> PC]
  /\ job \in [Thread -> JobType]
  /\ crashes \in Nat /\ changes \in Nat

-----------------------------------------------------------------------------
(* The inductive invariant, in parts; LeaseProofs proves it *)

Serving == {"authed", "prepared", "requesting", "consuming", "claimed", "sent",
            "replying"}
Using == {"claimed", "sent", "replying"}
Reviewed(row) == row.status \notin {"free", "pending"}

\* The local variables j of a handler at step p, over the table tab, hold what
\* the steps after p rely on.
HasCall(p, j) ==
  /\ p \in Serving => /\ j.agent \in Agent /\ j.what \in Target
                      /\ j.call \in {"request", "consume"}
  /\ p \in Serving /\ j.call = "request" => j.terms \in Terms
  /\ p = "requesting" => j.call = "request"
HasRequest(p, j, tab) ==
  /\ p \in Using \cup {"recorded", "reviewing", "reviewed"} => j.req \in Request
  /\ p = "reviewing" => /\ j.call \in {"approve", "deny", "revoke"}
                        /\ tab[j.req].status # "free"
  /\ p = "reviewed" => j.call \in Call \cup {"stale"}
\* The loop over the candidates sees reviewed leases of its agent and target.
HasCandidates(p, j, tab) ==
  p = "consuming" => \A r \in j.rows : /\ Reviewed(tab[r])
                                       /\ tab[r].agent = j.agent
                                       /\ tab[r].what = j.what
\* A claim in use has what its lease was approved for.
HasLease(p, j, tab) ==
  p \in Using => LET row == tab[j.req] IN
    /\ Reviewed(row) /\ row.uses > 0
    /\ row.agent = j.agent /\ row.what = j.what /\ row.def = j.def
    /\ row.cred = j.val /\ j.val # None
JobOK(p, j, tab) ==
  HasCall(p, j) /\ HasRequest(p, j, tab) /\ HasCandidates(p, j, tab)
                /\ HasLease(p, j, tab)
JobShape == \A t \in Thread : JobOK(pc[t], job[t], table)

\* What a row holds in each status: nothing is granted or used before review.
RowOK(row) ==
  /\ row.status # "free" => row.agent \in Agent /\ row.what \in Target
                            /\ row.terms \in Terms
  /\ row.status \in {"approved", "revoked"} => row.item \in Item
  /\ ~Reviewed(row) => row.uses = 0 /\ row.max = 0
  /\ row.uses <= row.max /\ row.max <= row.terms.uses
RowShape == \A r \in Request : RowOK(table[r])

-----------------------------------------------------------------------------
\* The handlers that have claimed a use of r and have not let it out.
InFlight(r) == {t \in Thread : pc[t] \in {"claimed", "replying"}
                                 /\ job[t].req = r}

\* A lease is never used more often than it was approved for, nor approved for
\* more than was asked: uses that left the service and claims in flight add up
\* to no more than the uses counted in the row, whatever handlers run at once,
\* on however many daemons, killed wherever.
SpendsWithinApproval ==
  \A r \in Request :
    /\ out[r] + Cardinality(InFlight(r)) <= table[r].uses
    /\ table[r].uses <= table[r].max
    /\ table[r].max <= table[r].terms.uses

\* A handler that has claimed a use holds exactly what the reviewer approved:
\* the same agent and target, the definition that was requested, the value the
\* field had at approval.
UseMatchesApproval ==
  \A t \in Thread : pc[t] \in Using =>
    LET row == table[job[t].req] IN
    /\ row.uses > 0
    /\ row.agent = job[t].agent
    /\ row.what = job[t].what
    /\ row.def = job[t].def
    /\ row.cred = job[t].val
    /\ job[t].val # None

\* No revealed value leaves without an audit row, and no audit row says that a
\* secret was used that was not sent (reveal_secret records first,
\* invoke_capability and broker_http record last).
ReceiptOrder ==
  \A r \in Request : table[r].status # "free" =>
    IF table[r].what.kind = "secret.reveal" THEN out[r] <= receipts[r]
                                            ELSE receipts[r] <= out[r]

Pending(r) == table[r].status = "pending"

\* An exact retry of a pending request does not make a second card for the
\* reviewer (SELECT and INSERT of request_access and request_capability are
\* under one lock).
NoDuplicatePending ==
  \A r, q \in Request :
    /\ Pending(r) /\ Pending(q)
    /\ table[r].agent = table[q].agent
    /\ table[r].what = table[q].what
    /\ table[r].terms = table[q].terms
    /\ table[r].def = table[q].def
    => r = q

\* No agent has more than MAX_PENDING_PER_AGENT pending requests.
PendingBounded ==
  \A a \in Agent :
    Cardinality({r \in Request : Pending(r) /\ table[r].agent = a})
      <= MaxPending

AtStep(p, call, r) ==
  \E t \in Thread : pc[t] = p /\ job[t].call = call /\ job[t].req = r
Audited(op, r) == [op |-> op, on |-> r] \in trail

\* One daemon serves all connections.
OneHome == \A t, u \in Thread : Home[t] = Home[u]

\* As long as nothing was killed, every request and every decision of the
\* reviewer has an audit row, or the handler that owes it is at that step.  With a
\* second daemon the INSERT of audit() can find the database locked.
ReviewAudited ==
  OneHome /\ crashes = 0 =>
    \A r \in Request :
      /\ table[r].status # "free" =>
           Audited("request", r) \/ AtStep("recorded", "request", r)
      /\ table[r].status \in {"approved", "revoked"} =>
           Audited("approve", r) \/ AtStep("reviewed", "approve", r)
      /\ table[r].status = "denied" =>
           Audited("deny", r) \/ AtStep("reviewed", "deny", r)
      /\ table[r].status = "revoked" =>
           Audited("revoke", r) \/ AtStep("reviewed", "revoke", r)

\* Uses that left and claims in flight are all counted in the row.
Counted == \A r \in Request :
             out[r] + Cardinality(InFlight(r)) <= table[r].uses

IInv == TypeOK /\ JobShape /\ RowShape /\ Counted

-----------------------------------------------------------------------------
Edges ==
  {<<"free", "pending">>, <<"pending", "approved">>, <<"pending", "denied">>,
   <<"pending", "stale">>, <<"approved", "revoked">>, <<"approved", "stale">>}

RowStep(old, new) ==
  /\ old.status = new.status \/ <<old.status, new.status>> \in Edges
  /\ old.status # "free" =>
       /\ new.agent = old.agent /\ new.what = old.what
       /\ new.terms = old.terms /\ new.def = old.def
  /\ old.status \notin {"free", "pending"} =>
       /\ new.item = old.item /\ new.cred = old.cred
       /\ new.expires = old.expires /\ new.max = old.max
  /\ \/ new.uses = old.uses
     \/ /\ new.uses = old.uses + 1
        /\ old.status = "approved" /\ new.status = "approved"

\* A request is reviewed once and a closed one stays closed; what was asked is
\* frozen when it is recorded and what was granted when it is approved; the use
\* count only grows, by one, and only while the lease stands.
LifecycleStep == [][\A r \in Request : RowStep(table[r], table'[r])]_vars

\* The capability still has the definition that the lease is for.
SameDefinition(row) ==
  row.what.kind = "capability.invoke" => capdef[row.what.on] = row.def
\* What the lease was approved for is still there: the definition and the
\* value of the field.
Standing(row) == SameDefinition(row) /\ items[row.item].val = row.cred
Approved(r) == table[r].status = "approved"

\* A lease becomes stale only when the capability or the credential differs
\* from what was approved.
StaleOnlyWhenChanged ==
  [][\A r \in Request :
       Approved(r) /\ table'[r].status = "stale" => ~Standing(table[r])]_vars

-----------------------------------------------------------------------------
\* A thread that holds the lock of its daemon gives it up: the loop over the
\* candidates ends and no handler waits under the lock.
LockReleased == \A t \in Thread : Holds(t) ~> ~Holds(t)

-----------------------------------------------------------------------------
Contract == INSTANCE LeaseContract WITH
  phase <- [r \in Request |-> table[r].status],
  asked <- [r \in Request |-> table[r].terms.uses],
  granted <- [r \in Request |-> table[r].max],
  spent <- [r \in Request |-> table[r].uses],
  done <- out

\* The handlers, however interleaved, do to a request what the contract allows.
ImplementsContract == Contract!Spec
=============================================================================
